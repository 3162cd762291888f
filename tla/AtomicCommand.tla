--------------------------- MODULE AtomicCommand ---------------------------
(***************************************************************************)
(* What the execution of one command promises to the two stacks that call  *)
(* it: a call does or undoes the whole command in one step.                *)
(*                                                                         *)
(* The leaves of the command are what has an effect.  The leaves of each   *)
(* ACID part of it are a group, all of them done or none.  A leaf whose    *)
(* error is known did nothing (failed); of one that stopped on another     *)
(* exception nobody knows (odd), and it counts as done.                    *)
(***************************************************************************)
EXTENDS Integers

CONSTANTS
  Leaves,  \* the sub-commands without sub-commands
  Groups,  \* the sets of leaves of the ACID parts
  Acid     \* the command itself is ACID

VARIABLES
  place,   \* who holds the command and what may be asked of it
  effect,  \* how often each leaf is in effect
  failed,  \* the leaves that failed in the last call to do it
  odd      \* the leaves that stopped on an unknown exception in it

command == <<place, effect, failed, odd>>

Plain == Leaves \ UNION Groups

Init ==
  /\ place = "ready"
  /\ effect = [l \in Leaves |-> 0]
  /\ failed = {}
  /\ odd = {}

\* To do it, or to redo it
Begin ==
  /\ place = "ready"
  /\ place' = "begun"
  /\ failed' = {}
  /\ odd' = {}
  /\ UNCHANGED effect

SomeDone ==
  /\ effect' \in [Leaves -> Int]
  /\ \A l \in Leaves : effect'[l] \in {effect[l], effect[l] + 1}

GroupDone(g) == \A l \in g \ odd' : effect'[l] = effect[l] + 1

GroupLeft(g) == \A l \in g : effect'[l] = effect[l]

\* It can be undone from now on
Done ==
  /\ place = "begun"
  /\ place' = "undoable"
  /\ SomeDone
  /\ \A l \in failed' : effect'[l] = effect[l]
  /\ \A l \in Plain \ (failed' \union odd') : effect'[l] = effect[l] + 1
  /\ \A g \in Groups : GroupLeft(g) \/ (GroupDone(g) /\ g \intersect failed' = {})
  /\ Acid => failed' = {} /\ GroupDone(Leaves)

\* Nothing happened, and the command is gone
Refused ==
  /\ Acid
  /\ place = "begun"
  /\ place' = "gone"
  /\ failed' # {}
  /\ UNCHANGED effect

\* A part failed that cannot be rolled back: the program ends
RollbackFails ==
  /\ Groups # {}
  /\ place = "begun"
  /\ place' = "ended"
  /\ failed' # {}
  /\ SomeDone

\* It can be redone from now on.  Its ACID parts stay.
Undone ==
  /\ ~Acid
  /\ place = "undoable"
  /\ place' = "ready"
  /\ effect' = [l \in Leaves |-> IF l \in Plain THEN effect[l] - 1 ELSE effect[l]]
  /\ UNCHANGED <<failed, odd>>

\* An ACID command is not undone, and gone
UndoRefused ==
  /\ Acid
  /\ place = "undoable"
  /\ place' = "gone"
  /\ UNCHANGED <<effect, failed, odd>>

UndoThrows ==
  /\ ~Acid
  /\ place = "undoable"
  /\ place' = "ended"
  /\ effect' \in [Leaves -> Int]
  /\ \A l \in Leaves : effect'[l] \in {effect[l], effect[l] - 1}
  /\ UNCHANGED <<failed, odd>>

Next ==
  \/ Begin
  \/ Done
  \/ Refused
  \/ RollbackFails
  \/ Undone
  \/ UndoRefused
  \/ UndoThrows

Spec == Init /\ [][Next]_command
=============================================================================
