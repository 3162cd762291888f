----------------------------- MODULE Execution -----------------------------
(***************************************************************************)
(* How the command thread executes one command: the functions of the       *)
(* Commander that walk through its tree of sub-commands, for any tree.     *)
(* The module Commander has each walk as one step; this one takes it       *)
(* apart, leaf by leaf.                                                    *)
(*                                                                         *)
(* A node of the tree is the sequence of indexes that leads to it from the *)
(* command, which is <<>>.  The calls of DoCommand or UndoCommand that are *)
(* under way are the prefixes of one node, at: hasAcidParent of a call is  *)
(* whether subCommandsAreAcid of a node above it, and the iterator of      *)
(* every loop is the next index of at.                                     *)
(*                                                                         *)
(* Do and Undo of a leaf and the error handlers belong to whoever uses the *)
(* Commander; the steps below choose what they do.  A leaf that throws a   *)
(* KnownError did nothing.                                                 *)
(*                                                                         *)
(* A definition whose name ends in an underscore and a word is the one     *)
(* below it with a fault put in; see the module MiniViews.                 *)
(***************************************************************************)
EXTENDS Integers, Sequences, SequencesExt

CONSTANTS
  Nodes,      \* the command and its sub-commands, at every depth
  Subs,       \* subCommands.size() of each
  AcidNodes,  \* those with subCommandsAreAcid
  MaxDos      \* the bound on how often the command is done and redone

Root == <<>>

Positive == Nat \ {0}

ASSUME TreeAssumption ==
  /\ Nodes \subseteq Seq(Positive)
  /\ Root \in Nodes
  /\ Subs \in [Nodes -> Nat]
  /\ \A n \in Nodes : \A k \in 1 .. Subs[n] : Append(n, k) \in Nodes
  /\ \A n \in Nodes : \A i \in DOMAIN n :
       LET above == SubSeq(n, 1, i - 1)
       IN  above \in Nodes /\ n[i] \in 1 .. Subs[above]
  /\ AcidNodes \subseteq Nodes
  /\ MaxDos \in Nat

VARIABLES
  stage,     \* where the command is: in which walk, or with whom
  at,        \* the node whose call is the innermost
  returned,  \* what that call returned, or "nothing" while it runs
  retrying,  \* the parameter of DoDo
  effect,    \* how often each leaf is in effect
  before,    \* the same when the walk began
  failed,    \* the leaves whose KnownError was final, in the last Do
  odd,       \* the leaves that threw another exception, in the last Do
  dos        \* how often the command was done or redone

walk   == <<at, returned, retrying>>
errors == <<failed, odd>>
vars   == <<stage, walk, effect, before, errors, dos>>

Leaves == {n \in Nodes : Subs[n] = 0}

\* the node n is m or below m
Within(n, m) == Len(m) <= Len(n) /\ \A i \in 1 .. Len(m) : n[i] = m[i]

\* hasAcidParent || subCommandsAreAcid
IsAcid(n) == \E a \in AcidNodes : Within(n, a)

Init ==
  /\ stage = "new"
  /\ at = Root
  /\ returned = "nothing"
  /\ retrying = FALSE
  /\ effect = [l \in Leaves |-> 0]
  /\ before = effect
  /\ failed = {}
  /\ odd = {}
  /\ dos = 0

-----------------------------------------------------------------------------
(* To do *)

\* DoCommand, of a command from the queue or from the redo stack
DoStarts ==
  /\ stage \in {"new", "redoable"}
  /\ dos < MaxDos
  /\ dos' = dos + 1
  /\ stage' = "doing"
  /\ before' = effect
  /\ failed' = {}
  /\ odd' = {}
  /\ UNCHANGED <<walk, effect>>

Calls(sub) ==
  /\ at' = sub
  /\ returned' = "nothing"
  /\ UNCHANGED <<stage, retrying, effect, before, errors, dos>>

Returns(what) ==
  /\ returned' = what
  /\ UNCHANGED <<stage, at, before, dos>>

\* The first round of the loop of DoSubItems or DoAcidSubItems
DoFirst ==
  /\ stage = "doing"
  /\ returned = "nothing"
  /\ at \notin Leaves
  /\ Calls(Append(at, 1))

AtLeaf(walking) ==
  /\ stage = walking
  /\ returned = "nothing"
  /\ at \in Leaves

\* DoDo
LeafDone ==
  /\ AtLeaf("doing")
  /\ effect' = [effect EXCEPT ![at] = @ + 1]
  /\ retrying' = FALSE
  /\ Returns("true")
  /\ UNCHANGED errors

LeafRetried_EveryTime ==
  /\ AtLeaf("doing")
  /\ retrying' = ~retrying
  /\ UNCHANGED <<stage, at, returned, effect, before, errors, dos>>

\* A KnownError, which the handler wants retried
LeafRetried ==
  /\ AtLeaf("doing")
  /\ ~retrying
  /\ retrying' = TRUE
  /\ UNCHANGED <<stage, at, returned, effect, before, errors, dos>>

\* A KnownError, and no retry, because the handler wants none or it was one: DoDo
\* returns false, which a plain command drops.  Of the four members of ErrorAction
\* it knows RetryCommand only, so the three others do the same.
LeafFails ==
  /\ AtLeaf("doing")
  /\ failed' = failed \union {at}
  /\ retrying' = FALSE
  /\ Returns(IF IsAcid(at) THEN "false" ELSE "true")
  /\ UNCHANGED <<effect, odd>>

\* Any other exception is logged and counts as success; the leaf may have done
\* its work before or not
LeafThrows ==
  /\ AtLeaf("doing")
  /\ \E more \in {0, 1} : effect' = [effect EXCEPT ![at] = @ + more]
  /\ odd' = odd \union {at}
  /\ retrying' = FALSE
  /\ Returns("true")
  /\ UNCHANGED failed

-----------------------------------------------------------------------------
(* The loops, to do and to undo *)

Walking == stage \in {"doing", "undoing"}

\* The loop that called at goes on: a plain one always, an ACID one on success
GoesOn_Always ==
  /\ Walking
  /\ returned # "nothing"
  /\ at # Root

GoesOn ==
  /\ Walking
  /\ returned # "nothing"
  /\ at # Root
  /\ IsAcid(Front(at)) => returned = "true"

NextSub ==
  /\ GoesOn
  /\ Last(at) < Subs[Front(at)]
  /\ Calls(Append(Front(at), Last(at) + 1))

\* The call of the node above returns
Surfaces(what) ==
  /\ at' = Front(at)
  /\ returned' = what
  /\ UNCHANGED <<stage, retrying, effect, before, errors, dos>>

SubsDone ==
  /\ GoesOn
  /\ Last(at) = Subs[Front(at)]
  /\ Surfaces("true")

AcidSubFails ==
  /\ stage = "doing"
  /\ returned = "false"
  /\ at # Root
  /\ IsAcid(Front(at))

\* Nothing to roll back: DoAcidSubItems returns false
FirstSubFails ==
  /\ AcidSubFails
  /\ Last(at) = 1
  /\ Surfaces("false")

\* The sub-command before is to be undone.  UndoCommand with an ACID parent
\* returns false and undoes nothing (see UndoAcidLeaf), so AcidRollbackFailure
\* is thrown, which nothing catches.
LaterSubFails ==
  /\ AcidSubFails
  /\ Last(at) > 1
  /\ stage' = "ended"
  /\ UNCHANGED <<walk, effect, before, errors, dos>>

\* The walk is through: a command that is done goes to the undo stack, one that
\* is not is dropped
DoEnds ==
  /\ stage = "doing"
  /\ at = Root
  /\ returned # "nothing"
  /\ stage' = IF returned = "true" THEN "undoable" ELSE "refused"
  /\ returned' = "nothing"
  /\ UNCHANGED <<at, retrying, effect, before, errors, dos>>

-----------------------------------------------------------------------------
(* To undo *)

UndoStarts ==
  /\ stage = "undoable"
  /\ stage' = "undoing"
  /\ before' = effect
  /\ UNCHANGED <<walk, effect, errors, dos>>

UndoFirst_FromLast ==
  /\ stage = "undoing"
  /\ returned = "nothing"
  /\ at \notin Leaves
  /\ Calls(Append(at, Subs[at]))

\* UndoSubItems begins with the first sub-command, UndoAcidSubItems with the
\* last
UndoFirst ==
  /\ stage = "undoing"
  /\ returned = "nothing"
  /\ at \notin Leaves
  /\ Calls(Append(at, IF IsAcid(at) THEN Subs[at] ELSE 1))

\* Undo of a plain leaf is called whether its Do failed or not
UndoLeaf ==
  /\ AtLeaf("undoing")
  /\ ~IsAcid(at)
  /\ effect' = [effect EXCEPT ![at] = @ - 1]
  /\ Returns("true")
  /\ UNCHANGED <<retrying, errors>>

\* Whatever it throws is caught nowhere
UndoLeafThrows ==
  /\ AtLeaf("undoing")
  /\ ~IsAcid(at)
  /\ stage' = "ended"
  /\ UNCHANGED <<walk, effect, before, errors, dos>>

UndoAcidLeaf_Undone ==
  /\ AtLeaf("undoing")
  /\ IsAcid(at)
  /\ effect' = [effect EXCEPT ![at] = @ - 1]
  /\ Returns("false")
  /\ UNCHANGED <<retrying, errors>>

\* UndoCommand has no call for a leaf in an ACID command
UndoAcidLeaf ==
  /\ AtLeaf("undoing")
  /\ IsAcid(at)
  /\ Returns("false")
  /\ UNCHANGED <<retrying, effect, errors>>

\* The last sub-command of an ACID one was not undone: UndoAcidSubItems has
\* nothing to do again and returns false
UndoAcidFails ==
  /\ stage = "undoing"
  /\ returned = "false"
  /\ at # Root
  /\ IsAcid(Front(at))
  /\ Last(at) = Subs[Front(at)]
  /\ Surfaces("false")

\* What is undone goes to the redo stack, what is not is dropped
UndoEnds ==
  /\ stage = "undoing"
  /\ at = Root
  /\ returned # "nothing"
  /\ stage' = IF returned = "true" THEN "redoable" ELSE "kept"
  /\ returned' = "nothing"
  /\ UNCHANGED <<at, retrying, effect, before, errors, dos>>

-----------------------------------------------------------------------------

Walk ==
  \/ DoFirst
  \/ LeafDone
  \/ LeafRetried
  \/ LeafFails
  \/ LeafThrows
  \/ NextSub
  \/ SubsDone
  \/ FirstSubFails
  \/ LaterSubFails
  \/ DoEnds
  \/ UndoFirst
  \/ UndoLeaf
  \/ UndoLeafThrows
  \/ UndoAcidLeaf
  \/ UndoAcidFails
  \/ UndoEnds

Next ==
  \/ DoStarts
  \/ UndoStarts
  \/ Walk

Spec == Init /\ [][Next]_vars

\* The command thread is scheduled, and no Do, Undo or handler hangs
FairSpec == Spec /\ WF_vars(Walk)

-----------------------------------------------------------------------------
(* Properties *)

\* The type invariant; above all, at never leaves the tree.
TypeOK ==
  /\ stage \in {"new", "doing", "undoable", "refused", "undoing", "redoable",
                "kept", "ended"}
  /\ at \in Nodes
  /\ returned \in {"nothing", "true", "false"}
  /\ retrying \in BOOLEAN
  /\ effect \in [Leaves -> Int]
  /\ before \in [Leaves -> Int]
  /\ failed \subseteq Leaves
  /\ odd \subseteq Leaves
  /\ dos \in 0 .. MaxDos

\* the leaf l comes before m
Precedes(l, m) ==
  \E i \in 1 .. Len(l) :
    /\ i <= Len(m)
    /\ l[i] < m[i]
    /\ \A j \in 1 .. i - 1 : l[j] = m[j]

\* An ACID command under way never has a part done before the parts in front of
\* it succeeded, however deep they are.
AcidInOrder ==
  stage = "doing" =>
    \A a \in AcidNodes : Within(at, a) =>
      \A l, m \in Leaves :
        Within(l, a) /\ Within(m, a) /\ Precedes(l, m) /\ effect[m] # before[m]
          => l \notin failed /\ (l \notin odd => effect[l] # before[l])

\* An Undo that stops on an exception leaves the parts in front undone, not the
\* later ones as a stack would: UndoSubItems walks in the order of Do.
UndoneInOrder ==
  stage = "undoing" =>
    \A l, m \in Leaves :
      Precedes(l, m) /\ effect[m] # before[m] /\ ~IsAcid(l) => effect[l] # before[l]

\* To the two stacks a call is one step, which AtomicCommand describes: every
\* leaf is done at most once by a Do, an ACID part of a command completely or
\* not at all, and an Undo undoes every leaf but the ACID ones exactly once.
Place ==
  CASE stage \in {"new", "redoable"}     -> "ready"
    [] stage = "doing"                   -> "begun"
    [] stage \in {"undoable", "undoing"} -> "undoable"
    [] stage \in {"refused", "kept"}     -> "gone"
    [] stage = "ended"                   -> "ended"

Group(a) == {l \in Leaves : Within(l, a)}

SeenEffect == IF Walking THEN before ELSE effect

Seen(leaves) == IF stage = "doing" THEN {} ELSE leaves

Atomic == INSTANCE AtomicCommand WITH
  Groups <- {Group(a) : a \in AcidNodes},
  Acid   <- IsAcid(Root),
  place  <- Place,
  effect <- SeenEffect,
  failed <- Seen(failed),
  odd    <- Seen(odd)

AtomicSpec == Atomic!Spec

\* Every walk ends, whatever the error handlers answer.
WalkEnds == Walking ~> ~Walking
=============================================================================
