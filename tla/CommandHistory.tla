--------------------------- MODULE CommandHistory ---------------------------
(***************************************************************************)
(* What undo and redo promise: for every type of command one line of       *)
(* commands with a position in it.  What is before the position is done,   *)
(* what is after it was undone and can be redone.  A new command cuts off  *)
(* what was undone.  A command that can be neither undone nor redone is    *)
(* taken out of the line.                                                  *)
(***************************************************************************)
EXTENDS Integers, Sequences

CONSTANTS
  Commands,  \* the commands that can be done
  Types      \* the types that are undone and redone apart from each other

VARIABLES
  line,      \* of each type, its commands in order
  at         \* of each type, how many of them are done

history == <<line, at>>

Init ==
  /\ line = [t \in Types |-> <<>>]
  /\ at = [t \in Types |-> 0]

Done(t, c) ==
  /\ line' = [line EXCEPT ![t] = Append(SubSeq(@, 1, at[t]), c)]
  /\ at' = [at EXCEPT ![t] = @ + 1]

Undone(t) ==
  /\ at[t] > 0
  /\ at' = [at EXCEPT ![t] = @ - 1]
  /\ UNCHANGED line

Redone(t) ==
  /\ at[t] < Len(line[t])
  /\ at' = [at EXCEPT ![t] = @ + 1]
  /\ UNCHANGED line

\* the one before the position cannot be undone
Dropped(t) ==
  /\ at[t] > 0
  /\ line' = [line EXCEPT ![t] = SubSeq(@, 1, at[t] - 1) \o SubSeq(@, at[t] + 1, Len(@))]
  /\ at' = [at EXCEPT ![t] = @ - 1]

Next ==
  \E t \in Types :
    \/ \E c \in Commands : Done(t, c)
    \/ Undone(t)
    \/ Redone(t)
    \/ Dropped(t)

Spec == Init /\ [][Next]_history
=============================================================================
