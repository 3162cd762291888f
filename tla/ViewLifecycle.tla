--------------------------- MODULE ViewLifecycle ---------------------------
(***************************************************************************)
(* What the program promises of a mini view, whatever windows, messages    *)
(* and frames make it happen: a view is opened, placed once on the window  *)
(* it is to watch, watches that window and no other, and is closed, alone  *)
(* or with all the others; once the program has ended nothing happens.     *)
(***************************************************************************)
CONSTANTS
  Views,    \* the mini views
  Targets,  \* what a view may watch
  Nothing   \* what a view watches before it is placed and after it is closed

VARIABLES
  phase,    \* where each view is in its life
  watches,  \* what each view watches
  ended     \* the program has stopped

vars == <<phase, watches, ended>>

Init ==
  /\ phase = [v \in Views |-> "closed"]
  /\ watches = [v \in Views |-> Nothing]
  /\ ended = FALSE

Open(v) ==
  /\ ~ended
  /\ phase[v] = "closed"
  /\ phase' = [phase EXCEPT ![v] = "placing"]
  /\ UNCHANGED <<watches, ended>>

Place(v, w) ==
  /\ ~ended
  /\ phase[v] = "placing"
  /\ phase' = [phase EXCEPT ![v] = "viewing"]
  /\ watches' = [watches EXCEPT ![v] = w]
  /\ UNCHANGED ended

Close(v) ==
  /\ ~ended
  /\ phase[v] # "closed"
  /\ phase' = [phase EXCEPT ![v] = "closed"]
  /\ watches' = [watches EXCEPT ![v] = Nothing]
  /\ UNCHANGED ended

CloseAll ==
  /\ ~ended
  /\ phase' = [v \in Views |-> "closed"]
  /\ watches' = [v \in Views |-> Nothing]
  /\ UNCHANGED ended

\* The program stops in good order, every view closed, or in the middle of
\* whatever it was doing.
End ==
  /\ ~ended
  /\ ended' = TRUE
  /\ \/ /\ phase' = [v \in Views |-> "closed"]
        /\ watches' = [v \in Views |-> Nothing]
     \/ UNCHANGED <<phase, watches>>

Next ==
  \/ \E v \in Views : Open(v) \/ Close(v) \/ \E w \in Targets : Place(v, w)
  \/ CloseAll
  \/ End

Spec == Init /\ [][Next]_vars
=============================================================================
