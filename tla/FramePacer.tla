----------------------------- MODULE FramePacer -----------------------------
(***************************************************************************)
(* What the flag hasFrameToRun and the Updater promise together, without   *)
(* the threads: requests for a frame come at least an interval apart, a    *)
(* frame answers a request, and requests are never counted.  One that is   *)
(* made while another waits, or while a frame runs, is lost.  Once the     *)
(* loop is over no frame begins and at most one request is still made.     *)
(*                                                                         *)
(* FrameLoop implements it: see Pacer there.                               *)
(***************************************************************************)
EXTENDS Integers

CONSTANT Interval  \* the least time between two requests

VARIABLES
  rest,       \* the time before the next request may be made
  asked,      \* a request waits, or is being answered
  answering,  \* a frame is running
  life        \* "before", "open", "closing" (a last request may come), "closed"

vars == <<rest, asked, answering, life>>

Init ==
  /\ rest = 0
  /\ asked = FALSE
  /\ answering = FALSE
  /\ life = "before"

Open ==
  /\ life = "before"
  /\ life' \in {"open", "closed"}
  /\ UNCHANGED <<rest, asked, answering>>

Request ==
  /\ life \in {"open", "closing"}
  /\ rest = 0
  /\ rest' = Interval
  /\ asked' = TRUE
  /\ life' = IF life = "closing" THEN "closed" ELSE life
  /\ UNCHANGED answering

Begin ==
  /\ life = "open"
  /\ asked
  /\ ~answering
  /\ answering' = TRUE
  /\ UNCHANGED <<rest, asked, life>>

Finish ==
  /\ answering
  /\ answering' = FALSE
  /\ asked' = FALSE
  /\ UNCHANGED <<rest, life>>

Close ==
  /\ life = "open"
  /\ ~answering
  /\ life' \in {"closing", "closed"}
  /\ UNCHANGED <<rest, asked, answering>>

Pass ==
  /\ rest > 0
  /\ rest' = rest - 1
  /\ UNCHANGED <<asked, answering, life>>

Next == Open \/ Request \/ Begin \/ Finish \/ Close \/ Pass

Spec == Init /\ [][Next]_vars
=============================================================================
