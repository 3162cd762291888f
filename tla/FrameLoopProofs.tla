-------------------------- MODULE FrameLoopProofs --------------------------
(***************************************************************************)
(* What holds of FrameLoop for every interval and every length of a cycle. *)
(***************************************************************************)
EXTENDS FrameLoop, TLAPS

\* The thread of the Updater sleeps only in sleep_for, and is there only
\* between StartTimedUpdates and the join, told to stop before it is joined.
UpdaterInv ==
  /\ updater # "sleep" => asleep = 0
  /\ main = "join" => ~continueUpdating
  /\ main = "create" => updater = "off"
  /\ NoUpdateAfterExit

\* Interval - asleep is the age of the last request.  The frame before the
\* last one is older than it; so is the last frame, and the one before it has
\* its Interval, once a request waits that no running frame will take away.
RequestInv ==
  /\ main = "due" => hasFrameToRun
  /\ sincePrevious + asleep >= Interval
  /\ hasFrameToRun /\ main # "frame" =>
       /\ sinceFrame + asleep >= Interval
       /\ sincePrevious = Interval

Inv == TypeOK /\ UpdaterInv /\ RequestInv

LEMMA InitInv == Init => Inv
<1> SUFFICES ASSUME Init PROVE Inv
  OBVIOUS
<1>1. 0 \in 0 .. FramesPerCycle - 1 /\ 0 \in 0 .. Interval /\ Interval \in 0 .. Interval
  BY LoopAssumption
<1>2. TypeOK
  BY <1>1 DEF Init, TypeOK
<1>3. UpdaterInv
  BY DEF Init, UpdaterInv, NoUpdateAfterExit
<1>4. RequestInv
  BY LoopAssumption DEF Init, RequestInv
<1> QED
  BY <1>2, <1>3, <1>4 DEF Inv

LEMMA StepInv == Inv /\ [Next]_vars => Inv'
<1> SUFFICES ASSUME Inv, [Next]_vars PROVE Inv'
  OBVIOUS
<1> USE LoopAssumption DEF Inv, TypeOK, UpdaterInv, RequestInv,
    NoUpdateAfterExit, mainVars, updaterVars, clock
<1>1. CASE Start
  BY <1>1 DEF Start
<1>2. CASE CreateFails
  BY <1>2 DEF CreateFails
<1>3. CASE MeetQuit
  BY <1>3 DEF MeetQuit
<1>4. CASE QueueEmpty
  BY <1>4 DEF QueueEmpty
<1>5. CASE BeginFrame
  <2>1. frameNumber' \in 0 .. FramesPerCycle - 1
    BY <1>5 DEF BeginFrame
  <2> QED
    BY <1>5, <2>1 DEF BeginFrame
<1>6. CASE EndFrame
  BY <1>6 DEF EndFrame
<1>7. CASE Nap
  BY <1>7 DEF Nap
<1>8. CASE Stop
  BY <1>8 DEF Stop
<1>9. CASE Join
  BY <1>9 DEF Join
<1>10. CASE TestContinue
  BY <1>10 DEF TestContinue
<1>11. CASE TimedUpdate
  BY <1>11 DEF TimedUpdate
<1>12. CASE WakeUp
  BY <1>12 DEF WakeUp
<1>13. CASE Elapse
  BY <1>13 DEF Elapse, Older
<1>14. CASE UNCHANGED vars
  BY <1>14 DEF vars
<1> HIDE DEF Inv
<1> QED
  BY <1>1, <1>2, <1>3, <1>4, <1>5, <1>6, <1>7, <1>8, <1>9, <1>10, <1>11,
     <1>12, <1>13, <1>14 DEF Next, MainThread, UpdaterThread

LEMMA SpecInv == Spec => []Inv
<1>1. Init => Inv
  BY InitInv
<1>2. Inv /\ [Next]_vars => Inv'
  BY StepInv
<1> QED
  BY <1>1, <1>2, PTL DEF Spec

-----------------------------------------------------------------------------
(* The properties of the runs *)

\* The frame counter of RunFrame stays below framesPerCycle, the sleep below
\* the interval, and each thread is where its code can be.
THEOREM TypeCorrect == Spec => []TypeOK
<1>1. Inv => TypeOK
  BY DEF Inv
<1> QED
  BY SpecInv, <1>1, PTL

\* Run returns only after StopTimedUpdates has joined the thread.
THEOREM NeverUpdatedAfterExit == Spec => []NoUpdateAfterExit
<1>1. Inv => NoUpdateAfterExit
  BY DEF Inv, UpdaterInv
<1> QED
  BY SpecInv, <1>1, PTL

\* Whatever the interval, the cycle and the delays of both threads, three
\* frames in a row never begin within less than an interval.
THEOREM FrameRateAlwaysBounded == Spec => FrameRateBounded
<1>1. Inv /\ [Next]_vars => [FrameBegins => sincePrevious = Interval]_vars
  BY DEF Inv, RequestInv, FrameBegins
<1> QED
  BY SpecInv, <1>1, PTL DEF Spec, FrameRateBounded

-----------------------------------------------------------------------------
(* The refinement *)

LEMMA InitPacer == Init => Pacer!Init
  BY DEF Init, Pacer!Init, Life

\* Every step of the two threads is a step of the pacer or changes nothing there:
\* the handlers, the nap, the test of the flag and waking up are the stutters.
LEMMA StepPacer == Inv /\ [Next]_vars => [Pacer!Next]_(Pacer!vars)
<1> SUFFICES ASSUME Inv, [Next]_vars PROVE Pacer!Next \/ UNCHANGED Pacer!vars
  BY DEF Pacer!vars
<1> USE LoopAssumption DEF Inv, TypeOK, UpdaterInv, NoUpdateAfterExit,
    Pacer!vars, Life, mainVars, updaterVars, clock
<1>1. ASSUME Start \/ CreateFails PROVE Pacer!Open
  BY <1>1 DEF Start, CreateFails, Pacer!Open
<1>2. ASSUME MeetQuit \/ QueueEmpty \/ Nap PROVE UNCHANGED Pacer!vars
  BY <1>2 DEF MeetQuit, QueueEmpty, Nap
<1>3. ASSUME BeginFrame PROVE Pacer!Begin
  BY <1>3 DEF BeginFrame, RequestInv, Pacer!Begin
<1>4. ASSUME EndFrame PROVE Pacer!Finish
  BY <1>4 DEF EndFrame, Pacer!Finish
<1>5. ASSUME Stop PROVE Pacer!Close
  BY <1>5 DEF Stop, Pacer!Close
<1>6. ASSUME Join PROVE UNCHANGED Pacer!vars
  BY <1>6 DEF Join
<1>7. ASSUME TestContinue PROVE UNCHANGED Pacer!vars
  BY <1>7 DEF TestContinue
<1>8. ASSUME TimedUpdate PROVE Pacer!Request
  BY <1>8 DEF TimedUpdate, Pacer!Request
<1>9. ASSUME WakeUp PROVE UNCHANGED Pacer!vars
  BY <1>9 DEF WakeUp
<1>10. ASSUME Elapse PROVE Pacer!Pass \/ UNCHANGED Pacer!vars
  BY <1>10 DEF Elapse, Pacer!Pass
<1>11. ASSUME UNCHANGED vars PROVE UNCHANGED Pacer!vars
  BY <1>11 DEF vars
<1> HIDE DEF Inv, Pacer!vars
<1> QED
  BY <1>1, <1>2, <1>3, <1>4, <1>5, <1>6, <1>7, <1>8, <1>9, <1>10, <1>11
  DEF Next, MainThread, UpdaterThread, Pacer!Next

\* For every interval the loop and the thread of the Updater together are a pacer:
\* one flag is enough, although neither thread waits for the other.
THEOREM LoopPacesFrames == Spec => PacerSpec
<1>1. Init => Pacer!Init
  BY InitPacer
<1>2. Inv /\ [Next]_vars => [Pacer!Next]_(Pacer!vars)
  BY StepPacer
<1> QED
  BY SpecInv, <1>1, <1>2, PTL DEF Spec, PacerSpec, Pacer!Spec

-----------------------------------------------------------------------------
(* The join *)

\* How far the thread of the Updater is from its end once it is told to stop; what it
\* still sleeps counts with one for each unit of time.
Left ==
  CASE updater = "push"  -> Interval + 3
    [] updater = "sleep" -> asleep + 2
    [] updater = "test"  -> 1
    [] OTHER             -> 0

\* A thread that joins waits for one that runs or has ended, and every step that one
\* takes and every unit of its sleep brings it nearer to its end: it is never sent round
\* its loop again, and the join lasts no longer than one request and one sleep
\* (StopTimedUpdates, PushUpdates).
JoinDrawsNear ==
  [][main = "join" =>
       /\ updater \in {"test", "push", "sleep", "done"}
       /\ Left' <= Left
       /\ (UpdaterThread \/ asleep' # asleep) => Left' < Left]_vars

\* StartTimedUpdates made the thread before the loop began.
Started == main \notin {"create", "exited"} => updater # "off"

LEMMA StartedStep == Started /\ [Next]_vars => Started'
BY DEF Started, Next, MainThread, UpdaterThread, Start, CreateFails, MeetQuit,
   QueueEmpty, BeginFrame, EndFrame, Nap, Stop, Join, TestContinue, TimedUpdate,
   WakeUp, Elapse, mainVars, updaterVars, vars

\* The join in StopTimedUpdates ends after a bounded time, however the threads are
\* scheduled; that they are scheduled at all is the fairness of QuitStopsBoth.
THEOREM JoinAlwaysDrawsNear == Spec => JoinDrawsNear
<1> DEFINE Near == main = "join" =>
                     /\ updater \in {"test", "push", "sleep", "done"}
                     /\ Left' <= Left
                     /\ (UpdaterThread \/ asleep' # asleep) => Left' < Left
<1>1. Init => Started
  BY DEF Init, Started
<1>2. ASSUME Inv, Started, [Next]_vars PROVE [Near]_vars
  <2> SUFFICES ASSUME main = "join" PROVE Near
    OBVIOUS
  <2>1. /\ updater \in {"test", "push", "sleep", "done"} /\ ~continueUpdating
        /\ asleep \in Nat /\ Interval \in Nat \ {0}
    BY <1>2, LoopAssumption DEF Inv, TypeOK, UpdaterInv, Started
  <2>2. CASE UpdaterThread
    BY <2>1, <2>2 DEF UpdaterThread, TestContinue, TimedUpdate, WakeUp, Left
  <2>3. CASE Elapse
    <3>1. updater' = updater /\ asleep' = IF asleep > 0 THEN asleep - 1 ELSE 0
      BY <2>3 DEF Elapse
    <3>2. updater # "sleep" => asleep = 0
      BY <1>2 DEF Inv, UpdaterInv
    <3>3. ~UpdaterThread
      BY <3>1 DEF UpdaterThread, TestContinue, TimedUpdate, WakeUp
    <3> QED
      BY <2>1, <3>1, <3>2, <3>3 DEF Left
  <2>4. CASE MainThread \/ UNCHANGED vars
    <3>1. UNCHANGED <<updater, asleep>>
      BY <2>4 DEF MainThread, Start, CreateFails, MeetQuit, QueueEmpty, BeginFrame,
         EndFrame, Nap, Stop, Join, updaterVars, vars
    <3>2. ~UpdaterThread
      BY <3>1 DEF UpdaterThread, TestContinue, TimedUpdate, WakeUp
    <3> QED
      BY <2>1, <3>1, <3>2 DEF Left
  <2> QED
    BY <1>2, <2>2, <2>3, <2>4 DEF Next
<1> QED
  BY SpecInv, StartedStep, <1>1, <1>2, PTL DEF Spec, JoinDrawsNear
=============================================================================
