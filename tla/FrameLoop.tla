----------------------------- MODULE FrameLoop -----------------------------
(***************************************************************************)
(* The two threads of the program: the main thread, which creates the main *)
(* window, dispatches messages, runs frames and shuts down (MiniViews::Run *)
(* and RunFrame), and the thread of the Updater, which asks for a frame at *)
(* an interval (PushUpdates).  They share two atomic flags.                *)
(*                                                                         *)
(* Time is counted in a unit that divides the interval.  It passes between *)
(* any two steps, so a handler, a frame or a wake-up may be late by any    *)
(* amount; sleep_for never returns early.  What a message does is left to  *)
(* the module MiniViews: here a handler only takes time.                   *)
(*                                                                         *)
(* A definition whose name ends in an underscore and a word is the one     *)
(* below it with a fault put in; see the module MiniViews.                 *)
(***************************************************************************)
EXTENDS Integers

CONSTANTS
  Interval,       \* msPerFrame, which is intervalBetweenUpdates
  FramesPerCycle  \* framesPerCycle

ASSUME LoopAssumption ==
  /\ Interval \in Nat \ {0}
  /\ FramesPerCycle \in Nat \ {0}

VARIABLES
  main,              \* where the main thread is
  keepRunning,       \* WM_QUIT has not been met
  hasFrameToRun,
  frameNumber,
  updater,           \* where the thread of the Updater is
  continueUpdating,
  asleep,            \* the time it still has to sleep
  sinceFrame,        \* the time since the last frame began, Interval or less
  sincePrevious      \* the same of the frame before

mainVars    == <<main, keepRunning, frameNumber>>
updaterVars == <<updater, asleep>>
clock       == <<sinceFrame, sincePrevious>>
vars == <<main, keepRunning, hasFrameToRun, frameNumber, updater,
          continueUpdating, asleep, sinceFrame, sincePrevious>>

Init ==
  /\ main = "create"
  /\ keepRunning = TRUE
  /\ hasFrameToRun = FALSE
  /\ frameNumber = 0
  /\ updater = "off"
  /\ continueUpdating = TRUE
  /\ asleep = 0
  /\ sinceFrame = Interval
  /\ sincePrevious = Interval

-----------------------------------------------------------------------------
(* The main thread *)

\* StartTimedUpdates, once the window exists
Start ==
  /\ main = "create"
  /\ main' = "dispatch"
  /\ continueUpdating' = TRUE
  /\ updater' = "test"
  /\ UNCHANGED <<keepRunning, hasFrameToRun, frameNumber, asleep, clock>>

\* "Window creation failed."
CreateFails ==
  /\ main = "create"
  /\ main' = "exited"
  /\ UNCHANGED <<keepRunning, hasFrameToRun, frameNumber, updaterVars,
                 continueUpdating, clock>>

\* PeekMessage returns WM_QUIT; messages posted later are still dispatched.
MeetQuit ==
  /\ main = "dispatch"
  /\ keepRunning
  /\ keepRunning' = FALSE
  /\ UNCHANGED <<main, hasFrameToRun, frameNumber, updaterVars,
                 continueUpdating, clock>>

QueueEmpty_Unasked ==
  /\ main = "dispatch"
  /\ main' = "due"
  /\ UNCHANGED <<keepRunning, hasFrameToRun, frameNumber, updaterVars,
                 continueUpdating, clock>>
QueueEmpty ==
  /\ main = "dispatch"
  /\ main' = IF hasFrameToRun THEN "due" ELSE "nap"
  /\ UNCHANGED <<keepRunning, hasFrameToRun, frameNumber, updaterVars,
                 continueUpdating, clock>>

\* RunFrame up to its last statement
BeginFrame_FromOne ==
  /\ main = "due"
  /\ main' = "frame"
  /\ frameNumber' = IF frameNumber + 1 < FramesPerCycle THEN frameNumber + 1 ELSE 1
  /\ sinceFrame' = 0
  /\ sincePrevious' = sinceFrame
  /\ UNCHANGED <<keepRunning, hasFrameToRun, updaterVars, continueUpdating>>
BeginFrame ==
  /\ main = "due"
  /\ main' = "frame"
  /\ frameNumber' = (frameNumber + 1) % FramesPerCycle
  /\ sinceFrame' = 0
  /\ sincePrevious' = sinceFrame
  /\ UNCHANGED <<keepRunning, hasFrameToRun, updaterVars, continueUpdating>>

\* "Allow the Updater thread to resume": a request that was made during the
\* frame goes with the one the frame has answered.
EndFrame_Keeps ==
  /\ main = "frame"
  /\ main' = "nap"
  /\ UNCHANGED <<keepRunning, hasFrameToRun, frameNumber, updaterVars,
                 continueUpdating, clock>>
EndFrame ==
  /\ main = "frame"
  /\ main' = "nap"
  /\ hasFrameToRun' = FALSE
  /\ UNCHANGED <<keepRunning, frameNumber, updaterVars, continueUpdating, clock>>

\* The sleep of a millisecond, then the end of the loop
Nap ==
  /\ main = "nap"
  /\ main' = IF keepRunning THEN "dispatch" ELSE "clear"
  /\ UNCHANGED <<keepRunning, hasFrameToRun, frameNumber, updaterVars,
                 continueUpdating, clock>>

\* ClearMiniViews, then StopTimedUpdates up to the join
Stop_Silent ==
  /\ main = "clear"
  /\ main' = "join"
  /\ UNCHANGED <<keepRunning, hasFrameToRun, frameNumber, updaterVars,
                 continueUpdating, clock>>
Stop ==
  /\ main = "clear"
  /\ main' = "join"
  /\ continueUpdating' = FALSE
  /\ UNCHANGED <<keepRunning, hasFrameToRun, frameNumber, updaterVars, clock>>

Join_Detached ==
  /\ main = "join"
  /\ main' = "exited"
  /\ UNCHANGED <<keepRunning, hasFrameToRun, frameNumber, updaterVars,
                 continueUpdating, clock>>
Join ==
  /\ main = "join"
  /\ updater = "done"
  /\ main' = "exited"
  /\ UNCHANGED <<keepRunning, hasFrameToRun, frameNumber, updaterVars,
                 continueUpdating, clock>>

-----------------------------------------------------------------------------
(* The thread of the Updater *)

TestContinue ==
  /\ updater = "test"
  /\ updater' = IF continueUpdating THEN "push" ELSE "done"
  /\ UNCHANGED <<mainVars, hasFrameToRun, continueUpdating, asleep, clock>>

\* TimedUpdate, then sleep_for
TimedUpdate ==
  /\ updater = "push"
  /\ hasFrameToRun' = TRUE
  /\ updater' = "sleep"
  /\ asleep' = Interval
  /\ UNCHANGED <<mainVars, continueUpdating, clock>>

WakeUp ==
  /\ updater = "sleep"
  /\ asleep = 0
  /\ updater' = "test"
  /\ UNCHANGED <<mainVars, hasFrameToRun, continueUpdating, asleep, clock>>

-----------------------------------------------------------------------------
(* Time *)

Older(age) == IF age < Interval THEN age + 1 ELSE age

Elapse ==
  /\ asleep' = IF asleep > 0 THEN asleep - 1 ELSE 0
  /\ sinceFrame' = Older(sinceFrame)
  /\ sincePrevious' = Older(sincePrevious)
  /\ UNCHANGED <<mainVars, hasFrameToRun, updater, continueUpdating>>

MainThread ==
  \/ Start \/ CreateFails
  \/ MeetQuit \/ QueueEmpty \/ BeginFrame \/ EndFrame \/ Nap
  \/ Stop \/ Join

UpdaterThread == TestContinue \/ TimedUpdate \/ WakeUp

Next == MainThread \/ UpdaterThread \/ Elapse

Spec == Init /\ [][Next]_vars

\* Both threads are scheduled, the handlers and frames end, the queue runs
\* empty and time passes.  Nobody has to quit.
Fairness ==
  /\ WF_vars(Start \/ CreateFails)
  /\ WF_vars(QueueEmpty)
  /\ WF_vars(BeginFrame \/ EndFrame \/ Nap \/ Stop \/ Join)
  /\ WF_vars(UpdaterThread)
  /\ WF_vars(Elapse)

FairSpec == Spec /\ Fairness

-----------------------------------------------------------------------------
(* Properties *)

\* Every variable has its type; the ages stop at Interval.
TypeOK ==
  /\ main \in {"create", "dispatch", "due", "frame", "nap", "clear", "join",
               "exited"}
  /\ keepRunning \in BOOLEAN
  /\ hasFrameToRun \in BOOLEAN
  /\ frameNumber \in 0 .. FramesPerCycle - 1
  /\ updater \in {"off", "test", "push", "sleep", "done"}
  /\ continueUpdating \in BOOLEAN
  /\ asleep \in 0 .. Interval
  /\ sinceFrame \in 0 .. Interval
  /\ sincePrevious \in 0 .. Interval

FrameBegins == main = "due" /\ main' = "frame"

\* However late frames are and however they interleave with the requests, late
\* frames do not pile up: any three frames in a row take an Interval or more
\* from the first beginning to the last (hasFrameToRun in RunFrame and
\* TimedUpdate).  Two in a row may take less, though msPerFrame is called "the
\* minimum amount of time between two frames" (MiniViews.h:91).
FrameRateBounded == [][FrameBegins => sincePrevious = Interval]_vars

\* The updater thread never touches hasFrameToRun after Run has returned and
\* the object it lives in may be gone (StopTimedUpdates).
NoUpdateAfterExit == main = "exited" => updater \in {"off", "done"}

\* How far the pacer is: it opens with StartTimedUpdates and closes when
\* StopTimedUpdates has cleared continueUpdating, but for the request of a
\* thread that had tested the flag before.
Life ==
  IF main = "create" THEN "before"
  ELSE IF main \notin {"join", "exited"} THEN "open"
  ELSE IF updater = "push" THEN "closing"
  ELSE "closed"

Pacer == INSTANCE FramePacer
  WITH rest <- asleep, asked <- hasFrameToRun, answering <- main = "frame",
       life <- Life

\* The two threads are a pacer: however they interleave, a frame runs only for
\* a request that nobody has answered, a request made while a frame runs or
\* waits leaves nothing behind, requests are an Interval apart, and after the
\* stop the thread asks at most once more and no frame begins (Run, RunFrame,
\* TimedUpdate, PushUpdates).
PacerSpec == Pacer!Spec

\* Until the user quits the half-second work comes again and again: the
\* requests that RunFrame loses never starve it (RunFrame, frameNumber).
HalfSecondsKeepComing ==
  []<>(\/ main = "frame" /\ frameNumber = 0
       \/ main = "exited"
       \/ ~keepRunning)

\* After WM_QUIT both threads end (Run, StopTimedUpdates).
QuitStopsBoth == ~keepRunning ~> main = "exited" /\ updater = "done"
=============================================================================
