----------------------------- MODULE Commander -----------------------------
(***************************************************************************)
(* The Commander: a thread that does, undoes and redoes commands which     *)
(* other threads give it through a queue.                                  *)
(*                                                                         *)
(* Two kinds of threads call it.  The caller is the one that made the      *)
(* Commander: synchronousLock is locked by it in the constructor, so it    *)
(* alone can wait for synchronous commands, undo and redo, and it ends the *)
(* Commander.  Any other thread may still Do an asynchronous command       *)
(* (Post).                                                                 *)
(*                                                                         *)
(* A stretch of code under commandLocker is one step.  What runs without   *)
(* it is cut where the other thread can come in between: the test of a     *)
(* condition and the sleep that follows it are two steps, because neither  *)
(* condition is changed under the mutex its waiter holds, and so are the   *)
(* decrement of numSynchronousCommands and the notification.               *)
(*                                                                         *)
(* Executing a command is one step: nothing it changes is seen by others.  *)
(* Here a command is a leaf or has a list of leaves, plain or ACID; what   *)
(* trees of them do, plain ones with ACID parts among them, is the module  *)
(* Execution's.                                                            *)
(*                                                                         *)
(* A definition whose name ends in an underscore and a word is the one     *)
(* below it with a fault put in; see the module MiniViews.                 *)
(***************************************************************************)
EXTENDS Integers, Sequences, FiniteSets

CONSTANTS
  Commands,     \* what Do and DoAcid may be given
  Acids,        \* those given to DoAcid
  Synchronous,  \* those with isSynchronous, but for Acids
  Types,        \* the values of undoRedoTypeId
  DefaultType,  \* UINT32_MAX
  TypeOf,       \* undoRedoTypeId of each command
  Size,         \* of each command, the number of its leaves
  Width,        \* numSynchronousCommands counts modulo this: 2^32
  MaxCalls      \* the bound on the calls but for End

ASSUME CommanderAssumption ==
  /\ Acids \subseteq Commands
  /\ Synchronous \subseteq Commands \ Acids
  /\ DefaultType \in Types
  /\ TypeOf \in [Commands -> Types]
  /\ \A c \in Acids : TypeOf[c] = DefaultType
  /\ Size \in [Commands -> Nat]
  /\ Width \in Nat \ {0}
  /\ MaxCalls \in Nat

VARIABLES
  todoBuffer,
  hasCommandsToExecute,
  numSynchronousCommands,
  undoType,      \* undoRedoTypeId of undoCommand, one object for every call
  redoType,      \* the same of redoCommand
  undoBuffers,   \* the top of a stack is its last element
  redoBuffers,   \* the top of a stack is its first element
  worker,        \* where the command thread is
  ownsLock,      \* its hasCommandsLock is locked
  entry,         \* what it took from the queue
  caller,        \* where the caller is
  ending,        \* it is in End
  alive,         \* no exception left the command thread
  applied,       \* how often a command is in effect
  spoiled,       \* commands that took effect in part, or were dropped
  acidCalls,     \* the calls of DoAcid, asynchronous and waited for
  calls

queue   == <<todoBuffer, hasCommandsToExecute>>
stacks  == <<undoBuffers, redoBuffers>>
effects == <<applied, spoiled>>
thread  == <<worker, ownsLock, entry>>
asked   == <<undoType, redoType>>
vars == <<queue, numSynchronousCommands, asked, stacks, thread, caller, ending,
          alive, effects, acidCalls, calls>>

Waiting == {"test", "drowsy", "asleep"}

\* An element of the queue; the type asked for is not part of the command that
\* is queued for an undo or a redo, it is there to compare
Entry ==
  [kind : {"do"}, command : Commands, sync : BOOLEAN]
    \union [kind : {"undo", "redo"}, asked : Types, sync : {TRUE}]
    \union [kind : {"kill"}, sync : {TRUE}]

DoEntry(c)       == [kind |-> "do", command |-> c, sync |-> c \in Synchronous]
AcidEntry(c, async) == [kind |-> "do", command |-> c, sync |-> async]
UndoEntry(t)     == [kind |-> "undo", asked |-> t, sync |-> TRUE]
RedoEntry(t)     == [kind |-> "redo", asked |-> t, sync |-> TRUE]
KillEntry        == [kind |-> "kill", sync |-> TRUE]

Init ==
  /\ todoBuffer = <<>>
  /\ hasCommandsToExecute = FALSE
  /\ numSynchronousCommands = 0
  /\ undoType = DefaultType
  /\ redoType = DefaultType
  /\ undoBuffers = [t \in Types |-> <<>>]
  /\ redoBuffers = [t \in Types |-> <<>>]
  /\ worker = "top"
  /\ ownsLock = TRUE
  /\ entry = KillEntry
  /\ caller = "free"
  /\ ending = FALSE
  /\ alive = TRUE
  /\ applied = [c \in Commands |-> 0]
  /\ spoiled = {}
  /\ acidCalls = [async |-> 0, waited |-> 0]
  /\ calls = 0

-----------------------------------------------------------------------------
(* The threads that call *)

\* What every call does under commandLocker; a notification that finds nobody
\* asleep is lost
Push(entries, waits) ==
  /\ todoBuffer' = todoBuffer \o entries
  /\ hasCommandsToExecute' = TRUE
  /\ worker' = IF worker = "asleep" THEN "test" ELSE worker
  /\ numSynchronousCommands' = (numSynchronousCommands + waits) % Width
  /\ UNCHANGED <<stacks, ownsLock, entry, alive, effects>>

Called ==
  /\ alive
  /\ calls < MaxCalls
  /\ calls' = calls + 1

CallerFree == caller = "free" /\ ~ending

Waits(c) == IF c \in Synchronous THEN 1 ELSE 0

DoOne(c) ==
  /\ Called
  /\ CallerFree
  /\ Push(<<DoEntry(c)>>, Waits(c))
  /\ caller' = IF c \in Synchronous THEN "test" ELSE "free"
  /\ UNCHANGED <<asked, ending, acidCalls>>

DoSeveral_CountedOnce(cs) ==
  /\ Called
  /\ CallerFree
  /\ Push([i \in DOMAIN cs |-> DoEntry(cs[i])],
          IF \E i \in DOMAIN cs : cs[i] \in Synchronous THEN 1 ELSE 0)
  /\ caller' = "test"
  /\ UNCHANGED <<asked, ending, acidCalls>>

\* Do of a vector, which may be empty
DoSeveral(cs) ==
  /\ Called
  /\ CallerFree
  /\ Push([i \in DOMAIN cs |-> DoEntry(cs[i])],
          Cardinality({i \in DOMAIN cs : cs[i] \in Synchronous}))
  /\ caller' = "test"
  /\ UNCHANGED <<asked, ending, acidCalls>>

\* The third parameter is named async here and passed on as isSynchronous
DoAcid(c, async) ==
  /\ Called
  /\ CallerFree
  /\ Push(<<AcidEntry(c, async)>>, IF async THEN 0 ELSE 1)
  /\ caller' = IF async THEN "free" ELSE "test"
  /\ acidCalls' = IF async THEN [acidCalls EXCEPT !.async = @ + 1]
                            ELSE [acidCalls EXCEPT !.waited = @ + 1]
  /\ UNCHANGED <<asked, ending>>

Undo_ReturnsAtOnce(t) ==
  /\ Called
  /\ CallerFree
  /\ Push(<<UndoEntry(t)>>, 1)
  /\ undoType' = t
  /\ caller' = "free"
  /\ UNCHANGED <<redoType, ending, acidCalls>>

Undo(t) ==
  /\ Called
  /\ CallerFree
  /\ Push(<<UndoEntry(t)>>, 1)
  /\ undoType' = t
  /\ caller' = "test"
  /\ UNCHANGED <<redoType, ending, acidCalls>>

Redo(t) ==
  /\ Called
  /\ CallerFree
  /\ Push(<<RedoEntry(t)>>, 1)
  /\ redoType' = t
  /\ caller' = "test"
  /\ UNCHANGED <<undoType, ending, acidCalls>>

\* End, from the destructor
End ==
  /\ alive
  /\ CallerFree
  /\ Push(<<KillEntry>>, 1)
  /\ ending' = TRUE
  /\ caller' = "test"
  /\ UNCHANGED <<asked, acidCalls, calls>>

\* Do of an asynchronous command by another thread, which must not be under
\* way when the Commander ends
Post(c) ==
  /\ Called
  /\ ~ending
  /\ Push(<<DoEntry(c)>>, 0)
  /\ UNCHANGED <<asked, caller, ending, acidCalls>>

\* The loop of synchronousExecution.wait, which returns when nothing is counted
CallerMoves(from, to) ==
  /\ alive
  /\ caller = from
  /\ caller' = to
  /\ UNCHANGED <<queue, numSynchronousCommands, asked, stacks, thread, ending,
                 alive, effects, acidCalls, calls>>

CallerReturns ==
  /\ numSynchronousCommands = 0
  /\ CallerMoves("test", IF ending THEN "join" ELSE "free")

CallerDrowses ==
  /\ numSynchronousCommands # 0
  /\ CallerMoves("test", "drowsy")

CallerSleeps == CallerMoves("drowsy", "asleep")

\* a condition variable may wake without a notification
CallerWakes == CallerMoves("asleep", "test")

Join_Detached == CallerMoves("join", "ended")

Join ==
  /\ worker = "ended"
  /\ CallerMoves("join", "ended")

-----------------------------------------------------------------------------
(* The command thread *)

WorkerMoves(from, to) ==
  /\ alive
  /\ worker = from
  /\ worker' = to
  /\ UNCHANGED <<todoBuffer, numSynchronousCommands, asked, stacks, caller,
                 ending, effects, acidCalls, calls>>

\* The command at the front leaves the queue
Take ==
  /\ alive
  /\ todoBuffer # <<>>
  /\ entry' = Head(todoBuffer)
  /\ todoBuffer' = Tail(todoBuffer)
  /\ worker' = "execute"
  /\ UNCHANGED <<hasCommandsToExecute, numSynchronousCommands, asked, stacks,
                 ownsLock, caller, ending, alive, effects, acidCalls, calls>>

TakeAtTop == worker = "top" /\ Take

FindsNothing ==
  /\ todoBuffer = <<>>
  /\ WorkerMoves("top", "test")
  /\ hasCommandsToExecute' = FALSE
  /\ UNCHANGED <<ownsLock, entry, alive>>

\* The loop of hasCommands.wait: the flag is read without commandLocker
SeesCommands ==
  /\ hasCommandsToExecute
  /\ WorkerMoves("test", "unlock")
  /\ UNCHANGED <<hasCommandsToExecute, ownsLock, entry, alive>>

SeesNoCommands ==
  /\ ~hasCommandsToExecute
  /\ WorkerMoves("test", "drowsy")
  /\ UNCHANGED <<hasCommandsToExecute, ownsLock, entry, alive>>

\* To wait with a lock that is not locked is undefined: it may go to sleep as
\* if it were, or end the program
WorkerSleeps ==
  /\ WorkerMoves("drowsy", "asleep")
  /\ alive' \in {TRUE, ownsLock}
  /\ UNCHANGED <<hasCommandsToExecute, ownsLock, entry>>

WorkerWakes ==
  /\ WorkerMoves("asleep", "test")
  /\ UNCHANGED <<hasCommandsToExecute, ownsLock, entry, alive>>

\* hasCommandsLock.unlock() throws when the lock is not locked, which it is only
\* before the first time; nothing catches it
Unlock ==
  /\ WorkerMoves("unlock", "lock")
  /\ ownsLock' = FALSE
  /\ alive' = ownsLock
  /\ UNCHANGED <<hasCommandsToExecute, entry>>

TakeAwake == worker = "lock" /\ Take

\* after Do of an empty vector
AwakeForNothing ==
  /\ todoBuffer = <<>>
  /\ WorkerMoves("lock", "top")
  /\ UNCHANGED <<hasCommandsToExecute, ownsLock, entry, alive>>

\* What every execution leaves alone
Executes ==
  /\ alive
  /\ worker = "execute"
  /\ UNCHANGED <<queue, numSynchronousCommands, asked, ownsLock, entry, caller,
                 ending, acidCalls, calls>>

Recorded_RedosStay(c) ==
  /\ undoBuffers' = [undoBuffers EXCEPT ![TypeOf[c]] = Append(@, c)]
  /\ UNCHANGED redoBuffers

\* ClipRedos and AddUndo
Recorded(c) ==
  LET t == TypeOf[c]
  IN  /\ undoBuffers' = [undoBuffers EXCEPT ![t] = Append(@, c)]
      /\ redoBuffers' = [redoBuffers EXCEPT ![t] = <<>>]

InEffect(c) == applied' = [applied EXCEPT ![c] = @ + 1]

\* DoCommand took effect, in every leaf or not: a leaf that fails does not make
\* a plain command fail, and an exception that is no KnownError not even an ACID
\* one
Does(c, whole) ==
  \/ /\ whole
     /\ InEffect(c)
     /\ UNCHANGED spoiled
  \/ /\ ~whole
     /\ spoiled' = spoiled \union {c}
     /\ UNCHANGED applied

ExecuteDo(c, whole) ==
  /\ Executes
  /\ entry.kind = "do"
  /\ entry.command = c
  /\ Does(c, whole)
  /\ Recorded(c)
  /\ worker' = "count"
  /\ UNCHANGED alive

\* The first leaf of an ACID command fails: nothing happened
ExecuteRefused(c) ==
  /\ Executes
  /\ entry.kind = "do"
  /\ entry.command = c
  /\ c \in Acids
  /\ Size[c] > 0
  /\ worker' = "count"
  /\ UNCHANGED <<stacks, effects, alive>>

\* A later leaf fails: the leaves before it are to be undone, UndoCommand of a
\* leaf with an ACID parent undoes nothing and returns false, and
\* AcidRollbackFailure is thrown
RollbackFails(c) ==
  /\ c \in Acids
  /\ Size[c] > 1
  /\ spoiled' = spoiled \union {c}
  /\ alive' = FALSE
  /\ worker' = "count"
  /\ UNCHANGED applied

ExecuteRollback(c) ==
  /\ Executes
  /\ entry.kind = "do"
  /\ entry.command = c
  /\ RollbackFails(c)
  /\ UNCHANGED stacks

\* TryUndo, of the type the shared object has now
UndoTop == undoBuffers[undoType][Len(undoBuffers[undoType])]

WithoutTop(stack) == SubSeq(stack, 1, Len(stack) - 1)

ExecuteUndo ==
  /\ Executes
  /\ entry.kind = "undo"
  /\ undoBuffers[undoType] # <<>>

\* A plain command is undone and can be redone
ExecuteUndone ==
  /\ ExecuteUndo
  /\ UndoTop \notin Acids
  /\ applied' = [applied EXCEPT ![UndoTop] = @ - 1]
  /\ undoBuffers' = [undoBuffers EXCEPT ![undoType] = WithoutTop(@)]
  /\ redoBuffers' = [redoBuffers EXCEPT ![undoType] = <<UndoTop>> \o @]
  /\ worker' = "count"
  /\ UNCHANGED <<spoiled, alive>>

\* A leaf's Undo throws, which is caught nowhere
ExecuteUndoThrows ==
  /\ ExecuteUndo
  /\ UndoTop \notin Acids
  /\ undoBuffers' = [undoBuffers EXCEPT ![undoType] = WithoutTop(@)]
  /\ spoiled' = spoiled \union {UndoTop}
  /\ alive' = FALSE
  /\ worker' = "count"
  /\ UNCHANGED <<redoBuffers, applied>>

\* The last leaf of an ACID command is not undone (see RollbackFails), and with
\* nothing to roll back the undo of the command fails: it is on no stack and in
\* effect
ExecuteUndoRefused ==
  /\ ExecuteUndo
  /\ UndoTop \in Acids
  /\ undoBuffers' = [undoBuffers EXCEPT ![undoType] = WithoutTop(@)]
  /\ spoiled' = spoiled \union {UndoTop}
  /\ worker' = "count"
  /\ UNCHANGED <<redoBuffers, applied, alive>>

\* TryRedo.  No ACID command is ever on a redo stack.
RedoTop == Head(redoBuffers[redoType])

ExecuteRedo_NotUndoable(whole) ==
  /\ Executes
  /\ entry.kind = "redo"
  /\ redoBuffers[redoType] # <<>>
  /\ Does(RedoTop, whole)
  /\ redoBuffers' = [redoBuffers EXCEPT ![redoType] = Tail(@)]
  /\ worker' = "count"
  /\ UNCHANGED <<undoBuffers, alive>>

ExecuteRedo(whole) ==
  /\ Executes
  /\ entry.kind = "redo"
  /\ redoBuffers[redoType] # <<>>
  /\ Does(RedoTop, whole)
  /\ undoBuffers' = [undoBuffers EXCEPT ![redoType] = Append(@, RedoTop)]
  /\ redoBuffers' = [redoBuffers EXCEPT ![redoType] = Tail(@)]
  /\ worker' = "count"
  /\ UNCHANGED alive

\* Nothing to undo or redo, and the kill command
ExecuteNothing ==
  /\ Executes
  /\ \/ entry.kind = "undo" /\ undoBuffers[undoType] = <<>>
     \/ entry.kind = "redo" /\ redoBuffers[redoType] = <<>>
     \/ entry.kind = "kill"
  /\ worker' = "count"
  /\ UNCHANGED <<stacks, effects, alive>>

Execute ==
  \/ \E c \in Commands : \/ \E whole \in BOOLEAN : ExecuteDo(c, whole)
                        \/ ExecuteRefused(c)
                        \/ ExecuteRollback(c)
  \/ ExecuteUndone
  \/ ExecuteUndoThrows
  \/ ExecuteUndoRefused
  \/ \E whole \in BOOLEAN : ExecuteRedo(whole)
  \/ ExecuteNothing

Count_EveryCommand ==
  /\ alive
  /\ worker = "count"
  /\ numSynchronousCommands' = (numSynchronousCommands - 1) % Width
  /\ worker' = "notify"
  /\ UNCHANGED <<queue, asked, stacks, ownsLock, entry, caller, ending, alive,
                 effects, acidCalls, calls>>

\* --numSynchronousCommands, without a lock
Count ==
  /\ alive
  /\ worker = "count"
  /\ numSynchronousCommands' =
       IF entry.sync THEN (numSynchronousCommands - 1) % Width
                     ELSE numSynchronousCommands
  /\ worker' = "notify"
  /\ UNCHANGED <<queue, asked, stacks, ownsLock, entry, caller, ending, alive,
                 effects, acidCalls, calls>>

\* ... and then the notification, which a caller that tests or drowses misses;
\* after the kill command the loop ends
Notify ==
  /\ alive
  /\ worker = "notify"
  /\ worker' = IF entry.kind = "kill" THEN "ended" ELSE "top"
  /\ caller' = IF entry.sync /\ caller = "asleep" THEN "test" ELSE caller
  /\ UNCHANGED <<queue, numSynchronousCommands, asked, stacks, ownsLock, entry,
                 ending, alive, effects, acidCalls, calls>>

CallerNext ==
  \/ \E c \in Commands \ Acids : DoOne(c)
  \/ DoSeveral(<<>>)
  \/ \E c, d \in Commands \ Acids : DoSeveral(<<c, d>>)
  \/ \E c \in Acids, async \in BOOLEAN : DoAcid(c, async)
  \/ \E t \in Types : Undo(t) \/ Redo(t)
  \/ End
  \/ CallerReturns
  \/ CallerDrowses
  \/ CallerSleeps
  \/ CallerWakes
  \/ Join

WorkerNext ==
  \/ TakeAtTop
  \/ FindsNothing
  \/ SeesCommands
  \/ SeesNoCommands
  \/ WorkerSleeps
  \/ WorkerWakes
  \/ Unlock
  \/ TakeAwake
  \/ AwakeForNothing
  \/ Execute
  \/ Count
  \/ Notify

Next ==
  \/ CallerNext
  \/ WorkerNext
  \/ \E c \in (Commands \ Acids) \ Synchronous : Post(c)

Spec == Init /\ [][Next]_vars

\* Both threads are scheduled, and a caller ends its Commander
FairSpec ==
  /\ Spec
  /\ WF_vars(CallerReturns \/ CallerDrowses \/ CallerSleeps \/ Join)
  /\ WF_vars(WorkerNext)

-----------------------------------------------------------------------------
(* Properties *)

WorkerPlaces ==
  {"top", "test", "drowsy", "asleep", "unlock", "lock", "execute", "count",
   "notify", "ended"}

\* The type invariant: the variables hold what the members of Commander can.
TypeOK ==
  /\ todoBuffer \in Seq(Entry)
  /\ hasCommandsToExecute \in BOOLEAN
  /\ numSynchronousCommands \in 0 .. Width - 1
  /\ undoType \in Types /\ redoType \in Types
  /\ undoBuffers \in [Types -> Seq(Commands)]
  /\ redoBuffers \in [Types -> Seq(Commands \ Acids)]
  /\ worker \in WorkerPlaces
  /\ ownsLock \in BOOLEAN
  /\ entry \in Entry
  /\ caller \in Waiting \union {"free", "join", "ended"}
  /\ ending \in BOOLEAN
  /\ alive \in BOOLEAN
  /\ applied \in [Commands -> Int]
  /\ spoiled \subseteq Commands
  /\ acidCalls \in [async : Nat, waited : Nat]
  /\ calls \in 0 .. MaxCalls

\* the worker has an entry that is not counted off yet
Busy == worker \in {"execute", "count"}

Outstanding ==
  Cardinality({i \in DOMAIN todoBuffer : todoBuffer[i].sync})
    + (IF Busy /\ entry.sync THEN 1 ELSE 0)

\* numSynchronousCommands is the number of synchronous commands not finished yet,
\* but for the calls of DoAcid: a synchronous one is counted and never counted
\* off, an asynchronous one the other way round (Commander.cpp:91 and 94).
CountsOutstanding ==
  numSynchronousCommands =
    (Outstanding + acidCalls.waited - acidCalls.async) % Width

NoAcidCalls == acidCalls.waited = 0 /\ acidCalls.async = 0

\* A synchronous call returns when its commands were executed and not earlier,
\* whatever order the threads run in; see CountsOutstanding for the calls of
\* DoAcid, which break this.
ReturnsWhenDone ==
  [][caller = "test" /\ caller' \notin Waiting /\ NoAcidCalls
       => Outstanding = 0]_vars

\* All calls of Undo share one object that holds the type to undo, and so do
\* those of Redo: no other call changes it before the command is executed,
\* again without DoAcid.
UndoesWhatWasAsked ==
  NoAcidCalls =>
    \A e \in {todoBuffer[i] : i \in DOMAIN todoBuffer}
              \union (IF worker = "execute" THEN {entry} ELSE {}) :
      /\ e.kind = "undo" => e.asked = undoType
      /\ e.kind = "redo" => e.asked = redoType

\* What can be undone is what is in effect: a command that neither failed nor was
\* refused is in effect as often as it is on the undo stack.
UndoableIsInEffect ==
  alive =>
    \A c \in Commands \ spoiled :
      applied[c] = Cardinality({i \in DOMAIN undoBuffers[TypeOf[c]] :
                                   undoBuffers[TypeOf[c]][i] = c})

\* Undo and redo walk along one line of commands of each type, as
\* CommandHistory has it.
History == INSTANCE CommandHistory WITH
  line <- [t \in Types |-> undoBuffers[t] \o redoBuffers[t]],
  at   <- [t \in Types |-> Len(undoBuffers[t])]

HistorySpec == History!Spec

\* When the destructor is through, every command given before was executed and
\* the thread is gone.
NothingLeftBehind ==
  caller = "ended" => todoBuffer = <<>> /\ worker = "ended"

\* End "finishes all pending commands and kills the command thread"
\* (Commander.h:68).
EndFinishes == ending ~> caller = "ended"
=============================================================================
