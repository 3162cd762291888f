-------------------------- MODULE CommanderProofs --------------------------
(***************************************************************************)
(* What holds of Commander for any commands and types, any number of calls *)
(* and any width of its counter.                                           *)
(***************************************************************************)
EXTENDS Commander, SequenceTheorems, FiniteSetTheorems, TLAPS

-----------------------------------------------------------------------------
(* Types *)

LEMMA EntriesOfCalls ==
  /\ \A c \in Commands : DoEntry(c) \in Entry
  /\ \A c \in Commands, async \in BOOLEAN : AcidEntry(c, async) \in Entry
  /\ \A t \in Types : UndoEntry(t) \in Entry /\ RedoEntry(t) \in Entry
  /\ KillEntry \in Entry
<1>1. \A c \in Commands : (c \in Synchronous) \in BOOLEAN
  OBVIOUS
<1> QED
  BY <1>1 DEF Entry, DoEntry, AcidEntry, UndoEntry, RedoEntry, KillEntry

LEMMA Modulo ==
  ASSUME NEW n \in Int
  PROVE  n % Width \in 0 .. Width - 1
BY CommanderAssumption

LEMMA PushType ==
  ASSUME TypeOK, NEW entries \in Seq(Entry), NEW waits \in Nat, Push(entries, waits)
  PROVE  /\ todoBuffer' \in Seq(Entry)
         /\ hasCommandsToExecute' \in BOOLEAN
         /\ numSynchronousCommands' \in 0 .. Width - 1
         /\ undoBuffers' \in [Types -> Seq(Commands)]
         /\ redoBuffers' \in [Types -> Seq(Commands \ Acids)]
         /\ worker' \in WorkerPlaces
         /\ ownsLock' \in BOOLEAN /\ entry' \in Entry /\ alive' \in BOOLEAN
         /\ applied' \in [Commands -> Int] /\ spoiled' \subseteq Commands
<1>1. numSynchronousCommands + waits \in Int
  BY CommanderAssumption DEF TypeOK
<1>2. numSynchronousCommands' \in 0 .. Width - 1
  BY <1>1, Modulo DEF Push
<1>3. todoBuffer' \in Seq(Entry)
  BY ConcatProperties DEF Push, TypeOK
<1>4. worker' \in WorkerPlaces
  BY DEF Push, TypeOK, WorkerPlaces
<1> QED
  BY <1>2, <1>3, <1>4 DEF Push, TypeOK, stacks, effects

LEMMA CommanderInit == Init => TypeOK
<1> SUFFICES ASSUME Init PROVE TypeOK
  OBVIOUS
<1>1. 0 \in 0 .. Width - 1 /\ 0 \in 0 .. MaxCalls
  BY CommanderAssumption
<1>2. todoBuffer \in Seq(Entry) /\ undoBuffers \in [Types -> Seq(Commands)]
      /\ redoBuffers \in [Types -> Seq(Commands \ Acids)]
  BY DEF Init
<1>3. entry \in Entry
  BY EntriesOfCalls DEF Init
<1>4. /\ hasCommandsToExecute \in BOOLEAN /\ ownsLock \in BOOLEAN /\ ending \in BOOLEAN
      /\ alive \in BOOLEAN
  BY DEF Init
<1>5. applied \in [Commands -> Int] /\ spoiled \subseteq Commands
      /\ acidCalls \in [async : Nat, waited : Nat]
  BY DEF Init
<1> QED
  BY <1>1, <1>2, <1>3, <1>4, <1>5, CommanderAssumption
     DEF Init, TypeOK, WorkerPlaces

\* The calls of the other threads.
Asks ==
  \/ \E c \in Commands \ Acids : DoOne(c)
  \/ DoSeveral(<<>>)
  \/ \E c, d \in Commands \ Acids : DoSeveral(<<c, d>>)
  \/ \E c \in Acids, async \in BOOLEAN : DoAcid(c, async)
  \/ \E t \in Types : Undo(t) \/ Redo(t)
  \/ End
  \/ \E c \in (Commands \ Acids) \ Synchronous : Post(c)

LEMMA CallsKeepTypes ==
  ASSUME TypeOK, Asks PROVE TypeOK'
<1>0. calls' \in 0 .. MaxCalls \/ ~Called
  BY CommanderAssumption DEF TypeOK, Called
<1>1. ASSUME NEW c \in Commands \ Acids, DoOne(c) PROVE TypeOK'
  <2>1. <<DoEntry(c)>> \in Seq(Entry) /\ Waits(c) \in Nat
    BY EntriesOfCalls DEF Waits
  <2>2. Push(<<DoEntry(c)>>, Waits(c))
    BY <1>1 DEF DoOne
  <2> QED
    BY <1>0, <1>1, <2>1, <2>2, PushType DEF DoOne, TypeOK, asked, Waiting
<1>2. ASSUME DoSeveral(<<>>) PROVE TypeOK'
  <2>1. /\ [i \in DOMAIN <<>> |-> DoEntry(<<>>[i])] = <<>>
        /\ {i \in DOMAIN <<>> : <<>>[i] \in Synchronous} = {}
    OBVIOUS
  <2>2. Push(<<>>, 0)
    BY <1>2, <2>1, FS_EmptySet DEF DoSeveral
  <2>3. <<>> \in Seq(Entry) /\ 0 \in Nat
    OBVIOUS
  <2> QED
    BY <1>0, <1>2, <2>2, <2>3, PushType DEF DoSeveral, TypeOK, asked, Waiting
<1>3. ASSUME NEW c \in Commands \ Acids, NEW d \in Commands \ Acids, DoSeveral(<<c, d>>)
      PROVE  TypeOK'
  <2>1. PICK entries, waits :
          /\ entries = [i \in DOMAIN <<c, d>> |-> DoEntry(<<c, d>>[i])]
          /\ waits = Cardinality({i \in DOMAIN <<c, d>> : <<c, d>>[i] \in Synchronous})
    OBVIOUS
  <2>2. entries \in Seq(Entry)
    <3>1. DOMAIN <<c, d>> = 1 .. 2
      OBVIOUS
    <3>2. entries \in [1 .. 2 -> Entry]
      BY <2>1, <3>1, EntriesOfCalls
    <3>3. entries \in UNION {[1 .. n -> Entry] : n \in Nat}
      BY <3>2
    <3> QED
      BY <3>3, SeqDef
  <2>3. waits \in Nat
    <3>1. IsFiniteSet(1 .. 2)
      <4>1. 1 \in Int /\ 2 \in Int
        OBVIOUS
      <4> QED
        BY <4>1, FS_Interval
    <3>2. {i \in DOMAIN <<c, d>> : <<c, d>>[i] \in Synchronous} \in SUBSET (1 .. 2)
      OBVIOUS
    <3> QED
      BY <2>1, <3>1, <3>2, FS_Subset, FS_CardinalityType
  <2>4. Push(entries, waits)
    BY <1>3, <2>1 DEF DoSeveral
  <2> QED
    BY <1>0, <1>3, <2>2, <2>3, <2>4, PushType DEF DoSeveral, TypeOK, asked, Waiting
<1>4. ASSUME NEW c \in Acids, NEW async \in BOOLEAN, DoAcid(c, async) PROVE TypeOK'
  <2>1. /\ <<AcidEntry(c, async)>> \in Seq(Entry)
        /\ (IF async THEN 0 ELSE 1) \in Nat
    BY EntriesOfCalls, CommanderAssumption
  <2>2. Push(<<AcidEntry(c, async)>>, IF async THEN 0 ELSE 1)
    BY <1>4 DEF DoAcid
  <2>3. acidCalls' \in [async : Nat, waited : Nat]
    BY <1>4 DEF DoAcid, TypeOK
  <2> QED
    BY <1>0, <1>4, <2>1, <2>2, <2>3, PushType DEF DoAcid, TypeOK, asked, Waiting
<1>5. ASSUME NEW t \in Types, Undo(t) PROVE TypeOK'
  <2>1. <<UndoEntry(t)>> \in Seq(Entry) /\ 1 \in Nat
    BY EntriesOfCalls
  <2>2. Push(<<UndoEntry(t)>>, 1)
    BY <1>5 DEF Undo
  <2> QED
    BY <1>0, <1>5, <2>1, <2>2, PushType DEF Undo, TypeOK, Waiting
<1>6. ASSUME NEW t \in Types, Redo(t) PROVE TypeOK'
  <2>1. <<RedoEntry(t)>> \in Seq(Entry) /\ 1 \in Nat
    BY EntriesOfCalls
  <2>2. Push(<<RedoEntry(t)>>, 1)
    BY <1>6 DEF Redo
  <2> QED
    BY <1>0, <1>6, <2>1, <2>2, PushType DEF Redo, TypeOK, Waiting
<1>7. ASSUME End PROVE TypeOK'
  <2>1. <<KillEntry>> \in Seq(Entry) /\ 1 \in Nat
    BY EntriesOfCalls
  <2>2. /\ Push(<<KillEntry>>, 1)
    BY <1>7 DEF End
  <2> QED
    BY <1>7, <2>1, <2>2, PushType DEF End, TypeOK, asked, Waiting
<1>8. ASSUME NEW c \in (Commands \ Acids) \ Synchronous, Post(c) PROVE TypeOK'
  <2>1. <<DoEntry(c)>> \in Seq(Entry) /\ 0 \in Nat
    BY EntriesOfCalls
  <2>2. Push(<<DoEntry(c)>>, 0)
    BY <1>8 DEF Post
  <2> QED
    BY <1>0, <1>8, <2>1, <2>2, PushType DEF Post, TypeOK, asked
<1> QED
  BY <1>1, <1>2, <1>3, <1>4, <1>5, <1>6, <1>7, <1>8 DEF Asks

\* What the caller does while it waits.
WaitingNext ==
  CallerReturns \/ CallerDrowses \/ CallerSleeps \/ CallerWakes \/ Join

LEMMA WaitingKeepsTypes ==
  ASSUME TypeOK, WaitingNext PROVE TypeOK'
BY DEF WaitingNext, CallerReturns, CallerDrowses, CallerSleeps, CallerWakes, Join,
   CallerMoves, TypeOK, Waiting, queue, asked, stacks, thread, effects

\* What the command thread does but for the execution.
LoopNext ==
  \/ TakeAtTop \/ FindsNothing \/ SeesCommands \/ SeesNoCommands \/ WorkerSleeps
  \/ WorkerWakes \/ Unlock \/ TakeAwake \/ AwakeForNothing \/ Count \/ Notify

LEMMA LoopKeepsTypes ==
  ASSUME TypeOK, LoopNext PROVE TypeOK'
<1> USE DEF TypeOK, WorkerPlaces
<1>1. ASSUME Take PROVE TypeOK'
  <2>1. Head(todoBuffer) \in Entry /\ Tail(todoBuffer) \in Seq(Entry)
    BY <1>1, HeadTailProperties DEF Take
  <2> QED
    BY <1>1, <2>1 DEF Take, asked, stacks, effects
<1>2. CASE FindsNothing
  BY <1>2 DEF FindsNothing, WorkerMoves, asked, stacks, effects
<1>3. CASE SeesCommands \/ SeesNoCommands \/ WorkerWakes \/ AwakeForNothing
  BY <1>3 DEF SeesCommands, SeesNoCommands, WorkerWakes, AwakeForNothing, WorkerMoves,
     asked, stacks, effects
<1>4. CASE WorkerSleeps
  BY <1>4 DEF WorkerSleeps, WorkerMoves, asked, stacks, effects
<1>5. CASE Unlock
  BY <1>5 DEF Unlock, WorkerMoves, asked, stacks, effects
<1>6. CASE Count
  <2>1. numSynchronousCommands - 1 \in Int
    BY CommanderAssumption
  <2>2. numSynchronousCommands' \in 0 .. Width - 1
    BY <1>6, <2>1, Modulo DEF Count
  <2> QED
    BY <1>6, <2>2 DEF Count, queue, asked, stacks, effects
<1>7. CASE Notify
  BY <1>7 DEF Notify, queue, asked, stacks, effects, Waiting
<1> QED
  BY <1>1, <1>2, <1>3, <1>4, <1>5, <1>6, <1>7 DEF LoopNext, TakeAtTop, TakeAwake

LEMMA StackTop ==
  ASSUME TypeOK, undoBuffers[undoType] # <<>>
  PROVE  UndoTop \in Commands /\ WithoutTop(undoBuffers[undoType]) \in Seq(Commands)
<1>1. PICK s \in Seq(Commands) : s = undoBuffers[undoType]
  BY DEF TypeOK
<1>2. Len(s) \in 1 .. Len(s) /\ Len(s) \in Nat
  BY <1>1, EmptySeq
<1>3. s[Len(s)] \in Commands
  BY <1>2, ElementOfSeq
<1>4. SubSeq(s, 1, Len(s) - 1) \in Seq(Commands)
  BY <1>2
<1> QED
  BY <1>1, <1>3, <1>4 DEF UndoTop, WithoutTop

LEMMA DoesType ==
  ASSUME TypeOK, NEW c \in Commands, NEW whole \in BOOLEAN, Does(c, whole)
  PROVE  applied' \in [Commands -> Int] /\ spoiled' \subseteq Commands
<1>1. CASE InEffect(c) /\ UNCHANGED spoiled
  BY <1>1 DEF InEffect, TypeOK
<1>2. CASE spoiled' = spoiled \union {c} /\ UNCHANGED applied
  BY <1>2 DEF TypeOK
<1> QED
  BY <1>1, <1>2 DEF Does

LEMMA ExecuteKeepsTypes ==
  ASSUME TypeOK, Execute PROVE TypeOK'
<1>0. ASSUME Executes, worker' = "count", alive' \in BOOLEAN,
             undoBuffers' \in [Types -> Seq(Commands)],
             redoBuffers' \in [Types -> Seq(Commands \ Acids)],
             applied' \in [Commands -> Int], spoiled' \subseteq Commands
      PROVE  TypeOK'
  BY <1>0 DEF Executes, TypeOK, WorkerPlaces, queue, asked
<1>1. ASSUME NEW c \in Commands, NEW whole \in BOOLEAN, ExecuteDo(c, whole) PROVE TypeOK'
  <2>1. TypeOf[c] \in Types
    BY CommanderAssumption
  <2>2. undoBuffers' \in [Types -> Seq(Commands)]
    <3>1. Append(undoBuffers[TypeOf[c]], c) \in Seq(Commands)
      BY <2>1, AppendProperties DEF TypeOK
    <3> QED
      BY <1>1, <3>1 DEF ExecuteDo, Recorded, TypeOK
  <2>3. redoBuffers' \in [Types -> Seq(Commands \ Acids)]
    BY <1>1, <2>1 DEF ExecuteDo, Recorded, TypeOK
  <2>4. applied' \in [Commands -> Int] /\ spoiled' \subseteq Commands
    BY <1>1, DoesType DEF ExecuteDo
  <2> QED
    BY <1>0, <1>1, <2>2, <2>3, <2>4 DEF ExecuteDo, TypeOK
<1>2. ASSUME NEW c \in Commands, ExecuteRefused(c) PROVE TypeOK'
  BY <1>0, <1>2 DEF ExecuteRefused, stacks, effects, TypeOK
<1>3. ASSUME NEW c \in Commands, ExecuteRollback(c) PROVE TypeOK'
  BY <1>0, <1>3 DEF ExecuteRollback, RollbackFails, stacks, TypeOK
<1>4. ASSUME ExecuteUndo PROVE /\ UndoTop \in Commands
                               /\ WithoutTop(undoBuffers[undoType]) \in Seq(Commands)
                               /\ undoType \in Types
  BY <1>4, StackTop DEF ExecuteUndo, TypeOK
<1>5. ASSUME ExecuteUndone PROVE TypeOK'
  <2>1. undoBuffers' \in [Types -> Seq(Commands)]
    BY <1>4, <1>5 DEF ExecuteUndone, TypeOK
  <2>2. <<UndoTop>> \in Seq(Commands \ Acids)
    BY <1>4, <1>5 DEF ExecuteUndone
  <2>3. <<UndoTop>> \o redoBuffers[undoType] \in Seq(Commands \ Acids)
    BY <2>2, ConcatProperties DEF TypeOK
  <2>4. redoBuffers' \in [Types -> Seq(Commands \ Acids)]
    BY <1>5, <2>3 DEF ExecuteUndone, TypeOK
  <2>5. applied' \in [Commands -> Int]
    BY <1>4, <1>5 DEF ExecuteUndone, TypeOK
  <2> QED
    BY <1>0, <1>5, <2>1, <2>4, <2>5 DEF ExecuteUndone, ExecuteUndo, TypeOK
<1>6. ASSUME ExecuteUndoThrows PROVE TypeOK'
  <2>1. undoBuffers' \in [Types -> Seq(Commands)] /\ spoiled' \subseteq Commands
    BY <1>4, <1>6 DEF ExecuteUndoThrows, TypeOK
  <2> QED
    BY <1>0, <1>6, <2>1 DEF ExecuteUndoThrows, ExecuteUndo, TypeOK
<1>7. ASSUME ExecuteUndoRefused PROVE TypeOK'
  <2>1. undoBuffers' \in [Types -> Seq(Commands)] /\ spoiled' \subseteq Commands
    BY <1>4, <1>7 DEF ExecuteUndoRefused, TypeOK
  <2> QED
    BY <1>0, <1>7, <2>1 DEF ExecuteUndoRefused, ExecuteUndo, TypeOK
<1>8. ASSUME NEW whole \in BOOLEAN, ExecuteRedo(whole) PROVE TypeOK'
  <2>1. redoType \in Types /\ redoBuffers[redoType] \in Seq(Commands \ Acids)
    BY DEF TypeOK
  <2>2. /\ RedoTop \in Commands \ Acids
        /\ Tail(redoBuffers[redoType]) \in Seq(Commands \ Acids)
    BY <1>8, <2>1, HeadTailProperties DEF ExecuteRedo, RedoTop
  <2>3. Append(undoBuffers[redoType], RedoTop) \in Seq(Commands)
    BY <2>1, <2>2, AppendProperties DEF TypeOK
  <2>4. undoBuffers' \in [Types -> Seq(Commands)]
    BY <1>8, <2>3 DEF ExecuteRedo, TypeOK
  <2>5. redoBuffers' \in [Types -> Seq(Commands \ Acids)]
    BY <1>8, <2>2 DEF ExecuteRedo, TypeOK
  <2>6. applied' \in [Commands -> Int] /\ spoiled' \subseteq Commands
    BY <1>8, <2>2, DoesType DEF ExecuteRedo
  <2> QED
    BY <1>0, <1>8, <2>4, <2>5, <2>6 DEF ExecuteRedo, TypeOK
<1>9. ASSUME ExecuteNothing PROVE TypeOK'
  BY <1>0, <1>9 DEF ExecuteNothing, stacks, effects, TypeOK
<1> QED
  BY <1>1, <1>2, <1>3, <1>5, <1>6, <1>7, <1>8, <1>9 DEF Execute

LEMMA StepKinds == [Next]_vars => Asks \/ WaitingNext \/ LoopNext \/ Execute \/ UNCHANGED vars
BY DEF Next, CallerNext, WorkerNext, Asks, WaitingNext, LoopNext

LEMMA TypeStep == TypeOK /\ [Next]_vars => TypeOK'
<1>1. ASSUME TypeOK, UNCHANGED vars PROVE TypeOK'
  BY <1>1 DEF vars, TypeOK, queue, asked, stacks, thread, effects
<1> QED
  BY <1>1, StepKinds, CallsKeepTypes, WaitingKeepsTypes, LoopKeepsTypes, ExecuteKeepsTypes

\* The counter of synchronous commands never leaves its width, a redo stack never
\* holds an ACID command, whatever is called and whatever fails.
THEOREM CommanderTypeCorrect == Spec => []TypeOK
<1>1. Init => TypeOK
  BY CommanderInit
<1>2. TypeOK /\ [Next]_vars => TypeOK'
  BY TypeStep
<1> QED
  BY <1>1, <1>2, PTL DEF Spec

-----------------------------------------------------------------------------
(* Counting *)

\* The places of a queue where something waits that is counted.
Syncs(s) == {i \in DOMAIN s : s[i].sync}

LEMMA SyncsFinite ==
  ASSUME NEW s \in Seq(Entry)
  PROVE  IsFiniteSet(Syncs(s)) /\ Cardinality(Syncs(s)) \in Nat /\ Syncs(s) \subseteq Int
<1>1. DOMAIN s = 1 .. Len(s) /\ Len(s) \in Int /\ 1 \in Int
  BY LenProperties
<1>2. IsFiniteSet(1 .. Len(s))
  BY <1>1, FS_Interval
<1>3. Syncs(s) \in SUBSET (1 .. Len(s))
  BY <1>1 DEF Syncs
<1> QED
  BY <1>2, <1>3, FS_Subset, FS_CardinalityType

LEMMA ShiftCardinality ==
  ASSUME NEW S \in SUBSET Int, IsFiniteSet(S), NEW k \in Int
  PROVE  /\ IsFiniteSet({x + k : x \in S})
         /\ Cardinality({x + k : x \in S}) = Cardinality(S)
<1> DEFINE T == {x + k : x \in S}
           f == [x \in S |-> x + k]
<1>1. f \in Bijection(S, T)
  <2>1. f \in [S -> T]
    OBVIOUS
  <2>2. \A a, b \in S : f[a] = f[b] => a = b
    OBVIOUS
  <2>3. \A y \in T : \E x \in S : f[x] = y
    OBVIOUS
  <2> HIDE DEF f, T
  <2> QED
    BY <2>1, <2>2, <2>3 DEF Bijection, Injection, Surjection, IsInjective
<1>2. ExistsBijection(S, T)
  <2> HIDE DEF f, T
  <2> QED
    BY <1>1 DEF ExistsBijection
<1> HIDE DEF T
<1>3. IsFiniteSet(T) /\ Cardinality(T) = Cardinality(S)
  BY <1>2, FS_Bijection
<1> QED
  BY <1>3 DEF T

LEMMA SyncsConcat ==
  ASSUME NEW a \in Seq(Entry), NEW b \in Seq(Entry)
  PROVE  Cardinality(Syncs(a \o b)) = Cardinality(Syncs(a)) + Cardinality(Syncs(b))
<1> DEFINE T == {x + Len(a) : x \in Syncs(b)}
<1>1. Len(a) \in Nat /\ Len(b) \in Nat /\ DOMAIN a = 1 .. Len(a) /\ DOMAIN b = 1 .. Len(b)
  BY LenProperties
<1>2. /\ DOMAIN (a \o b) = 1 .. Len(a) + Len(b)
      /\ \A i \in 1 .. Len(a) : (a \o b)[i] = a[i]
      /\ \A i \in 1 .. Len(b) : (a \o b)[i + Len(a)] = b[i]
  <2>1. /\ a \o b \in Seq(Entry) /\ Len(a \o b) = Len(a) + Len(b)
        /\ \A i \in 1 .. Len(a) + Len(b) :
             (a \o b)[i] = IF i <= Len(a) THEN a[i] ELSE b[i - Len(a)]
    BY ConcatProperties
  <2>2. \A i \in 1 .. Len(b) : /\ i + Len(a) \in 1 .. Len(a) + Len(b)
                             /\ ~(i + Len(a) <= Len(a))
                             /\ (i + Len(a)) - Len(a) = i
    BY <1>1
  <2> QED
    BY <1>1, <2>1, <2>2
<1>3. Syncs(a \o b) = Syncs(a) \union T
  <2>1. ASSUME NEW i \in Syncs(a \o b) PROVE i \in Syncs(a) \union T
    <3>1. CASE i \in 1 .. Len(a)
      BY <1>1, <1>2, <2>1, <3>1 DEF Syncs
    <3>2. CASE i \notin 1 .. Len(a)
      <4>1. i - Len(a) \in 1 .. Len(b) /\ i = (i - Len(a)) + Len(a)
        BY <1>1, <1>2, <2>1, <3>2 DEF Syncs
      <4>2. i - Len(a) \in Syncs(b)
        BY <1>1, <1>2, <2>1, <4>1 DEF Syncs
      <4> QED
        BY <4>1, <4>2
    <3> QED
      BY <3>1, <3>2
  <2>2. ASSUME NEW i \in Syncs(a) PROVE i \in Syncs(a \o b)
    BY <1>1, <1>2, <2>2 DEF Syncs
  <2>3. ASSUME NEW j \in Syncs(b) PROVE j + Len(a) \in Syncs(a \o b)
    BY <1>1, <1>2, <2>3 DEF Syncs
  <2> QED
    BY <2>1, <2>2, <2>3
<1>4. Syncs(a) \intersect T = {}
  BY <1>1 DEF Syncs
<1>5. IsFiniteSet(T) /\ Cardinality(T) = Cardinality(Syncs(b))
  <2>1. Syncs(b) \in SUBSET Int /\ IsFiniteSet(Syncs(b)) /\ Len(a) \in Int
    BY <1>1, SyncsFinite
  <2> QED
    BY <2>1, ShiftCardinality
<1>6. IsFiniteSet(Syncs(a)) /\ Cardinality(Syncs(a)) \in Nat /\ Cardinality(Syncs(b)) \in Nat
  BY SyncsFinite
<1> HIDE DEF T
<1>7. Cardinality(Syncs(a) \union T)
        = Cardinality(Syncs(a)) + Cardinality(T) - Cardinality(Syncs(a) \intersect T)
  BY <1>5, <1>6, FS_Union
<1>8. Cardinality(Syncs(a) \intersect T) = 0
  BY <1>4, FS_EmptySet
<1>9. Cardinality(Syncs(a) \union T) = Cardinality(Syncs(a)) + Cardinality(Syncs(b))
  BY <1>5, <1>6, <1>7, <1>8
<1> QED
  BY <1>3, <1>9

LEMMA SyncsSingle ==
  ASSUME NEW e \in Entry
  PROVE  Cardinality(Syncs(<<e>>)) = IF e.sync THEN 1 ELSE 0
<1>1. Syncs(<<e>>) = IF e.sync THEN {1} ELSE {}
  BY DEF Syncs
<1> QED
  BY <1>1, FS_EmptySet, FS_Singleton

LEMMA SyncsNone == Cardinality(Syncs(<<>>)) = 0
<1>1. Syncs(<<>>) = {}
  BY DEF Syncs
<1> QED
  BY <1>1, FS_EmptySet

\* What the calls of DoAcid left counted.
AcidDebt == acidCalls.waited - acidCalls.async

LEMMA AcidDebtType ==
  ASSUME acidCalls \in [async : Nat, waited : Nat] PROVE AcidDebt \in Int
<1>1. acidCalls.waited \in Nat /\ acidCalls.async \in Nat
  OBVIOUS
<1> QED
  BY <1>1 DEF AcidDebt

\* the shared objects hold what this entry asks for, after a step
AskedThen(e) ==
  /\ e.kind = "undo" => e.asked = undoType'
  /\ e.kind = "redo" => e.asked = redoType'

\* What a call puts in the queue: what it counts it puts there, but for DoAcid,
\* it counts no more than two, and a kill command is put there alone.  The type of an
\* undo is the one the shared object holds, and a caller that does not wait put
\* nothing there that is counted.
Puts(entries, waits) ==
  /\ entries \in Seq(Entry) /\ waits \in Nat
  /\ Push(entries, waits)
  /\ \A i \in DOMAIN entries : entries[i].kind = "kill" => ending' /\ i = Len(entries)
  /\ \A i \in DOMAIN entries : AskedThen(entries[i])
  /\ waits = Cardinality(Syncs(entries)) + (AcidDebt' - AcidDebt)
  /\ caller' = "free" /\ NoAcidCalls' => Cardinality(Syncs(entries)) = 0
  /\ \/ calls' = calls + 1 /\ ending' = ending /\ Cardinality(Syncs(entries)) <= 2
     \/ calls' = calls /\ ending' /\ Cardinality(Syncs(entries)) <= 1

LEMMA PutsOne ==
  ASSUME NEW e \in Entry, NEW waits \in Nat, Push(<<e>>, waits),
         e.kind = "kill" => ending',
         AskedThen(e),
         caller' = "free" /\ NoAcidCalls' => ~e.sync,
         waits = (IF e.sync THEN 1 ELSE 0) + (AcidDebt' - AcidDebt),
         \/ calls' = calls + 1 /\ ending' = ending
         \/ calls' = calls /\ ending'
  PROVE  Puts(<<e>>, waits)
<1>1. /\ <<e>> \in Seq(Entry) /\ Len(<<e>>) = 1
      /\ \A i \in DOMAIN <<e>> : i = 1 /\ <<e>>[i] = e
  OBVIOUS
<1>2. Cardinality(Syncs(<<e>>)) = IF e.sync THEN 1 ELSE 0
  BY SyncsSingle
<1>3. Cardinality(Syncs(<<e>>)) <= 1 /\ Cardinality(Syncs(<<e>>)) <= 2
  BY <1>2
<1>4. waits = Cardinality(Syncs(<<e>>)) + (AcidDebt' - AcidDebt)
  BY <1>2
<1>5. caller' = "free" /\ NoAcidCalls' => Cardinality(Syncs(<<e>>)) = 0
  BY <1>2
<1> HIDE <1>2
<1> QED
  BY <1>1, <1>3, <1>4, <1>5 DEF Puts

\* Nobody calls once the Commander ends, and a caller that waits waits for its
\* own call.
CallPuts ==
  /\ alive /\ ~ending
  /\ (caller' = caller \/ (caller = "free" /\ caller' \in {"free", "test"}))
  /\ UNCHANGED asked \/ caller = "free"
  /\ NoAcidCalls' => NoAcidCalls
  /\ \E entries, waits : Puts(entries, waits)

LEMMA CallsPut ==
  ASSUME TypeOK, Asks PROVE CallPuts
<1>0. /\ AcidDebt \in Int
      /\ UNCHANGED acidCalls => AcidDebt' - AcidDebt = 0 /\ NoAcidCalls' = NoAcidCalls
  <2>1. AcidDebt \in Int
    BY AcidDebtType DEF TypeOK
  <2>2. UNCHANGED acidCalls => AcidDebt' = AcidDebt /\ NoAcidCalls' = NoAcidCalls
    BY DEF AcidDebt, NoAcidCalls
  <2> QED
    BY <2>1, <2>2
<1>1. ASSUME NEW c \in Commands \ Acids, DoOne(c) \/ (c \notin Synchronous /\ Post(c))
      PROVE  CallPuts
  <2>1. /\ DoEntry(c) \in Entry /\ Waits(c) \in Nat /\ DoEntry(c).kind = "do"
        /\ DoEntry(c).sync <=> c \in Synchronous
        /\ Waits(c) = IF DoEntry(c).sync THEN 1 ELSE 0
    BY EntriesOfCalls DEF Waits, DoEntry
  <2>2. /\ Push(<<DoEntry(c)>>, Waits(c)) /\ UNCHANGED <<acidCalls, asked>>
        /\ calls' = calls + 1 /\ ending' = ending
        /\ caller' = "free" => c \notin Synchronous
    BY <1>1 DEF DoOne, Post, Waits, Called
  <2>3. Waits(c) = (IF DoEntry(c).sync THEN 1 ELSE 0) + (AcidDebt' - AcidDebt)
    BY <1>0, <2>1, <2>2
  <2>4. Puts(<<DoEntry(c)>>, Waits(c))
    BY <2>1, <2>2, <2>3, PutsOne DEF AskedThen
  <2> QED
    BY <1>0, <1>1, <2>2, <2>4 DEF CallPuts, DoOne, Post, Called, CallerFree
<1>2. ASSUME DoSeveral(<<>>) PROVE CallPuts
  <2>1. /\ [i \in DOMAIN <<>> |-> DoEntry(<<>>[i])] = <<>>
        /\ {i \in DOMAIN <<>> : <<>>[i] \in Synchronous} = {}
    OBVIOUS
  <2>2. /\ Push(<<>>, 0) /\ calls' = calls + 1 /\ UNCHANGED <<acidCalls, ending, asked>>
    BY <1>2, <2>1, FS_EmptySet DEF DoSeveral, Called
  <2>3. PICK n : n = Cardinality(Syncs(<<>>))
    OBVIOUS
  <2>4. n = 0
    BY <2>3, SyncsNone
  <2>5. Puts(<<>>, 0)
    BY <1>0, <2>2, <2>3, <2>4 DEF Puts, AskedThen
  <2> QED
    BY <1>0, <1>2, <2>2, <2>5 DEF CallPuts, DoSeveral, Called, CallerFree
<1>3. ASSUME NEW c \in Commands \ Acids, NEW d \in Commands \ Acids, DoSeveral(<<c, d>>)
      PROVE  CallPuts
  <2>1. PICK entries, waits :
          /\ entries = [i \in DOMAIN <<c, d>> |-> DoEntry(<<c, d>>[i])]
          /\ waits = Cardinality({i \in DOMAIN <<c, d>> : <<c, d>>[i] \in Synchronous})
    OBVIOUS
  <2>2. DOMAIN <<c, d>> = 1 .. 2
    OBVIOUS
  <2>3. entries \in Seq(Entry) /\ \A i \in DOMAIN entries : entries[i].kind = "do"
    <3>1. entries \in [1 .. 2 -> Entry]
      BY <2>1, <2>2, EntriesOfCalls
    <3>2. entries \in UNION {[1 .. n -> Entry] : n \in Nat}
      BY <3>1
    <3>3. entries \in Seq(Entry)
      BY <3>2, SeqDef
    <3> QED
      BY <2>1, <2>2, <3>3 DEF DoEntry
  <2>4. waits = Cardinality(Syncs(entries))
    <3>1. Syncs(entries) = {i \in DOMAIN <<c, d>> : <<c, d>>[i] \in Synchronous}
      BY <2>1, <2>2 DEF Syncs, DoEntry
    <3> QED
      BY <2>1, <3>1
  <2>5. waits <= 2
    <3>1. Syncs(entries) \in SUBSET (1 .. 2)
      BY <2>1, <2>2 DEF Syncs
    <3>2. 1 .. 2 = {1, 2} /\ 1 # 2
      OBVIOUS
    <3>3. IsFiniteSet({1}) /\ Cardinality({1}) = 1
      BY FS_Singleton
    <3>4. IsFiniteSet({1} \union {2}) /\ Cardinality({1} \union {2}) = Cardinality({1}) + 1
      <4>1. 2 \notin {1}
        OBVIOUS
      <4> QED
        BY <3>3, <4>1, FS_AddElement
    <3>5. Syncs(entries) \in SUBSET ({1} \union {2})
      BY <3>1, <3>2
    <3>6. Cardinality(Syncs(entries)) <= Cardinality({1} \union {2})
      BY <3>4, <3>5, FS_Subset
    <3> QED
      BY <2>4, <3>3, <3>4, <3>6
  <2>6. waits \in Nat
    BY <2>3, <2>4, SyncsFinite
  <2>7. /\ Push(entries, waits) /\ calls' = calls + 1 /\ UNCHANGED <<acidCalls, ending, asked>>
        /\ caller' = "test"
    BY <1>3, <2>1 DEF DoSeveral, Called
  <2>8. Puts(entries, waits)
    BY <1>0, <2>3, <2>4, <2>5, <2>6, <2>7 DEF Puts, AskedThen
  <2> QED
    BY <1>0, <1>3, <2>7, <2>8 DEF CallPuts, DoSeveral, Called, CallerFree
<1>4. ASSUME NEW c \in Acids, NEW async \in BOOLEAN, DoAcid(c, async) PROVE CallPuts
  <2>1. /\ AcidEntry(c, async) \in Entry /\ AcidEntry(c, async).kind = "do"
        /\ AcidEntry(c, async).sync = async
    BY EntriesOfCalls, CommanderAssumption DEF AcidEntry
  <2>2. PICK waits : waits = IF async THEN 0 ELSE 1
    OBVIOUS
  <2>3. /\ Push(<<AcidEntry(c, async)>>, waits) /\ calls' = calls + 1 /\ ending' = ending
    BY <1>4, <2>2 DEF DoAcid, Called
  <2>4. /\ acidCalls.waited \in Nat /\ acidCalls.async \in Nat
        /\ acidCalls'.waited = acidCalls.waited + (IF async THEN 0 ELSE 1)
        /\ acidCalls'.async = acidCalls.async + (IF async THEN 1 ELSE 0)
    BY <1>4 DEF DoAcid, TypeOK
  <2>5. waits = (IF async THEN 1 ELSE 0) + (AcidDebt' - AcidDebt)
    BY <2>2, <2>4 DEF AcidDebt
  <2>6. ~NoAcidCalls'
    BY <2>4 DEF NoAcidCalls
  <2>7. Puts(<<AcidEntry(c, async)>>, waits)
    BY <2>1, <2>2, <2>3, <2>5, <2>6, PutsOne DEF AskedThen
  <2> QED
    BY <1>4, <2>6, <2>7 DEF CallPuts, DoAcid, Called, CallerFree
<1>5. ASSUME NEW e \in Entry, e.kind # "kill", e.sync, Push(<<e>>, 1),
             AskedThen(e),
             Called, CallerFree, caller' = "test", UNCHANGED <<ending, acidCalls>>
      PROVE  CallPuts
  <2>1. calls' = calls + 1
    BY <1>5 DEF Called
  <2>2. Puts(<<e>>, 1)
    BY <1>0, <1>5, <2>1, PutsOne
  <2> QED
    BY <1>0, <1>5, <2>2 DEF CallPuts, Called, CallerFree
<1>6. ASSUME NEW t \in Types, Undo(t) PROVE CallPuts
  <2>1. /\ UndoEntry(t) \in Entry /\ UndoEntry(t).kind = "undo" /\ UndoEntry(t).sync
        /\ UndoEntry(t).asked = t
    BY EntriesOfCalls DEF UndoEntry
  <2> QED
    BY <1>5, <1>6, <2>1 DEF Undo, AskedThen
<1>7. ASSUME NEW t \in Types, Redo(t) PROVE CallPuts
  <2>1. /\ RedoEntry(t) \in Entry /\ RedoEntry(t).kind = "redo" /\ RedoEntry(t).sync
        /\ RedoEntry(t).asked = t
    BY EntriesOfCalls DEF RedoEntry
  <2> QED
    BY <1>5, <1>7, <2>1 DEF Redo, AskedThen
<1>8. ASSUME End PROVE CallPuts
  <2>1. KillEntry \in Entry /\ KillEntry.sync /\ KillEntry.kind = "kill"
    BY EntriesOfCalls DEF KillEntry
  <2>2. Push(<<KillEntry>>, 1) /\ calls' = calls /\ ending' /\ UNCHANGED <<acidCalls, asked>>
        /\ caller' = "test"
    BY <1>8 DEF End
  <2>3. Puts(<<KillEntry>>, 1)
    BY <1>0, <2>1, <2>2, PutsOne DEF AskedThen
  <2> QED
    BY <1>0, <1>8, <2>2, <2>3 DEF CallPuts, End, CallerFree
<1> QED
  BY <1>1, <1>2, <1>3, <1>4, <1>6, <1>7, <1>8 DEF Asks

-----------------------------------------------------------------------------
(* The end *)

\* The kill command is the last of the queue, with nothing behind it when it is
\* taken, and the caller is through only when the command thread is.
KillIsLast ==
  /\ \A i \in DOMAIN todoBuffer :
        todoBuffer[i].kind = "kill" => ending /\ i = Len(todoBuffer)
  /\ worker \in {"execute", "count", "notify"} /\ entry.kind = "kill"
       => ending /\ todoBuffer = <<>>
  /\ worker = "ended" => ending /\ todoBuffer = <<>>
  /\ caller \in {"join", "ended"} => ending
  /\ caller = "ended" => worker = "ended"

LEMMA KillInit == Init => KillIsLast
BY DEF Init, KillIsLast

LEMMA CallsKeepKillLast ==
  ASSUME TypeOK, KillIsLast, Asks PROVE KillIsLast'
<1>1. CallPuts
  BY CallsPut
<1>2. PICK entries, waits : Puts(entries, waits)
  BY <1>1 DEF CallPuts
<1>3. /\ todoBuffer \in Seq(Entry) /\ entries \in Seq(Entry)
      /\ todoBuffer' = todoBuffer \o entries /\ entry' = entry
      /\ worker' = IF worker = "asleep" THEN "test" ELSE worker
  BY <1>2 DEF Puts, Push, TypeOK
<1>4. ASSUME NEW i \in DOMAIN todoBuffer', todoBuffer'[i].kind = "kill"
      PROVE  ending' /\ i = Len(todoBuffer')
  <2>1. /\ Len(todoBuffer) \in Nat /\ Len(entries) \in Nat
        /\ Len(todoBuffer') = Len(todoBuffer) + Len(entries)
        /\ DOMAIN todoBuffer = 1 .. Len(todoBuffer) /\ DOMAIN entries = 1 .. Len(entries)
        /\ DOMAIN todoBuffer' = 1 .. Len(todoBuffer')
    <3>1. todoBuffer' \in Seq(Entry) /\ Len(todoBuffer') = Len(todoBuffer) + Len(entries)
      BY <1>3, ConcatProperties
    <3> QED
      BY <1>3, <3>1, LenProperties
  <2>2. todoBuffer'[i] = IF i <= Len(todoBuffer) THEN todoBuffer[i]
                                              ELSE entries[i - Len(todoBuffer)]
    BY <1>3, <2>1, ConcatProperties
  <2>3. ~(i <= Len(todoBuffer))
    BY <1>1, <1>4, <2>1, <2>2 DEF KillIsLast, CallPuts
  <2>4. i - Len(todoBuffer) \in DOMAIN entries
    BY <2>1, <2>3
  <2>5. ending' /\ i - Len(todoBuffer) = Len(entries)
    BY <1>2, <1>4, <2>2, <2>3, <2>4 DEF Puts
  <2> QED
    BY <2>1, <2>5
<1>5. worker \notin {"execute", "count", "notify"} \/ entry.kind # "kill"
  BY <1>1 DEF KillIsLast, CallPuts
<1>6. worker # "ended" /\ caller \notin {"join", "ended"}
  BY <1>1 DEF KillIsLast, CallPuts
<1>7. caller' \notin {"join", "ended"}
  BY <1>1, <1>6 DEF CallPuts
<1> QED
  BY <1>3, <1>4, <1>5, <1>6, <1>7 DEF KillIsLast

LEMMA KillStep == TypeOK /\ KillIsLast /\ [Next]_vars => KillIsLast'
<1> SUFFICES ASSUME TypeOK, KillIsLast, [Next]_vars PROVE KillIsLast'
  OBVIOUS
<1>1. ASSUME WaitingNext PROVE KillIsLast'
  BY <1>1 DEF WaitingNext, CallerReturns, CallerDrowses, CallerSleeps, CallerWakes, Join,
     CallerMoves, KillIsLast, queue, thread
<1>2. ASSUME Take, worker \in {"top", "lock"} PROVE KillIsLast'
  <2>1. PICK q \in Seq(Entry) : q = todoBuffer /\ q # <<>>
    BY <1>2 DEF Take, TypeOK
  <2>2. /\ Head(q) = q[1] /\ Tail(q) \in Seq(Entry) /\ Len(Tail(q)) = Len(q) - 1
        /\ \A i \in 1 .. Len(Tail(q)) : Tail(q)[i] = q[i + 1]
    BY <2>1, HeadTailProperties
  <2>3. /\ Len(q) \in Nat /\ Len(q) >= 1 /\ DOMAIN q = 1 .. Len(q)
        /\ DOMAIN Tail(q) = 1 .. Len(Tail(q))
    BY <2>1, <2>2, EmptySeq, LenProperties
  <2>4. ASSUME NEW i \in DOMAIN Tail(q), Tail(q)[i].kind = "kill"
        PROVE  ending /\ i = Len(Tail(q))
    <3>1. i + 1 \in DOMAIN q /\ q[i + 1].kind = "kill"
      BY <2>2, <2>3, <2>4
    <3> QED
      BY <2>1, <2>2, <2>3, <3>1 DEF KillIsLast
  <2>5. ASSUME q[1].kind = "kill" PROVE ending /\ Tail(q) = <<>>
    <3>1. ending /\ Len(q) = 1
      BY <2>1, <2>3, <2>5 DEF KillIsLast
    <3>2. Tail(q) \in Seq(Entry) /\ Len(Tail(q)) = 0
      BY <2>2, <3>1
    <3> QED
      BY <3>1, <3>2, EmptySeq
  <2>6. /\ todoBuffer' = Tail(q) /\ entry' = q[1] /\ worker' = "execute"
        /\ UNCHANGED <<ending, caller>>
    BY <1>2, <2>1, <2>2 DEF Take
  <2>7. caller # "ended"
    BY <1>2 DEF KillIsLast
  <2> QED
    BY <2>4, <2>5, <2>6, <2>7 DEF KillIsLast
<1>3. ASSUME SeesCommands \/ SeesNoCommands \/ WorkerWakes \/ AwakeForNothing \/ FindsNothing
             \/ WorkerSleeps \/ Unlock
      PROVE  KillIsLast'
  BY <1>3 DEF SeesCommands, SeesNoCommands, WorkerWakes, AwakeForNothing, FindsNothing,
     WorkerSleeps, Unlock, WorkerMoves, KillIsLast
<1>4. ASSUME Count PROVE KillIsLast'
  BY <1>4 DEF Count, KillIsLast, queue
<1>5. ASSUME Notify PROVE KillIsLast'
  BY <1>5 DEF Notify, KillIsLast, queue
<1>6. ASSUME Execute PROVE KillIsLast'
  <2>1. Executes /\ worker' = "count"
    BY <1>6 DEF Execute, ExecuteDo, ExecuteRefused, ExecuteRollback, RollbackFails,
       ExecuteUndone, ExecuteUndoThrows, ExecuteUndoRefused, ExecuteUndo, ExecuteRedo,
       ExecuteNothing
  <2> QED
    BY <2>1 DEF Executes, KillIsLast, queue
<1>7. ASSUME UNCHANGED vars PROVE KillIsLast'
  BY <1>7 DEF vars, KillIsLast, queue, thread
<1> QED
  BY <1>1, <1>2, <1>3, <1>4, <1>5, <1>6, <1>7, StepKinds, CallsKeepKillLast
     DEF LoopNext, TakeAtTop, TakeAwake

\* A Commander that ended left no command behind, whatever it was given.
THEOREM NothingIsLeftBehind == Spec => []NothingLeftBehind
<1>1. Init => TypeOK /\ KillIsLast
  BY CommanderInit, KillInit
<1>2. TypeOK /\ KillIsLast /\ [Next]_vars => TypeOK' /\ KillIsLast'
  BY TypeStep, KillStep
<1>3. KillIsLast => NothingLeftBehind
  BY DEF KillIsLast, NothingLeftBehind
<1> QED
  BY <1>1, <1>2, <1>3, PTL DEF Spec

-----------------------------------------------------------------------------
(* The counter *)

LEMMA Division ==
  ASSUME NEW w \in Nat \ {0}, NEW n \in Int
  PROVE  /\ n \div w \in Int /\ n % w \in 0 .. w - 1
         /\ n = w * (n \div w) + (n % w)
OBVIOUS

LEMMA SameRemainder ==
  ASSUME NEW w \in Nat \ {0}, NEW d \in Int, NEW a \in 0 .. w - 1, NEW b \in 0 .. w - 1,
         a = w * d + b
  PROVE  a = b
<1>1. CASE d = 0
  BY <1>1
<1>2. CASE d >= 1
  <2>1. w * d >= w
    BY <1>2
  <2> QED
    BY <2>1
<1>3. CASE d <= -1
  <2>1. w * d <= -w
    BY <1>3
  <2> QED
    BY <2>1
<1> QED
  BY <1>1, <1>2, <1>3

\* It does not matter whether the counter wraps before or after.
LEMMA AddModulo ==
  ASSUME NEW w \in Nat \ {0}, NEW x \in Int, NEW y \in Int
  PROVE  ((x % w) + y) % w = (x + y) % w
<1>1. PICK p \in Int, r \in 0 .. w - 1 : r = x % w /\ x = w * p + r
  BY Division
<1>2. r + y \in Int /\ x + y \in Int
  OBVIOUS
<1>3. PICK q \in Int, s \in 0 .. w - 1 : s = (r + y) % w /\ r + y = w * q + s
  BY <1>2, Division
<1>4. PICK u \in Int, t \in 0 .. w - 1 : t = (x + y) % w /\ x + y = w * u + t
  BY <1>2, Division
<1>5. s = w * (u - p - q) + t
  BY <1>1, <1>3, <1>4
<1>6. s = t
  BY <1>5, SameRemainder
<1> QED
  BY <1>1, <1>3, <1>4, <1>6

LEMMA SmallModulo ==
  ASSUME NEW w \in Nat \ {0}, NEW n \in 0 .. w - 1
  PROVE  n % w = n
<1>1. n \in Int
  OBVIOUS
<1>2. PICK q \in Int, r \in 0 .. w - 1 : r = n % w /\ n = w * q + r
  BY <1>1, Division
<1> QED
  BY <1>2, SameRemainder

\* What a step that is no call does to the commands that are outstanding.
LEMMA OutstandingType == TypeOK => Outstanding \in Nat
<1> SUFFICES ASSUME TypeOK PROVE Outstanding \in Nat
  OBVIOUS
<1>1. Cardinality(Syncs(todoBuffer)) \in Nat
  BY SyncsFinite DEF TypeOK
<1> QED
  BY <1>1 DEF Outstanding, Syncs

LEMMA CallsAdd ==
  ASSUME TypeOK, NEW entries, NEW waits, Puts(entries, waits)
  PROVE  /\ Cardinality(Syncs(entries)) \in Nat
         /\ Outstanding' = Outstanding + Cardinality(Syncs(entries))
<1>1. /\ entries \in Seq(Entry) /\ todoBuffer \in Seq(Entry)
      /\ todoBuffer' = todoBuffer \o entries /\ entry' = entry
      /\ worker' = IF worker = "asleep" THEN "test" ELSE worker
  BY DEF Puts, Push, TypeOK
<1>2. Cardinality(Syncs(todoBuffer')) = Cardinality(Syncs(todoBuffer)) + Cardinality(Syncs(entries))
  BY <1>1, SyncsConcat
<1>3. Cardinality(Syncs(todoBuffer)) \in Nat /\ Cardinality(Syncs(entries)) \in Nat
  BY <1>1, SyncsFinite
<1>4. Busy' <=> Busy
  BY <1>1 DEF Busy
<1>5. PICK b \in {0, 1} : b = IF Busy /\ entry.sync THEN 1 ELSE 0
  OBVIOUS
<1>6. Outstanding = Cardinality(Syncs(todoBuffer)) + b
  BY <1>5 DEF Outstanding, Syncs
<1>7. Outstanding' = Cardinality(Syncs(todoBuffer')) + b
  BY <1>1, <1>4, <1>5 DEF Outstanding, Syncs
<1> QED
  BY <1>2, <1>3, <1>6, <1>7

LEMMA TakeKeeps ==
  ASSUME TypeOK, Take, worker \in {"top", "lock"} PROVE Outstanding' = Outstanding
<1>1. PICK q \in Seq(Entry) : q = todoBuffer /\ q # <<>>
  BY DEF Take, TypeOK
<1>2. /\ Head(q) \in Entry /\ Tail(q) \in Seq(Entry) /\ q = <<Head(q)>> \o Tail(q)
      /\ <<Head(q)>> \in Seq(Entry)
  BY <1>1, HeadTailProperties
<1>3. Cardinality(Syncs(q))
        = Cardinality(Syncs(<<Head(q)>>)) + Cardinality(Syncs(Tail(q)))
  BY <1>2, SyncsConcat
<1>4. Cardinality(Syncs(<<Head(q)>>)) = IF Head(q).sync THEN 1 ELSE 0
  BY <1>2, SyncsSingle
<1>5. Cardinality(Syncs(Tail(q))) \in Nat
  BY <1>2, SyncsFinite
<1>6. /\ todoBuffer' = Tail(q) /\ entry' = Head(q) /\ worker' = "execute"
  BY <1>1 DEF Take
<1>7. ~Busy /\ Busy'
  BY <1>6 DEF Busy
<1>8. Cardinality(Syncs(q)) = Cardinality(Syncs(Tail(q))) + (IF Head(q).sync THEN 1 ELSE 0)
  BY <1>3, <1>4, <1>5
<1>9. Outstanding = Cardinality(Syncs(q)) + 0
  BY <1>1, <1>7 DEF Outstanding, Syncs
<1>10. Outstanding' = Cardinality(Syncs(Tail(q))) + (IF Head(q).sync THEN 1 ELSE 0)
  BY <1>6, <1>7 DEF Outstanding, Syncs
<1> QED
  BY <1>5, <1>8, <1>9, <1>10

LEMMA CountTakesOff ==
  ASSUME TypeOK, Count
  PROVE  Outstanding' = Outstanding - (IF entry.sync THEN 1 ELSE 0)
<1>1. Busy /\ ~Busy' /\ todoBuffer' = todoBuffer /\ entry' = entry
  BY DEF Count, Busy, queue
<1>2. Cardinality(Syncs(todoBuffer)) \in Nat
  BY SyncsFinite DEF TypeOK
<1> QED
  BY <1>1, <1>2 DEF Outstanding, Syncs

\* The steps that are neither a call, nor take a command, nor count one off.
Others ==
  \/ WaitingNext
  \/ FindsNothing \/ SeesCommands \/ SeesNoCommands \/ WorkerSleeps
  \/ WorkerWakes \/ Unlock \/ AwakeForNothing \/ Notify
  \/ Execute

LEMMA OthersKeep ==
  ASSUME Others
  PROVE  /\ Outstanding' = Outstanding
         /\ UNCHANGED <<todoBuffer, numSynchronousCommands, asked, acidCalls, calls, ending>>
<1>1. ASSUME UNCHANGED <<todoBuffer, entry>>, Busy' <=> Busy PROVE Outstanding' = Outstanding
  BY <1>1 DEF Outstanding
<1>2. CASE WaitingNext
  <2>1. /\ UNCHANGED <<queue, thread, numSynchronousCommands, asked, acidCalls, calls, ending>>
    BY <1>2 DEF WaitingNext, CallerReturns, CallerDrowses, CallerSleeps, CallerWakes, Join,
       CallerMoves
  <2>2. UNCHANGED <<todoBuffer, entry, worker>>
    BY <2>1 DEF queue, thread
  <2> QED
    BY <1>1, <2>1, <2>2 DEF Busy
<1>3. CASE SeesCommands \/ SeesNoCommands \/ WorkerWakes \/ AwakeForNothing \/ FindsNothing
           \/ WorkerSleeps \/ Unlock
  BY <1>1, <1>3 DEF SeesCommands, SeesNoCommands, WorkerWakes, AwakeForNothing, FindsNothing,
     WorkerSleeps, Unlock, WorkerMoves, Busy
<1>4. CASE Notify
  BY <1>1, <1>4 DEF Notify, queue, Busy
<1>5. CASE Execute
  <2>1. Executes /\ worker' = "count"
    BY <1>5 DEF Execute, ExecuteDo, ExecuteRefused, ExecuteRollback, RollbackFails,
       ExecuteUndone, ExecuteUndoThrows, ExecuteUndoRefused, ExecuteUndo, ExecuteRedo,
       ExecuteNothing
  <2> QED
    BY <1>1, <2>1 DEF Executes, queue, Busy
<1> QED
  BY <1>2, <1>3, <1>4, <1>5 DEF Others

LEMMA Steps ==
  [Next]_vars => \/ Asks
                 \/ Take /\ worker \in {"top", "lock"}
                 \/ Count
                 \/ Others
                 \/ UNCHANGED vars
BY StepKinds DEF LoopNext, Others, TakeAtTop, TakeAwake

LEMMA CountsInit == Init => Outstanding = 0 /\ CountsOutstanding
<1> SUFFICES ASSUME Init PROVE Outstanding = 0 /\ CountsOutstanding
  OBVIOUS
<1>1. Outstanding = 0
  BY SyncsNone DEF Init, Outstanding, Syncs, Busy
<1>2. 0 \in 0 .. Width - 1 /\ Width \in Nat \ {0}
  BY CommanderAssumption
<1>3. 0 % Width = 0
  BY <1>2, SmallModulo
<1>4. acidCalls.waited = 0 /\ acidCalls.async = 0 /\ numSynchronousCommands = 0
  BY DEF Init
<1>5. Outstanding + (acidCalls.waited - acidCalls.async) = 0
  BY <1>1, <1>4
<1> QED
  BY <1>1, <1>3, <1>4, <1>5 DEF CountsOutstanding

\* What is counted, before it wraps.
Balance == Outstanding + AcidDebt

LEMMA CountsBalance ==
  TypeOK => /\ Balance \in Int
            /\ CountsOutstanding <=> numSynchronousCommands = Balance % Width
<1> SUFFICES ASSUME TypeOK
             PROVE  /\ Balance \in Int
                    /\ CountsOutstanding <=> numSynchronousCommands = Balance % Width
  OBVIOUS
<1>1. Outstanding \in Nat /\ acidCalls.waited \in Nat /\ acidCalls.async \in Nat
  BY OutstandingType DEF TypeOK
<1>2. Outstanding + (acidCalls.waited - acidCalls.async) = Balance /\ Balance \in Int
  BY <1>1 DEF Balance, AcidDebt
<1> QED
  BY <1>2 DEF CountsOutstanding

LEMMA CountsBalanceNext ==
  ASSUME TypeOK'
  PROVE  /\ Balance' \in Int
         /\ CountsOutstanding' <=> numSynchronousCommands' = Balance' % Width
<1>1. acidCalls'.waited \in Nat /\ acidCalls'.async \in Nat
  BY DEF TypeOK
<1>2. Outstanding' \in Nat
  <2>1. Cardinality(Syncs(todoBuffer')) \in Nat
    BY SyncsFinite DEF TypeOK
  <2> QED
    BY <2>1 DEF Outstanding, Syncs
<1>3. /\ Outstanding' + (acidCalls'.waited - acidCalls'.async) = Balance'
      /\ Balance' \in Int
  BY <1>1, <1>2 DEF Balance, AcidDebt
<1> QED
  BY <1>3 DEF CountsOutstanding

LEMMA CountsStep == TypeOK /\ CountsOutstanding /\ [Next]_vars => CountsOutstanding'
<1> SUFFICES ASSUME TypeOK, CountsOutstanding, [Next]_vars PROVE CountsOutstanding'
  OBVIOUS
<1>1. TypeOK'
  BY TypeStep
<1>2. Balance \in Int /\ numSynchronousCommands = Balance % Width
  BY CountsBalance
<1>3. Balance' \in Int /\ (CountsOutstanding' <=> numSynchronousCommands' = Balance' % Width)
  BY <1>1, CountsBalanceNext
<1>4. Outstanding \in Nat /\ AcidDebt \in Int /\ Width \in Nat \ {0}
  BY OutstandingType, AcidDebtType, CommanderAssumption DEF TypeOK
<1>5. ASSUME NEW d \in Int, Balance' = Balance + d,
             numSynchronousCommands' = (numSynchronousCommands + d) % Width
      PROVE  CountsOutstanding'
  BY <1>2, <1>3, <1>4, <1>5, AddModulo
<1>6. ASSUME Balance' = Balance, UNCHANGED numSynchronousCommands PROVE CountsOutstanding'
  BY <1>2, <1>3, <1>6
<1>7. CASE Asks
  <2>1. PICK entries, waits : Puts(entries, waits)
    BY <1>7, CallsPut DEF CallPuts
  <2>2. /\ Cardinality(Syncs(entries)) \in Nat
        /\ Outstanding' = Outstanding + Cardinality(Syncs(entries))
    BY <2>1, CallsAdd
  <2>3. /\ waits \in Nat /\ waits = Cardinality(Syncs(entries)) + (AcidDebt' - AcidDebt)
        /\ numSynchronousCommands' = (numSynchronousCommands + waits) % Width
    BY <2>1 DEF Puts, Push
  <2>4. AcidDebt' \in Int
    BY <1>1, AcidDebtType DEF TypeOK, AcidDebt
  <2>5. Balance' = Balance + waits
    BY <1>4, <2>2, <2>3, <2>4 DEF Balance
  <2> QED
    BY <1>5, <2>3, <2>5
<1>8. CASE Take /\ worker \in {"top", "lock"}
  <2>1. Outstanding' = Outstanding
    BY <1>8, TakeKeeps
  <2>2. AcidDebt' = AcidDebt /\ UNCHANGED numSynchronousCommands
    BY <1>8 DEF Take, AcidDebt
  <2> QED
    BY <1>6, <2>1, <2>2 DEF Balance
<1>9. CASE Count
  <2>1. Outstanding' = Outstanding - (IF entry.sync THEN 1 ELSE 0)
    BY <1>9, CountTakesOff
  <2>2. AcidDebt' = AcidDebt
    BY <1>9 DEF Count, AcidDebt
  <2>3. CASE entry.sync
    <3>1. Balance' = Balance + (-1)
      BY <1>4, <2>1, <2>2, <2>3 DEF Balance
    <3>2. numSynchronousCommands' = (numSynchronousCommands + (-1)) % Width
      BY <1>9, <2>3 DEF Count, TypeOK
    <3>3. -1 \in Int
      OBVIOUS
    <3> QED
      BY <1>5, <3>1, <3>2, <3>3
  <2>4. CASE ~entry.sync
    <3>1. Balance' = Balance
      BY <1>4, <2>1, <2>2, <2>4 DEF Balance
    <3> QED
      BY <1>6, <1>9, <2>4, <3>1 DEF Count
  <2> QED
    BY <2>3, <2>4
<1>10. CASE Others
  <2>1. UNCHANGED <<acidCalls, numSynchronousCommands>> /\ Outstanding' = Outstanding
    BY <1>10, OthersKeep
  <2>2. AcidDebt' = AcidDebt
    BY <2>1 DEF AcidDebt
  <2> QED
    BY <1>6, <2>1, <2>2 DEF Balance
<1>11. CASE UNCHANGED vars
  BY <1>11 DEF vars, queue, thread, CountsOutstanding, Outstanding, Busy
<1> QED
  BY <1>7, <1>8, <1>9, <1>10, <1>11, Steps

\* The counter is what is outstanding and what DoAcid got wrong, for a counter of any
\* width.
THEOREM AlwaysCountsOutstanding == Spec => []CountsOutstanding
<1>1. Init => TypeOK /\ CountsOutstanding
  BY CommanderInit, CountsInit
<1>2. TypeOK /\ CountsOutstanding /\ [Next]_vars => TypeOK' /\ CountsOutstanding'
  BY TypeStep, CountsStep
<1> QED
  BY <1>1, <1>2, PTL DEF Spec

\* No call has more than two synchronous commands here, and End has one.
FewOutstanding == Outstanding <= 2 * calls + (IF ending THEN 1 ELSE 0)

LEMMA FewStep == TypeOK /\ FewOutstanding /\ [Next]_vars => FewOutstanding'
<1> SUFFICES ASSUME TypeOK, FewOutstanding, [Next]_vars PROVE FewOutstanding'
  OBVIOUS
<1>1. Outstanding \in Nat /\ calls \in Nat
  BY OutstandingType, CommanderAssumption DEF TypeOK
<1>2. CASE Asks
  <2>1. CallPuts
    BY <1>2, CallsPut
  <2>2. PICK entries, waits : Puts(entries, waits)
    BY <2>1 DEF CallPuts
  <2>3. /\ Cardinality(Syncs(entries)) \in Nat
        /\ Outstanding' = Outstanding + Cardinality(Syncs(entries))
    BY <2>2, CallsAdd
  <2>4. \/ calls' = calls + 1 /\ ending' = ending /\ Cardinality(Syncs(entries)) <= 2
        \/ calls' = calls /\ ending' /\ Cardinality(Syncs(entries)) <= 1
    BY <2>2 DEF Puts
  <2>5. ~ending /\ Outstanding <= 2 * calls
    BY <1>1, <2>1 DEF CallPuts, FewOutstanding
  <2>6. CASE calls' = calls + 1 /\ ending' = ending /\ Cardinality(Syncs(entries)) <= 2
    <3>1. ~ending' /\ Outstanding' <= 2 * calls'
      BY <1>1, <2>3, <2>5, <2>6
    <3> QED
      BY <1>1, <2>3, <2>6, <3>1 DEF FewOutstanding
  <2>7. CASE calls' = calls /\ ending' /\ Cardinality(Syncs(entries)) <= 1
    <3>1. Outstanding' <= 2 * calls' + 1
      BY <1>1, <2>3, <2>5, <2>7
    <3> QED
      BY <2>7, <3>1 DEF FewOutstanding
  <2> QED
    BY <2>4, <2>6, <2>7
<1>3. CASE Take /\ worker \in {"top", "lock"}
  <2>1. Outstanding' = Outstanding /\ UNCHANGED <<calls, ending>>
    BY <1>3, TakeKeeps DEF Take
  <2> QED
    BY <2>1 DEF FewOutstanding
<1>4. CASE Count
  <2>1. Outstanding' <= Outstanding /\ Outstanding' \in Int /\ UNCHANGED <<calls, ending>>
    BY <1>1, <1>4, CountTakesOff DEF Count
  <2>2. PICK b \in {0, 1} : b = IF ending THEN 1 ELSE 0
    OBVIOUS
  <2>3. Outstanding' <= 2 * calls + b
    BY <1>1, <2>1, <2>2 DEF FewOutstanding
  <2> QED
    BY <2>1, <2>2, <2>3 DEF FewOutstanding
<1>5. CASE Others
  <2>1. Outstanding' = Outstanding /\ UNCHANGED <<calls, ending>>
    BY <1>5, OthersKeep
  <2> QED
    BY <2>1 DEF FewOutstanding
<1>6. CASE UNCHANGED vars
  BY <1>6 DEF vars, queue, thread, FewOutstanding, Outstanding, Busy
<1> QED
  BY <1>2, <1>3, <1>4, <1>5, <1>6, Steps

\* With a counter that is wide enough, nothing counted is nothing outstanding.
LEMMA NothingCounted ==
  ASSUME 2 * MaxCalls + 1 < Width, TypeOK, CountsOutstanding, FewOutstanding,
         NoAcidCalls, numSynchronousCommands = 0
  PROVE  Outstanding = 0
<1>1. /\ Outstanding \in Nat /\ calls \in Nat /\ calls <= MaxCalls
      /\ MaxCalls \in Nat /\ Width \in Nat \ {0}
  BY OutstandingType, CommanderAssumption DEF TypeOK
<1>2. PICK b \in {0, 1} : b = IF ending THEN 1 ELSE 0
  OBVIOUS
<1>3. Outstanding <= 2 * calls + b
  BY <1>2 DEF FewOutstanding
<1>4. Outstanding \in 0 .. Width - 1
  BY <1>1, <1>3
<1>5. Outstanding % Width = Outstanding
  BY <1>1, <1>4, SmallModulo
<1>6. Outstanding + (acidCalls.waited - acidCalls.async) = Outstanding
  BY <1>1 DEF NoAcidCalls
<1> QED
  BY <1>5, <1>6 DEF CountsOutstanding

LEMMA OnlyReturns ==
  ASSUME TypeOK, [Next]_vars, caller = "test", caller' \notin Waiting
  PROVE  numSynchronousCommands = 0
<1>1. CASE Asks
  BY <1>1, CallsPut DEF CallPuts, Waiting
<1>2. CASE WaitingNext
  BY <1>2 DEF WaitingNext, CallerReturns, CallerDrowses, CallerSleeps, CallerWakes, Join,
     CallerMoves, Waiting
<1>3. CASE LoopNext
  BY <1>3 DEF LoopNext, TakeAtTop, TakeAwake, Take, FindsNothing, SeesCommands,
     SeesNoCommands, WorkerSleeps, WorkerWakes, Unlock, AwakeForNothing, WorkerMoves, Count,
     Notify, Waiting
<1>4. CASE Execute
  BY <1>4 DEF Execute, ExecuteDo, ExecuteRefused, ExecuteRollback, RollbackFails,
     ExecuteUndone, ExecuteUndoThrows, ExecuteUndoRefused, ExecuteUndo, ExecuteRedo,
     ExecuteNothing, Executes, Waiting
<1>5. CASE UNCHANGED vars
  BY <1>5 DEF vars, Waiting
<1> QED
  BY <1>1, <1>2, <1>3, <1>4, <1>5, StepKinds

\* A call that waits returns when its commands were executed, as long as the counter
\* cannot wrap and DoAcid is not called.
THEOREM AlwaysReturnsWhenDone ==
  ASSUME 2 * MaxCalls + 1 < Width
  PROVE  Spec => ReturnsWhenDone
<1>1. Init => TypeOK /\ CountsOutstanding /\ FewOutstanding
  <2>1. Init => Outstanding = 0 /\ ~ending /\ calls = 0
    BY CountsInit DEF Init
  <2> QED
    BY <2>1, CommanderInit, CountsInit DEF FewOutstanding
<1>2. TypeOK /\ CountsOutstanding /\ FewOutstanding /\ [Next]_vars
        => TypeOK' /\ CountsOutstanding' /\ FewOutstanding'
  BY TypeStep, CountsStep, FewStep
<1>3. TypeOK /\ CountsOutstanding /\ FewOutstanding /\ [Next]_vars
        => (caller = "test" /\ caller' \notin Waiting /\ NoAcidCalls => Outstanding = 0)
  BY NothingCounted, OnlyReturns
<1> QED
  BY <1>1, <1>2, <1>3, PTL DEF Spec, ReturnsWhenDone

-----------------------------------------------------------------------------
(* What an undo undoes *)

\* A caller that does not wait has nothing that is counted in the queue.
FreeHasNothing == NoAcidCalls /\ caller = "free" => Outstanding = 0

LEMMA NothingOutstanding ==
  ASSUME TypeOK, Outstanding = 0
  PROVE  /\ \A i \in DOMAIN todoBuffer : ~todoBuffer[i].sync
         /\ Busy => ~entry.sync
<1>1. IsFiniteSet(Syncs(todoBuffer)) /\ Cardinality(Syncs(todoBuffer)) \in Nat
  BY SyncsFinite DEF TypeOK
<1>2. PICK b \in {0, 1} : b = IF Busy /\ entry.sync THEN 1 ELSE 0
  OBVIOUS
<1>3. Cardinality(Syncs(todoBuffer)) + b = 0
  BY <1>2 DEF Outstanding, Syncs
<1>4. Cardinality(Syncs(todoBuffer)) = 0 /\ b = 0
  BY <1>1, <1>3
<1>5. Syncs(todoBuffer) = {}
  BY <1>1, <1>4, FS_EmptySet
<1> QED
  BY <1>2, <1>4, <1>5 DEF Syncs

LEMMA OthersFree ==
  ASSUME Others, caller' = "free" PROVE caller = "free" \/ numSynchronousCommands = 0
<1>1. CASE WaitingNext
  BY <1>1 DEF WaitingNext, CallerReturns, CallerDrowses, CallerSleeps, CallerWakes, Join,
     CallerMoves
<1>2. CASE SeesCommands \/ SeesNoCommands \/ WorkerWakes \/ AwakeForNothing \/ FindsNothing
           \/ WorkerSleeps \/ Unlock
  BY <1>2 DEF SeesCommands, SeesNoCommands, WorkerWakes, AwakeForNothing, FindsNothing,
     WorkerSleeps, Unlock, WorkerMoves
<1>3. CASE Notify
  BY <1>3 DEF Notify
<1>4. CASE Execute
  BY <1>4 DEF Execute, ExecuteDo, ExecuteRefused, ExecuteRollback, RollbackFails,
     ExecuteUndone, ExecuteUndoThrows, ExecuteUndoRefused, ExecuteUndo, ExecuteRedo,
     ExecuteNothing, Executes
<1> QED
  BY <1>1, <1>2, <1>3, <1>4 DEF Others

LEMMA FreeStep ==
  ASSUME 2 * MaxCalls + 1 < Width, TypeOK, CountsOutstanding, FewOutstanding,
         FreeHasNothing, [Next]_vars
  PROVE  FreeHasNothing'
<1> SUFFICES ASSUME NoAcidCalls', caller' = "free" PROVE Outstanding' = 0
  BY DEF FreeHasNothing
<1>1. CASE Asks
  <2>1. CallPuts
    BY <1>1, CallsPut
  <2>2. PICK entries, waits : Puts(entries, waits)
    BY <2>1 DEF CallPuts
  <2>3. Outstanding' = Outstanding + Cardinality(Syncs(entries))
    BY <2>2, CallsAdd
  <2>4. Outstanding = 0 /\ Cardinality(Syncs(entries)) = 0
    BY <2>1, <2>2 DEF CallPuts, Puts, FreeHasNothing
  <2> QED
    BY <2>3, <2>4
<1>2. ASSUME UNCHANGED <<acidCalls, caller>> PROVE Outstanding = 0
  BY <1>2 DEF FreeHasNothing, NoAcidCalls
<1>3. CASE Take /\ worker \in {"top", "lock"}
  BY <1>2, <1>3, TakeKeeps DEF Take
<1>4. CASE Count
  <2>1. Outstanding = 0 /\ Busy
    BY <1>2, <1>4 DEF Count, Busy
  <2>2. ~entry.sync
    BY <2>1, NothingOutstanding
  <2>3. Outstanding' = Outstanding - (IF entry.sync THEN 1 ELSE 0)
    BY <1>4, CountTakesOff
  <2>4. Outstanding' = 0 - 0
    BY <2>1, <2>2, <2>3
  <2> QED
    BY <2>4
<1>5. CASE Others
  <2>1. Outstanding' = Outstanding /\ NoAcidCalls
    BY <1>5, OthersKeep DEF NoAcidCalls
  <2>2. CASE caller = "free"
    BY <2>1, <2>2 DEF FreeHasNothing
  <2>3. CASE numSynchronousCommands = 0
    BY <2>1, <2>3, NothingCounted
  <2> QED
    BY <1>5, <2>2, <2>3, OthersFree
<1>6. CASE UNCHANGED vars
  BY <1>2, <1>6 DEF vars, queue, thread, Outstanding, Busy
<1> QED
  BY <1>1, <1>3, <1>4, <1>5, <1>6, Steps

RightlyAsked(e) ==
  /\ e.kind = "undo" => e.asked = undoType
  /\ e.kind = "redo" => e.asked = redoType

AllRightlyAsked ==
  /\ \A i \in DOMAIN todoBuffer : RightlyAsked(todoBuffer[i])
  /\ worker = "execute" => RightlyAsked(entry)

LEMMA AskedStep ==
  ASSUME TypeOK, FreeHasNothing, NoAcidCalls => AllRightlyAsked, [Next]_vars
  PROVE  NoAcidCalls' => AllRightlyAsked'
<1> SUFFICES ASSUME NoAcidCalls' PROVE AllRightlyAsked'
  OBVIOUS
<1>1. CASE Asks
  <2>1. CallPuts
    BY <1>1, CallsPut
  <2>2. PICK entries, waits : Puts(entries, waits)
    BY <2>1 DEF CallPuts
  <2>3. /\ todoBuffer \in Seq(Entry) /\ entries \in Seq(Entry)
        /\ todoBuffer' = todoBuffer \o entries /\ entry' = entry
        /\ worker' = IF worker = "asleep" THEN "test" ELSE worker
    BY <2>2 DEF Puts, Push, TypeOK
  <2>4. NoAcidCalls /\ AllRightlyAsked
    BY <2>1 DEF CallPuts
  <2>5. ASSUME NEW e \in Entry, RightlyAsked(e), caller = "free" => ~e.sync
        PROVE  AskedThen(e)
    <3>1. CASE UNCHANGED asked
      BY <2>5, <3>1 DEF RightlyAsked, AskedThen, asked
    <3>2. CASE caller = "free"
      <4>1. e.kind \notin {"undo", "redo"}
        BY <2>5, <3>2 DEF Entry
      <4> QED
        BY <4>1 DEF AskedThen
    <3> QED
      BY <2>1, <3>1, <3>2 DEF CallPuts
  <2>6. /\ caller = "free" => \A i \in DOMAIN todoBuffer : ~todoBuffer[i].sync
        /\ caller = "free" /\ worker = "execute" => ~entry.sync
    BY <2>4, NothingOutstanding DEF FreeHasNothing, Busy
  <2>7. ASSUME NEW i \in DOMAIN todoBuffer' PROVE AskedThen(todoBuffer'[i])
    <3>1. /\ Len(todoBuffer) \in Nat /\ Len(entries) \in Nat
          /\ Len(todoBuffer') = Len(todoBuffer) + Len(entries)
          /\ DOMAIN todoBuffer = 1 .. Len(todoBuffer) /\ DOMAIN entries = 1 .. Len(entries)
          /\ DOMAIN todoBuffer' = 1 .. Len(todoBuffer')
      <4>1. todoBuffer' \in Seq(Entry) /\ Len(todoBuffer') = Len(todoBuffer) + Len(entries)
        BY <2>3, ConcatProperties
      <4> QED
        BY <2>3, <4>1, LenProperties
    <3>2. todoBuffer'[i] = IF i <= Len(todoBuffer) THEN todoBuffer[i]
                                                ELSE entries[i - Len(todoBuffer)]
      BY <2>3, <3>1, ConcatProperties
    <3>3. CASE i <= Len(todoBuffer)
      <4>1. i \in DOMAIN todoBuffer /\ todoBuffer[i] \in Entry
        BY <2>3, <3>1, <3>3, ElementOfSeq
      <4>2. PICK e \in Entry : e = todoBuffer[i]
        BY <4>1
      <4>3. RightlyAsked(e) /\ (caller = "free" => ~e.sync)
        BY <2>4, <2>6, <4>1, <4>2 DEF AllRightlyAsked
      <4>4. AskedThen(e)
        BY <2>5, <4>3
      <4> QED
        BY <3>2, <3>3, <4>2, <4>4
    <3>4. CASE ~(i <= Len(todoBuffer))
      <4>1. i - Len(todoBuffer) \in DOMAIN entries
        BY <3>1, <3>4
      <4>2. \A k \in DOMAIN entries : AskedThen(entries[k])
        BY <2>2 DEF Puts
      <4>3. AskedThen(entries[i - Len(todoBuffer)])
        BY <4>1, <4>2
      <4> QED
        BY <3>2, <3>4, <4>3
    <3> QED
      BY <3>3, <3>4
  <2>8. ASSUME worker' = "execute" PROVE AskedThen(entry')
    <3>1. PICK e \in Entry : e = entry
      BY DEF TypeOK
    <3>2. worker = "execute"
      BY <2>3, <2>8
    <3>3. RightlyAsked(e) /\ (caller = "free" => ~e.sync)
      BY <2>4, <2>6, <3>1, <3>2 DEF AllRightlyAsked
    <3>4. AskedThen(e)
      BY <2>5, <3>3
    <3> QED
      BY <2>3, <3>1, <3>4
  <2> QED
    BY <2>7, <2>8 DEF AllRightlyAsked, RightlyAsked, AskedThen
<1>2. ASSUME UNCHANGED <<acidCalls, asked>>
      PROVE  AllRightlyAsked
  BY <1>2 DEF NoAcidCalls
<1>3. CASE Take /\ worker \in {"top", "lock"}
  <2>1. PICK q \in Seq(Entry) : q = todoBuffer /\ q # <<>>
    BY <1>3 DEF Take, TypeOK
  <2>2. /\ Head(q) = q[1] /\ Tail(q) \in Seq(Entry) /\ Len(Tail(q)) = Len(q) - 1
        /\ \A i \in 1 .. Len(Tail(q)) : Tail(q)[i] = q[i + 1]
    BY <2>1, HeadTailProperties
  <2>3. /\ Len(q) \in Nat /\ Len(q) >= 1 /\ DOMAIN q = 1 .. Len(q)
        /\ DOMAIN Tail(q) = 1 .. Len(Tail(q))
    BY <2>1, <2>2, EmptySeq, LenProperties
  <2>4. /\ UNCHANGED <<acidCalls, asked>>
        /\ todoBuffer' = Tail(q) /\ entry' = q[1]
    BY <1>3, <2>1, <2>2 DEF Take
  <2>5. \A i \in DOMAIN q : RightlyAsked(q[i])
    BY <1>2, <2>1, <2>4 DEF AllRightlyAsked
  <2>6. /\ \A i \in DOMAIN Tail(q) : i + 1 \in DOMAIN q
        /\ 1 \in DOMAIN q
    BY <2>2, <2>3
  <2>7. \A i \in DOMAIN Tail(q) : RightlyAsked(Tail(q)[i])
    BY <2>2, <2>3, <2>5, <2>6
  <2>8. UNCHANGED <<undoType, redoType>>
    BY <2>4 DEF asked
  <2> QED
    BY <2>4, <2>5, <2>6, <2>7, <2>8 DEF AllRightlyAsked, RightlyAsked
<1>4. ASSUME UNCHANGED <<acidCalls, asked, todoBuffer, entry>>,
             worker' = "execute" => worker = "execute"
      PROVE  AllRightlyAsked'
  <2>1. AllRightlyAsked /\ UNCHANGED <<undoType, redoType>>
    BY <1>2, <1>4 DEF asked
  <2> QED
    BY <1>4, <2>1 DEF AllRightlyAsked, RightlyAsked
<1>5. CASE Count
  BY <1>4, <1>5 DEF Count, queue
<1>6. CASE WaitingNext
  <2>1. UNCHANGED <<queue, thread, asked, acidCalls>>
    BY <1>6 DEF WaitingNext, CallerReturns, CallerDrowses, CallerSleeps, CallerWakes, Join,
       CallerMoves
  <2> QED
    BY <1>4, <2>1 DEF queue, thread
<1>7. CASE SeesCommands \/ SeesNoCommands \/ WorkerWakes \/ AwakeForNothing \/ FindsNothing
           \/ WorkerSleeps \/ Unlock
  BY <1>4, <1>7 DEF SeesCommands, SeesNoCommands, WorkerWakes, AwakeForNothing, FindsNothing,
     WorkerSleeps, Unlock, WorkerMoves
<1>8. CASE Notify
  BY <1>4, <1>8 DEF Notify, queue
<1>9. CASE Execute
  <2>1. Executes /\ worker' = "count"
    BY <1>9 DEF Execute, ExecuteDo, ExecuteRefused, ExecuteRollback, RollbackFails,
       ExecuteUndone, ExecuteUndoThrows, ExecuteUndoRefused, ExecuteUndo, ExecuteRedo,
       ExecuteNothing
  <2> QED
    BY <1>4, <2>1 DEF Executes, queue
<1>10. CASE UNCHANGED vars
  BY <1>4, <1>10 DEF vars, queue, thread
<1> QED
  BY <1>1, <1>3, <1>5, <1>6, <1>7, <1>8, <1>9, <1>10, Steps DEF Others

\* The type in the object that all calls of Undo share, and the one for Redo, are those
\* the caller whose command is executed asked for.
THEOREM AlwaysUndoesWhatWasAsked ==
  ASSUME 2 * MaxCalls + 1 < Width
  PROVE  Spec => []UndoesWhatWasAsked
<1> DEFINE IInv == /\ TypeOK /\ CountsOutstanding /\ FewOutstanding
                  /\ FreeHasNothing /\ (NoAcidCalls => AllRightlyAsked)
<1>1. Init => IInv
  <2>1. Init => Outstanding = 0 /\ ~ending /\ calls = 0 /\ AllRightlyAsked
    BY CountsInit DEF Init, AllRightlyAsked
  <2> QED
    BY <2>1, CommanderInit, CountsInit DEF FewOutstanding, FreeHasNothing
<1>2. IInv /\ [Next]_vars => IInv'
  <2>1. ASSUME IInv, [Next]_vars PROVE TypeOK' /\ CountsOutstanding' /\ FewOutstanding'
    BY <2>1, TypeStep, CountsStep, FewStep
  <2>2. ASSUME IInv, [Next]_vars PROVE FreeHasNothing'
    BY <2>2, FreeStep
  <2>3. ASSUME IInv, [Next]_vars PROVE NoAcidCalls' => AllRightlyAsked'
    BY <2>3, AskedStep
  <2> QED
    BY <2>1, <2>2, <2>3
<1>3. IInv => UndoesWhatWasAsked
  BY DEF UndoesWhatWasAsked, AllRightlyAsked, RightlyAsked
<1> HIDE DEF IInv
<1> QED
  BY <1>1, <1>2, <1>3, PTL DEF Spec

-----------------------------------------------------------------------------
(* One line of commands *)

LEMMA LineDone ==
  ASSUME NEW a \in Seq(Commands), NEW b \in Seq(Commands), NEW c
  PROVE  Append(a, c) \o <<>> = Append(SubSeq(a \o b, 1, Len(a)), c)
<1>1. SubSeq(a \o b, 1, Len(a)) = a
  OBVIOUS
<1> QED
  BY <1>1

LEMMA LineUndone ==
  ASSUME NEW a \in Seq(Commands), NEW b \in Seq(Commands), a # <<>>
  PROVE  /\ SubSeq(a, 1, Len(a) - 1) \o (<<a[Len(a)]>> \o b) = a \o b
         /\ Len(SubSeq(a, 1, Len(a) - 1)) = Len(a) - 1
         /\ Len(a) > 0
<1>1. Len(a) \in Nat /\ Len(a) > 0
  BY EmptySeq
<1>2. a[Len(a)] \in Commands /\ SubSeq(a, 1, Len(a) - 1) \in Seq(Commands)
  BY <1>1, ElementOfSeq
<1>3. a = SubSeq(a, 1, Len(a) - 1) \o <<a[Len(a)]>>
  BY <1>1
<1>4. Len(SubSeq(a, 1, Len(a) - 1)) = Len(a) - 1
  <2>1. PICK n \in Nat : n = Len(a) - 1
    BY <1>1
  <2>2. Len(SubSeq(a, 1, n)) = n
    BY <1>1, <2>1
  <2> QED
    BY <2>1, <2>2
<1>5. \A x, y, z \in Seq(Commands) : (x \o y) \o z = x \o (y \o z)
  OBVIOUS
<1>6. <<a[Len(a)]>> \in Seq(Commands)
  BY <1>2
<1>7. SubSeq(a, 1, Len(a) - 1) \o (<<a[Len(a)]>> \o b)
        = (SubSeq(a, 1, Len(a) - 1) \o <<a[Len(a)]>>) \o b
  BY <1>2, <1>5, <1>6
<1> QED
  BY <1>1, <1>3, <1>4, <1>7

LEMMA LineRedone ==
  ASSUME NEW a \in Seq(Commands), NEW b \in Seq(Commands), b # <<>>
  PROVE  /\ Append(a, Head(b)) \o Tail(b) = a \o b
         /\ Len(Append(a, Head(b))) = Len(a) + 1
         /\ Len(a) < Len(a \o b)
<1>1. Head(b) \in Commands /\ Tail(b) \in Seq(Commands) /\ Len(b) > 0 /\ Len(b) \in Nat /\ Len(a) \in Nat
  BY HeadTailProperties, EmptySeq
<1>2. b = <<Head(b)>> \o Tail(b) /\ <<Head(b)>> \in Seq(Commands)
  BY <1>1
<1>3. Append(a, Head(b)) = a \o <<Head(b)>>
  BY <1>1
<1>4. \A x, y, z \in Seq(Commands) : (x \o y) \o z = x \o (y \o z)
  OBVIOUS
<1>5. Append(a, Head(b)) \o Tail(b) = a \o b
  BY <1>1, <1>2, <1>3, <1>4
<1>6. Len(a \o b) = Len(a) + Len(b)
  BY ConcatProperties
<1> QED
  BY <1>1, <1>5, <1>6, AppendProperties

LEMMA LineDropped ==
  ASSUME NEW a \in Seq(Commands), NEW b \in Seq(Commands), a # <<>>
  PROVE  SubSeq(a, 1, Len(a) - 1) \o b
           = SubSeq(a \o b, 1, Len(a) - 1) \o SubSeq(a \o b, Len(a) + 1, Len(a \o b))
<1>1. Len(a) \in Nat /\ Len(a) > 0 /\ Len(b) \in Nat /\ a \o b \in Seq(Commands)
      /\ Len(a \o b) = Len(a) + Len(b)
  BY EmptySeq, ConcatProperties
<1>2. SubSeq(a \o b, 1, Len(a) - 1) = SubSeq(a, 1, Len(a) - 1)
  BY <1>1
<1>3. SubSeq(a \o b, Len(a) + 1, Len(a \o b)) = b
  BY <1>1
<1> QED
  BY <1>2, <1>3

\* The refinement mapping.
Line == [t \in Types |-> undoBuffers[t] \o redoBuffers[t]]
At   == [t \in Types |-> Len(undoBuffers[t])]

LEMMA HistoryInit == Init => History!Init
BY DEF Init, History!Init

\* What is done to the stacks of one type is done to its line.
LEMMA OneLine ==
  ASSUME TypeOK, NEW t \in Types,
         undoBuffers' = [undoBuffers EXCEPT ![t] = undoBuffers'[t]],
         redoBuffers' = [redoBuffers EXCEPT ![t] = redoBuffers'[t]]
  PROVE  /\ Line' = [Line EXCEPT ![t] = undoBuffers'[t] \o redoBuffers'[t]]
         /\ At' = [At EXCEPT ![t] = Len(undoBuffers'[t])]
<1>1. \A u \in Types \ {t} : undoBuffers'[u] = undoBuffers[u] /\ redoBuffers'[u] = redoBuffers[u]
  BY DEF TypeOK
<1> QED
  BY <1>1 DEF Line, At

LEMMA HistoryStep == TypeOK /\ [Next]_vars => [History!Next]_(History!history)
<1> SUFFICES ASSUME TypeOK, [Next]_vars PROVE [History!Next]_(History!history)
  OBVIOUS
<1>1. ASSUME UNCHANGED stacks PROVE UNCHANGED History!history
  BY <1>1 DEF stacks, History!history
<1>2. CASE Asks
  <2>1. PICK entries, waits : Puts(entries, waits)
    BY <1>2, CallsPut DEF CallPuts
  <2> QED
    BY <1>1, <2>1 DEF Puts, Push
<1>3. CASE WaitingNext
  BY <1>1, <1>3 DEF WaitingNext, CallerReturns, CallerDrowses, CallerSleeps, CallerWakes, Join,
     CallerMoves
<1>4. CASE LoopNext
  BY <1>1, <1>4 DEF LoopNext, TakeAtTop, TakeAwake, Take, FindsNothing, SeesCommands,
     SeesNoCommands, WorkerSleeps, WorkerWakes, Unlock, AwakeForNothing, WorkerMoves, Count,
     Notify
<1>5. CASE UNCHANGED vars
  BY <1>1, <1>5 DEF vars
<1>6. CASE Execute
  <2>1. ASSUME NEW c \in Commands, NEW whole \in BOOLEAN, ExecuteDo(c, whole)
        PROVE  History!Next
    <3>1. PICK t \in Types : t = TypeOf[c]
      BY CommanderAssumption
    <3>2. /\ undoBuffers' = [undoBuffers EXCEPT ![t] = Append(undoBuffers[t], c)]
          /\ redoBuffers' = [redoBuffers EXCEPT ![t] = <<>>]
      BY <2>1, <3>1 DEF ExecuteDo, Recorded
    <3>3. undoBuffers'[t] = Append(undoBuffers[t], c) /\ redoBuffers'[t] = <<>>
      BY <3>2 DEF TypeOK
    <3>4. undoBuffers[t] \in Seq(Commands) /\ redoBuffers[t] \in Seq(Commands)
      BY DEF TypeOK
    <3>5. /\ Line' = [Line EXCEPT ![t] = Append(undoBuffers[t], c) \o <<>>]
          /\ At' = [At EXCEPT ![t] = Len(Append(undoBuffers[t], c))]
      BY <3>2, <3>3, OneLine
    <3>6. Append(undoBuffers[t], c) \o <<>> = Append(SubSeq(Line[t], 1, At[t]), c)
      BY <3>4, LineDone DEF Line, At
    <3>7. Len(Append(undoBuffers[t], c)) = At[t] + 1
      BY <3>4, AppendProperties DEF At
    <3>8. History!Done(t, c)
      BY <3>5, <3>6, <3>7 DEF History!Done, Line, At
    <3> QED
      BY <3>1, <3>8 DEF History!Next
  <2>2. ASSUME ExecuteUndo
        PROVE  /\ undoType \in Types /\ undoBuffers[undoType] # <<>>
               /\ undoBuffers[undoType] \in Seq(Commands)
               /\ redoBuffers[undoType] \in Seq(Commands)
               /\ UndoTop = undoBuffers[undoType][Len(undoBuffers[undoType])]
               /\ WithoutTop(undoBuffers[undoType])
                    = SubSeq(undoBuffers[undoType], 1, Len(undoBuffers[undoType]) - 1)
    BY <2>2 DEF TypeOK, ExecuteUndo, UndoTop, WithoutTop
  <2>3. ASSUME ExecuteUndone PROVE History!Next
    <3>1. PICK t \in Types : t = undoType
      BY DEF TypeOK
    <3>2. /\ undoBuffers' = [undoBuffers EXCEPT ![t] = WithoutTop(undoBuffers[t])]
          /\ redoBuffers' = [redoBuffers EXCEPT ![t] = <<UndoTop>> \o redoBuffers[t]]
      BY <2>3, <3>1 DEF ExecuteUndone
    <3>3. /\ undoBuffers'[t] = WithoutTop(undoBuffers[t])
          /\ redoBuffers'[t] = <<UndoTop>> \o redoBuffers[t]
      BY <3>2 DEF TypeOK
    <3>4. /\ Line' = [Line EXCEPT ![t] = WithoutTop(undoBuffers[t]) \o (<<UndoTop>> \o redoBuffers[t])]
          /\ At' = [At EXCEPT ![t] = Len(WithoutTop(undoBuffers[t]))]
      BY <3>2, <3>3, OneLine
    <3>5. ExecuteUndo
      BY <2>3 DEF ExecuteUndone
    <3>6. /\ WithoutTop(undoBuffers[t]) \o (<<UndoTop>> \o redoBuffers[t]) = Line[t]
          /\ Len(WithoutTop(undoBuffers[t])) = At[t] - 1
          /\ At[t] > 0
      <4>1. PICK a \in Seq(Commands), b \in Seq(Commands) :
              a = undoBuffers[t] /\ b = redoBuffers[t] /\ a # <<>>
        BY <2>2, <3>1, <3>5
      <4>2. WithoutTop(undoBuffers[t]) = SubSeq(a, 1, Len(a) - 1) /\ UndoTop = a[Len(a)]
        BY <2>2, <3>1, <3>5, <4>1
      <4>3. Line[t] = a \o b /\ At[t] = Len(a)
        BY <4>1 DEF Line, At
      <4>4. /\ SubSeq(a, 1, Len(a) - 1) \o (<<a[Len(a)]>> \o b) = a \o b
            /\ Len(SubSeq(a, 1, Len(a) - 1)) = Len(a) - 1
            /\ Len(a) > 0
        BY <4>1, LineUndone
      <4> QED
        BY <4>1, <4>2, <4>3, <4>4
    <3>7. Line' = Line
      BY <3>4, <3>6 DEF Line
    <3>8. History!Undone(t)
      BY <3>4, <3>6, <3>7 DEF History!Undone, Line, At
    <3> QED
      BY <3>1, <3>8 DEF History!Next
  <2>4. ASSUME ExecuteUndoThrows \/ ExecuteUndoRefused PROVE History!Next
    <3>1. PICK t \in Types : t = undoType
      BY DEF TypeOK
    <3>2. /\ undoBuffers' = [undoBuffers EXCEPT ![t] = WithoutTop(undoBuffers[t])]
          /\ redoBuffers' = redoBuffers /\ ExecuteUndo
      BY <2>4, <3>1 DEF ExecuteUndoThrows, ExecuteUndoRefused
    <3>3. /\ undoBuffers'[t] = WithoutTop(undoBuffers[t])
          /\ redoBuffers' = [redoBuffers EXCEPT ![t] = redoBuffers'[t]]
          /\ redoBuffers'[t] = redoBuffers[t]
      BY <3>2 DEF TypeOK
    <3>4. /\ Line' = [Line EXCEPT ![t] = WithoutTop(undoBuffers[t]) \o redoBuffers[t]]
          /\ At' = [At EXCEPT ![t] = Len(WithoutTop(undoBuffers[t]))]
      BY <3>2, <3>3, OneLine
    <3>5. Len(WithoutTop(undoBuffers[t])) = At[t] - 1 /\ At[t] > 0
      BY <2>2, <3>1, <3>2, LineUndone DEF At
    <3>6. WithoutTop(undoBuffers[t]) \o redoBuffers[t]
            = SubSeq(Line[t], 1, At[t] - 1) \o SubSeq(Line[t], At[t] + 1, Len(Line[t]))
      <4>1. PICK a \in Seq(Commands), b \in Seq(Commands) :
              a = undoBuffers[t] /\ b = redoBuffers[t] /\ a # <<>>
        BY <2>2, <3>1, <3>2
      <4>2. WithoutTop(undoBuffers[t]) = SubSeq(a, 1, Len(a) - 1)
        BY <4>1 DEF WithoutTop
      <4>3. Line[t] = a \o b /\ At[t] = Len(a)
        BY <4>1 DEF Line, At
      <4>4. SubSeq(a, 1, Len(a) - 1) \o b
              = SubSeq(a \o b, 1, Len(a) - 1) \o SubSeq(a \o b, Len(a) + 1, Len(a \o b))
        BY <4>1, LineDropped
      <4> QED
        BY <4>1, <4>2, <4>3, <4>4
    <3>7. History!Dropped(t)
      BY <3>4, <3>5, <3>6 DEF History!Dropped, Line, At
    <3> QED
      BY <3>1, <3>7 DEF History!Next
  <2>5. ASSUME NEW whole \in BOOLEAN, ExecuteRedo(whole) PROVE History!Next
    <3>1. PICK t \in Types : t = redoType
      BY DEF TypeOK
    <3>2. /\ undoBuffers' = [undoBuffers EXCEPT ![t] = Append(undoBuffers[t], RedoTop)]
          /\ redoBuffers' = [redoBuffers EXCEPT ![t] = Tail(redoBuffers[t])]
          /\ redoBuffers[t] # <<>> /\ RedoTop = Head(redoBuffers[t])
      BY <2>5, <3>1 DEF ExecuteRedo, RedoTop
    <3>3. /\ undoBuffers'[t] = Append(undoBuffers[t], RedoTop)
          /\ redoBuffers'[t] = Tail(redoBuffers[t])
      BY <3>2 DEF TypeOK
    <3>4. undoBuffers[t] \in Seq(Commands) /\ redoBuffers[t] \in Seq(Commands)
      BY DEF TypeOK
    <3>5. /\ Line' = [Line EXCEPT ![t] = Append(undoBuffers[t], RedoTop) \o Tail(redoBuffers[t])]
          /\ At' = [At EXCEPT ![t] = Len(Append(undoBuffers[t], RedoTop))]
      BY <3>2, <3>3, OneLine
    <3>6. /\ Append(undoBuffers[t], RedoTop) \o Tail(redoBuffers[t]) = Line[t]
          /\ Len(Append(undoBuffers[t], RedoTop)) = At[t] + 1
          /\ At[t] < Len(Line[t])
      BY <3>2, <3>4, LineRedone DEF Line, At
    <3>7. Line' = Line
      BY <3>5, <3>6 DEF Line
    <3>8. History!Redone(t)
      BY <3>5, <3>6, <3>7 DEF History!Redone, Line, At
    <3> QED
      BY <3>1, <3>8 DEF History!Next
  <2>6. ASSUME ExecuteNothing \/ \E c \in Commands : ExecuteRefused(c) \/ ExecuteRollback(c)
        PROVE  UNCHANGED History!history
    BY <1>1, <2>6 DEF ExecuteNothing, ExecuteRefused, ExecuteRollback
  <2> QED
    BY <1>6, <2>1, <2>3, <2>4, <2>5, <2>6 DEF Execute
<1> QED
  BY <1>2, <1>3, <1>4, <1>5, <1>6, StepKinds

\* Whatever is called and whatever fails, undo and redo walk along one line of commands
\* of each type, as CommandHistory promises.
THEOREM KeepsHistory == Spec => HistorySpec
<1>1. Init => History!Init
  BY HistoryInit
<1>2. TypeOK /\ [Next]_vars => [History!Next]_(History!history)
  BY HistoryStep
<1> QED
  BY <1>1, <1>2, CommanderTypeCorrect, PTL DEF Spec, HistorySpec, History!Spec

-----------------------------------------------------------------------------
(* What can be undone *)

OfType(t) == {c \in Commands : TypeOf[c] = t}

\* A command is only on the stacks of its type.
StacksOfType ==
  \A t \in Types : undoBuffers[t] \in Seq(OfType(t)) /\ redoBuffers[t] \in Seq(OfType(t))

Times(c, s) == Cardinality({i \in DOMAIN s : s[i] = c})

LEMMA TimesType ==
  ASSUME NEW S, NEW s \in Seq(S), NEW c
  PROVE  /\ IsFiniteSet({i \in DOMAIN s : s[i] = c})
         /\ Times(c, s) \in Nat
<1>1. DOMAIN s = 1 .. Len(s) /\ Len(s) \in Int /\ 1 \in Int
  BY LenProperties
<1>2. IsFiniteSet(1 .. Len(s))
  BY <1>1, FS_Interval
<1>3. {i \in DOMAIN s : s[i] = c} \in SUBSET (1 .. Len(s))
  BY <1>1
<1> QED
  BY <1>2, <1>3, FS_Subset, FS_CardinalityType DEF Times

LEMMA TimesAppend ==
  ASSUME NEW S, NEW s \in Seq(S), NEW x \in S, NEW c
  PROVE  Times(c, Append(s, x)) = Times(c, s) + (IF x = c THEN 1 ELSE 0)
<1> DEFINE A == {i \in DOMAIN s : s[i] = c}
           B == {i \in DOMAIN Append(s, x) : Append(s, x)[i] = c}
<1>1. /\ DOMAIN s = 1 .. Len(s) /\ Len(s) \in Nat
      /\ DOMAIN Append(s, x) = 1 .. Len(s) + 1
      /\ \A i \in 1 .. Len(s) : Append(s, x)[i] = s[i]
      /\ Append(s, x)[Len(s) + 1] = x
  BY LenProperties, AppendProperties
<1>2. IsFiniteSet(A) /\ Cardinality(A) \in Nat
  BY TimesType DEF Times
<1>3. CASE x = c
  <2>1. B = A \union {Len(s) + 1} /\ Len(s) + 1 \notin A
    BY <1>1, <1>3
  <2>2. Cardinality(B) = Cardinality(A) + 1
    <3> HIDE DEF A, B
    <3> QED
      BY <1>2, <2>1, FS_AddElement
  <2> QED
    BY <1>3, <2>2 DEF Times
<1>4. CASE x # c
  <2>1. B = A
    BY <1>1, <1>4
  <2>2. Cardinality(B) = Cardinality(A) + 0
    <3> HIDE DEF A, B
    <3> QED
      BY <1>2, <2>1
  <2> QED
    BY <1>4, <2>2 DEF Times
<1> QED
  BY <1>3, <1>4

LEMMA TimesWithoutTop ==
  ASSUME NEW S, NEW s \in Seq(S), s # <<>>, NEW c
  PROVE  /\ WithoutTop(s) \in Seq(S) /\ s[Len(s)] \in S
         /\ Times(c, s) = Times(c, WithoutTop(s)) + (IF s[Len(s)] = c THEN 1 ELSE 0)
<1>1. Len(s) \in Nat /\ Len(s) > 0
  BY EmptySeq
<1>2. s[Len(s)] \in S /\ SubSeq(s, 1, Len(s) - 1) \in Seq(S)
  BY <1>1, ElementOfSeq
<1>3. s = Append(SubSeq(s, 1, Len(s) - 1), s[Len(s)])
  BY <1>1
<1>4. PICK w \in Seq(S), x \in S : w = SubSeq(s, 1, Len(s) - 1) /\ x = s[Len(s)]
  BY <1>2
<1>5. Times(c, Append(w, x)) = Times(c, w) + (IF x = c THEN 1 ELSE 0)
  BY TimesAppend
<1>6. s = Append(w, x)
  BY <1>3, <1>4
<1> QED
  BY <1>2, <1>4, <1>5, <1>6 DEF WithoutTop

LEMMA StacksOfTypeStep ==
  ASSUME TypeOK, StacksOfType, [Next]_vars PROVE StacksOfType'
<1>1. ASSUME UNCHANGED stacks PROVE StacksOfType'
  BY <1>1 DEF stacks, StacksOfType
<1>2. CASE Asks
  <2>1. PICK entries, waits : Puts(entries, waits)
    BY <1>2, CallsPut DEF CallPuts
  <2> QED
    BY <1>1, <2>1 DEF Puts, Push
<1>3. CASE WaitingNext
  BY <1>1, <1>3 DEF WaitingNext, CallerReturns, CallerDrowses, CallerSleeps, CallerWakes, Join,
     CallerMoves
<1>4. CASE LoopNext
  BY <1>1, <1>4 DEF LoopNext, TakeAtTop, TakeAwake, Take, FindsNothing, SeesCommands,
     SeesNoCommands, WorkerSleeps, WorkerWakes, Unlock, AwakeForNothing, WorkerMoves, Count,
     Notify
<1>5. CASE UNCHANGED vars
  BY <1>1, <1>5 DEF vars
<1>6. CASE Execute
  <2>0. ASSUME NEW t \in Types, NEW u \in Seq(OfType(t)), NEW r \in Seq(OfType(t)),
               undoBuffers' = [undoBuffers EXCEPT ![t] = u],
               redoBuffers' = [redoBuffers EXCEPT ![t] = r]
        PROVE  StacksOfType'
    BY <2>0 DEF StacksOfType, TypeOK
  <2>1. ASSUME NEW c \in Commands, NEW whole \in BOOLEAN, ExecuteDo(c, whole)
        PROVE  StacksOfType'
    <3>1. PICK t \in Types : t = TypeOf[c]
      BY CommanderAssumption
    <3>2. /\ undoBuffers' = [undoBuffers EXCEPT ![t] = Append(undoBuffers[t], c)]
          /\ redoBuffers' = [redoBuffers EXCEPT ![t] = <<>>]
      BY <2>1, <3>1 DEF ExecuteDo, Recorded
    <3>3. Append(undoBuffers[t], c) \in Seq(OfType(t)) /\ <<>> \in Seq(OfType(t))
      BY <3>1, AppendProperties DEF StacksOfType, OfType
    <3> QED
      BY <2>0, <3>2, <3>3
  <2>2. ASSUME ExecuteUndo
        PROVE  /\ undoType \in Types
               /\ WithoutTop(undoBuffers[undoType]) \in Seq(OfType(undoType))
               /\ redoBuffers[undoType] \in Seq(OfType(undoType))
               /\ UndoTop \in OfType(undoType)
               /\ redoBuffers = [redoBuffers EXCEPT ![undoType] = redoBuffers[undoType]]
    <3>1. /\ undoType \in Types /\ undoBuffers[undoType] # <<>>
          /\ undoBuffers[undoType] \in Seq(OfType(undoType))
          /\ redoBuffers[undoType] \in Seq(OfType(undoType))
      BY <2>2 DEF ExecuteUndo, TypeOK, StacksOfType
    <3> QED
      BY <3>1, TimesWithoutTop DEF UndoTop, TypeOK
  <2>3. ASSUME ExecuteUndone PROVE StacksOfType'
    <3>1. ExecuteUndo
      BY <2>3 DEF ExecuteUndone
    <3>2. <<UndoTop>> \o redoBuffers[undoType] \in Seq(OfType(undoType))
      <4>1. <<UndoTop>> \in Seq(OfType(undoType))
        BY <2>2, <3>1
      <4> QED
        BY <2>2, <3>1, <4>1, ConcatProperties
    <3>3. /\ undoBuffers' = [undoBuffers EXCEPT ![undoType] = WithoutTop(undoBuffers[undoType])]
          /\ redoBuffers' = [redoBuffers EXCEPT ![undoType] = <<UndoTop>> \o redoBuffers[undoType]]
      BY <2>3 DEF ExecuteUndone
    <3> QED
      BY <2>0, <2>2, <3>1, <3>2, <3>3
  <2>4. ASSUME ExecuteUndoThrows \/ ExecuteUndoRefused PROVE StacksOfType'
    <3>1. /\ undoBuffers' = [undoBuffers EXCEPT ![undoType] = WithoutTop(undoBuffers[undoType])]
          /\ redoBuffers' = redoBuffers /\ ExecuteUndo
      BY <2>4 DEF ExecuteUndoThrows, ExecuteUndoRefused
    <3> QED
      BY <2>0, <2>2, <3>1
  <2>5. ASSUME NEW whole \in BOOLEAN, ExecuteRedo(whole) PROVE StacksOfType'
    <3>1. PICK t \in Types : t = redoType
      BY DEF TypeOK
    <3>2. /\ undoBuffers' = [undoBuffers EXCEPT ![t] = Append(undoBuffers[t], RedoTop)]
          /\ redoBuffers' = [redoBuffers EXCEPT ![t] = Tail(redoBuffers[t])]
          /\ redoBuffers[t] # <<>> /\ RedoTop = Head(redoBuffers[t])
      BY <2>5, <3>1 DEF ExecuteRedo, RedoTop
    <3>3. undoBuffers[t] \in Seq(OfType(t)) /\ redoBuffers[t] \in Seq(OfType(t))
      BY DEF StacksOfType
    <3>4. RedoTop \in OfType(t) /\ Tail(redoBuffers[t]) \in Seq(OfType(t))
      BY <3>2, <3>3, HeadTailProperties
    <3>5. Append(undoBuffers[t], RedoTop) \in Seq(OfType(t))
      BY <3>3, <3>4, AppendProperties
    <3> QED
      BY <2>0, <3>2, <3>4, <3>5
  <2>6. ASSUME ExecuteNothing \/ \E c \in Commands : ExecuteRefused(c) \/ ExecuteRollback(c)
        PROVE  UNCHANGED stacks
    BY <2>6 DEF ExecuteNothing, ExecuteRefused, ExecuteRollback
  <2> QED
    BY <1>1, <1>6, <2>1, <2>3, <2>4, <2>5, <2>6 DEF Execute
<1> QED
  BY <1>2, <1>3, <1>4, <1>5, <1>6, StepKinds

\* UndoableIsInEffect in terms of Times.
Undoable(c) == applied[c] = Times(c, undoBuffers[TypeOf[c]])

LEMMA UndoableMeans ==
  /\ UndoableIsInEffect <=> (alive => \A c \in Commands \ spoiled : Undoable(c))
  /\ UndoableIsInEffect' <=> (alive' => \A c \in Commands \ spoiled' : Undoable(c)')
BY DEF UndoableIsInEffect, Undoable, Times

LEMMA UndoableStep ==
  ASSUME TypeOK, StacksOfType, UndoableIsInEffect, [Next]_vars PROVE UndoableIsInEffect'
<1>1. ASSUME UNCHANGED <<stacks, effects>>, alive' => alive PROVE UndoableIsInEffect'
  BY <1>1 DEF stacks, effects, UndoableIsInEffect
<1>2. CASE Asks
  <2>1. PICK entries, waits : Puts(entries, waits)
    BY <1>2, CallsPut DEF CallPuts
  <2> QED
    BY <1>1, <2>1 DEF Puts, Push
<1>3. CASE WaitingNext
  BY <1>1, <1>3 DEF WaitingNext, CallerReturns, CallerDrowses, CallerSleeps, CallerWakes, Join,
     CallerMoves
<1>4. CASE LoopNext
  <2>1. UNCHANGED <<stacks, effects>> /\ alive
    BY <1>4 DEF LoopNext, TakeAtTop, TakeAwake, Take, FindsNothing, SeesCommands,
       SeesNoCommands, WorkerSleeps, WorkerWakes, Unlock, AwakeForNothing, WorkerMoves, Count,
       Notify
  <2> QED
    BY <1>1, <2>1
<1>5. CASE UNCHANGED vars
  BY <1>1, <1>5 DEF vars
<1>6. CASE Execute
  <2>0. alive /\ \A c \in Commands \ spoiled : Undoable(c)
    <3>1. alive
      BY <1>6 DEF Execute, ExecuteDo, ExecuteRefused, ExecuteRollback, ExecuteUndone,
         ExecuteUndoThrows, ExecuteUndoRefused, ExecuteUndo, ExecuteRedo, ExecuteNothing, Executes
    <3> QED
      BY <3>1, UndoableMeans
  <2>1. \A c \in Commands : /\ TypeOf[c] \in Types /\ applied[c] \in Int
                            /\ Times(c, undoBuffers[TypeOf[c]]) \in Nat
    BY CommanderAssumption, TimesType DEF TypeOK
  \* a command takes effect and is put on the stack
  <2>2. ASSUME NEW c \in Commands, NEW whole \in BOOLEAN, Does(c, whole),
               NEW t \in Types, t = TypeOf[c],
               undoBuffers' = [undoBuffers EXCEPT ![t] = Append(undoBuffers[t], c)]
        PROVE  \A d \in Commands \ spoiled' : Undoable(d)'
    <3> SUFFICES ASSUME NEW d \in Commands, d \notin spoiled' PROVE Undoable(d)'
      OBVIOUS
    <3>1. undoBuffers'[TypeOf[d]]
            = IF TypeOf[d] = t THEN Append(undoBuffers[t], c) ELSE undoBuffers[TypeOf[d]]
      BY <2>1, <2>2 DEF TypeOK
    <3>2. Times(d, Append(undoBuffers[t], c))
            = Times(d, undoBuffers[t]) + (IF c = d THEN 1 ELSE 0)
      <4>1. undoBuffers[t] \in Seq(Commands)
        BY DEF TypeOK
      <4> QED
        BY <4>1, TimesAppend
    <3>3. d \notin spoiled /\ applied'[d] = applied[d] + (IF c = d THEN 1 ELSE 0)
      <4>1. CASE InEffect(c) /\ UNCHANGED spoiled
        BY <2>1, <4>1 DEF InEffect, TypeOK
      <4>2. CASE spoiled' = spoiled \union {c} /\ UNCHANGED applied
        <5>1. d \notin spoiled /\ c # d /\ applied'[d] = applied[d]
          BY <4>2
        <5> QED
          BY <2>1, <5>1
      <4> QED
        BY <2>2, <4>1, <4>2 DEF Does
    <3>4. applied[d] = Times(d, undoBuffers[TypeOf[d]])
      BY <2>0, <3>3 DEF Undoable
    <3>5. CASE TypeOf[d] = t
      <4>1. applied'[d] = Times(d, undoBuffers'[TypeOf[d]])
        BY <3>1, <3>2, <3>3, <3>4, <3>5
      <4> QED
        BY <4>1 DEF Undoable, Times
    <3>6. CASE TypeOf[d] # t
      <4>1. c # d
        BY <2>2, <3>6
      <4>2. applied'[d] = Times(d, undoBuffers'[TypeOf[d]])
        BY <2>1, <3>1, <3>3, <3>4, <3>6, <4>1
      <4> QED
        BY <4>2 DEF Undoable, Times
    <3> QED
      BY <3>5, <3>6
  <2>3. ASSUME NEW c \in Commands, NEW whole \in BOOLEAN, ExecuteDo(c, whole)
        PROVE  UndoableIsInEffect'
    <3>1. PICK t \in Types : t = TypeOf[c]
      BY CommanderAssumption
    <3>2. undoBuffers' = [undoBuffers EXCEPT ![t] = Append(undoBuffers[t], c)] /\ Does(c, whole)
      BY <2>3, <3>1 DEF ExecuteDo, Recorded
    <3> QED
      BY <2>2, <3>1, <3>2, UndoableMeans
  <2>4. ASSUME NEW whole \in BOOLEAN, ExecuteRedo(whole) PROVE UndoableIsInEffect'
    <3>1. PICK t \in Types : t = redoType
      BY DEF TypeOK
    <3>2. /\ undoBuffers' = [undoBuffers EXCEPT ![t] = Append(undoBuffers[t], RedoTop)]
          /\ redoBuffers[t] # <<>> /\ RedoTop = Head(redoBuffers[t]) /\ Does(RedoTop, whole)
      BY <2>4, <3>1 DEF ExecuteRedo, RedoTop
    <3>3. RedoTop \in OfType(t)
      <4>1. redoBuffers[t] \in Seq(OfType(t))
        BY DEF StacksOfType
      <4> QED
        BY <3>2, <4>1, HeadTailProperties
    <3>4. PICK c \in Commands : c = RedoTop /\ TypeOf[c] = t
      BY <3>3 DEF OfType
    <3> QED
      BY <2>2, <3>2, <3>4, UndoableMeans
  \* what an undo takes off
  <2>5. ASSUME ExecuteUndo,
               undoBuffers' = [undoBuffers EXCEPT ![undoType] = WithoutTop(undoBuffers[undoType])],
               NEW d \in Commands
        PROVE  /\ UndoTop \in Commands
               /\ Times(d, undoBuffers'[TypeOf[d]])
                    = Times(d, undoBuffers[TypeOf[d]]) - (IF UndoTop = d THEN 1 ELSE 0)
    <3>1. /\ undoType \in Types /\ undoBuffers[undoType] # <<>>
          /\ undoBuffers[undoType] \in Seq(OfType(undoType))
      BY <2>5 DEF ExecuteUndo, TypeOK, StacksOfType
    <3>2. PICK s \in Seq(OfType(undoType)) : s = undoBuffers[undoType] /\ s # <<>>
      BY <3>1
    <3>3. /\ UndoTop \in OfType(undoType) /\ WithoutTop(s) \in Seq(OfType(undoType))
          /\ Times(d, s) = Times(d, WithoutTop(s)) + (IF UndoTop = d THEN 1 ELSE 0)
      BY <3>2, TimesWithoutTop DEF UndoTop
    <3>4. Times(d, WithoutTop(s)) \in Nat
      BY <3>3, TimesType
    <3>5. CASE TypeOf[d] = undoType
      <4>1. undoBuffers'[TypeOf[d]] = WithoutTop(s) /\ undoBuffers[TypeOf[d]] = s
        BY <2>5, <3>1, <3>2, <3>5 DEF TypeOK
      <4>2. Times(d, WithoutTop(s)) = Times(d, s) - (IF UndoTop = d THEN 1 ELSE 0)
        BY <3>3, <3>4
      <4> QED
        BY <3>3, <4>1, <4>2 DEF OfType
    <3>6. CASE TypeOf[d] # undoType
      <4>1. undoBuffers'[TypeOf[d]] = undoBuffers[TypeOf[d]] /\ UndoTop # d
        BY <2>1, <2>5, <3>1, <3>3, <3>6 DEF TypeOK, OfType
      <4>2. Times(d, undoBuffers'[TypeOf[d]]) = Times(d, undoBuffers[TypeOf[d]]) - 0
        BY <2>1, <4>1
      <4> QED
        BY <3>3, <4>1, <4>2 DEF OfType
    <3> QED
      BY <3>5, <3>6
  <2>6. ASSUME ExecuteUndone PROVE UndoableIsInEffect'
    <3>1. /\ ExecuteUndo /\ UndoTop \in Commands
          /\ undoBuffers' = [undoBuffers EXCEPT ![undoType] = WithoutTop(undoBuffers[undoType])]
          /\ applied' = [applied EXCEPT ![UndoTop] = applied[UndoTop] - 1]
          /\ spoiled' = spoiled
      BY <2>5, <2>6, StackTop DEF ExecuteUndone, ExecuteUndo
    <3>2. ASSUME NEW d \in Commands, d \notin spoiled' PROVE Undoable(d)'
      <4>1. applied'[d] = applied[d] - (IF UndoTop = d THEN 1 ELSE 0)
        BY <2>1, <3>1 DEF TypeOK
      <4>2. applied[d] = Times(d, undoBuffers[TypeOf[d]])
        BY <2>0, <3>1, <3>2 DEF Undoable
      <4>3. applied'[d] = Times(d, undoBuffers'[TypeOf[d]])
        BY <2>5, <3>1, <4>1, <4>2
      <4> QED
        BY <4>3 DEF Undoable, Times
    <3> QED
      BY <3>2, UndoableMeans
  <2>7. ASSUME ExecuteUndoThrows PROVE UndoableIsInEffect'
    BY <2>7 DEF ExecuteUndoThrows, UndoableIsInEffect
  <2>8. ASSUME ExecuteUndoRefused PROVE UndoableIsInEffect'
    <3>1. /\ ExecuteUndo
          /\ undoBuffers' = [undoBuffers EXCEPT ![undoType] = WithoutTop(undoBuffers[undoType])]
          /\ applied' = applied
          /\ spoiled' = spoiled \union {UndoTop}
      BY <2>8 DEF ExecuteUndoRefused
    <3>2. ASSUME NEW d \in Commands, d \notin spoiled' PROVE Undoable(d)'
      <4>1. UndoTop # d /\ d \notin spoiled
        BY <3>1, <3>2
      <4>2. applied[d] = Times(d, undoBuffers[TypeOf[d]])
        BY <2>0, <4>1 DEF Undoable
      <4>3. Times(d, undoBuffers'[TypeOf[d]]) = Times(d, undoBuffers[TypeOf[d]]) - 0
        BY <2>5, <3>1, <4>1
      <4>4. applied'[d] = Times(d, undoBuffers'[TypeOf[d]])
        BY <2>1, <3>1, <4>2, <4>3
      <4> QED
        BY <4>4 DEF Undoable, Times
    <3> QED
      BY <3>2, UndoableMeans
  <2>9. ASSUME ExecuteNothing \/ \E c \in Commands : ExecuteRefused(c)
        PROVE  UndoableIsInEffect'
    BY <1>1, <2>9 DEF ExecuteNothing, ExecuteRefused
  <2>10. ASSUME NEW c \in Commands, ExecuteRollback(c) PROVE UndoableIsInEffect'
    BY <2>10 DEF ExecuteRollback, RollbackFails, UndoableIsInEffect
  <2> QED
    BY <1>6, <2>3, <2>4, <2>6, <2>7, <2>8, <2>9, <2>10 DEF Execute
<1> QED
  BY <1>2, <1>3, <1>4, <1>5, <1>6, StepKinds

\* A command that neither failed nor was refused is in effect as often as it can be
\* undone.
THEOREM AlwaysUndoableIsInEffect == Spec => []UndoableIsInEffect
<1>1. Init => TypeOK /\ StacksOfType /\ UndoableIsInEffect
  <2> SUFFICES ASSUME Init PROVE TypeOK /\ StacksOfType /\ UndoableIsInEffect
    OBVIOUS
  <2>1. \A t \in Types : undoBuffers[t] = <<>> /\ redoBuffers[t] = <<>>
    BY DEF Init
  <2>2. StacksOfType
    <3>1. \A t \in Types : <<>> \in Seq(OfType(t))
      BY EmptySeq
    <3> QED
      BY <2>1, <3>1 DEF StacksOfType
  <2>3. ASSUME NEW c \in Commands PROVE Undoable(c)
    <3>1. undoBuffers[TypeOf[c]] = <<>>
      BY <2>1, CommanderAssumption
    <3>2. {i \in DOMAIN <<>> : <<>>[i] = c} = {}
      OBVIOUS
    <3> QED
      BY <3>1, <3>2, FS_EmptySet DEF Init, Undoable, Times
  <2> QED
    BY <2>2, <2>3, CommanderInit, UndoableMeans
<1>2. TypeOK /\ StacksOfType /\ UndoableIsInEffect /\ [Next]_vars
        => TypeOK' /\ StacksOfType' /\ UndoableIsInEffect'
  BY TypeStep, StacksOfTypeStep, UndoableStep
<1> QED
  BY <1>1, <1>2, PTL DEF Spec

-----------------------------------------------------------------------------
(* What can make the two threads wait for each other *)

LEMMA ExecuteCounts == Execute => Executes /\ worker' = "count"
BY DEF Execute, ExecuteDo, ExecuteRefused, ExecuteRollback, RollbackFails, ExecuteUndone,
   ExecuteUndoThrows, ExecuteUndoRefused, ExecuteUndo, ExecuteRedo, ExecuteNothing

\* The flag that the command thread reads without commandLocker is never false while
\* something is in the queue.
QueueIsFlagged == todoBuffer # <<>> => hasCommandsToExecute

LEMMA FlagStep == TypeOK /\ QueueIsFlagged /\ [Next]_vars => QueueIsFlagged'
<1> SUFFICES ASSUME TypeOK, QueueIsFlagged, [Next]_vars PROVE QueueIsFlagged'
  OBVIOUS
<1>1. CASE Asks
  BY <1>1, CallsPut DEF CallPuts, Puts, Push, QueueIsFlagged
<1>2. CASE WaitingNext
  BY <1>2 DEF WaitingNext, CallerReturns, CallerDrowses, CallerSleeps, CallerWakes, Join,
     CallerMoves, queue, QueueIsFlagged
<1>3. CASE LoopNext
  BY <1>3 DEF LoopNext, TakeAtTop, TakeAwake, Take, FindsNothing, SeesCommands,
     SeesNoCommands, WorkerSleeps, WorkerWakes, Unlock, AwakeForNothing, WorkerMoves, Count,
     Notify, queue, QueueIsFlagged
<1>4. CASE Execute
  BY <1>4, ExecuteCounts DEF Executes, queue, QueueIsFlagged
<1>5. CASE UNCHANGED vars
  BY <1>5 DEF vars, queue, QueueIsFlagged
<1> QED
  BY <1>1, <1>2, <1>3, <1>4, <1>5, StepKinds

\* Commands lie in the queue and the command thread, which thinks there are none, is
\* asleep or about to be.
LostCall == worker \in {"drowsy", "asleep"} /\ todoBuffer # <<>>

\* A call is lost on the command thread only when it comes between the thread's test
\* of hasCommandsToExecute and its sleep (hasCommands.wait in Run): one that comes
\* before is seen and one that comes later wakes it.
CallsLostInGap ==
  [][~LostCall /\ LostCall' => worker = "drowsy" /\ todoBuffer = <<>>]_vars

LEMMA LostCallStep ==
  TypeOK /\ QueueIsFlagged /\ [Next]_vars
    => (~LostCall /\ LostCall' => worker = "drowsy" /\ todoBuffer = <<>>)
<1> SUFFICES ASSUME TypeOK, QueueIsFlagged, [Next]_vars, ~LostCall, LostCall'
             PROVE  worker = "drowsy" /\ todoBuffer = <<>>
  OBVIOUS
<1>1. CASE Asks
  <2>1. worker' = IF worker = "asleep" THEN "test" ELSE worker
    BY <1>1, CallsPut DEF CallPuts, Puts, Push
  <2> QED
    BY <2>1 DEF LostCall
<1>2. CASE WaitingNext
  BY <1>2 DEF WaitingNext, CallerReturns, CallerDrowses, CallerSleeps, CallerWakes, Join,
     CallerMoves, queue, thread, LostCall
<1>3. CASE LoopNext
  BY <1>3 DEF LoopNext, TakeAtTop, TakeAwake, Take, FindsNothing, SeesCommands,
     SeesNoCommands, WorkerSleeps, WorkerWakes, Unlock, AwakeForNothing, WorkerMoves, Count,
     Notify, LostCall, QueueIsFlagged
<1>4. CASE Execute
  BY <1>4, ExecuteCounts DEF LostCall
<1>5. CASE UNCHANGED vars
  BY <1>5 DEF vars, queue, thread, LostCall
<1> QED
  BY <1>1, <1>2, <1>3, <1>4, <1>5, StepKinds

\* The gap before its sleep is the only way a command is left lying before the
\* sleeping thread.
THEOREM CallsOnlyLostInGap == Spec => CallsLostInGap
<1>1. Init => TypeOK /\ QueueIsFlagged
  BY CommanderInit DEF Init, QueueIsFlagged
<1>2. TypeOK /\ QueueIsFlagged /\ [Next]_vars => TypeOK' /\ QueueIsFlagged'
  BY TypeStep, FlagStep
<1>3. TypeOK /\ QueueIsFlagged /\ [Next]_vars
        => (~LostCall /\ LostCall' => worker = "drowsy" /\ todoBuffer = <<>>)
  BY LostCallStep
<1> QED
  BY <1>1, <1>2, <1>3, PTL DEF Spec, CallsLostInGap

\* Nothing is counted any more and no notification is to come, but the caller, which
\* saw something counted, is asleep or about to be.
LostReturn ==
  /\ caller \in {"drowsy", "asleep"}
  /\ numSynchronousCommands = 0
  /\ ~(worker = "notify" /\ entry.sync)

\* A return is lost on the caller only when the last command is counted off and
\* notified between the caller's test of numSynchronousCommands and its sleep
\* (synchronousExecution.wait): this is how the destructor hangs.
ReturnsLostInGap ==
  [][~LostReturn /\ LostReturn' => caller = "drowsy" /\ Notify]_vars

LEMMA LostReturnStep ==
  TypeOK /\ [Next]_vars => (~LostReturn /\ LostReturn' => caller = "drowsy" /\ Notify)
<1> SUFFICES ASSUME TypeOK, [Next]_vars, ~LostReturn, LostReturn'
             PROVE  caller = "drowsy" /\ Notify
  OBVIOUS
<1>1. CASE Asks
  <2>1. CallPuts
    BY <1>1, CallsPut
  <2>2. PICK entries, waits : Puts(entries, waits)
    BY <2>1 DEF CallPuts
  <2>3. caller' = caller /\ caller # "free"
    BY <2>1 DEF CallPuts, LostReturn
  <2>4. /\ numSynchronousCommands' = (numSynchronousCommands + waits) % Width
        /\ entry' = entry /\ worker' = IF worker = "asleep" THEN "test" ELSE worker
    BY <2>2 DEF Puts, Push
  <2>5. ASSUME NEW c \in (Commands \ Acids) \ Synchronous, Post(c)
        PROVE  numSynchronousCommands' = numSynchronousCommands
    <3>1. numSynchronousCommands' = (numSynchronousCommands + 0) % Width
      BY <2>5 DEF Post, Push
    <3>2. numSynchronousCommands \in 0 .. Width - 1 /\ Width \in Nat \ {0}
      BY CommanderAssumption DEF TypeOK
    <3> QED
      BY <3>1, <3>2, SmallModulo
  <2>6. \E c \in (Commands \ Acids) \ Synchronous : Post(c)
    BY <1>1, <2>3 DEF Asks, DoOne, DoSeveral, DoAcid, Undo, Redo, End, CallerFree
  <2> QED
    BY <2>3, <2>4, <2>5, <2>6 DEF LostReturn
<1>2. CASE WaitingNext
  BY <1>2 DEF WaitingNext, CallerReturns, CallerDrowses, CallerSleeps, CallerWakes, Join,
     CallerMoves, thread, LostReturn
<1>3. CASE Notify
  BY <1>3 DEF Notify, LostReturn
<1>4. CASE Count
  BY <1>4 DEF Count, LostReturn
<1>5. CASE LoopNext /\ ~Count /\ ~Notify
  <2>1. /\ UNCHANGED <<caller, numSynchronousCommands>>
        /\ worker # "notify"
    BY <1>5 DEF LoopNext, TakeAtTop, TakeAwake, Take, FindsNothing, SeesCommands,
       SeesNoCommands, WorkerSleeps, WorkerWakes, Unlock, AwakeForNothing, WorkerMoves
  <2> QED
    BY <2>1 DEF LostReturn
<1>6. CASE Execute
  BY <1>6, ExecuteCounts DEF Executes, LostReturn
<1>7. CASE UNCHANGED vars
  BY <1>7 DEF vars, thread, LostReturn
<1> QED
  BY <1>1, <1>2, <1>3, <1>4, <1>5, <1>6, <1>7, StepKinds

\* The gap before its sleep is the only way a caller misses that it can return.
THEOREM ReturnsOnlyLostInGap == Spec => ReturnsLostInGap
<1>1. Init => TypeOK
  BY CommanderInit
<1>2. TypeOK /\ [Next]_vars => TypeOK'
  BY TypeStep
<1>3. TypeOK /\ [Next]_vars
        => (~LostReturn /\ LostReturn' => caller = "drowsy" /\ Notify)
  BY LostReturnStep
<1> QED
  BY <1>1, <1>2, <1>3, PTL DEF Spec, ReturnsLostInGap

\* The caller sleeps and the command thread sleeps or has ended: nobody is left to
\* wake the other, but another thread that calls Post.
Stuck == caller = "asleep" /\ worker \in {"asleep", "ended"}

\* Both threads stop for good only because of one of the two gaps: a call that was
\* lost on the command thread, or a return that was lost on the caller.
StuckWhenLost == alive /\ Stuck /\ NoAcidCalls => LostCall \/ LostReturn

\* Whatever the Commander was given, it hangs for no other reason than the two gaps.
THEOREM OnlyStuckWhenLost == Spec => []StuckWhenLost
<1>1. Init => TypeOK /\ KillIsLast /\ CountsOutstanding
  BY CommanderInit, KillInit, CountsInit
<1>2. TypeOK /\ KillIsLast /\ CountsOutstanding /\ [Next]_vars
        => TypeOK' /\ KillIsLast' /\ CountsOutstanding'
  BY TypeStep, KillStep, CountsStep
<1>3. TypeOK /\ KillIsLast /\ CountsOutstanding => StuckWhenLost
  <2> SUFFICES ASSUME TypeOK, KillIsLast, CountsOutstanding, Stuck, NoAcidCalls, ~LostCall
               PROVE  LostReturn
    BY DEF StuckWhenLost
  <2>1. todoBuffer = <<>> /\ ~Busy
    BY DEF Stuck, LostCall, KillIsLast, Busy
  <2>2. Outstanding = 0
    BY <2>1, SyncsNone DEF Outstanding, Syncs
  <2>3. Balance = 0 /\ Width \in Nat \ {0} /\ 0 \in 0 .. Width - 1
    BY <2>2, CommanderAssumption DEF Balance, AcidDebt, NoAcidCalls
  <2>4. numSynchronousCommands = 0
    BY <2>3, CountsBalance, SmallModulo
  <2> QED
    BY <2>4 DEF LostReturn, Stuck
<1> QED
  BY <1>1, <1>2, <1>3, PTL DEF Spec

\* Once the Commander ends the kill command is somewhere, until the thread is gone.
KillUnderWay ==
  ending => \/ \E i \in DOMAIN todoBuffer : todoBuffer[i].kind = "kill"
            \/ worker \in {"execute", "count", "notify"} /\ entry.kind = "kill"
            \/ worker = "ended"

LEMMA KillUnderWayStep ==
  TypeOK /\ KillUnderWay /\ [Next]_vars => KillUnderWay'
<1> SUFFICES ASSUME TypeOK, KillUnderWay, [Next]_vars PROVE KillUnderWay'
  OBVIOUS
<1>1. CASE End
  <2>1. /\ todoBuffer \in Seq(Entry) /\ <<KillEntry>> \in Seq(Entry) /\ Len(<<KillEntry>>) = 1
        /\ todoBuffer' = todoBuffer \o <<KillEntry>>
    BY <1>1, EntriesOfCalls DEF End, Push, TypeOK
  <2>2. /\ Len(todoBuffer) \in Nat /\ todoBuffer' \in Seq(Entry)
        /\ Len(todoBuffer') = Len(todoBuffer) + 1
        /\ todoBuffer'[Len(todoBuffer) + 1] = <<KillEntry>>[1]
    BY <2>1, ConcatProperties, LenProperties
  <2>3. Len(todoBuffer) + 1 \in DOMAIN todoBuffer'
    BY <2>2, LenProperties
  <2> QED
    BY <2>2, <2>3 DEF KillUnderWay, KillEntry
<1>2. CASE Asks /\ ~End
  <2>1. ~ending /\ ending' = ending
    BY <1>2, CallsPut DEF CallPuts, Asks, DoOne, DoSeveral, DoAcid, Undo, Redo, Post
  <2> QED
    BY <2>1 DEF KillUnderWay
<1>3. CASE WaitingNext
  BY <1>3 DEF WaitingNext, CallerReturns, CallerDrowses, CallerSleeps, CallerWakes, Join,
     CallerMoves, queue, thread, KillUnderWay
<1>4. CASE Take /\ worker \in {"top", "lock"}
  <2>1. PICK q \in Seq(Entry) : q = todoBuffer /\ q # <<>>
    BY <1>4 DEF Take, TypeOK
  <2>2. /\ Head(q) = q[1] /\ Tail(q) \in Seq(Entry) /\ Len(Tail(q)) = Len(q) - 1
        /\ \A i \in 1 .. Len(Tail(q)) : Tail(q)[i] = q[i + 1]
    BY <2>1, HeadTailProperties
  <2>3. /\ Len(q) \in Nat /\ DOMAIN q = 1 .. Len(q)
        /\ DOMAIN Tail(q) = 1 .. Len(Tail(q))
    BY <2>1, <2>2, LenProperties
  <2>4. /\ todoBuffer' = Tail(q) /\ entry' = q[1] /\ worker' = "execute"
        /\ ending' = ending /\ worker # "ended"
        /\ worker \notin {"execute", "count", "notify"}
    BY <1>4, <2>1, <2>2 DEF Take
  <2>5. ASSUME NEW i \in DOMAIN q, q[i].kind = "kill", i # 1
        PROVE  i - 1 \in DOMAIN Tail(q) /\ Tail(q)[i - 1].kind = "kill"
    <3>1. i - 1 \in 1 .. Len(Tail(q)) /\ (i - 1) + 1 = i
      BY <2>2, <2>3, <2>5
    <3> QED
      BY <2>2, <2>3, <2>5, <3>1
  <2> QED
    BY <2>1, <2>4, <2>5 DEF KillUnderWay
<1>5. CASE LoopNext /\ ~TakeAtTop /\ ~TakeAwake
  BY <1>5 DEF LoopNext, TakeAtTop, TakeAwake, FindsNothing, SeesCommands,
     SeesNoCommands, WorkerSleeps, WorkerWakes, Unlock, AwakeForNothing, WorkerMoves, Count,
     Notify, queue, KillUnderWay
<1>6. CASE Execute
  BY <1>6, ExecuteCounts DEF Executes, queue, KillUnderWay
<1>7. CASE UNCHANGED vars
  BY <1>7 DEF vars, queue, thread, KillUnderWay
<1> QED
  BY <1>1, <1>2, <1>3, <1>4, <1>5, <1>6, <1>7, StepKinds DEF TakeAtTop, TakeAwake

\* A caller in the join of End waits for the end of the thread, which has executed the
\* kill command and has only its last notification before it.
JoinsSoon ==
  caller = "join" /\ NoAcidCalls
    => \/ worker = "ended"
       \/ worker = "notify" /\ entry.kind = "kill"

LEMMA JoinsSoonStep ==
  ASSUME 2 * MaxCalls + 1 < Width, TypeOK, KillIsLast, KillUnderWay, CountsOutstanding,
         FewOutstanding, JoinsSoon, [Next]_vars
  PROVE  JoinsSoon'
<1> SUFFICES ASSUME caller' = "join", NoAcidCalls'
             PROVE  worker' = "ended" \/ (worker' = "notify" /\ entry'.kind = "kill")
  BY DEF JoinsSoon
<1>1. CASE Asks
  <2>1. caller = "join" /\ ~ending
    BY <1>1, CallsPut DEF CallPuts
  <2> QED
    BY <2>1 DEF KillIsLast
<1>2. CASE CallerReturns
  <2>1. /\ ending /\ NoAcidCalls /\ numSynchronousCommands = 0
        /\ UNCHANGED <<worker, entry>>
    BY <1>2 DEF CallerReturns, CallerMoves, NoAcidCalls, thread
  <2>2. Outstanding = 0
    BY <2>1, NothingCounted
  <2>3. (\A i \in DOMAIN todoBuffer : ~todoBuffer[i].sync) /\ (Busy => ~entry.sync)
    BY <2>2, NothingOutstanding
  <2>4. \A e \in Entry : e.kind = "kill" => e.sync
    BY DEF Entry
  <2>5. \A i \in DOMAIN todoBuffer : todoBuffer[i] \in Entry
    BY ElementOfSeq, LenProperties DEF TypeOK
  <2>6. entry \in Entry
    BY DEF TypeOK
  <2> QED
    BY <2>1, <2>3, <2>4, <2>5, <2>6 DEF KillUnderWay, Busy
<1>3. CASE WaitingNext /\ ~CallerReturns
  BY <1>3 DEF WaitingNext, CallerDrowses, CallerSleeps, CallerWakes, Join, CallerMoves,
     thread, NoAcidCalls, JoinsSoon
<1>4. CASE LoopNext
  <2>1. caller = "join" /\ NoAcidCalls
    BY <1>4 DEF LoopNext, TakeAtTop, TakeAwake, Take, FindsNothing, SeesCommands,
       SeesNoCommands, WorkerSleeps, WorkerWakes, Unlock, AwakeForNothing, WorkerMoves,
       Count, Notify, NoAcidCalls
  <2>2. worker \in {"ended", "notify"}
    BY <2>1 DEF JoinsSoon
  <2>3. Notify
    BY <1>4, <2>2 DEF LoopNext, TakeAtTop, TakeAwake, Take, FindsNothing, SeesCommands,
       SeesNoCommands, WorkerSleeps, WorkerWakes, Unlock, AwakeForNothing, WorkerMoves, Count
  <2> QED
    BY <2>1, <2>3 DEF Notify, JoinsSoon
<1>5. CASE Execute
  <2>1. Executes
    BY <1>5, ExecuteCounts
  <2>2. worker = "execute" /\ caller = "join" /\ NoAcidCalls
    BY <2>1 DEF Executes, NoAcidCalls
  <2> QED
    BY <2>2 DEF JoinsSoon
<1>6. CASE UNCHANGED vars
  BY <1>6 DEF vars, thread, NoAcidCalls, JoinsSoon
<1> QED
  BY <1>1, <1>2, <1>3, <1>4, <1>5, <1>6, StepKinds

\* The join in End never hangs: if the destructor gets there the thread is as good as
\* gone.  What can hang is the wait before it.
THEOREM AlwaysJoinsSoon ==
  ASSUME 2 * MaxCalls + 1 < Width
  PROVE  Spec => []JoinsSoon
<1> DEFINE Known == /\ TypeOK /\ KillIsLast /\ KillUnderWay /\ CountsOutstanding
                    /\ FewOutstanding /\ JoinsSoon
<1>1. Init => Known
  <2>1. Init => Outstanding = 0 /\ ~ending /\ calls = 0 /\ caller = "free"
    BY CountsInit DEF Init
  <2> QED
    BY <2>1, CommanderInit, KillInit, CountsInit DEF FewOutstanding, KillUnderWay, JoinsSoon
<1>2. Known /\ [Next]_vars => Known'
  BY TypeStep, KillStep, KillUnderWayStep, CountsStep, FewStep, JoinsSoonStep
<1> QED
  BY <1>1, <1>2, PTL DEF Spec

\* A synchronous call of DoAcid, which is counted and never counted off (the third
\* parameter of DoAcid means the opposite of what Do makes of it, Commander.cpp:91 and
\* 94), does not return, whatever the command thread does.
AcidWaits == acidCalls.waited > acidCalls.async => caller \in Waiting

AcidFew == acidCalls.waited + acidCalls.async <= calls

LEMMA AcidFewStep == TypeOK /\ AcidFew /\ [Next]_vars => AcidFew'
<1> SUFFICES ASSUME TypeOK, AcidFew, [Next]_vars PROVE AcidFew'
  OBVIOUS
<1>1. acidCalls.waited \in Nat /\ acidCalls.async \in Nat /\ calls \in Nat
  BY CommanderAssumption DEF TypeOK
<1>2. ASSUME NEW c \in Acids, NEW async \in BOOLEAN, DoAcid(c, async) PROVE AcidFew'
  <2>1. /\ calls' = calls + 1
        /\ acidCalls'.waited = acidCalls.waited + (IF async THEN 0 ELSE 1)
        /\ acidCalls'.async = acidCalls.async + (IF async THEN 1 ELSE 0)
    BY <1>2 DEF DoAcid, Called, TypeOK
  <2> QED
    BY <1>1, <2>1 DEF AcidFew
<1>3. ASSUME UNCHANGED acidCalls, calls' = calls \/ calls' = calls + 1 PROVE AcidFew'
  BY <1>1, <1>3 DEF AcidFew
<1>4. CASE Asks /\ ~(\E c \in Acids, async \in BOOLEAN : DoAcid(c, async))
  <2>1. UNCHANGED acidCalls /\ (calls' = calls \/ calls' = calls + 1)
    BY <1>4 DEF Asks, DoOne, DoSeveral, Undo, Redo, End, Post, Called
  <2> QED
    BY <1>3, <2>1
<1>5. CASE Take /\ worker \in {"top", "lock"}
  BY <1>3, <1>5 DEF Take
<1>6. CASE Count
  BY <1>3, <1>6 DEF Count
<1>7. CASE Others
  BY <1>3, <1>7, OthersKeep
<1>8. CASE UNCHANGED vars
  BY <1>3, <1>8 DEF vars
<1> QED
  BY <1>2, <1>4, <1>5, <1>6, <1>7, <1>8, Steps

LEMMA AcidCounted ==
  ASSUME 3 * MaxCalls + 1 < Width, TypeOK, CountsOutstanding, FewOutstanding, AcidFew,
         acidCalls.waited > acidCalls.async
  PROVE  numSynchronousCommands # 0
<1>1. /\ Outstanding \in Nat /\ calls \in Nat /\ calls <= MaxCalls
      /\ MaxCalls \in Nat /\ Width \in Nat \ {0}
      /\ acidCalls.waited \in Nat /\ acidCalls.async \in Nat
  BY OutstandingType, CommanderAssumption DEF TypeOK
<1>2. PICK b \in {0, 1} : b = IF ending THEN 1 ELSE 0
  OBVIOUS
<1>3. Outstanding <= 2 * calls + b
  BY <1>2 DEF FewOutstanding
<1>4. AcidDebt \in 1 .. calls
  BY <1>1 DEF AcidDebt, AcidFew
<1>5. Balance \in 1 .. Width - 1
  BY <1>1, <1>3, <1>4 DEF Balance
<1>6. Balance \in 0 .. Width - 1 /\ Balance # 0
  BY <1>1, <1>5
<1>7. Balance % Width = Balance
  BY <1>1, <1>6, SmallModulo
<1> QED
  BY <1>6, <1>7, CountsBalance

LEMMA AcidWaitsStep ==
  ASSUME 3 * MaxCalls + 1 < Width, TypeOK, CountsOutstanding, FewOutstanding, AcidFew,
         AcidWaits, [Next]_vars
  PROVE  AcidWaits'
<1>1. acidCalls.waited \in Nat /\ acidCalls.async \in Nat
  BY DEF TypeOK
<1>2. ASSUME NEW c \in Acids, NEW async \in BOOLEAN, DoAcid(c, async) PROVE AcidWaits'
  <2>1. CASE async
    <3>1. /\ acidCalls'.waited = acidCalls.waited /\ acidCalls'.async = acidCalls.async + 1
          /\ caller = "free"
      BY <1>2, <2>1 DEF DoAcid, CallerFree, TypeOK
    <3>2. ~(acidCalls.waited > acidCalls.async)
      BY <3>1 DEF AcidWaits, Waiting
    <3> QED
      BY <1>1, <3>1, <3>2 DEF AcidWaits
  <2>2. CASE ~async
    BY <1>2, <2>2 DEF DoAcid, AcidWaits, Waiting
  <2> QED
    BY <2>1, <2>2
<1>3. ASSUME UNCHANGED acidCalls, caller \in Waiting => caller' \in Waiting PROVE AcidWaits'
  BY <1>3 DEF AcidWaits
<1>4. CASE Asks /\ ~(\E c \in Acids, async \in BOOLEAN : DoAcid(c, async))
  <2>1. UNCHANGED acidCalls
    BY <1>4 DEF Asks, DoOne, DoSeveral, Undo, Redo, End, Post
  <2>2. caller' = caller \/ caller = "free"
    BY <1>4, CallsPut DEF CallPuts
  <2> QED
    BY <1>3, <2>1, <2>2 DEF Waiting
<1>5. CASE CallerReturns
  <2>1. ~(acidCalls.waited > acidCalls.async)
    BY <1>5, AcidCounted DEF CallerReturns
  <2> QED
    BY <1>5, <2>1 DEF CallerReturns, CallerMoves, AcidWaits
<1>6. CASE WaitingNext /\ ~CallerReturns
  BY <1>3, <1>6 DEF WaitingNext, CallerDrowses, CallerSleeps, CallerWakes, Join, CallerMoves,
     Waiting
<1>7. CASE LoopNext
  BY <1>3, <1>7 DEF LoopNext, TakeAtTop, TakeAwake, Take, FindsNothing, SeesCommands,
     SeesNoCommands, WorkerSleeps, WorkerWakes, Unlock, AwakeForNothing, WorkerMoves, Count,
     Notify, Waiting
<1>8. CASE Execute
  BY <1>3, <1>8, ExecuteCounts DEF Executes
<1>9. CASE UNCHANGED vars
  BY <1>3, <1>9 DEF vars
<1> QED
  BY <1>2, <1>4, <1>5, <1>6, <1>7, <1>8, <1>9, StepKinds

\* Who calls DoAcid to wait for it waits for ever, as long as no asynchronous call of
\* DoAcid made up for it before and the counter cannot wrap.
THEOREM AcidNeverReturns ==
  ASSUME 3 * MaxCalls + 1 < Width
  PROVE  Spec => []AcidWaits
<1> DEFINE Known == TypeOK /\ CountsOutstanding /\ FewOutstanding /\ AcidFew /\ AcidWaits
<1>1. Init => Known
  <2>1. Init => /\ Outstanding = 0 /\ ~ending /\ calls = 0
                /\ acidCalls.waited = 0 /\ acidCalls.async = 0
    BY CountsInit DEF Init
  <2> QED
    BY <2>1, CommanderInit, CountsInit DEF FewOutstanding, AcidFew, AcidWaits
<1>2. Known /\ [Next]_vars => Known'
  BY TypeStep, CountsStep, FewStep, AcidFewStep, AcidWaitsStep
<1> QED
  BY <1>1, <1>2, PTL DEF Spec
=============================================================================
