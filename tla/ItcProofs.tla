----------------------------- MODULE ItcProofs -----------------------------
(***************************************************************************)
(* Theorems about ItcQueue, for every set of tasks, routes and levels,     *)
(* every number of slots, and whatever other mutexes and semaphores there  *)
(* are.                                                                    *)
(***************************************************************************)
EXTENDS ItcQueue, SyncProofs

-----------------------------------------------------------------------------
\* The search for a slot.

\* The loop stops at a slot with this dest, if there is one.
LEMMA FirstForFinds ==
  ASSUME NEW dest
  PROVE  \/ FirstFor(dest) = 0 /\ \A i \in Slots : msgbuf[i].dest # dest
         \/ /\ FirstFor(dest) \in Slots /\ FirstFor(dest) # 0
            /\ msgbuf[FirstFor(dest)].dest = dest
<1> DEFINE found == {i \in Slots : msgbuf[i].dest = dest}
<1>1. CASE found = {}
  BY <1>1 DEF FirstFor
<1>2. CASE found # {}
  <2>1. found \in SUBSET Nat
    BY DEF Slots
  <2>2. \E i \in found : \A j \in found : i <= j
    BY <1>2, <2>1, LeastNumber
  <2>3. FirstFor(dest) = CHOOSE i \in found : \A j \in found : i <= j
    BY <1>2 DEF FirstFor
  <2> HIDE DEF found
  <2>4. FirstFor(dest) \in found
    BY <2>2, <2>3
  <2>5. \A i \in Slots : i # 0
    BY DEF Slots
  <2> QED
    BY <2>4, <2>5 DEF found
<1> QED
  BY <1>1, <1>2

\* Somebody waits for the reader in the buffer.
LEMMA HasMsgFinds ==
  ASSUME NEW t
  PROVE  OS_ITCHasMsg(t) <=> \E i \in Slots : msgbuf[i].dest = t
BY FirstForFinds DEF OS_ITCHasMsg

-----------------------------------------------------------------------------
\* The inductive invariant.

ItcDataTyped ==
  /\ stage \in [Tasks -> {"none"} \cup TxStages \cup RxStages]
  /\ msgbuf \in [Slots -> [data : Messages \cup {NoData}, dest : Tasks \cup {Nil}]]
  /\ slot \in [Tasks -> Slots \cup {0}]
  /\ msg \in [Tasks -> Messages \cup {NoData}]
  /\ nextId \in Nat
  /\ pending \subseteq Messages
  /\ dropped \subseteq Messages

\* Which call a task is in tells where its function continues, and on which object.
ItcCalls ==
  \A t \in Tasks :
    /\ pc[t] \in ReadCount => stage[t] \in {"tx_test", "rx_test"}
    /\ pc[t] = "wait_svc" => stage[t] \in {"tx_lock", "rx_lock"}
    /\ pc[t] \in AcquireLabels => stage[t] \in {"tx_find", "rx_find"} /\ arg[t] = QueueMux
    /\ pc[t] \in ReleaseLabels => stage[t] \in {"tx_take", "rx_give"}
    /\ pc[t] \in Taking => stage[t] = "tx_end" /\ arg[t] = QueueSem
    /\ pc[t] \in Giving => stage[t] = "rx_end" /\ arg[t] = QueueSem

\* Between OS_MutexAquire and OS_MutexRelease of the queue's mutex.
Inside(t) ==
  \/ stage[t] \in {"tx_data", "tx_dest", "tx_unlock", "rx_copy", "rx_clear", "rx_unlock"}
  \/ stage[t] \in {"tx_find", "rx_find"} /\ pc[t] = "user"

InsideHolds == \A t \in Tasks : Inside(t) => QueueMux \in held[t]

\* The part about the calls.
ItcControl == SyncKept /\ FunctionsCall /\ ItcCalls /\ InsideHolds

\* The slot a task works on is still what its search found.
SlotsFound ==
  \A t \in Tasks :
    /\ stage[t] \in {"tx_data", "tx_dest"} =>
         slot[t] \in Slots /\ msgbuf[slot[t]].dest = Nil
    /\ stage[t] = "tx_dest" => msgbuf[slot[t]].data = msg[t]
    /\ stage[t] \in {"rx_copy", "rx_clear"} =>
         slot[t] \in Slots /\ msgbuf[slot[t]].dest = t

\* A task that sends and has not addressed the slot yet.
Sending == {"tx_test", "tx_lock", "tx_find", "tx_data", "tx_dest"}

\* Messages that are being sent are new, and differ.
Fresh ==
  /\ \A t \in Tasks : stage[t] \in Sending =>
       msg[t] \in Messages /\ msg[t].id < nextId /\ msg[t] \notin pending
  /\ \A t, u \in Tasks :
       t # u /\ stage[t] \in Sending /\ stage[u] \in Sending => msg[t] # msg[u]
  /\ \A m \in pending : m.id < nextId

\* A task that asked OS_ITCHasMsg finds its message: only itself takes it out.
ReadersFind ==
  Guarded =>
    \A t \in Tasks :
      /\ stage[t] \in {"rx_test", "rx_lock", "rx_find"} =>
           \E i \in Slots : msgbuf[i].dest = t
      /\ stage[t] \in {"rx_unlock", "rx_give", "rx_end"} => slot[t] # 0

ItcData == SlotsFound /\ Fresh /\ ReadersFind /\ BufferIntegrity

ItcInv == ItcControl /\ ItcDataTyped /\ ItcData

\* At most one task is between the acquire and the release of the mutex.
LEMMA InsideAlone ==
  ASSUME ItcControl, NEW t \in Tasks, Inside(t), NEW u \in Tasks, Inside(u)
  PROVE  t = u
BY DEF ItcControl, InsideHolds, SyncKept, SyncShape, MutexShape, MuxTyped, Owned, HoldersOwn

\* The initial state.
LEMMA ItcInitInv == ItcInit => ItcInv
<1> SUFFICES ASSUME ItcInit PROVE ItcInv
  OBVIOUS
<1>1. SyncKept
  BY SyncInitKept DEF ItcInit
<1>2. \A t \in Tasks : pc[t] = "dormant" /\ stage[t] = "none"
  BY KernelAssumption DEF ItcInit, SyncInit, MutexInit, Init
<1>3. FunctionsCall /\ ItcCalls /\ InsideHolds
  BY <1>2 DEF FunctionsCall, ItcCalls, InsideHolds, Inside, AcquireLabels, ReleaseLabels,
              SemAcquireLabels, ReadCount, Taking, Giving
<1>4. ItcDataTyped
  BY DEF ItcInit, SyncInit, OS_InitITCQueue, ItcDataTyped
<1>5. SlotsFound /\ Fresh /\ ReadersFind
  BY <1>2 DEF ItcInit, OS_InitITCQueue, SlotsFound, Fresh, ReadersFind, Sending
<1>6. BufferIntegrity
  <2>1. Occupied = {} /\ pending = {}
    BY DEF ItcInit, OS_InitITCQueue, Occupied
  <2> QED
    BY <2>1 DEF BufferIntegrity
<1> QED
  BY <1>1, <1>3, <1>4, <1>5, <1>6 DEF ItcInv, ItcControl, ItcData

-----------------------------------------------------------------------------
\* The steps of the functions.

\* The steps that make a call.
ItcCallStep(t) ==
  \/ \E dest \in Tasks : <<t, dest>> \in Routes /\ OS_ITCSendMsg(t, dest)
  \/ TxTest(t) \/ TxLock(t) \/ TxUnlock(t) \/ TxTake(t)
  \/ OS_ITCReadMsg(t)
  \/ RxTest(t) \/ RxLock(t) \/ RxUnlock(t) \/ RxGive(t)

\* The steps on the queue itself, and the return.
ItcOwnStep(t) ==
  \/ TxFind(t) \/ TxData(t) \/ TxDest(t) \/ EndOfCall(t, "tx_end")
  \/ RxFind(t) \/ RxCopy(t) \/ RxClear(t) \/ EndOfCall(t, "rx_end")

LEMMA ItcSteps ==
  ASSUME NEW t \in Tasks, ItcStep(t)
  PROVE  ItcCallStep(t) \/ ItcOwnStep(t)
BY DEF ItcStep, ItcCallStep, ItcOwnStep

\* From which stage to which a call leads, and its first step.
LEMMA ItcCallMoves ==
  ASSUME ItcDataTyped, SyncKept, NEW t \in Tasks, ItcCallStep(t)
  PROVE  /\ Entries(t)
         /\ stage' = [stage EXCEPT ![t] = stage'[t]]
         /\ \/ /\ stage[t] = "none" /\ stage'[t] \in {"tx_test", "rx_test"}
               /\ pc'[t] = "gc_ldrex"
            \/ /\ stage[t] = "tx_test" /\ stage'[t] = "tx_lock" /\ pc'[t] = "wait_svc"
            \/ /\ stage[t] \in {"tx_test", "tx_lock"} /\ stage'[t] = "tx_find"
               /\ pc'[t] = "aq_ldrex" /\ arg'[t] = QueueMux
            \/ /\ stage[t] = "rx_test" /\ stage'[t] = "rx_lock" /\ pc'[t] = "wait_svc"
            \/ /\ stage[t] \in {"rx_test", "rx_lock"} /\ stage'[t] = "rx_find"
               /\ pc'[t] = "aq_ldrex" /\ arg'[t] = QueueMux
            \/ /\ stage[t] = "tx_unlock" /\ stage'[t] = "tx_take"
               /\ pc'[t] = "rl_check" /\ arg'[t] = QueueMux
            \/ /\ stage[t] = "rx_unlock" /\ stage'[t] = "rx_give"
               /\ pc'[t] = "rl_check" /\ arg'[t] = QueueMux
            \/ /\ stage[t] = "tx_take" /\ stage'[t] = "tx_end"
               /\ pc'[t] = "sa_ldrex" /\ arg'[t] = QueueSem
            \/ /\ stage[t] = "rx_give" /\ stage'[t] = "rx_end"
               /\ pc'[t] = "sr_ldrex" /\ arg'[t] = QueueSem
<1> USE ItcAssumption
    DEF ItcDataTyped, SyncKept, SyncShape, MutexShape, PcDomain, KernelTyped, KernelTypeOK,
        AtStage, ToStage, Enter, Goto
<1>1. Entries(t)
  BY CallsEnter
  DEF ItcCallStep, OS_ITCSendMsg, TxTest, TxLock, TxUnlock, TxTake, OS_ITCReadMsg, RxTest,
      RxLock, RxUnlock, RxGive
<1>2. CASE OS_ITCReadMsg(t) \/ \E dest \in Tasks : OS_ITCSendMsg(t, dest)
  BY <1>1, <1>2 DEF OS_ITCSendMsg, OS_ITCReadMsg, CallCounting, GetCountCall, Calling
<1>3. CASE TxTest(t)
  BY <1>1, <1>3 DEF TxTest, WaitOrLock
<1>4. CASE RxTest(t)
  BY <1>1, <1>4 DEF RxTest, WaitOrLock
<1>5. CASE TxLock(t) \/ RxLock(t)
  BY <1>1, <1>5 DEF TxLock, RxLock, CallMutexAquire
<1>6. CASE TxUnlock(t) \/ RxUnlock(t)
  BY <1>1, <1>6 DEF TxUnlock, RxUnlock, CallMutexRelease, ReleaseCall, Calling
<1>7. CASE TxTake(t) \/ RxGive(t)
  BY <1>1, <1>7 DEF TxTake, RxGive, CallSemaphoreAquire, CallSemaphoreRelease
<1> QED
  BY <1>2, <1>3, <1>4, <1>5, <1>6, <1>7 DEF ItcCallStep

\* The steps on the queue leave the calls and the kernel alone.
LEMMA ItcOwnMoves ==
  ASSUME ItcDataTyped, NEW t \in Tasks, ItcOwnStep(t)
  PROVE  /\ UNCHANGED <<vars, syncVars>> /\ pc[t] = "user"
         /\ pc' = pc /\ arg' = arg /\ held' = held /\ counter' = counter
         /\ stage' = [stage EXCEPT ![t] = stage'[t]]
         /\ \/ stage[t] = "tx_find" /\ stage'[t] \in {"tx_data", "tx_unlock"}
            \/ stage[t] = "tx_data" /\ stage'[t] = "tx_dest"
            \/ stage[t] = "tx_dest" /\ stage'[t] = "tx_unlock"
            \/ stage[t] = "rx_find" /\ stage'[t] \in {"rx_copy", "rx_unlock"}
            \/ stage[t] = "rx_copy" /\ stage'[t] = "rx_clear"
            \/ stage[t] = "rx_clear" /\ stage'[t] = "rx_unlock"
            \/ stage[t] \in {"tx_end", "rx_end"} /\ stage'[t] = "none"
BY DEF ItcDataTyped, ItcOwnStep, TxFind, TxData, TxDest, RxFind, RxCopy, RxClear, EndOfCall,
       OwnStep, AtStage, ToStage, Executing, vars, taskVars, syncVars, mutexVars, semVars

\* Every step keeps the part about the calls.
LEMMA ItcNextControl ==
  ASSUME ItcControl, ItcDataTyped, [ItcNext]_itcVars PROVE ItcControl'
<1> USE DEF ItcControl
<1>1. CASE UNCHANGED itcVars
  <2>1. SyncKept'
    BY <1>1, OwnStepKept DEF itcVars
  <2> QED
    BY <1>1, <2>1 DEF itcVars, vars, taskVars, syncVars, mutexVars, FunctionsCall, ItcCalls, InsideHolds, Inside
<1>2. CASE \/ Handlers /\ UNCHANGED <<syncVars, stage>>
           \/ \E t \in Tasks : OuterStep(t)
  <2>1. SyncKept'
    BY <1>2, OtherStepKept DEF OuterStep
  <2>2. /\ stage' = stage /\ held' = held /\ arg' = arg /\ FunctionsCall'
        /\ \A u \in Tasks : \A l \in CallLabels : pc'[u] = l <=> pc[u] = l
        /\ \A u \in Tasks : stage[u] # "none" => pc'[u] = pc[u]
    BY <1>2, OtherStepCalls DEF syncVars, mutexVars
  <2>3. ItcCalls'
    BY <2>2 DEF ItcCalls, CallLabels, AcquireLabels, ReleaseLabels, SemLabels,
                SemAcquireLabels, ReadCount, Taking, Giving
  <2>4. InsideHolds'
    BY <2>2 DEF InsideHolds, Inside
  <2> QED
    BY <2>1, <2>2, <2>3, <2>4
<1>3. ASSUME NEW t \in Tasks, InnerStep(t) PROVE ItcControl'
  <2>1. SyncKept'
    BY <1>3, InnerStepKept
  <2>2. stage' = stage
    BY <1>3 DEF InnerStep
  <2>3. \A u \in Tasks \ {t} : pc'[u] = pc[u] /\ arg'[u] = arg[u] /\ held'[u] = held[u]
    BY <1>3, InnerStepOthers
  <2>4. /\ pc[t] \in CallLabels
        /\ \/ pc'[t] = "user"
           \/ arg'[t] = arg[t] /\ \A kind \in CallKinds : pc[t] \in kind <=> pc'[t] \in kind
    <3>1. /\ pc[t] \in CallLabels
          /\ \/ pc'[t] = "user"
             \/ arg'[t] = arg[t] /\ \E kind \in CallKinds : {pc[t], pc'[t]} \subseteq kind
      BY <1>3, InnerStepStays
    <3> QED
      BY <3>1, SameKind
  <2>5. \/ pc'[t] = "user"
        \/ /\ arg'[t] = arg[t]
           /\ pc[t] \in ReadCount <=> pc'[t] \in ReadCount
           /\ pc[t] \in {"wait_svc"} <=> pc'[t] \in {"wait_svc"}
           /\ pc[t] \in AcquireLabels <=> pc'[t] \in AcquireLabels
           /\ pc[t] \in ReleaseLabels <=> pc'[t] \in ReleaseLabels
           /\ pc[t] \in Taking <=> pc'[t] \in Taking
           /\ pc[t] \in Giving <=> pc'[t] \in Giving
    BY <2>4 DEF CallKinds
  <2>6. pc[t] \in ReadCount \cup {"wait_svc"} \cup AcquireLabels \cup ReleaseLabels
                  \cup Taking \cup Giving
    BY <2>4 DEF CallLabels, SemLabels, ReadCount, Taking, Giving
  <2>7. "user" \notin ReadCount \cup {"wait_svc"} \cup AcquireLabels \cup ReleaseLabels
                  \cup Taking \cup Giving
    BY DEF ReadCount, AcquireLabels, ReleaseLabels, Taking, Giving, SemAcquireLabels
  <2>8. pc'[t] \in {"user"} \cup CallLabels
    BY <2>5, <2>6 DEF CallLabels, SemLabels, ReadCount, Taking, Giving
  <2>9. FunctionsCall'
    BY <2>2, <2>3, <2>8 DEF FunctionsCall
  <2>10. ItcCalls'
    BY <2>2, <2>3, <2>5, <2>7 DEF ItcCalls
  <2>11. InsideHolds'
    <3>1. ASSUME Inside(t)' PROVE QueueMux \in held'[t]
      <4>1. pc[t] \in AcquireLabels /\ pc'[t] = "user" /\ arg[t] = QueueMux
        BY <2>2, <2>5, <2>6, <2>7, <3>1 DEF Inside, ItcCalls
      <4> QED
        BY <1>3, <4>1, InnerStepHeld
    <3> QED
      BY <2>2, <2>3, <3>1 DEF InsideHolds, Inside
  <2> QED
    BY <2>1, <2>9, <2>10, <2>11
<1>4. ASSUME NEW t \in Tasks, ItcCallStep(t) PROVE ItcControl'
  <2>1. Entries(t)
    BY <1>4, ItcCallMoves
  <2>2. SyncKept'
    BY <2>1, EntriesKept
  <2>3. /\ pc[t] = "user"
        /\ \A u \in Tasks \ {t} :
             pc'[u] = pc[u] /\ arg'[u] = arg[u] /\ held'[u] = held[u]
    BY <2>1, EntriesMove
  <2>4. \A u \in Tasks \ {t} : stage'[u] = stage[u]
    BY <1>4, ItcCallMoves DEF ItcDataTyped
  <2>5. FunctionsCall' /\ ItcCalls' /\ InsideHolds'
    BY <1>4, <2>3, <2>4, ItcCallMoves
    DEF FunctionsCall, ItcCalls, InsideHolds, Inside, CallLabels, AcquireLabels,
        ReleaseLabels, SemLabels, SemAcquireLabels, ReadCount, Taking, Giving
  <2> QED
    BY <2>2, <2>5
<1>5. ASSUME NEW t \in Tasks, ItcOwnStep(t) PROVE ItcControl'
  <2>1. SyncKept'
    BY <1>5, ItcOwnMoves, OwnStepKept
  <2>2. \A u \in Tasks \ {t} : stage'[u] = stage[u]
    BY <1>5, ItcOwnMoves DEF ItcDataTyped
  <2>3. FunctionsCall' /\ ItcCalls' /\ InsideHolds'
    BY <1>5, <2>2, ItcOwnMoves
    DEF FunctionsCall, ItcCalls, InsideHolds, Inside, AcquireLabels,
        ReleaseLabels, SemAcquireLabels, ReadCount, Taking, Giving
  <2> QED
    BY <2>1, <2>3
<1> QED
  BY <1>1, <1>2, <1>3, <1>4, <1>5, ItcSteps DEF ItcNext, ItcThread

-----------------------------------------------------------------------------
\* What a slot holds.

ContentKnown ==
  \A i \in Slots :
    /\ \A t \in Tasks : stage[t] = "rx_clear" /\ slot[t] = i => Content(i) = msg[t]
    /\ (\A t \in Tasks : ~(stage[t] = "rx_clear" /\ slot[t] = i)) =>
         Content(i) = msgbuf[i].data

\* Only one task can have copied the message out and not cleared dest yet.
LEMMA ContentIs == ItcControl => ContentKnown
<1> SUFFICES ASSUME ItcControl, NEW i \in Slots
             PROVE  /\ \A t \in Tasks :
                         stage[t] = "rx_clear" /\ slot[t] = i => Content(i) = msg[t]
                    /\ (\A t \in Tasks : ~(stage[t] = "rx_clear" /\ slot[t] = i)) =>
                         Content(i) = msgbuf[i].data
  BY DEF ContentKnown
<1> DEFINE Clearing(t) == stage[t] = "rx_clear" /\ slot[t] = i
<1>1. ASSUME NEW t \in Tasks, Clearing(t) PROVE Content(i) = msg[t]
  <2>1. \A u \in Tasks : Clearing(u) => u = t
    BY <1>1, InsideAlone DEF Inside
  <2>2. t = CHOOSE u \in Tasks : Clearing(u)
    BY <1>1, <2>1
  <2> QED
    BY <1>1, <2>2 DEF Content
<1>2. ASSUME \A t \in Tasks : ~Clearing(t) PROVE Content(i) = msgbuf[i].data
  BY <1>2 DEF Content
<1> QED
  BY <1>1, <1>2

\* The slots that stay what they are, when nobody starts or stops clearing one.
LEMMA ContentKept ==
  ASSUME ContentKnown, ContentKnown',
         \A t \in Tasks : /\ stage'[t] = "rx_clear" <=> stage[t] = "rx_clear"
                          /\ stage[t] = "rx_clear" => slot'[t] = slot[t] /\ msg'[t] = msg[t],
         NEW i \in Slots, msgbuf'[i].data = msgbuf[i].data
  PROVE  Content(i)' = Content(i)
<1>1. CASE \E t \in Tasks : stage[t] = "rx_clear" /\ slot[t] = i
  BY <1>1 DEF ContentKnown, Slots
<1>2. CASE \A t \in Tasks : ~(stage[t] = "rx_clear" /\ slot[t] = i)
  BY <1>2 DEF ContentKnown, Slots
<1> QED
  BY <1>1, <1>2

-----------------------------------------------------------------------------
\* The part about the queue.

\* A step that does not touch the queue.
LEMMA QuietStepData ==
  ASSUME ItcDataTyped, ItcData, stage' = stage, UNCHANGED itcData
  PROVE  ItcDataTyped' /\ ItcData'
<1> USE DEF ItcData, itcData
<1>1. ItcDataTyped'
  BY DEF ItcDataTyped, Slots
<1>2. SlotsFound' /\ ReadersFind'
  BY DEF SlotsFound, ReadersFind, Slots
<1>3. Fresh'
  BY DEF Fresh, Sending
<1>4. BufferIntegrity'
  BY DEF BufferIntegrity, Occupied, Content, Slots
<1> QED
  BY <1>1, <1>2, <1>3, <1>4

\* A step that makes a call leaves the queue alone; a send begins with a new message.
LEMMA CallStepLeaves ==
  ASSUME ItcDataTyped, SyncKept, NEW t \in Tasks, ItcCallStep(t)
  PROVE  /\ msgbuf' = msgbuf /\ slot' = slot /\ pending' = pending /\ dropped' = dropped
         /\ \/ /\ msg' = msg /\ nextId' = nextId
               /\ stage'[t] # "tx_test"
               /\ stage'[t] = "rx_test" => (Guarded => OS_ITCHasMsg(t))
            \/ /\ \E dest \in Tasks :
                    <<t, dest>> \in Routes /\ msg' = [msg EXCEPT ![t] = [id |-> nextId, to |-> dest]]
               /\ nextId' = nextId + 1
               /\ stage[t] = "none" /\ stage'[t] = "tx_test"
<1>1. /\ stage' = [stage EXCEPT ![t] = stage'[t]]
      /\ stage[t] # "none" => stage'[t] \notin {"tx_test", "rx_test"}
  BY ItcCallMoves
<1>2. msgbuf' = msgbuf /\ slot' = slot /\ pending' = pending /\ dropped' = dropped
  BY DEF ItcCallStep, OS_ITCSendMsg, TxTest, TxLock, TxUnlock, TxTake, OS_ITCReadMsg, RxTest,
         RxLock, RxUnlock, RxGive, itcData
<1>3. CASE OS_ITCReadMsg(t)
  <2>1. stage'[t] = "rx_test"
    BY <1>3 DEF OS_ITCReadMsg, CallCounting, ToStage, ItcDataTyped
  <2> QED
    BY <1>2, <1>3, <2>1 DEF OS_ITCReadMsg, itcData
<1>4. ASSUME NEW dest \in Tasks, OS_ITCSendMsg(t, dest)
      PROVE  /\ msg' = [msg EXCEPT ![t] = [id |-> nextId, to |-> dest]]
             /\ nextId' = nextId + 1
             /\ stage[t] = "none" /\ stage'[t] = "tx_test"
  BY <1>4 DEF OS_ITCSendMsg, CallCounting, AtStage, ToStage, ItcDataTyped
<1>5. CASE TxTest(t) \/ TxLock(t) \/ TxUnlock(t) \/ TxTake(t) \/ RxTest(t) \/ RxLock(t)
           \/ RxUnlock(t) \/ RxGive(t)
  <2>1. stage[t] # "none"
    BY <1>5 DEF TxTest, TxLock, TxUnlock, TxTake, RxTest, RxLock, RxUnlock, RxGive, WaitOrLock,
                CallMutexAquire, CallMutexRelease, CallSemaphoreAquire, CallSemaphoreRelease, AtStage
  <2>2. msg' = msg /\ nextId' = nextId
    BY <1>5 DEF TxTest, TxLock, TxUnlock, TxTake, RxTest, RxLock, RxUnlock, RxGive, itcData
  <2> QED
    BY <1>1, <1>2, <2>1, <2>2
<1> QED
  BY <1>2, <1>3, <1>4, <1>5 DEF ItcCallStep

\* A step that makes a call.
LEMMA CallStepData ==
  ASSUME ItcInv, ItcControl', NEW t \in Tasks, ItcCallStep(t)
  PROVE  ItcDataTyped' /\ ItcData'
<1> USE DEF ItcInv, ItcControl
<1>1. /\ stage' = [stage EXCEPT ![t] = stage'[t]]
      /\ \/ stage[t] = "none" /\ stage'[t] \in {"tx_test", "rx_test"}
         \/ stage[t] \in {"tx_test", "tx_lock"} /\ stage'[t] \in {"tx_lock", "tx_find"}
         \/ stage[t] \in {"rx_test", "rx_lock"} /\ stage'[t] \in {"rx_lock", "rx_find"}
         \/ stage[t] = "tx_unlock" /\ stage'[t] = "tx_take"
         \/ stage[t] = "rx_unlock" /\ stage'[t] = "rx_give"
         \/ stage[t] = "tx_take" /\ stage'[t] = "tx_end"
         \/ stage[t] = "rx_give" /\ stage'[t] = "rx_end"
  BY ItcCallMoves
<1>2. \A u \in Tasks \ {t} : stage'[u] = stage[u]
  BY <1>1 DEF ItcDataTyped
<1>3. msgbuf' = msgbuf /\ slot' = slot /\ pending' = pending /\ dropped' = dropped
  BY CallStepLeaves
<1>4. \/ /\ msg' = msg /\ nextId' = nextId
         /\ stage'[t] # "tx_test"
         /\ stage'[t] = "rx_test" => (Guarded => OS_ITCHasMsg(t))
      \/ /\ \E dest \in Tasks : msg' = [msg EXCEPT ![t] = [id |-> nextId, to |-> dest]]
         /\ nextId' = nextId + 1
         /\ stage[t] = "none" /\ stage'[t] = "tx_test"
  BY CallStepLeaves
<1> HIDE DEF ItcControl
<1>5. ItcDataTyped'
  BY <1>1, <1>3, <1>4 DEF ItcDataTyped, Slots, TxStages, RxStages, Messages
<1>6. SlotsFound'
  <2>1. \A u \in Tasks : u # t => msg'[u] = msg[u]
    BY <1>4 DEF ItcDataTyped
  <2> QED
    BY <1>1, <1>2, <1>3, <2>1 DEF ItcData, SlotsFound, Slots
<1>7. Fresh'
  <2>1. CASE msg' = msg /\ nextId' = nextId /\ stage'[t] # "tx_test"
    BY <1>1, <1>2, <1>3, <2>1 DEF ItcData, Fresh, Sending
  <2>2. ASSUME NEW dest \in Tasks, msg' = [msg EXCEPT ![t] = [id |-> nextId, to |-> dest]],
               nextId' = nextId + 1
        PROVE  Fresh'
    <3>1. \A u \in Tasks : msg'[u] = IF u = t THEN [id |-> nextId, to |-> dest] ELSE msg[u]
      BY <2>2 DEF ItcDataTyped
    <3>2. msg'[t] \in Messages /\ msg'[t].id = nextId /\ nextId \in Nat
      BY <3>1 DEF ItcDataTyped, Messages
    <3>3. \A m \in Messages : m.id \in Nat /\ (m.id < nextId => m.id < nextId + 1)
      BY <3>2 DEF Messages
    <3>4. \A m \in pending : m \in Messages /\ m.id < nextId
      BY DEF ItcData, Fresh, ItcDataTyped
    <3>5. \A u \in Tasks : u # t /\ stage[u] \in Sending =>
             msg[u] \in Messages /\ msg[u].id < nextId /\ msg[u] \notin pending
      BY DEF ItcData, Fresh
    <3>6. \A u, v \in Tasks :
             u # v /\ stage[u] \in Sending /\ stage[v] \in Sending => msg[u] # msg[v]
      BY DEF ItcData, Fresh
    <3>7. \A n \in Nat : ~(n < n) /\ n < n + 1
      OBVIOUS
    <3> QED
      BY <1>2, <1>3, <2>2, <3>1, <3>2, <3>3, <3>4, <3>5, <3>6, <3>7 DEF Fresh
  <2> QED
    BY <1>4, <2>1, <2>2
<1>8. ReadersFind'
  <2>1. Guarded /\ stage'[t] = "rx_test" => \E i \in Slots : msgbuf[i].dest = t
    BY <1>4, HasMsgFinds
  <2> QED
    BY <1>1, <1>2, <1>3, <2>1 DEF ItcData, ReadersFind, Slots
<1>9. BufferIntegrity'
  <2>1. ContentKnown /\ ContentKnown'
    <3>1. (ItcControl => ContentKnown)'
      BY ContentIs, PTL
    <3> QED
      BY <3>1, ContentIs
  <2>2. \A u \in Tasks : /\ stage'[u] = "rx_clear" <=> stage[u] = "rx_clear"
                         /\ stage[u] = "rx_clear" => slot'[u] = slot[u] /\ msg'[u] = msg[u]
    <3>1. \A u \in Tasks : u # t => msg'[u] = msg[u]
      BY <1>4 DEF ItcDataTyped
    <3> QED
      BY <1>1, <1>2, <1>3, <3>1
  <2>3. \A i \in Slots : Content(i)' = Content(i)
    BY <1>3, <2>1, <2>2, ContentKept
  <2>4. Occupied' = Occupied
    BY <1>3 DEF Occupied, Slots
  <2> HIDE DEF Content
  <2> QED
    BY <1>3, <2>3, <2>4 DEF ItcData, BufferIntegrity, Occupied
<1> QED
  BY <1>5, <1>6, <1>7, <1>8, <1>9 DEF ItcData

\* A step on the queue itself moves its task alone, which is the only one Inside.
LEMMA OwnStepAlone ==
  ASSUME ItcInv, ItcControl', NEW t \in Tasks, ItcOwnStep(t)
  PROVE  /\ pc[t] = "user" /\ pc' = pc
         /\ \A u \in Tasks \ {t} : stage'[u] = stage[u]
         /\ \A u \in Tasks \ {t} : Inside(t) => ~Inside(u)
         /\ ContentKnown /\ ContentKnown'
<1>1. (ItcControl => ContentKnown)'
  BY ContentIs, PTL
<1> QED
  BY <1>1, ContentIs, InsideAlone, ItcOwnMoves DEF ItcInv, ItcDataTyped

\* The searches.
LEMMA FindStepData ==
  ASSUME ItcInv, ItcControl', NEW t \in Tasks, TxFind(t) \/ RxFind(t)
  PROVE  ItcDataTyped' /\ ItcData'
<1> USE DEF ItcInv
<1>1. /\ pc[t] = "user"
      /\ \A u \in Tasks \ {t} : stage'[u] = stage[u]
      /\ ContentKnown /\ ContentKnown'
  BY OwnStepAlone DEF ItcOwnStep
<1>2. /\ msgbuf' = msgbuf /\ msg' = msg /\ nextId' = nextId /\ pending' = pending
      /\ stage' = [stage EXCEPT ![t] = stage'[t]]
      /\ slot' = [slot EXCEPT ![t] = slot'[t]]
      /\ \/ dropped' = dropped
         \/ stage[t] = "tx_find" /\ dropped' = dropped \cup {msg[t]}
      /\ \/ /\ stage[t] = "tx_find"
            /\ \/ stage'[t] = "tx_unlock"
               \/ stage'[t] = "tx_data" /\ msgbuf[slot'[t]].dest = Nil
         \/ /\ stage[t] = "rx_find"
            /\ \/ stage'[t] = "rx_unlock" /\ \A i \in Slots : msgbuf[i].dest # t
               \/ stage'[t] = "rx_copy" /\ msgbuf[slot'[t]].dest = t
      /\ slot'[t] \in Slots \cup {0}
      /\ stage'[t] \in {"tx_data", "rx_copy"} => slot'[t] \in Slots
  <2>1. CASE TxFind(t)
    <3>1. slot'[t] = FirstFor(Nil) /\ slot' = [slot EXCEPT ![t] = slot'[t]]
      BY <2>1 DEF TxFind, ItcDataTyped
    <3>2. /\ stage' = [stage EXCEPT ![t] = stage'[t]] /\ stage[t] = "tx_find"
          /\ stage'[t] = IF slot'[t] = 0 THEN "tx_unlock" ELSE "tx_data"
      BY <2>1 DEF TxFind, OwnStep, AtStage, ToStage, ItcDataTyped
    <3>3. /\ msgbuf' = msgbuf /\ msg' = msg /\ nextId' = nextId /\ pending' = pending
          /\ dropped' = dropped \/ dropped' = dropped \cup {msg[t]}
      BY <2>1 DEF TxFind
    <3>4. \/ slot'[t] = 0
          \/ slot'[t] \in Slots /\ slot'[t] # 0 /\ msgbuf[slot'[t]].dest = Nil
      BY <3>1, FirstForFinds
    <3> QED
      BY <3>1, <3>2, <3>3, <3>4
  <2>2. CASE RxFind(t)
    <3>1. slot'[t] = FirstFor(t) /\ slot' = [slot EXCEPT ![t] = slot'[t]]
      BY <2>2 DEF RxFind, ItcDataTyped
    <3>2. /\ stage' = [stage EXCEPT ![t] = stage'[t]] /\ stage[t] = "rx_find"
          /\ stage'[t] = IF slot'[t] = 0 THEN "rx_unlock" ELSE "rx_copy"
      BY <2>2 DEF RxFind, OwnStep, AtStage, ToStage, ItcDataTyped
    <3>3. /\ msgbuf' = msgbuf /\ msg' = msg /\ nextId' = nextId /\ pending' = pending
          /\ dropped' = dropped
      BY <2>2 DEF RxFind
    <3>4. \/ slot'[t] = 0 /\ \A i \in Slots : msgbuf[i].dest # t
          \/ slot'[t] \in Slots /\ slot'[t] # 0 /\ msgbuf[slot'[t]].dest = t
      BY <3>1, FirstForFinds
    <3> QED
      BY <3>1, <3>2, <3>3, <3>4
  <2> QED
    BY <2>1, <2>2
<1>3. \A u \in Tasks \ {t} : slot'[u] = slot[u]
  BY <1>2 DEF ItcDataTyped
<1>4. ItcDataTyped'
  <2>1. stage[t] = "tx_find" => msg[t] \in Messages
    BY DEF ItcData, Fresh, Sending
  <2> QED
    BY <1>2, <2>1 DEF ItcDataTyped, Slots, TxStages, RxStages
<1>5. SlotsFound'
  BY <1>1, <1>2, <1>3 DEF ItcData, SlotsFound, Slots
<1>6. Fresh'
  BY <1>1, <1>2 DEF ItcData, Fresh, Sending
<1>7. ReadersFind'
  BY <1>1, <1>2, <1>3 DEF ItcData, ReadersFind, Slots
<1>8. BufferIntegrity'
  <2>1. \A i \in Slots : Content(i)' = Content(i)
    BY <1>1, <1>2, <1>3, ContentKept
  <2>2. Occupied' = Occupied
    BY <1>2 DEF Occupied, Slots
  <2> HIDE DEF Content
  <2> QED
    BY <1>2, <2>1, <2>2 DEF ItcData, BufferIntegrity, Occupied
<1> QED
  BY <1>4, <1>5, <1>6, <1>7, <1>8 DEF ItcData

\* A message is written into the slot that was found, which nobody reads.
LEMMA DataStepData ==
  ASSUME ItcInv, ItcControl', NEW t \in Tasks, TxData(t)
  PROVE  ItcDataTyped' /\ ItcData'
<1> USE DEF ItcInv
<1>1. /\ stage[t] = "tx_data" /\ stage' = [stage EXCEPT ![t] = "tx_dest"]
      /\ msgbuf' = [msgbuf EXCEPT ![slot[t]].data = msg[t]]
      /\ slot' = slot /\ msg' = msg /\ nextId' = nextId /\ pending' = pending
      /\ dropped' = dropped
  BY DEF TxData, OwnStep, AtStage, ToStage
<1>2. /\ \A u \in Tasks \ {t} : stage'[u] = stage[u]
      /\ \A u \in Tasks \ {t} : ~Inside(u)
      /\ ContentKnown /\ ContentKnown'
  BY <1>1, OwnStepAlone DEF ItcOwnStep, Inside
<1>3. slot[t] \in Slots /\ msgbuf[slot[t]].dest = Nil /\ msg[t] \in Messages
  BY <1>1 DEF ItcData, SlotsFound, Fresh, Sending
<1>4. /\ \A i \in Slots : msgbuf'[i].dest = msgbuf[i].dest
      /\ \A i \in Slots \ {slot[t]} : msgbuf'[i] = msgbuf[i]
      /\ msgbuf'[slot[t]].data = msg[t]
  BY <1>1, <1>3 DEF ItcDataTyped
<1>5. ItcDataTyped'
  BY <1>1, <1>3 DEF ItcDataTyped, Slots, TxStages, RxStages
<1>6. SlotsFound'
  BY <1>1, <1>2, <1>3, <1>4 DEF ItcData, SlotsFound, Slots, Inside
<1>7. Fresh'
  BY <1>1, <1>2 DEF ItcData, Fresh, Sending
<1>8. ReadersFind'
  BY <1>1, <1>2, <1>4 DEF ItcData, ReadersFind, Slots
<1>9. BufferIntegrity'
  <2>1. Occupied' = Occupied
    BY <1>4 DEF Occupied, Slots
  <2>2. \A i \in Occupied : Content(i)' = Content(i)
    <3>1. \A i \in Occupied : i \in Slots /\ msgbuf'[i].data = msgbuf[i].data
      BY <1>3, <1>4 DEF Occupied
    <3>2. \A u \in Tasks : stage[u] # "rx_clear" /\ stage'[u] # "rx_clear"
      BY <1>1, <1>2 DEF Inside, ItcDataTyped
    <3> QED
      BY <1>2, <3>1, <3>2, ContentKept
  <2> HIDE DEF Content
  <2> QED
    BY <1>1, <2>1, <2>2, <1>4 DEF ItcData, BufferIntegrity, Occupied
<1> QED
  BY <1>5, <1>6, <1>7, <1>8, <1>9 DEF ItcData

\* It is addressed, and is there.
LEMMA DestStepData ==
  ASSUME ItcInv, ItcControl', NEW t \in Tasks, TxDest(t)
  PROVE  ItcDataTyped' /\ ItcData'
<1> USE DEF ItcInv
<1>1. /\ stage[t] = "tx_dest" /\ stage' = [stage EXCEPT ![t] = "tx_unlock"]
      /\ msgbuf' = [msgbuf EXCEPT ![slot[t]].dest = msg[t].to]
      /\ slot' = slot /\ msg' = msg /\ nextId' = nextId
      /\ pending' = pending \cup {msg[t]} /\ dropped' = dropped
      /\ stage'[t] = "tx_unlock"
  BY DEF TxDest, OwnStep, AtStage, ToStage, ItcDataTyped
<1>2. /\ \A u \in Tasks \ {t} : stage'[u] = stage[u]
      /\ \A u \in Tasks \ {t} : ~Inside(u)
      /\ ContentKnown /\ ContentKnown'
  BY <1>1, OwnStepAlone DEF ItcOwnStep, Inside
<1>3. /\ slot[t] \in Slots /\ msgbuf[slot[t]].dest = Nil /\ msgbuf[slot[t]].data = msg[t]
      /\ msg[t] \in Messages /\ msg[t] \notin pending /\ msg[t].id < nextId
      /\ msg[t].to \in Tasks /\ msg[t].to # Nil
  BY <1>1, QueueAssumption DEF ItcData, SlotsFound, Fresh, Sending, Messages
<1>4. /\ \A i \in Slots : msgbuf'[i].data = msgbuf[i].data
      /\ \A i \in Slots \ {slot[t]} : msgbuf'[i] = msgbuf[i]
      /\ msgbuf'[slot[t]].dest = msg[t].to
  BY <1>1, <1>3 DEF ItcDataTyped
<1>5. ItcDataTyped'
  BY <1>1, <1>3 DEF ItcDataTyped, Slots, TxStages, RxStages
<1>6. SlotsFound'
  BY <1>1, <1>2, <1>3, <1>4 DEF ItcData, SlotsFound, Slots, Inside
<1>7. Fresh'
  BY <1>1, <1>2, <1>3 DEF ItcData, Fresh, Sending
<1>8. ReadersFind'
  <2>1. \A u \in Tasks, i \in Slots : msgbuf[i].dest = u => msgbuf'[i].dest = u
    BY <1>3, <1>4, QueueAssumption
  <2> QED
    BY <1>1, <1>2, <2>1 DEF ItcData, ReadersFind, Slots
<1>9. BufferIntegrity'
  <2>1. Occupied' = Occupied \cup {slot[t]} /\ slot[t] \notin Occupied
    BY <1>3, <1>4 DEF Occupied, Slots
  <2>2. \A u \in Tasks : stage[u] # "rx_clear" /\ stage'[u] # "rx_clear"
    BY <1>1, <1>2 DEF Inside, ItcDataTyped
  <2>3. \A i \in Slots : Content(i)' = Content(i)
    BY <1>2, <1>4, <2>2, ContentKept
  <2>4. \A i \in Slots : i = slot[t] => Content(i)' = msg[t]
    BY <1>1, <1>2, <1>3, <1>4, <2>2 DEF ContentKnown, Slots
  <2> HIDE DEF Content
  <2>5. \A i \in Occupied : i \in Slots /\ Content(i) \in pending
    BY DEF ItcData, BufferIntegrity, Occupied
  <2>6. \A i \in Occupied' : \/ i \in Occupied /\ Content(i)' = Content(i)
                             \/ i = slot[t] /\ Content(i)' = msg[t]
    BY <1>3, <2>1, <2>3, <2>4, <2>5
  <2>7. {Content(i)' : i \in Occupied'} = pending'
    BY <1>1, <1>3, <2>1, <2>3, <2>4, <2>5 DEF ItcData, BufferIntegrity
  <2>8. \A i, j \in Occupied' : i # j => Content(i)' # Content(j)'
    BY <1>3, <2>5, <2>6 DEF ItcData, BufferIntegrity
  <2>9. \A i \in Occupied' : Content(i)'.to = msgbuf'[i].dest
    BY <1>3, <1>4, <2>1, <2>3, <2>4, <2>5 DEF ItcData, BufferIntegrity
  <2> QED
    BY <2>7, <2>8, <2>9 DEF BufferIntegrity
<1> QED
  BY <1>5, <1>6, <1>7, <1>8, <1>9 DEF ItcData

\* The reader takes the data out.
LEMMA CopyStepData ==
  ASSUME ItcInv, ItcControl', NEW t \in Tasks, RxCopy(t)
  PROVE  ItcDataTyped' /\ ItcData'
<1> USE DEF ItcInv
<1>1. /\ stage[t] = "rx_copy" /\ stage' = [stage EXCEPT ![t] = "rx_clear"]
      /\ msgbuf' = [msgbuf EXCEPT ![slot[t]].data = NoData]
      /\ msg' = [msg EXCEPT ![t] = msgbuf[slot[t]].data]
      /\ slot' = slot /\ nextId' = nextId /\ pending' = pending /\ dropped' = dropped
      /\ stage'[t] = "rx_clear" /\ msg'[t] = msgbuf[slot[t]].data
  BY DEF RxCopy, OwnStep, AtStage, ToStage, ItcDataTyped
<1>2. /\ \A u \in Tasks \ {t} : stage'[u] = stage[u]
      /\ \A u \in Tasks \ {t} : ~Inside(u)
      /\ ContentKnown /\ ContentKnown'
  BY <1>1, OwnStepAlone DEF ItcOwnStep, Inside
<1>3. slot[t] \in Slots /\ msgbuf[slot[t]].dest = t
  BY <1>1 DEF ItcData, SlotsFound
<1>4. /\ \A i \in Slots : msgbuf'[i].dest = msgbuf[i].dest
      /\ \A i \in Slots \ {slot[t]} : msgbuf'[i] = msgbuf[i]
      /\ \A u \in Tasks \ {t} : msg'[u] = msg[u]
  BY <1>1, <1>3 DEF ItcDataTyped
<1>5. ItcDataTyped'
  BY <1>1, <1>3 DEF ItcDataTyped, Slots, TxStages, RxStages
<1>6. SlotsFound'
  BY <1>1, <1>2, <1>3, <1>4 DEF ItcData, SlotsFound, Slots, Inside
<1>7. Fresh'
  BY <1>1, <1>2, <1>4 DEF ItcData, Fresh, Sending
<1>8. ReadersFind'
  BY <1>1, <1>2, <1>4 DEF ItcData, ReadersFind, Slots
<1>9. BufferIntegrity'
  <2>1. Occupied' = Occupied
    BY <1>4 DEF Occupied, Slots
  <2>2. \A u \in Tasks : stage[u] # "rx_clear"
    BY <1>1, <1>2 DEF Inside
  <2>3. \A i \in Slots : Content(i)' = Content(i)
    <3>1. ASSUME NEW i \in Slots, i = slot[t] PROVE Content(i)' = msg'[t]
      BY <1>1, <1>2, <3>1 DEF ContentKnown, Slots
    <3>2. ASSUME NEW i \in Slots, i = slot[t] PROVE Content(i) = msg'[t]
      BY <1>1, <1>2, <2>2, <3>2 DEF ContentKnown
    <3>3. ASSUME NEW i \in Slots, i # slot[t] PROVE Content(i)' = msgbuf[i].data
      <4>1. \A u \in Tasks : ~(stage'[u] = "rx_clear" /\ slot'[u] = i)
        BY <1>1, <1>2, <2>2, <3>3
      <4> QED
        BY <1>2, <1>4, <3>3, <4>1 DEF ContentKnown, Slots
    <3>4. ASSUME NEW i \in Slots, i # slot[t] PROVE Content(i) = msgbuf[i].data
      BY <1>2, <2>2, <3>4 DEF ContentKnown
    <3> HIDE DEF Content
    <3> QED
      BY <3>1, <3>2, <3>3, <3>4
  <2> HIDE DEF Content
  <2> QED
    BY <1>1, <2>1, <2>3, <1>4 DEF ItcData, BufferIntegrity, Occupied
<1> QED
  BY <1>5, <1>6, <1>7, <1>8, <1>9 DEF ItcData

\* What the reader has copied out is a message that is there, and for it.
LEMMA ClearingReads ==
  ASSUME ItcInv, NEW t \in Tasks, stage[t] = "rx_clear"
  PROVE  /\ slot[t] \in Occupied /\ Content(slot[t]) = msg[t]
         /\ msg[t] \in pending /\ msg[t].to = t
<1>1. slot[t] \in Slots /\ msgbuf[slot[t]].dest = t
  BY DEF ItcInv, ItcData, SlotsFound
<1>2. slot[t] \in Occupied
  BY <1>1, QueueAssumption DEF Occupied
<1>3. Content(slot[t]) = msg[t]
  BY <1>1, ContentIs DEF ItcInv, ContentKnown
<1> QED
  BY <1>1, <1>2, <1>3 DEF ItcInv, ItcData, BufferIntegrity

\* The slot is free again.
LEMMA ClearStepData ==
  ASSUME ItcInv, ItcControl', NEW t \in Tasks, RxClear(t)
  PROVE  ItcDataTyped' /\ ItcData'
<1> USE DEF ItcInv
<1>1. /\ stage[t] = "rx_clear" /\ stage' = [stage EXCEPT ![t] = "rx_unlock"]
      /\ msgbuf' = [msgbuf EXCEPT ![slot[t]].dest = Nil]
      /\ slot' = slot /\ msg' = msg /\ nextId' = nextId
      /\ pending' = pending \ {msg[t]} /\ dropped' = dropped
      /\ stage'[t] = "rx_unlock"
  BY DEF RxClear, OwnStep, AtStage, ToStage, ItcDataTyped
<1>2. /\ \A u \in Tasks \ {t} : stage'[u] = stage[u]
      /\ \A u \in Tasks \ {t} : ~Inside(u)
      /\ ContentKnown /\ ContentKnown'
  BY <1>1, OwnStepAlone DEF ItcOwnStep, Inside
<1>3. /\ slot[t] \in Slots /\ msgbuf[slot[t]].dest = t
      /\ slot[t] \in Occupied
      /\ \A i \in Slots : i = slot[t] => Content(i) = msg[t]
      /\ slot[t] # 0
  BY <1>1, ClearingReads DEF ItcData, SlotsFound, Slots
<1>4. /\ \A i \in Slots : msgbuf'[i].data = msgbuf[i].data
      /\ \A i \in Slots \ {slot[t]} : msgbuf'[i] = msgbuf[i]
      /\ msgbuf'[slot[t]].dest = Nil
  BY <1>1, <1>3 DEF ItcDataTyped
<1>5. ItcDataTyped'
  BY <1>1, <1>3 DEF ItcDataTyped, Slots, TxStages, RxStages
<1>6. SlotsFound'
  BY <1>1, <1>2, <1>3, <1>4 DEF ItcData, SlotsFound, Slots, Inside
<1>7. Fresh'
  BY <1>1, <1>2 DEF ItcData, Fresh, Sending
<1>8. ReadersFind'
  <2>1. \A u \in Tasks \ {t}, i \in Slots : msgbuf[i].dest = u => msgbuf'[i].dest = u
    BY <1>3, <1>4
  <2> QED
    BY <1>1, <1>2, <1>3, <2>1 DEF ItcData, ReadersFind, Slots
<1>9. BufferIntegrity'
  <2>1. Occupied' = Occupied \ {slot[t]}
    BY <1>3, <1>4 DEF Occupied, Slots
  <2>2. \A u \in Tasks : stage'[u] # "rx_clear"
    BY <1>1, <1>2 DEF Inside
  <2>3. \A i \in Slots : i # slot[t] => Content(i)' = Content(i)
    <3>1. ASSUME NEW i \in Slots, i # slot[t] PROVE Content(i)' = msgbuf[i].data
      BY <1>2, <1>4, <2>2, <3>1 DEF ContentKnown, Slots
    <3>2. ASSUME NEW i \in Slots, i # slot[t] PROVE Content(i) = msgbuf[i].data
      <4>1. \A u \in Tasks : ~(stage[u] = "rx_clear" /\ slot[u] = i)
        BY <1>2, <3>2 DEF Inside
      <4> QED
        BY <1>2, <4>1 DEF ContentKnown
    <3> HIDE DEF Content
    <3> QED
      BY <3>1, <3>2
  <2> HIDE DEF Content
  <2>4. \A i \in Occupied : i \in Slots /\ (i # slot[t] => Content(i) # msg[t])
    BY <1>3 DEF ItcData, BufferIntegrity, Occupied
  <2>5. \A i \in Occupied' : i \in Occupied /\ i # slot[t] /\ Content(i)' = Content(i)
    BY <2>1, <2>3, <2>4
  <2>6. {Content(i)' : i \in Occupied'} = pending'
    <3>1. \A m \in pending' : \E i \in Occupied' : Content(i)' = m
      BY <1>1, <1>3, <2>1, <2>3, <2>4 DEF ItcData, BufferIntegrity
    <3>2. \A i \in Occupied' : Content(i)' \in pending'
      BY <1>1, <2>4, <2>5 DEF ItcData, BufferIntegrity
    <3> QED
      BY <3>1, <3>2
  <2>7. \A i, j \in Occupied' : i # j => Content(i)' # Content(j)'
    BY <2>5 DEF ItcData, BufferIntegrity
  <2>8. \A i \in Occupied' : Content(i)'.to = msgbuf'[i].dest
    BY <1>4, <2>4, <2>5 DEF ItcData, BufferIntegrity
  <2> QED
    BY <2>6, <2>7, <2>8 DEF BufferIntegrity
<1> QED
  BY <1>5, <1>6, <1>7, <1>8, <1>9 DEF ItcData

\* The call returns.
LEMMA EndStepData ==
  ASSUME ItcInv, ItcControl', NEW t \in Tasks,
         EndOfCall(t, "tx_end") \/ EndOfCall(t, "rx_end")
  PROVE  ItcDataTyped' /\ ItcData'
<1> USE DEF ItcInv
<1>1. /\ stage[t] \in {"tx_end", "rx_end"} /\ stage' = [stage EXCEPT ![t] = "none"]
      /\ msgbuf' = msgbuf /\ nextId' = nextId /\ pending' = pending /\ dropped' = dropped
      /\ slot' = [slot EXCEPT ![t] = 0] /\ msg' = [msg EXCEPT ![t] = NoData]
      /\ stage'[t] = "none"
  BY DEF EndOfCall, OwnStep, AtStage, ToStage, ItcDataTyped
<1>2. /\ \A u \in Tasks \ {t} : stage'[u] = stage[u] /\ slot'[u] = slot[u] /\ msg'[u] = msg[u]
      /\ ContentKnown /\ ContentKnown'
  BY <1>1, OwnStepAlone DEF ItcOwnStep, ItcDataTyped
<1>3. ItcDataTyped'
  BY <1>1 DEF ItcDataTyped, Slots
<1>4. SlotsFound' /\ Fresh' /\ ReadersFind'
  BY <1>1, <1>2 DEF ItcData, SlotsFound, Fresh, ReadersFind, Sending, Slots
<1>5. BufferIntegrity'
  <2>1. \A i \in Slots : Content(i)' = Content(i)
    BY <1>1, <1>2, ContentKept
  <2>2. Occupied' = Occupied
    BY <1>1 DEF Occupied, Slots
  <2> HIDE DEF Content
  <2> QED
    BY <1>1, <2>1, <2>2 DEF ItcData, BufferIntegrity, Occupied
<1> QED
  BY <1>3, <1>4, <1>5 DEF ItcData

-----------------------------------------------------------------------------
\* The theorems.

LEMMA ItcNextInv == ASSUME ItcInv, [ItcNext]_itcVars PROVE ItcInv'
<1>1. ItcControl'
  BY ItcNextControl DEF ItcInv
<1>2. ItcDataTyped' /\ ItcData'
  <2>1. CASE stage' = stage /\ UNCHANGED itcData
    BY <2>1, QuietStepData DEF ItcInv
  <2>2. ASSUME NEW t \in Tasks, ItcStep(t) PROVE ItcDataTyped' /\ ItcData'
    BY <1>1, <2>2, ItcSteps, CallStepData, FindStepData, DataStepData, DestStepData,
       CopyStepData, ClearStepData, EndStepData
    DEF ItcOwnStep
  <2> QED
    BY <2>1, <2>2 DEF ItcNext, ItcThread, InnerStep, OuterStep, itcVars
<1> QED
  BY <1>1, <1>2 DEF ItcInv

LEMMA ItcInvariant == ItcSpec => []ItcInv
BY ItcInitInv, ItcNextInv, PTL DEF ItcSpec

\* The queue, its calls and the kernel under them are well typed in every reachable
\* state: every search ends at a slot or at none (OS_ITCSendMsg, OS_ITCReadMsg).
THEOREM ItcTypeCorrect == ItcSpec => []ItcTypeOK
<1>1. ItcInv => ItcTypeOK
  BY DEF ItcInv, ItcControl, SyncKept, SyncShape, MutexShape, KernelTyped, ItcDataTyped,
         ItcTypeOK
<1> QED
  BY <1>1, ItcInvariant, PTL

\* The mutex keeps the buffer whole: the occupied slots hold the messages that were
\* stored and not read, each once and under its dest, whatever calls run at the same
\* time (the loops of OS_ITCSendMsg and OS_ITCReadMsg).
THEOREM MessagesKept == ItcSpec => []BufferIntegrity
<1>1. ItcInv => BufferIntegrity
  BY DEF ItcInv, ItcData
<1> QED
  BY <1>1, ItcInvariant, PTL

\* A task that reads because OS_ITCHasMsg told it to returns with a message that was
\* sent to it and that nobody has read (OS_ITCHasMsg, OS_ITCReadMsg).
THEOREM GuardedReadersServed ==
  ASSUME Guarded PROVE ItcSpec => GuardedReadDelivers
<1> DEFINE Delivers(t) ==
      stage[t] \in {"rx_find", "rx_clear"} /\ stage'[t] = "rx_unlock" =>
        stage[t] = "rx_clear" /\ msg[t] \in pending /\ msg[t].to = t
<1>1. ASSUME ItcInv, [ItcNext]_itcVars, NEW t \in Tasks PROVE Delivers(t)
  <2> SUFFICES ASSUME stage[t] = "rx_find", stage'[t] = "rx_unlock" PROVE FALSE
    BY <1>1, ClearingReads
  <2>1. \E i \in Slots : msgbuf[i].dest = t
    BY <1>1 DEF ItcInv, ItcData, ReadersFind
  <2>2. ItcStep(t)
    <3>1. \A u \in Tasks : ItcStep(u) => u = t
      <4> SUFFICES ASSUME NEW u \in Tasks \ {t}, ItcStep(u) PROVE FALSE
        OBVIOUS
      <4>1. stage'[t] = stage[t]
        BY <1>1, ItcSteps, ItcCallMoves, ItcOwnMoves
        DEF ItcInv, ItcControl, ItcDataTyped
      <4> QED
        BY <4>1
    <3>2. stage' # stage
      OBVIOUS
    <3> QED
      BY <1>1, <3>1, <3>2 DEF ItcNext, ItcThread, InnerStep, OuterStep, itcVars
  <2>3. RxFind(t)
    BY <1>1, <2>2 DEF ItcStep, ItcInv, ItcDataTyped, OS_ITCSendMsg, TxTest, TxLock, TxFind,
      TxData, TxDest, TxUnlock, TxTake, OS_ITCReadMsg, RxTest, RxLock, RxCopy, RxClear,
      RxUnlock, RxGive, EndOfCall, CallCounting, WaitOrLock, CallMutexAquire,
      CallMutexRelease, CallSemaphoreAquire, CallSemaphoreRelease, OwnStep, AtStage
  <2>4. slot'[t] = FirstFor(t) /\ slot'[t] = 0
    BY <1>1, <2>3 DEF RxFind, OwnStep, ToStage, ItcInv, ItcDataTyped
  <2> QED
    BY <2>1, <2>4, FirstForFinds
<1>2. ItcInv /\ [ItcNext]_itcVars =>
        \A t \in Tasks :
          stage[t] \in {"rx_find", "rx_clear"} /\ stage'[t] = "rx_unlock" =>
            /\ stage[t] = "rx_clear"
            /\ msg[t] \in pending
            /\ msg[t].to = t
  BY <1>1
<1> QED
  BY <1>2, ItcInvariant, PTL DEF ItcSpec, GuardedReadDelivers

-----------------------------------------------------------------------------
\* The semaphore and the free slots.

\* NoPhantomSlot with the sets it counts.
SlotsCounted == IsFiniteSet(Untaken) /\ IsFiniteSet(Ungiven) /\ NoPhantomSlot

LEMMA OccupiedFinite == IsFiniteSet(Occupied) /\ Cardinality(Occupied) \in Nat
<1>1. Resources[QueueSem] \in Int
  BY ItcAssumption, SemaphoreAssumption, CounterWidth
<1>2. IsFiniteSet(Slots)
  BY <1>1, FS_Interval DEF Slots
<1>3. Occupied \in SUBSET Slots
  BY DEF Occupied
<1> QED
  BY <1>2, <1>3, FS_Subset, FS_CardinalityType

\* A step that leaves the buffer and the counter alone, and no task's part in the count.
LEMMA CountStays ==
  ASSUME SlotsCounted, msgbuf' = msgbuf, counter'[QueueSem] = counter[QueueSem],
         Untaken' = Untaken, Ungiven' = Ungiven
  PROVE  SlotsCounted'
<1>1. Occupied' = Occupied
  BY DEF Occupied, Slots
<1> QED
  BY <1>1 DEF SlotsCounted, NoPhantomSlot

\* A step of a call in progress.
LEMMA InnerStepCounted ==
  ASSUME Guarded, ItcInv, SlotsCounted, NEW t \in Tasks, InnerStep(t), UNCHANGED itcData
  PROVE  SlotsCounted'
<1> USE DEF ItcInv, ItcControl
<1>1. stage' = stage /\ slot' = slot /\ Occupied' = Occupied
  BY DEF InnerStep, itcData, Occupied, Slots
<1>2. \A u \in Tasks \ {t} : pc'[u] = pc[u]
  BY InnerStepOthers
<1>3. \A u \in Tasks \ {t} : (u \in Untaken' <=> u \in Untaken) /\ (u \in Ungiven' <=> u \in Ungiven)
  BY <1>1, <1>2 DEF Untaken, Ungiven
<1>4. /\ pc[t] \notin SemAcquireLabels => pc'[t] \notin SemAcquireLabels
      /\ pc[t] \notin {"sr_ldrex", "sr_strex"} => pc'[t] \notin {"sr_ldrex", "sr_strex"}
  BY InnerStepPast
<1>5. (t \in Untaken' => t \in Untaken) /\ (t \in Ungiven' => t \in Ungiven)
  BY <1>1, <1>4 DEF Untaken, Ungiven
<1>6. /\ counter[QueueSem] \in Nat /\ counter'[QueueSem] \in Nat
      /\ pc[t] \in SemAcquireLabels /\ pc'[t] \notin SemAcquireLabels /\ arg[t] = QueueSem =>
           counter'[QueueSem] = counter[QueueSem] - 1
      /\ \/ counter'[QueueSem] <= counter[QueueSem]
         \/ /\ counter'[QueueSem] = counter[QueueSem] + 1 /\ arg[t] = QueueSem
            /\ pc[t] = "sr_strex" /\ pc'[t] \notin {"sr_ldrex", "sr_strex"}
  BY InnerStepCounter, ItcAssumption
<1>7. /\ IsFiniteSet(Untaken) /\ Cardinality(Untaken) \in Nat
      /\ IsFiniteSet(Ungiven) /\ Cardinality(Ungiven) \in Nat
      /\ Cardinality(Occupied) \in Nat
      /\ Resources[QueueSem] \in Nat
      /\ counter[QueueSem] + Cardinality(Ungiven)
           <= Resources[QueueSem] - Cardinality(Occupied) + Cardinality(Untaken)
  BY OccupiedFinite, FS_CardinalityType, ItcAssumption, SemaphoreAssumption, CounterWidth
  DEF SlotsCounted, NoPhantomSlot
<1>8. CASE t \in Untaken /\ t \notin Untaken'
  <2>1. pc[t] \in SemAcquireLabels /\ pc'[t] \notin SemAcquireLabels /\ stage[t] = "tx_end"
    BY <1>1, <1>8 DEF Untaken
  <2>2. arg[t] = QueueSem
    BY <2>1 DEF ItcCalls, Taking
  <2>3. counter'[QueueSem] = counter[QueueSem] - 1
    BY <1>6, <2>1, <2>2
  <2>4. t \notin Ungiven /\ t \notin Ungiven'
    BY <1>1, <2>1 DEF Ungiven
  <2>5. Ungiven' = Ungiven /\ Untaken' = Untaken \ {t}
    BY <1>3, <1>8, <2>4 DEF Untaken, Ungiven
  <2>6. /\ IsFiniteSet(Untaken \ {t})
        /\ Cardinality(Untaken \ {t}) = Cardinality(Untaken) - 1
    BY <1>7, <1>8, FS_RemoveElement
  <2> QED
    BY <1>1, <1>6, <1>7, <2>3, <2>5, <2>6 DEF SlotsCounted, NoPhantomSlot
<1>9. CASE ~(t \in Untaken /\ t \notin Untaken')
  <2>1. Untaken' = Untaken
    BY <1>3, <1>5, <1>9 DEF Untaken
  <2>2. CASE t \in Ungiven /\ t \notin Ungiven'
    <3>1. Ungiven' = Ungiven \ {t}
      BY <1>3, <2>2 DEF Ungiven
    <3>2. /\ IsFiniteSet(Ungiven \ {t})
          /\ Cardinality(Ungiven \ {t}) = Cardinality(Ungiven) - 1
      BY <1>7, <2>2, FS_RemoveElement
    <3> QED
      BY <1>1, <1>6, <1>7, <2>1, <3>1, <3>2 DEF SlotsCounted, NoPhantomSlot
  <2>3. CASE ~(t \in Ungiven /\ t \notin Ungiven')
    <3>1. Ungiven' = Ungiven
      BY <1>3, <1>5, <2>3 DEF Ungiven
    <3>2. counter'[QueueSem] <= counter[QueueSem]
      <4> SUFFICES ASSUME arg[t] = QueueSem, pc[t] = "sr_strex",
                          pc'[t] \notin {"sr_ldrex", "sr_strex"}
                   PROVE  FALSE
        BY <1>6
      <4>1. stage[t] = "rx_end"
        BY DEF ItcCalls, Giving
      <4>2. slot[t] # 0
        BY <4>1 DEF ItcData, ReadersFind
      <4> QED
        BY <1>1, <2>3, <4>1, <4>2 DEF Ungiven
    <3> QED
      BY <1>1, <1>6, <1>7, <2>1, <3>1, <3>2 DEF SlotsCounted, NoPhantomSlot
  <2> QED
    BY <2>2, <2>3
<1> QED
  BY <1>8, <1>9

\* A step that makes a call.
LEMMA CallStepCounted ==
  ASSUME ItcInv, SlotsCounted, NEW t \in Tasks, ItcCallStep(t)
  PROVE  SlotsCounted'
<1> USE DEF ItcInv, ItcControl
<1>1. /\ \A u \in Tasks \ {t} : stage'[u] = stage[u] /\ pc'[u] = pc[u]
      /\ pc[t] = "user" /\ counter' = counter
  BY ItcCallMoves, EntriesMove DEF ItcDataTyped
<1>2. msgbuf' = msgbuf /\ slot' = slot
  BY DEF ItcCallStep, OS_ITCSendMsg, TxTest, TxLock, TxUnlock, TxTake, OS_ITCReadMsg, RxTest,
         RxLock, RxUnlock, RxGive, itcData
<1>3. (t \in Untaken' <=> t \in Untaken) /\ (t \in Ungiven' <=> t \in Ungiven)
  BY <1>1, <1>2, ItcCallMoves DEF Untaken, Ungiven, SemAcquireLabels
<1>4. Untaken' = Untaken /\ Ungiven' = Ungiven
  BY <1>1, <1>2, <1>3 DEF Untaken, Ungiven
<1> QED
  BY <1>1, <1>2, <1>4, CountStays

\* A step on the queue itself.
LEMMA OwnStepCounted ==
  ASSUME ItcInv, ItcControl', SlotsCounted, NEW t \in Tasks, ItcOwnStep(t)
  PROVE  SlotsCounted'
<1> USE DEF ItcInv, ItcControl
<1>1. /\ \A u \in Tasks \ {t} : stage'[u] = stage[u] /\ pc'[u] = pc[u]
      /\ pc[t] = "user" /\ pc'[t] = "user" /\ counter' = counter
      /\ \A u \in Tasks \ {t} : slot'[u] = slot[u]
  <2>1. \A u \in Tasks \ {t} : slot'[u] = slot[u]
    BY DEF ItcOwnStep, TxFind, TxData, TxDest, RxFind, RxCopy, RxClear, EndOfCall, ItcDataTyped
  <2> QED
    BY <2>1, ItcOwnMoves DEF ItcDataTyped
<1>2. \A u \in Tasks \ {t} : (u \in Untaken' <=> u \in Untaken) /\ (u \in Ungiven' <=> u \in Ungiven)
  BY <1>1 DEF Untaken, Ungiven
<1>3. /\ IsFiniteSet(Untaken) /\ Cardinality(Untaken) \in Nat
      /\ IsFiniteSet(Ungiven) /\ Cardinality(Ungiven) \in Nat
      /\ IsFiniteSet(Occupied) /\ Cardinality(Occupied) \in Nat
      /\ Resources[QueueSem] \in Nat /\ counter[QueueSem] \in Nat
      /\ counter[QueueSem] + Cardinality(Ungiven)
           <= Resources[QueueSem] - Cardinality(Occupied) + Cardinality(Untaken)
  BY OccupiedFinite, FS_CardinalityType, ItcAssumption, SemaphoreAssumption, CounterWidth
  DEF SlotsCounted, NoPhantomSlot, SyncKept, SyncShape, SemShape, CountersTyped
<1>4. t \notin Untaken /\ t \notin Ungiven
  BY <1>1, ItcOwnMoves DEF Untaken, Ungiven, SemAcquireLabels
<1>5. CASE TxDest(t)
  <2>1. /\ slot[t] \in Slots /\ msgbuf[slot[t]].dest = Nil /\ slot[t] # 0
        /\ msg[t].to # Nil /\ slot' = slot
    <3>1. stage[t] = "tx_dest"
      BY <1>5 DEF TxDest, OwnStep, AtStage
    <3>2. msg[t].to \in Tasks
      BY <3>1 DEF ItcData, Fresh, Sending, Messages
    <3> QED
      BY <1>5, <3>1, <3>2, QueueAssumption DEF TxDest, ItcData, SlotsFound, Slots
  <2>2. Occupied' = Occupied \cup {slot[t]} /\ slot[t] \notin Occupied
    BY <1>5, <2>1 DEF TxDest, Occupied, Slots, ItcDataTyped
  <2>3. t \in Untaken' /\ t \notin Ungiven'
    BY <1>5, <2>1 DEF TxDest, OwnStep, ToStage, ItcDataTyped, Untaken, Ungiven
  <2>4. Untaken' = Untaken \cup {t} /\ Ungiven' = Ungiven
    BY <1>2, <1>4, <2>3 DEF Untaken, Ungiven
  <2>5. /\ IsFiniteSet(Untaken \cup {t})
        /\ Cardinality(Untaken \cup {t}) = Cardinality(Untaken) + 1
        /\ Cardinality(Occupied \cup {slot[t]}) = Cardinality(Occupied) + 1
    BY <1>3, <1>4, <2>2, FS_AddElement
  <2> QED
    BY <1>1, <1>3, <2>2, <2>4, <2>5 DEF SlotsCounted, NoPhantomSlot
<1>6. CASE RxClear(t)
  <2>1. slot[t] \in Slots /\ msgbuf[slot[t]].dest = t /\ slot[t] # 0 /\ slot' = slot
    BY <1>6 DEF RxClear, OwnStep, AtStage, ItcData, SlotsFound, Slots
  <2>2. Occupied' = Occupied \ {slot[t]} /\ slot[t] \in Occupied
    BY <1>6, <2>1, QueueAssumption DEF RxClear, Occupied, Slots, ItcDataTyped
  <2>3. t \in Ungiven' /\ t \notin Untaken'
    BY <1>6, <2>1 DEF RxClear, OwnStep, ToStage, ItcDataTyped, Untaken, Ungiven
  <2>4. Ungiven' = Ungiven \cup {t} /\ Untaken' = Untaken
    BY <1>2, <1>4, <2>3 DEF Untaken, Ungiven
  <2>5. /\ IsFiniteSet(Ungiven \cup {t})
        /\ Cardinality(Ungiven \cup {t}) = Cardinality(Ungiven) + 1
        /\ Cardinality(Occupied \ {slot[t]}) = Cardinality(Occupied) - 1
    BY <1>3, <1>4, <2>2, FS_AddElement, FS_RemoveElement
  <2> QED
    BY <1>1, <1>3, <2>2, <2>4, <2>5 DEF SlotsCounted, NoPhantomSlot
<1>7. CASE ~TxDest(t) /\ ~RxClear(t)
  <2>1. Occupied' = Occupied
    <3>1. \A i \in Slots : msgbuf'[i].dest = msgbuf[i].dest
      BY <1>7 DEF ItcOwnStep, TxFind, TxData, RxFind, RxCopy, EndOfCall, ItcDataTyped
    <3> QED
      BY <3>1 DEF Occupied, Slots
  <2>2. t \notin Untaken' /\ t \notin Ungiven'
    <3>1. CASE TxFind(t) \/ RxFind(t)
      BY <3>1 DEF TxFind, RxFind, OwnStep, ToStage, ItcDataTyped, Untaken, Ungiven
    <3>2. CASE TxData(t) \/ RxCopy(t) \/ EndOfCall(t, "tx_end") \/ EndOfCall(t, "rx_end")
      BY <3>2 DEF TxData, RxCopy, EndOfCall, OwnStep, ToStage, ItcDataTyped, Untaken, Ungiven
    <3> QED
      BY <1>7, <3>1, <3>2 DEF ItcOwnStep
  <2>3. Untaken' = Untaken /\ Ungiven' = Ungiven
    BY <1>2, <1>4, <2>2 DEF Untaken, Ungiven
  <2> QED
    BY <1>1, <1>3, <2>1, <2>3 DEF SlotsCounted, NoPhantomSlot
<1> QED
  BY <1>5, <1>6, <1>7

\* A step of the kernel, or of a task outside the functions.
LEMMA OtherStepCounted ==
  ASSUME ItcInv, SlotsCounted, UNCHANGED itcData,
         \/ Handlers /\ UNCHANGED <<syncVars, stage>>
         \/ \E t \in Tasks : OuterStep(t)
  PROVE  SlotsCounted'
<1>1. /\ stage' = stage /\ slot' = slot /\ msgbuf' = msgbuf /\ counter' = counter
      /\ \A u \in Tasks : stage[u] # "none" => pc'[u] = pc[u]
  BY OtherStepCalls DEF ItcInv, ItcControl, syncVars, semVars, itcData
<1>2. Untaken' = Untaken /\ Ungiven' = Ungiven
  BY <1>1 DEF Untaken, Ungiven
<1> QED
  BY <1>1, <1>2, CountStays

\* As long as tasks read only what OS_ITCHasMsg has seen, the semaphore never shows
\* more free slots than there are, but for those just being filled (the calls of
\* OS_SemaphoreAquire and OS_SemaphoreRelease in OS/itc_queue.c).
THEOREM FreeSlotsReal == ASSUME Guarded PROVE ItcSpec => []NoPhantomSlot
<1>1. ItcInit => SlotsCounted
  <2> SUFFICES ASSUME ItcInit PROVE SlotsCounted
    OBVIOUS
  <2>1. Untaken = {} /\ Ungiven = {} /\ Occupied = {}
    BY DEF ItcInit, SyncInit, OS_InitITCQueue, Untaken, Ungiven, Occupied
  <2>2. counter[QueueSem] = Resources[QueueSem] /\ Resources[QueueSem] \in Nat
    BY ItcAssumption, SemaphoreAssumption, CounterWidth DEF ItcInit, SyncInit
  <2> QED
    BY <2>1, <2>2, FS_EmptySet DEF SlotsCounted, NoPhantomSlot
<1>2. ASSUME ItcInv, SlotsCounted, [ItcNext]_itcVars PROVE SlotsCounted'
  <2>1. CASE UNCHANGED itcVars
    <3>1. /\ stage' = stage /\ slot' = slot /\ msgbuf' = msgbuf /\ counter' = counter
          /\ pc' = pc
      BY <2>1 DEF itcVars, itcData, syncVars, semVars, vars, taskVars
    <3>2. Untaken' = Untaken /\ Ungiven' = Ungiven
      BY <3>1 DEF Untaken, Ungiven
    <3> QED
      BY <1>2, <3>1, <3>2, CountStays
  <2>2. CASE \/ Handlers /\ UNCHANGED <<syncVars, stage, itcData>>
             \/ \E t \in Tasks : OuterStep(t) /\ UNCHANGED itcData
    BY <1>2, <2>2, OtherStepCounted
  <2>3. ASSUME NEW t \in Tasks, (InnerStep(t) /\ UNCHANGED itcData) \/ ItcStep(t)
        PROVE  SlotsCounted'
    <3>1. ItcControl'
      BY <1>2, ItcNextControl DEF ItcInv
    <3> QED
      BY <1>2, <2>3, <3>1, InnerStepCounted, CallStepCounted, OwnStepCounted, ItcSteps
  <2> QED
    BY <1>2, <2>1, <2>2, <2>3 DEF ItcNext, ItcThread
<1>3. SlotsCounted => NoPhantomSlot
  BY DEF SlotsCounted
<1> QED
  BY <1>1, <1>2, <1>3, ItcInvariant, PTL DEF ItcSpec

-----------------------------------------------------------------------------
\* The queue implements MailboxSpec.

Mail == {Content(i) : i \in Occupied}

MailPhases == [t \in Tasks |-> MailPhase(t)]

MailLetters == [t \in Tasks |-> MailLetter(t)]

\* The box holds the pending messages, one in every occupied slot.
LEMMA MailIs ==
  ItcInv => Mail = pending /\ Cardinality(pending) = Cardinality(Occupied)
<1> SUFFICES ASSUME ItcInv
             PROVE  Mail = pending /\ Cardinality(pending) = Cardinality(Occupied)
  OBVIOUS
<1> DEFINE f == [i \in Occupied |-> Content(i)]
<1>1. /\ Mail = pending
      /\ \A i, j \in Occupied : i # j => Content(i) # Content(j)
  BY DEF ItcInv, ItcData, BufferIntegrity, Mail
<1>2. \A m \in pending : \E i \in Occupied : Content(i) = m
  BY <1>1 DEF Mail
<1>3. \A i \in Occupied : Content(i) \in pending
  BY <1>1 DEF Mail
<1> HIDE DEF Content
<1>4. f \in Bijection(Occupied, pending)
  BY <1>1, <1>2, <1>3 DEF Bijection, Injection, Surjection, IsInjective
<1>5. ExistsBijection(Occupied, pending)
  BY <1>4 DEF ExistsBijection
<1> QED
  BY <1>1, <1>5, OccupiedFinite, FS_Bijection

\* There is room in the box exactly while a slot is free.
LEMMA MailRoom ==
  ASSUME ItcInv
  PROVE  /\ \A i \in Slots : msgbuf[i].dest = Nil => Cardinality(Mail) < Resources[QueueSem]
         /\ (\A i \in Slots : msgbuf[i].dest # Nil) => Cardinality(Mail) = Resources[QueueSem]
<1>1. Resources[QueueSem] \in Nat
  BY ItcAssumption, SemaphoreAssumption, CounterWidth
<1>2. IsFiniteSet(Slots) /\ Cardinality(Slots) = Resources[QueueSem]
  <2>1. \A n \in Nat : IsFiniteSet(1 .. n) /\ Cardinality(1 .. n) = n
    <3> TAKE n \in Nat
    <3> QED
      BY FS_Interval
  <2> QED
    BY <1>1, <2>1 DEF Slots
<1>3. Occupied \in SUBSET Slots /\ Cardinality(Occupied) \in Nat
  BY OccupiedFinite DEF Occupied
<1>4. Cardinality(Mail) = Cardinality(Occupied)
  BY MailIs
<1>5. /\ Cardinality(Occupied) <= Cardinality(Slots)
      /\ Cardinality(Occupied) = Cardinality(Slots) => Occupied = Slots
  BY <1>2, <1>3, FS_Subset
<1>6. ASSUME NEW i \in Slots, msgbuf[i].dest = Nil PROVE Occupied # Slots
  BY <1>6 DEF Occupied
<1>7. (\A i \in Slots : msgbuf[i].dest # Nil) => Occupied = Slots
  BY DEF Occupied
<1> QED
  BY <1>1, <1>2, <1>3, <1>4, <1>5, <1>6, <1>7

\* What the box holds for a task is what its searches find.
LEMMA MailFor ==
  ASSUME ItcInv, NEW t \in Tasks
  PROVE  (\E i \in Slots : msgbuf[i].dest = t) <=> \E m \in Mail : m.to = t
<1>1. \A i \in Occupied : i \in Slots /\ Content(i).to = msgbuf[i].dest
  BY DEF ItcInv, ItcData, BufferIntegrity, Occupied
<1>2. \A i \in Slots : msgbuf[i].dest = t => i \in Occupied
  BY QueueAssumption DEF Occupied
<1> HIDE DEF Content
<1> QED
  BY <1>1, <1>2 DEF Mail

\* A step of one task leaves the calls of the others where they are.
LEMMA MailMoves ==
  ASSUME NEW t \in Tasks,
         \A u \in Tasks \ {t} :
           stage'[u] = stage[u] /\ slot'[u] = slot[u] /\ msg'[u] = msg[u]
  PROVE  /\ MailPhases' = [MailPhases EXCEPT ![t] = MailPhase(t)']
         /\ MailLetters' = [MailLetters EXCEPT ![t] = MailLetter(t)']
<1>1. \A u \in Tasks \ {t} : MailPhase(u)' = MailPhase(u)
  BY DEF MailPhase
<1>2. \A u \in Tasks \ {t} : MailLetter(u)' = MailLetter(u)
  BY <1>1 DEF MailLetter
<1> QED
  BY <1>1, <1>2 DEF MailPhases, MailLetters

\* A step that does not move the call, as the box sees it.
LEMMA MailStutters ==
  ASSUME ItcInv, ItcInv', NEW t \in Tasks,
         \A u \in Tasks \ {t} :
           stage'[u] = stage[u] /\ slot'[u] = slot[u] /\ msg'[u] = msg[u],
         MailPhase(t)' = MailPhase(t), MailLetter(t)' = MailLetter(t),
         pending' = pending
  PROVE  UNCHANGED <<Mail, MailPhases, MailLetters>>
<1>1. Mail = pending /\ Mail' = pending'
  <2>1. (ItcInv => Mail = pending)'
    BY MailIs, PTL
  <2> QED
    BY <2>1, MailIs
<1>2. /\ MailPhases' = [MailPhases EXCEPT ![t] = MailPhase(t)]
      /\ MailLetters' = [MailLetters EXCEPT ![t] = MailLetter(t)]
  BY MailMoves
<1>3. MailPhases' = MailPhases /\ MailLetters' = MailLetters
  BY <1>2 DEF MailPhases, MailLetters
<1> QED
  BY <1>1, <1>3

LEMMA MailSteps ==
  ASSUME NEW t \in Tasks
  PROVE  /\ (\E dest \in Tasks : Mailbox!Post(t, dest)) => Mailbox!Next
         /\ Mailbox!Deliver(t) \/ Mailbox!Lose(t) => Mailbox!Next
         /\ Mailbox!Ask(t) \/ Mailbox!Receive(t) \/ Mailbox!Miss(t) => Mailbox!Next
         /\ Mailbox!Return(t) => Mailbox!Next
BY DEF Mailbox!Next

MailUnchanged == UNCHANGED <<Mail, MailPhases, MailLetters, nextId>>

\* A call begins, or goes on to a mutex or semaphore call.
LEMMA MailCallStep ==
  ASSUME ItcInv, ItcInv', NEW t \in Tasks, ItcCallStep(t)
  PROVE  Mailbox!Next \/ MailUnchanged
<1> USE DEF ItcInv, ItcControl
<1>1. /\ stage' = [stage EXCEPT ![t] = stage'[t]]
      /\ \/ stage[t] = "none" /\ stage'[t] \in {"tx_test", "rx_test"}
         \/ stage[t] \in {"tx_test", "tx_lock"} /\ stage'[t] \in {"tx_lock", "tx_find"}
         \/ stage[t] \in {"rx_test", "rx_lock"} /\ stage'[t] \in {"rx_lock", "rx_find"}
         \/ stage[t] = "tx_unlock" /\ stage'[t] = "tx_take"
         \/ stage[t] = "rx_unlock" /\ stage'[t] = "rx_give"
         \/ stage[t] = "tx_take" /\ stage'[t] = "tx_end"
         \/ stage[t] = "rx_give" /\ stage'[t] = "rx_end"
  BY ItcCallMoves
<1>2. pending' = pending /\ slot' = slot
  BY CallStepLeaves
<1>3. \A u \in Tasks \ {t} : stage'[u] = stage[u] /\ slot'[u] = slot[u] /\ msg'[u] = msg[u]
  <2>1. \/ msg' = msg
        \/ \E dest \in Tasks : msg' = [msg EXCEPT ![t] = [id |-> nextId, to |-> dest]]
    BY CallStepLeaves
  <2>2. \A u \in Tasks \ {t} : msg'[u] = msg[u]
    BY <2>1 DEF ItcDataTyped
  <2> QED
    BY <1>1, <1>2, <2>2 DEF ItcDataTyped
<1>4. Mail' = Mail
  <2>1. (ItcInv => Mail = pending)'
    BY MailIs, PTL
  <2> HIDE DEF ItcInv
  <2> QED
    BY <1>2, <2>1, MailIs
<1> HIDE DEF ItcInv
<1>5. CASE stage'[t] = "tx_test"
  <2>1. PICK dest \in Tasks :
          /\ <<t, dest>> \in Routes /\ msg' = [msg EXCEPT ![t] = [id |-> nextId, to |-> dest]]
          /\ nextId' = nextId + 1
          /\ stage[t] = "none"
    BY <1>5, CallStepLeaves DEF ItcInv
  <2>2. /\ MailPhase(t) = "idle" /\ MailPhase(t)' = "sending"
        /\ MailLetter(t)' = [id |-> nextId, to |-> dest]
    BY <1>5, <2>1 DEF MailPhase, MailLetter, ItcInv, ItcDataTyped
  <2>3. /\ MailPhases' = [MailPhases EXCEPT ![t] = "sending"]
        /\ MailLetters' = [MailLetters EXCEPT ![t] = [id |-> nextId, to |-> dest]]
    BY <1>3, <2>2, MailMoves
  <2>4. MailPhases[t] = "idle"
    BY <2>2 DEF MailPhases
  <2>5. Mailbox!Post(t, dest)
    BY <1>4, <2>1, <2>3, <2>4
    DEF Mailbox!Post, Mailbox!Moves, Mail, MailPhases, MailLetters
  <2> QED
    BY <2>5, MailSteps
<1>6. CASE stage'[t] = "rx_test"
  <2>1. /\ nextId' = nextId /\ stage[t] = "none"
        /\ Guarded => OS_ITCHasMsg(t)
    BY <1>1, <1>6, CallStepLeaves DEF ItcInv
  <2>2. /\ MailPhase(t) = "idle" /\ MailPhase(t)' = "reading"
        /\ MailLetter(t) = NoData /\ MailLetter(t)' = NoData
    BY <1>6, <2>1 DEF MailPhase, MailLetter
  <2>3. /\ MailPhases' = [MailPhases EXCEPT ![t] = "reading"]
        /\ MailLetters' = [MailLetters EXCEPT ![t] = NoData]
    BY <1>3, <2>2, MailMoves
  <2>4. MailPhases[t] = "idle" /\ MailLetters' = MailLetters
    BY <2>2, <2>3 DEF MailPhases, MailLetters
  <2>5. Guarded => {m \in Mail : m.to = t} # {}
    BY <2>1, HasMsgFinds, MailFor
  <2>6. Mailbox!Ask(t)
    BY <1>4, <2>1, <2>3, <2>4, <2>5
    DEF Mailbox!Ask, Mailbox!For, Mailbox!Moves, Mail, MailPhases, MailLetters
  <2> QED
    BY <2>6, MailSteps
<1>7. CASE stage'[t] \notin {"tx_test", "rx_test"}
  <2>1. msg' = msg /\ nextId' = nextId
    BY <1>7, CallStepLeaves DEF ItcInv
  <2>2. MailPhase(t)' = MailPhase(t)
    BY <1>1, <1>7 DEF MailPhase
  <2>3. MailLetter(t)' = MailLetter(t)
    BY <1>2, <2>1, <2>2 DEF MailLetter
  <2> QED
    BY <1>2, <1>3, <2>1, <2>2, <2>3, MailStutters DEF MailUnchanged
<1> QED
  BY <1>5, <1>6, <1>7

\* The search for a slot: when it fails, the call has taken effect.
LEMMA MailFindStep ==
  ASSUME ItcInv, ItcInv', NEW t \in Tasks, TxFind(t) \/ RxFind(t)
  PROVE  Mailbox!Next \/ MailUnchanged
<1>1. /\ stage' = [stage EXCEPT ![t] = stage'[t]] /\ slot' = [slot EXCEPT ![t] = slot'[t]]
      /\ msg' = msg /\ nextId' = nextId /\ pending' = pending
      /\ \/ /\ stage[t] = "tx_find"
            /\ \/ /\ stage'[t] = "tx_unlock" /\ slot'[t] = 0
                  /\ \A i \in Slots : msgbuf[i].dest # Nil
               \/ stage'[t] = "tx_data"
         \/ /\ stage[t] = "rx_find"
            /\ \/ /\ stage'[t] = "rx_unlock" /\ slot'[t] = 0
                  /\ \A i \in Slots : msgbuf[i].dest # t
               \/ stage'[t] = "rx_copy"
  <2>1. CASE TxFind(t)
    <3>1. slot'[t] = FirstFor(Nil) /\ slot' = [slot EXCEPT ![t] = slot'[t]]
      BY <2>1 DEF TxFind, ItcInv, ItcDataTyped
    <3>2. /\ stage' = [stage EXCEPT ![t] = stage'[t]] /\ stage[t] = "tx_find"
          /\ stage'[t] = IF slot'[t] = 0 THEN "tx_unlock" ELSE "tx_data"
      BY <2>1 DEF TxFind, OwnStep, AtStage, ToStage, ItcInv, ItcDataTyped
    <3>3. msg' = msg /\ nextId' = nextId /\ pending' = pending
      BY <2>1 DEF TxFind
    <3>4. slot'[t] = 0 => \A i \in Slots : msgbuf[i].dest # Nil
      BY <3>1, FirstForFinds
    <3> QED
      BY <3>1, <3>2, <3>3, <3>4
  <2>2. CASE RxFind(t)
    <3>1. slot'[t] = FirstFor(t) /\ slot' = [slot EXCEPT ![t] = slot'[t]]
      BY <2>2 DEF RxFind, ItcInv, ItcDataTyped
    <3>2. /\ stage' = [stage EXCEPT ![t] = stage'[t]] /\ stage[t] = "rx_find"
          /\ stage'[t] = IF slot'[t] = 0 THEN "rx_unlock" ELSE "rx_copy"
      BY <2>2 DEF RxFind, OwnStep, AtStage, ToStage, ItcInv, ItcDataTyped
    <3>3. msg' = msg /\ nextId' = nextId /\ pending' = pending
      BY <2>2 DEF RxFind
    <3>4. slot'[t] = 0 => \A i \in Slots : msgbuf[i].dest # t
      BY <3>1, FirstForFinds
    <3> QED
      BY <3>1, <3>2, <3>3, <3>4
  <2> QED
    BY <2>1, <2>2
<1>2. \A u \in Tasks \ {t} : stage'[u] = stage[u] /\ slot'[u] = slot[u] /\ msg'[u] = msg[u]
  BY <1>1 DEF ItcInv, ItcDataTyped
<1>3. Mail' = Mail
  <2>1. (ItcInv => Mail = pending)'
    BY MailIs, PTL
  <2> QED
    BY <1>1, <2>1, MailIs
<1>4. CASE stage'[t] = "tx_unlock"
  <2>1. /\ MailPhase(t) = "sending" /\ MailPhase(t)' = "sent"
        /\ MailLetter(t)' = MailLetter(t)
    BY <1>1, <1>4 DEF MailPhase, MailLetter
  <2>2. /\ MailPhases' = [MailPhases EXCEPT ![t] = "sent"]
        /\ MailLetters' = [MailLetters EXCEPT ![t] = MailLetter(t)]
    BY <1>2, <2>1, MailMoves
  <2>3. MailPhases[t] = "sending" /\ MailLetters' = MailLetters
    BY <2>1, <2>2 DEF MailPhases, MailLetters
  <2>4. Mailbox!Cardinality(Mail) = Resources[QueueSem]
    <3>1. Mailbox!Cardinality(Mail) = Cardinality(Mail)
      BY Zenon DEF Mailbox!Cardinality, Cardinality, Mailbox!IsFiniteSet, IsFiniteSet
    <3> QED
      BY <1>1, <1>4, <3>1, MailRoom
  <2>5. Mailbox!Lose(t)
    BY <1>1, <1>3, <2>2, <2>3, <2>4
    DEF Mailbox!Lose, Mailbox!Moves, Mail, MailPhases, MailLetters
  <2> QED
    BY <2>5, MailSteps
<1>5. CASE stage'[t] = "rx_unlock"
  <2>1. /\ MailPhase(t) = "reading" /\ MailPhase(t)' = "read"
        /\ MailLetter(t) = NoData /\ MailLetter(t)' = NoData
    BY <1>1, <1>5 DEF MailPhase, MailLetter
  <2>2. /\ MailPhases' = [MailPhases EXCEPT ![t] = "read"]
        /\ MailLetters' = [MailLetters EXCEPT ![t] = NoData]
    BY <1>2, <2>1, MailMoves
  <2>3. MailPhases[t] = "reading" /\ MailLetters' = MailLetters
    BY <2>1, <2>2 DEF MailPhases, MailLetters
  <2>4. {m \in Mail : m.to = t} = {}
    BY <1>1, <1>5, MailFor
  <2>5. Mailbox!Miss(t)
    BY <1>1, <1>3, <2>2, <2>3, <2>4
    DEF Mailbox!Miss, Mailbox!For, Mailbox!Moves, Mail, MailPhases, MailLetters
  <2> QED
    BY <2>5, MailSteps
<1>6. CASE stage'[t] \in {"tx_data", "rx_copy"}
  <2>1. MailPhase(t)' = MailPhase(t) /\ MailLetter(t)' = MailLetter(t)
    BY <1>1, <1>6 DEF MailPhase, MailLetter
  <2> QED
    BY <1>1, <1>2, <2>1, MailStutters DEF MailUnchanged
<1> QED
  BY <1>1, <1>4, <1>5, <1>6

\* The message is written, or copied out: nothing the box could see.
LEMMA MailCopyStep ==
  ASSUME ItcInv, ItcInv', NEW t \in Tasks, TxData(t) \/ RxCopy(t)
  PROVE  MailUnchanged
<1>1. /\ stage' = [stage EXCEPT ![t] = stage'[t]] /\ slot' = slot
      /\ nextId' = nextId /\ pending' = pending
      /\ \A u \in Tasks \ {t} : msg'[u] = msg[u]
      /\ \/ stage[t] = "tx_data" /\ stage'[t] = "tx_dest" /\ msg' = msg
         \/ stage[t] = "rx_copy" /\ stage'[t] = "rx_clear"
  BY DEF TxData, RxCopy, OwnStep, AtStage, ToStage, ItcInv, ItcDataTyped
<1>2. \A u \in Tasks \ {t} : stage'[u] = stage[u] /\ slot'[u] = slot[u] /\ msg'[u] = msg[u]
  BY <1>1 DEF ItcInv, ItcDataTyped
<1>3. MailPhase(t)' = MailPhase(t) /\ MailLetter(t)' = MailLetter(t)
  BY <1>1 DEF MailPhase, MailLetter
<1> QED
  BY <1>1, <1>2, <1>3, MailStutters DEF MailUnchanged

\* The slot is addressed: the message is in the box.
LEMMA MailDestStep ==
  ASSUME ItcInv, ItcInv', NEW t \in Tasks, TxDest(t)
  PROVE  Mailbox!Next
<1>1. /\ stage[t] = "tx_dest" /\ stage' = [stage EXCEPT ![t] = "tx_unlock"]
      /\ slot' = slot /\ msg' = msg /\ nextId' = nextId
      /\ pending' = pending \cup {msg[t]}
      /\ stage'[t] = "tx_unlock"
  BY DEF TxDest, OwnStep, AtStage, ToStage, ItcInv, ItcDataTyped
<1>2. \A u \in Tasks \ {t} : stage'[u] = stage[u] /\ slot'[u] = slot[u] /\ msg'[u] = msg[u]
  BY <1>1 DEF ItcInv, ItcDataTyped
<1>3. Mail' = Mail \cup {msg[t]}
  <2>1. (ItcInv => Mail = pending)'
    BY MailIs, PTL
  <2> QED
    BY <1>1, <2>1, MailIs
<1>4. /\ MailPhase(t) = "sending" /\ MailPhase(t)' = "sent"
      /\ MailLetter(t) = msg[t] /\ MailLetter(t)' = msg[t]
  BY <1>1 DEF MailPhase, MailLetter
<1>5. /\ MailPhases' = [MailPhases EXCEPT ![t] = "sent"]
      /\ MailLetters' = [MailLetters EXCEPT ![t] = msg[t]]
  BY <1>2, <1>4, MailMoves
<1>6. /\ MailPhases[t] = "sending" /\ MailLetters[t] = msg[t]
      /\ MailLetters' = MailLetters
  BY <1>4, <1>5 DEF MailPhases, MailLetters
<1>7. Mailbox!Cardinality(Mail) < Resources[QueueSem]
  <2>1. Mailbox!Cardinality(Mail) = Cardinality(Mail)
    BY Zenon DEF Mailbox!Cardinality, Cardinality, Mailbox!IsFiniteSet, IsFiniteSet
  <2>2. slot[t] \in Slots /\ msgbuf[slot[t]].dest = Nil
    BY <1>1 DEF ItcInv, ItcData, SlotsFound
  <2> QED
    BY <2>1, <2>2, MailRoom
<1>8. Mailbox!Deliver(t)
  BY <1>1, <1>3, <1>5, <1>6, <1>7
  DEF Mailbox!Deliver, Mailbox!Moves, Mail, MailPhases, MailLetters
<1> QED
  BY <1>8, MailSteps

\* The slot is cleared: the reader has taken its message out of the box.
LEMMA MailClearStep ==
  ASSUME ItcInv, ItcInv', NEW t \in Tasks, RxClear(t)
  PROVE  Mailbox!Next
<1>1. /\ stage[t] = "rx_clear" /\ stage' = [stage EXCEPT ![t] = "rx_unlock"]
      /\ slot' = slot /\ msg' = msg /\ nextId' = nextId
      /\ pending' = pending \ {msg[t]}
      /\ stage'[t] = "rx_unlock"
  BY DEF RxClear, OwnStep, AtStage, ToStage, ItcInv, ItcDataTyped
<1>2. \A u \in Tasks \ {t} : stage'[u] = stage[u] /\ slot'[u] = slot[u] /\ msg'[u] = msg[u]
  BY <1>1 DEF ItcInv, ItcDataTyped
<1>3. Mail' = Mail \ {msg[t]} /\ msg[t] \in Mail /\ msg[t].to = t
  <2>1. (ItcInv => Mail = pending)'
    BY MailIs, PTL
  <2> QED
    BY <1>1, <2>1, MailIs, ClearingReads
<1>4. /\ MailPhase(t) = "reading" /\ MailPhase(t)' = "read" /\ MailLetter(t)' = msg[t]
  <2>1. slot[t] # 0
    BY <1>1 DEF ItcInv, ItcData, SlotsFound, Slots
  <2> QED
    BY <1>1, <2>1 DEF MailPhase, MailLetter
<1>5. /\ MailPhases' = [MailPhases EXCEPT ![t] = "read"]
      /\ MailLetters' = [MailLetters EXCEPT ![t] = msg[t]]
      /\ MailPhases[t] = "reading"
  BY <1>2, <1>4, MailMoves DEF MailPhases
<1>6. msg[t] \in {m \in Mail : m.to = t}
  BY <1>3
<1>7. Mailbox!Receive(t)
  BY <1>1, <1>3, <1>5, <1>6
  DEF Mailbox!Receive, Mailbox!For, Mailbox!Moves, Mail, MailPhases, MailLetters
<1> QED
  BY <1>7, MailSteps

\* The call returns.
LEMMA MailReturnStep ==
  ASSUME ItcInv, ItcInv', NEW t \in Tasks, EndOfCall(t, "tx_end") \/ EndOfCall(t, "rx_end")
  PROVE  Mailbox!Next
<1>1. /\ stage[t] \in {"tx_end", "rx_end"} /\ stage' = [stage EXCEPT ![t] = "none"]
      /\ slot' = [slot EXCEPT ![t] = 0] /\ msg' = [msg EXCEPT ![t] = NoData]
      /\ nextId' = nextId /\ pending' = pending
      /\ stage'[t] = "none"
  BY DEF EndOfCall, OwnStep, AtStage, ToStage, ItcInv, ItcDataTyped
<1>2. \A u \in Tasks \ {t} : stage'[u] = stage[u] /\ slot'[u] = slot[u] /\ msg'[u] = msg[u]
  BY <1>1 DEF ItcInv, ItcDataTyped
<1>3. Mail' = Mail
  <2>1. (ItcInv => Mail = pending)'
    BY MailIs, PTL
  <2> QED
    BY <1>1, <2>1, MailIs
<1>4. /\ MailPhase(t) \in {"sent", "read"} /\ MailPhase(t)' = "idle" /\ MailLetter(t)' = NoData
  BY <1>1 DEF MailPhase, MailLetter
<1>5. /\ MailPhases' = [MailPhases EXCEPT ![t] = "idle"]
      /\ MailLetters' = [MailLetters EXCEPT ![t] = NoData]
      /\ MailPhases[t] = "sent" \/ MailPhases[t] = "read"
  BY <1>2, <1>4, MailMoves DEF MailPhases
<1>6. Mailbox!Return(t)
  BY <1>1, <1>3, <1>5
  DEF Mailbox!Return, Mailbox!Moves, Mail, MailPhases, MailLetters
<1> QED
  BY <1>6, MailSteps

\* A step of the kernel, of a mutex or semaphore call in progress, or of a task outside
\* the functions.
LEMMA MailQuietStep ==
  ASSUME stage' = stage, UNCHANGED itcData
  PROVE  MailUnchanged
<1>1. MailPhases' = MailPhases /\ MailLetters' = MailLetters
  BY DEF MailPhases, MailLetters, MailPhase, MailLetter, itcData
<1>2. Mail' = Mail
  BY DEF Mail, Content, Occupied, Slots, itcData
<1> QED
  BY <1>1, <1>2 DEF MailUnchanged, itcData

\* Every execution of the queue is one of MailboxSpec, also when readers do not ask
\* OS_ITCHasMsg first: the calls of OS_ITCSendMsg and OS_ITCReadMsg, each of which locks,
\* searches, stores and unlocks in many interruptible steps, take effect at once; a
\* message is lost only if all slots are taken at that moment, and a read returns
\* without one only if none is there for its caller.
THEOREM ItcImplementsMailbox == ItcSpec => MailboxSpecHolds
<1>1. ItcInit => Mailbox!Init
  <2> SUFFICES ASSUME ItcInit PROVE Mailbox!Init
    OBVIOUS
  <2>1. Occupied = {} /\ nextId = 0
    BY DEF ItcInit, OS_InitITCQueue, Occupied
  <2>2. Mail = {}
    BY <2>1 DEF Mail
  <2>3. \A t \in Tasks : stage[t] = "none"
    BY DEF ItcInit, SyncInit
  <2>4. \A t \in Tasks : MailPhase(t) = "idle" /\ MailLetter(t) = NoData
    BY <2>3 DEF MailPhase, MailLetter
  <2> QED
    BY <2>1, <2>2, <2>4 DEF Mailbox!Init, Mail
<1>2. ItcInv /\ ItcInv' /\ [ItcNext]_itcVars => [Mailbox!Next]_(Mailbox!mailVars)
  <2> SUFFICES ASSUME ItcInv, ItcInv', [ItcNext]_itcVars
               PROVE  Mailbox!Next \/ MailUnchanged
    BY DEF MailUnchanged, Mailbox!mailVars, Mail, MailPhases, MailLetters
  <2>1. CASE stage' = stage /\ UNCHANGED itcData
    BY <2>1, MailQuietStep
  <2>2. ASSUME NEW t \in Tasks, ItcStep(t) PROVE Mailbox!Next \/ MailUnchanged
    BY <2>2, ItcSteps, MailCallStep, MailFindStep, MailCopyStep, MailDestStep, MailClearStep,
       MailReturnStep
    DEF ItcOwnStep
  <2> QED
    BY <2>1, <2>2 DEF ItcNext, ItcThread, InnerStep, OuterStep, itcVars
<1> QED
  BY <1>1, <1>2, ItcInvariant, PTL
  DEF ItcSpec, MailboxSpecHolds, Mailbox!Spec

-----------------------------------------------------------------------------
\* The mutex and the semaphore of the queue, and all others, as its calls use them.

\* The queue releases only the mutex it holds.
LEMMA ItcSyncStep ==
  ASSUME ItcInv, [ItcNext]_itcVars PROVE SyncStep({}) /\ ReleasesHeld
<1> USE DEF ItcInv, ItcControl
<1>1. ASSUME \/ Handlers /\ UNCHANGED <<syncVars, stage>>
             \/ \E t \in Tasks : InnerStep(t) \/ OuterStep(t)
             \/ UNCHANGED <<vars, syncVars>>
      PROVE  SyncStep({}) /\ ReleasesHeld
  BY <1>1, OthersBegin DEF SyncStep
<1>2. ASSUME NEW t \in Tasks, ItcCallStep(t) PROVE SyncStep({}) /\ ReleasesHeld
  <2>1. /\ Entries(t)
        /\ \/ pc'[t] \in {"gc_ldrex", "wait_svc", "aq_ldrex", "sa_ldrex", "sr_ldrex"}
           \/ /\ stage[t] \in {"tx_unlock", "rx_unlock"}
              /\ arg'[t] = QueueMux
    BY <1>2, ItcCallMoves
  <2>2. stage[t] \in {"tx_unlock", "rx_unlock"} => QueueMux \in held[t]
    BY DEF InsideHolds, Inside
  <2>3. \A u \in Tasks \ {t} : pc'[u] = pc[u]
    BY <2>1, EntriesMove
  <2> QED
    BY <2>1, <2>2, <2>3 DEF SyncStep, ReleasesHeld
<1>3. ASSUME NEW t \in Tasks, ItcOwnStep(t) PROVE UNCHANGED <<vars, syncVars>>
  BY <1>3, ItcOwnMoves
<1> QED
  BY <1>1, <1>2, <1>3, ItcSteps DEF ItcNext, ItcThread, itcVars

\* A task holds nothing but the queue's mutex, and that only between its acquire and its
\* release.
HeldInside == \A t \in Tasks : held[t] \subseteq IF Inside(t) THEN {QueueMux} ELSE {}

LEMMA ItcHeldInside ==
  ASSUME ItcInv, HeldInside, [ItcNext]_itcVars PROVE HeldInside'
<1> USE DEF ItcInv, ItcControl
<1>1. CASE UNCHANGED itcVars
  BY <1>1
  DEF itcVars, vars, taskVars, syncVars, mutexVars, HeldInside, Inside
<1>2. CASE \/ Handlers /\ UNCHANGED <<syncVars, stage>>
           \/ \E t \in Tasks : OuterStep(t)
  <2>1. /\ stage' = stage /\ held' = held
        /\ \A u \in Tasks : stage[u] # "none" => pc'[u] = pc[u]
    BY <1>2, OtherStepCalls DEF syncVars, mutexVars
  <2>2. \A u \in Tasks : Inside(u)' <=> Inside(u)
    BY <2>1 DEF Inside
  <2> QED
    BY <2>1, <2>2 DEF HeldInside
<1>3. ASSUME NEW t \in Tasks, InnerStep(t) PROVE HeldInside'
  <2>1. stage' = stage /\ pc[t] # "user"
    BY <1>3, InnerStepStays
    DEF InnerStep, CallLabels, AcquireLabels, ReleaseLabels, SemLabels, SemAcquireLabels
  <2>2. \A u \in Tasks \ {t} : pc'[u] = pc[u] /\ held'[u] = held[u]
    BY <1>3, InnerStepOthers
  <2>3. Inside(t) => Inside(t)'
    BY <2>1 DEF Inside
  <2>4. \/ held'[t] = held[t]
        \/ /\ pc[t] \in AcquireLabels /\ pc'[t] = "user"
           /\ held'[t] = held[t] \cup {arg[t]}
    BY <1>3, InnerStepGets
  <2>5. pc[t] \in AcquireLabels /\ pc'[t] = "user" => arg[t] = QueueMux /\ Inside(t)'
    BY <2>1 DEF Inside, ItcCalls
  <2> QED
    BY <2>1, <2>2, <2>3, <2>4, <2>5 DEF HeldInside, Inside
<1>4. ASSUME NEW t \in Tasks, ItcCallStep(t) PROVE HeldInside'
  <2>1. Entries(t)
    BY <1>4, ItcCallMoves
  <2>2. /\ pc[t] = "user" /\ held'[t] \subseteq held[t]
        /\ \A u \in Tasks \ {t} : pc'[u] = pc[u] /\ held'[u] = held[u]
    BY <2>1, EntriesMove
  <2>3. \A u \in Tasks \ {t} : stage'[u] = stage[u]
    BY <1>4, ItcCallMoves DEF ItcDataTyped
  <2>4. CASE pc'[t] = "rl_check"
    <3>1. arg'[t] = QueueMux
      BY <1>4, <2>4, ItcCallMoves
    <3>2. PICK m \in Mutexes : ReleaseCall(t, m)
      BY <2>1, <2>4
      DEF Entries, Entering, GetCountCall, SemCall, Calling, Goto, SyncKept, SyncShape,
          MutexShape, PcDomain, KernelTyped, KernelTypeOK
    <3>3. arg'[t] = m /\ held'[t] = held[t] \ {m}
      BY <3>2 DEF ReleaseCall, SyncKept, SyncShape, MutexShape, MuxTyped, KernelTyped,
                  KernelTypeOK
    <3> QED
      BY <2>2, <2>3, <3>1, <3>3 DEF HeldInside, Inside
  <2>5. CASE pc'[t] # "rl_check"
    <3>1. ~Inside(t)
      BY <1>4, <2>5, ItcCallMoves DEF Inside
    <3> QED
      BY <2>2, <2>3, <3>1 DEF HeldInside, Inside
  <2> QED
    BY <2>4, <2>5
<1>5. ASSUME NEW t \in Tasks, ItcOwnStep(t) PROVE HeldInside'
  <2>1. \A u \in Tasks \ {t} : stage'[u] = stage[u]
    BY <1>5, ItcOwnMoves DEF ItcDataTyped
  <2>2. pc' = pc /\ held' = held /\ (Inside(t) => Inside(t)')
    BY <1>5, ItcOwnMoves DEF Inside
  <2> QED
    BY <2>1, <2>2 DEF HeldInside, Inside
<1> QED
  BY <1>1, <1>2, <1>3, <1>4, <1>5, ItcSteps DEF ItcNext, ItcThread

\* So it never acquires a mutex it holds.
LEMMA ItcAcquires ==
  ASSUME ItcInv, HeldInside, [ItcNext]_itcVars PROVE AcquiresNew
<1> USE DEF ItcInv, ItcControl
<1>1. ASSUME \/ Handlers /\ UNCHANGED <<syncVars, stage>>
             \/ \E t \in Tasks : InnerStep(t) \/ OuterStep(t)
             \/ UNCHANGED <<vars, syncVars>>
      PROVE  AcquiresNew
  BY <1>1, OthersBegin
<1>2. ASSUME NEW t \in Tasks, ItcCallStep(t) PROVE AcquiresNew
  <2>1. \A u \in Tasks \ {t} : pc'[u] = pc[u]
    BY <1>2, ItcCallMoves, EntriesMove
  <2>2. pc'[t] = "aq_ldrex" => ~Inside(t)
    BY <1>2, ItcCallMoves DEF Inside
  <2> QED
    BY <2>1, <2>2 DEF AcquiresNew, HeldInside, AcquireLabels
<1>3. ASSUME NEW t \in Tasks, ItcOwnStep(t) PROVE UNCHANGED <<vars, syncVars>>
  BY <1>3, ItcOwnMoves
<1> QED
  BY <1>1, <1>2, <1>3, ItcSteps DEF ItcNext, ItcThread, itcVars

\* So what SyncCalls keeps, the queue keeps.
LEMMA ItcSyncInvariant ==
  ItcSpec => [](ItcInv /\ WaitsApart /\ CountsOwner /\ HeldInside /\ OwnerBound)
<1>1. ItcInit => ItcInv /\ WaitsApart /\ CountsOwner /\ HeldInside /\ OwnerBound
  BY ItcInitInv, SyncInitPromises DEF ItcInit, SyncInit, MutexInit, HeldInside
<1>2. /\ ItcInv /\ WaitsApart /\ CountsOwner /\ HeldInside /\ OwnerBound
      /\ [ItcNext]_itcVars
      => (ItcInv /\ WaitsApart /\ CountsOwner /\ HeldInside /\ OwnerBound)'
  <2> SUFFICES ASSUME ItcInv, WaitsApart, CountsOwner, HeldInside, OwnerBound,
                      [ItcNext]_itcVars
               PROVE  (ItcInv /\ WaitsApart /\ CountsOwner /\ HeldInside /\ OwnerBound)'
    OBVIOUS
  <2>1. SyncKept /\ SyncStep({}) /\ ReleasesHeld /\ AcquiresNew
    BY ItcSyncStep, ItcAcquires DEF ItcInv, ItcControl
  <2>2. ItcInv' /\ HeldInside'
    BY ItcNextInv, ItcHeldInside
  <2>3. WaitsApart' /\ CountsOwner' /\ OwnerBound'
    BY <2>1, SyncStepWaits, SyncStepCounts, SyncStepBound
  <2> QED
    BY <2>2, <2>3
<1> QED
  BY <1>1, <1>2, PTL DEF ItcSpec

\* Who got the queue's mutex, or any other, is its owner and is counted once, also when
\* tasks are preempted between the unprotected reads and writes of the count.
THEOREM ItcHeldOwned == ItcSpec => []HeldIsOwned
<1>1. ItcInv /\ CountsOwner => HeldIsOwned
  BY OwnedCountedHeld DEF ItcInv, ItcControl
<1> QED
  BY <1>1, ItcSyncInvariant, PTL

\* Every task stays in one queue, and waits only for who will notify it.
LEMMA ItcWakeupsInvariant ==
  ASSUME Closed PROVE ItcSpec => [](ItcInv /\ WaitsApart /\ Placed /\ Wakeups)
<1>1. ItcInit => Placed /\ Wakeups
  BY SyncInitPromises DEF ItcInit
<1>2. ItcInv /\ WaitsApart /\ Placed /\ Wakeups /\ [ItcNext]_itcVars
        => (Placed /\ Wakeups)'
  BY ItcSyncStep, SyncStepPlaced, SyncStepWakeups DEF ItcInv, ItcControl
<1> QED
  BY <1>1, <1>2, ItcSyncInvariant, PTL DEF ItcSpec

\* While a task waits for the queue's mutex, another one that does not holds it, takes it
\* or is inside the release that notifies: OS_ITCSendMsg and OS_ITCReadMsg release only
\* what they hold and acquire only what they do not, and their waits and calls of the
\* semaphore lose no wakeup of a mutex.
THEOREM ItcMutexWakeups == ASSUME Closed PROVE ItcSpec => []NoLostWakeup
<1>1. ItcInv /\ Wakeups /\ OwnerBound => NoLostWakeup
  BY WakeupBound DEF ItcInv, ItcControl, SyncKept, SyncShape
<1> QED
  BY <1>1, ItcWakeupsInvariant, ItcSyncInvariant, PTL

\* Through the calls of the queue, whose OS_Wait and OS_Notify move their callers between
\* the queues of the kernel, no task is dropped from them or entered twice, until a SysTick
\* falls inside one of the heap operations of OS_Sleep.
THEOREM ItcTasksKept == ASSUME Closed PROVE ItcSpec => []ExactlyOneQueue
BY ItcWakeupsInvariant, PlacedOnce, PTL

\* And until then no ready task outranks the one that runs, unless a change of task is
\* pending.
THEOREM ItcHighestRuns == ASSUME Closed, HeapOrdered PROVE ItcSpec => []HighestRuns
<1>1. ItcInit => RunningSorted
  BY SyncInitPromises DEF ItcInit
<1>2. ItcInv /\ Placed /\ RunningSorted /\ [ItcNext]_itcVars => RunningSorted'
  BY ItcSyncStep, SyncStepSorted DEF ItcInv, ItcControl
<1> QED
  BY <1>1, <1>2, ItcWakeupsInvariant, SortedRuns, PTL DEF ItcSpec

\* Under the queue the mutexes are still locks: ownership passes only through "free",
\* only to a task that asked, and only the owner gives it up.
THEOREM ItcMutexesAreLocks == ItcSpec => LockSpecHolds
<1>1. ItcInit => Lock!Init
  BY SyncInitPromises DEF ItcInit
<1>2. ItcInv /\ [ItcNext]_itcVars => [Lock!Next]_<<Owner, Asking>>
  BY ItcSyncStep, SyncStepLock DEF ItcInv, ItcControl
<1> QED
  BY <1>1, <1>2, ItcInvariant, PTL
  DEF ItcSpec, LockSpecHolds, Lock!Spec, Owner, Asking

\* And the semaphores still count: one resource for every acquire, and back for every
\* release that a semaphore with room sees.
THEOREM ItcSemaphoresCount ==
  ASSUME SizesBelowWrap PROVE ItcSpec => SemaphoreSpecHolds
<1>1. ItcInit => Counting!Init
  BY SyncInitPromises DEF ItcInit
<1>2. ItcInv /\ [ItcNext]_itcVars => [Counting!Next]_<<counter, SemAsking, SemGiving>>
  BY ItcSyncStep, SyncStepCounting DEF ItcInv, ItcControl
<1> QED
  BY <1>1, <1>2, ItcInvariant, PTL
  DEF ItcSpec, SemaphoreSpecHolds, Counting!Spec, SemAsking, SemGiving

=============================================================================
