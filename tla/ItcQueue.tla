------------------------------ MODULE ItcQueue ------------------------------
(***************************************************************************)
(* One inter-task message queue of OS/itc_queue.c: a buffer of slots       *)
(* guarded by the mutex QueueMux, and the semaphore QueueSem, which counts *)
(* its free slots.  Sending takes a resource of QueueSem after the message *)
(* is stored, reading gives one back.                                      *)
(***************************************************************************)
EXTENDS SyncCalls

CONSTANTS
  QueueMux, QueueSem,   \* the mux and the sem field of the queue
  NoData,     \* the data field of an empty slot
  Routes,     \* who sends to whom: a set of pairs of tasks
  Guarded     \* TRUE: a task reads only after OS_ITCHasMsg has returned 1

ASSUME ItcAssumption ==
  /\ QueueMux \in Mutexes /\ QueueSem \in Semaphores
  /\ Routes \subseteq Tasks \X Tasks
  /\ Guarded \in BOOLEAN

\* ITC_MAX_MSGS, the indices of msgbuf.
Slots == 1 .. Resources[QueueSem]

VARIABLES
  msgbuf,   \* the data and the dest field of every slot
  slot,     \* the index every task's search loop stopped at, 0 if it ran out
  msg,      \* the message every task is sending or has copied out
  nextId,   \* history: the number of messages sent so far
  pending,  \* history: the messages that were stored and have not been read
  dropped   \* history: the messages for which there was no slot

itcData == <<msgbuf, slot, msg, nextId, pending, dropped>>
itcVars == <<vars, syncVars, stage, itcData>>

\* Mutant: a loop that ran out leaves the index past the last slot.
FirstForPastEnd(dest) ==
  LET found == {i \in Slots : msgbuf[i].dest = dest} IN
    IF found = {} THEN Resources[QueueSem] + 1
                  ELSE CHOOSE i \in found : \A j \in found : i <= j

\* The least slot addressed to dest, Nil meaning a free one.
FirstFor(dest) ==
  LET found == {i \in Slots : msgbuf[i].dest = dest} IN
    IF found = {} THEN 0 ELSE CHOOSE i \in found : \A j \in found : i <= j

\* The call returns, and its locals are gone.
EndOfCall(t, from) ==
  /\ OwnStep(t, from, "none")
  /\ slot' = [slot EXCEPT ![t] = 0]
  /\ msg' = [msg EXCEPT ![t] = NoData]
  /\ UNCHANGED <<msgbuf, nextId, pending, dropped>>

-----------------------------------------------------------------------------
\* OS_ITCSendMsg

OS_ITCSendMsg(t, dest) ==
  /\ CallCounting(t, QueueSem, "tx_test")
  /\ msg' = [msg EXCEPT ![t] = [id |-> nextId, to |-> dest]]
  /\ nextId' = nextId + 1
  /\ UNCHANGED <<msgbuf, slot, pending, dropped>>

TxTest(t) ==
  /\ WaitOrLock(t, "tx_test", OS_SemaphoreFull(t), QueueSem, QueueMux, "tx_lock", "tx_find")
  /\ UNCHANGED itcData

\* Woken, or refused by OS_Wait: the queue is not tested again.
TxLock(t) ==
  /\ CallMutexAquire(t, "tx_lock", QueueMux, "tx_find")
  /\ UNCHANGED itcData

\* Mutant: the search for a free slot starts from the end.
TxFindLast(t) ==
  LET free == {i \in Slots : msgbuf[i].dest = Nil} IN
    /\ slot' = [slot EXCEPT ![t] =
         IF free = {} THEN 0 ELSE CHOOSE i \in free : \A j \in free : i >= j]
    /\ OwnStep(t, "tx_find", IF slot'[t] = 0 THEN "tx_unlock" ELSE "tx_data")
    /\ dropped' = IF slot'[t] = 0 THEN dropped \cup {msg[t]} ELSE dropped
    /\ UNCHANGED <<msgbuf, msg, nextId, pending>>

\* Mutant: the search stops before the last slot.
TxFindShort(t) ==
  LET free == {i \in Slots : msgbuf[i].dest = Nil /\ i + 1 \in Slots} IN
    /\ slot' = [slot EXCEPT ![t] =
         IF free = {} THEN 0 ELSE CHOOSE i \in free : \A j \in free : i <= j]
    /\ OwnStep(t, "tx_find", IF slot'[t] = 0 THEN "tx_unlock" ELSE "tx_data")
    /\ dropped' = IF slot'[t] = 0 THEN dropped \cup {msg[t]} ELSE dropped
    /\ UNCHANGED <<msgbuf, msg, nextId, pending>>

\* The loop stops at the first free slot.  If there is none the message goes
\* nowhere, and the call continues as if it had been stored.
TxFind(t) ==
  /\ slot' = [slot EXCEPT ![t] = FirstFor(Nil)]
  /\ OwnStep(t, "tx_find", IF slot'[t] = 0 THEN "tx_unlock" ELSE "tx_data")
  /\ dropped' = IF slot'[t] = 0 THEN dropped \cup {msg[t]} ELSE dropped
  /\ UNCHANGED <<msgbuf, msg, nextId, pending>>

TxData(t) ==
  /\ OwnStep(t, "tx_data", "tx_dest")
  /\ msgbuf' = [msgbuf EXCEPT ![slot[t]].data = msg[t]]
  /\ UNCHANGED <<slot, msg, nextId, pending, dropped>>

TxDest(t) ==
  /\ OwnStep(t, "tx_dest", "tx_unlock")
  /\ msgbuf' = [msgbuf EXCEPT ![slot[t]].dest = msg[t].to]
  /\ pending' = pending \cup {msg[t]}
  /\ UNCHANGED <<slot, msg, nextId, dropped>>

TxUnlock(t) ==
  /\ CallMutexRelease(t, "tx_unlock", QueueMux, "tx_take")
  /\ UNCHANGED itcData

\* Mutant: the semaphore is not told of the message.
TxTakeNothing(t) ==
  /\ OwnStep(t, "tx_take", "tx_end")
  /\ UNCHANGED itcData

TxTake(t) ==
  /\ CallSemaphoreAquire(t, "tx_take", QueueSem, "tx_end")
  /\ UNCHANGED itcData

-----------------------------------------------------------------------------
\* OS_ITCReadMsg

\* Only the caller takes its messages out, so that the loop, which runs without
\* the mutex, finds what was there when it started.
OS_ITCHasMsg(t) == FirstFor(t) # 0

OS_ITCReadMsg(t) ==
  /\ Guarded => OS_ITCHasMsg(t)
  /\ CallCounting(t, QueueSem, "rx_test")
  /\ UNCHANGED itcData

RxTest(t) ==
  /\ WaitOrLock(t, "rx_test", OS_SemaphoreEmpty(t, QueueSem), QueueSem, QueueMux, "rx_lock", "rx_find")
  /\ UNCHANGED itcData

RxLock(t) ==
  /\ CallMutexAquire(t, "rx_lock", QueueMux, "rx_find")
  /\ UNCHANGED itcData

\* Mutant: the reader takes the first message, whoever it is for.
RxFindAny(t) ==
  LET found == {i \in Slots : msgbuf[i].dest # Nil} IN
    /\ slot' = [slot EXCEPT ![t] =
         IF found = {} THEN 0 ELSE CHOOSE i \in found : \A j \in found : i <= j]
    /\ OwnStep(t, "rx_find", IF slot'[t] = 0 THEN "rx_unlock" ELSE "rx_copy")
    /\ UNCHANGED <<msgbuf, msg, nextId, pending, dropped>>

RxFind(t) ==
  /\ slot' = [slot EXCEPT ![t] = FirstFor(t)]
  /\ OwnStep(t, "rx_find", IF slot'[t] = 0 THEN "rx_unlock" ELSE "rx_copy")
  /\ UNCHANGED <<msgbuf, msg, nextId, pending, dropped>>

RxCopy(t) ==
  /\ OwnStep(t, "rx_copy", "rx_clear")
  /\ msg' = [msg EXCEPT ![t] = msgbuf[slot[t]].data]
  /\ msgbuf' = [msgbuf EXCEPT ![slot[t]].data = NoData]
  /\ UNCHANGED <<slot, nextId, pending, dropped>>

RxClear(t) ==
  /\ OwnStep(t, "rx_clear", "rx_unlock")
  /\ msgbuf' = [msgbuf EXCEPT ![slot[t]].dest = Nil]
  /\ pending' = pending \ {msg[t]}
  /\ UNCHANGED <<slot, msg, nextId, dropped>>

RxUnlock(t) ==
  /\ CallMutexRelease(t, "rx_unlock", QueueMux, "rx_give")
  /\ UNCHANGED itcData

\* The resource is given back whether a message was found or not.
RxGive(t) ==
  /\ CallSemaphoreRelease(t, "rx_give", QueueSem, "rx_end")
  /\ UNCHANGED itcData

-----------------------------------------------------------------------------

OS_InitITCQueue ==
  /\ msgbuf = [i \in Slots |-> [data |-> NoData, dest |-> Nil]]
  /\ slot = [t \in Tasks |-> 0]
  /\ msg = [t \in Tasks |-> NoData]
  /\ nextId = 0
  /\ pending = {}
  /\ dropped = {}

ItcInit == SyncInit /\ OS_InitITCQueue

ItcStep(t) ==
  \/ \E dest \in Tasks : <<t, dest>> \in Routes /\ OS_ITCSendMsg(t, dest)
  \/ TxTest(t) \/ TxLock(t) \/ TxFind(t) \/ TxData(t) \/ TxDest(t)
  \/ TxUnlock(t) \/ TxTake(t) \/ EndOfCall(t, "tx_end")
  \/ (\E from \in Tasks : <<from, t>> \in Routes) /\ OS_ITCReadMsg(t)
  \/ RxTest(t) \/ RxLock(t) \/ RxFind(t) \/ RxCopy(t) \/ RxClear(t)
  \/ RxUnlock(t) \/ RxGive(t) \/ EndOfCall(t, "rx_end")

ItcThread(t) ==
  \/ (InnerStep(t) \/ OuterStep(t)) /\ UNCHANGED itcData
  \/ ItcStep(t)

ItcNext ==
  \/ Handlers /\ UNCHANGED <<syncVars, stage, itcData>>
  \/ \E t \in Tasks : ItcThread(t)

ItcSpec == ItcInit /\ [][ItcNext]_itcVars

\* Fairness as in Mutex.
ItcFairness ==
  /\ WF_itcVars(OS_Start /\ UNCHANGED <<syncVars, stage, itcData>>)
  /\ WF_itcVars(SysTick_Handler /\ UNCHANGED <<syncVars, stage, itcData>>)
  /\ WF_itcVars((UpdateSleepingTasks \/ PendSV_Handler)
                  /\ UNCHANGED <<syncVars, stage, itcData>>)
  /\ SF_itcVars(\/ IdleSchedule /\ UNCHANGED <<syncVars, stage, itcData>>
                \/ \E t \in Tasks : ItcThread(t))
  /\ SF_itcVars(\E t \in Tasks : StrexStep(t) /\ UNCHANGED itcData)

ItcFairSpec == ItcSpec /\ ItcFairness

-----------------------------------------------------------------------------
\* Properties.

TxStages == {"tx_test", "tx_lock", "tx_find", "tx_data", "tx_dest", "tx_unlock",
             "tx_take", "tx_end"}

RxStages == {"rx_test", "rx_lock", "rx_find", "rx_copy", "rx_clear", "rx_unlock",
             "rx_give", "rx_end"}

Messages == [id : Nat, to : Tasks]

\* The queue and the calls of every task are well typed.
ItcTypeOK ==
  /\ KernelTypeOK
  /\ Started
  /\ stage \in [Tasks -> {"none"} \cup TxStages \cup RxStages]
  /\ msgbuf \in [Slots -> [data : Messages \cup {NoData}, dest : Tasks \cup {Nil}]]
  /\ slot \in [Tasks -> Slots \cup {0}]
  /\ msg \in [Tasks -> Messages \cup {NoData}]
  /\ pending \subseteq Messages
  /\ dropped \subseteq Messages

Occupied == {i \in Slots : msgbuf[i].dest # Nil}

\* The message in slot i: its reader may have copied it out and not cleared dest yet.
Content(i) ==
  IF \E t \in Tasks : stage[t] = "rx_clear" /\ slot[t] = i
    THEN msg[CHOOSE t \in Tasks : stage[t] = "rx_clear" /\ slot[t] = i]
    ELSE msgbuf[i].data

\* The occupied slots hold the messages that were stored and have not been read, each
\* once and under its dest: calls that store and clear slots at the same time never
\* overwrite, double, misdeliver or resurrect a message.
BufferIntegrity ==
  /\ {Content(i) : i \in Occupied} = pending
  /\ \A i, j \in Occupied : i # j => Content(i) # Content(j)
  /\ \A i \in Occupied : Content(i).to = msgbuf[i].dest

\* A task that read because OS_ITCHasMsg told it to returns with a message that was
\* sent to it and that nobody has read before, whatever the other tasks did to the
\* queue between OS_ITCHasMsg and the copy.
GuardedReadDelivers ==
  [][\A t \in Tasks :
       stage[t] \in {"rx_find", "rx_clear"} /\ stage'[t] = "rx_unlock" =>
         /\ stage[t] = "rx_clear"
         /\ msg[t] \in pending
         /\ msg[t].to = t]_itcVars

\* A call takes effect when the slot is addressed or cleared, or the search for one
\* has failed.
MailPhase(t) ==
  CASE stage[t] = "none" -> "idle"
    [] stage[t] \in {"tx_test", "tx_lock", "tx_find", "tx_data", "tx_dest"} -> "sending"
    [] stage[t] \in {"tx_unlock", "tx_take", "tx_end"} -> "sent"
    [] stage[t] \in {"rx_test", "rx_lock", "rx_find", "rx_copy", "rx_clear"} -> "reading"
    [] OTHER -> "read"

MailLetter(t) ==
  IF \/ MailPhase(t) \in {"sending", "sent"}
     \/ MailPhase(t) = "read" /\ slot[t] # 0
    THEN msg[t] ELSE NoData

\* The queue implements MailboxSpec, word by word and slot by slot, however the calls
\* interleave: each takes effect at once, a message is lost only when every slot is
\* taken, and a read returns without one only when there is none for its caller.
Mailbox == INSTANCE MailboxSpec WITH
  Size   <- Resources[QueueSem],
  mail   <- {Content(i) : i \in Occupied},
  phase  <- [t \in Tasks |-> MailPhase(t)],
  letter <- [t \in Tasks |-> MailLetter(t)],
  posted <- nextId

MailboxSpecHolds == Mailbox!Spec

\* The calls that have filled or cleared a slot and not yet told the semaphore.
Untaken ==
  {t \in Tasks :
     /\ slot[t] # 0
     /\ \/ stage[t] \in {"tx_unlock", "tx_take"}
        \/ stage[t] = "tx_end" /\ pc[t] \in SemAcquireLabels}

Ungiven ==
  {t \in Tasks :
     /\ slot[t] # 0
     /\ \/ stage[t] \in {"rx_unlock", "rx_give"}
        \/ stage[t] = "rx_end" /\ pc[t] \in {"sr_ldrex", "sr_strex"}}

\* As long as tasks read only what OS_ITCHasMsg has seen, the semaphore never shows
\* more free slots than there are, but for those just being filled.
NoPhantomSlot ==
  counter[QueueSem] + Cardinality(Ungiven)
    <= Resources[QueueSem] - Cardinality(Occupied) + Cardinality(Untaken)

\* "Find an empty place in the queue and insert the message there" (itc_queue.c):
\* every message that is sent finds a place in the buffer.
NoMessageDropped == dropped = {}

\* "Counting semaphore to keep track of how many messages are in the queue"
\* (itc_queue.h), up to the calls that have not told it yet.
CountMatchesBuffer ==
  counter[QueueSem] + Cardinality(Ungiven)
    = Resources[QueueSem] - Cardinality(Occupied) + Cardinality(Untaken)

\* "The calling tasks will be made to wait until a message enters the queue"
\* (itc_queue.h): a read returns with a message.
ReadFindsMessage ==
  \A t \in Tasks : stage[t] = "rx_unlock" => slot[t] # 0

\* A task does not wait for a message that is there.
WaitingReaderServed ==
  \A t \in Tasks :
    stage[t] = "rx_lock" /\ t \in waiting[QueueSem].tasks /\ OS_ITCHasMsg(t)
      ~> t \notin waiting[QueueSem].tasks

=============================================================================
