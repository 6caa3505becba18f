----------------------------- MODULE MutexProofs -----------------------------
(***************************************************************************)
(* Theorems about Mutex, for every set of tasks, mutexes, other objects    *)
(* and levels, with recursive acquires and releases by non-owners.         *)
(***************************************************************************)
EXTENDS Mutex, KernelProofs

-----------------------------------------------------------------------------
\* Type correctness.

MutexPcTyped ==
  pc \in [Tasks \cup {IdleTCB} ->
            KernelLabels \cup IdleLabels \cup AcquireLabels \cup ReleaseLabels]

MuxTyped ==
  /\ mux \in [Mutexes -> [tcb : Tasks \cup {Nil}, counter : 0 .. UIntMax]]
  /\ held \in [Tasks -> SUBSET Mutexes]

\* A call of OS_MutexAquire or OS_MutexRelease is about a mutex.
CallNamesMutex ==
  \A t \in Tasks : pc[t] \in AcquireLabels \cup ReleaseLabels => arg[t] \in Mutexes

\* The part that holds wherever the mutexes are used, whatever other calls there are.
MutexShape == KernelTyped /\ PcDomain /\ MuxTyped /\ CallNamesMutex

MutexTyped == KernelTyped /\ Started /\ MutexPcTyped /\ MuxTyped /\ CallNamesMutex

\* Typing includes that part.
LEMMA TypedShape == MutexTyped => MutexShape
BY DEF MutexTyped, MutexShape, MutexPcTyped, PcDomain

\* What the proofs need to know of the counter's width.
LEMMA CounterRange == UIntMax \in Nat \ {0}
BY KernelAssumption

\* The initial state is typed.
LEMMA MutexInitTyped == MutexInit => MutexTyped
<1> SUFFICES ASSUME MutexInit PROVE MutexTyped
  OBVIOUS
<1>1. KernelTyped /\ Started
  BY InitTyped DEF MutexInit, Typed
<1>2. MutexPcTyped /\ CallNamesMutex
  BY KernelAssumption, QueueAssumption
  DEF MutexInit, Init, MutexPcTyped, CallNamesMutex, KernelLabels, IdleLabels,
      AcquireLabels, ReleaseLabels
<1>3. MuxTyped
  BY CounterRange, MutexAssumption DEF MutexInit, MuxTyped
<1> QED
  BY <1>1, <1>2, <1>3 DEF MutexTyped

\* The steps of OS_MutexAquire and OS_MutexRelease keep the kernel's state typed.
LEMMA MutexStepTyped ==
  ASSUME NEW t \in Tasks, KernelTyped, CallNamesMutex, MutexStep(t)
  PROVE  KernelTyped'
<1> USE CounterRange, MutexAssumption
    DEF KernelTyped, KernelTypeOK, kernelVars, taskVars, cpuVars, timeVars, queueVars
<1>1. CASE \E m \in Mutexes : AcquireCall(t, m) \/ ReleaseCall(t, m)
  BY <1>1 DEF AcquireCall, ReleaseCall, Calling, Executing, Goto, WellFormedQueues
<1>2. CASE AcquireLdrex(t) \/ AcquireStrex(t) \/ ReleaseDec(t) \/ ReleaseClear(t)
  BY <1>2 DEF AcquireLdrex, AcquireStrex, ReleaseDec, ReleaseClear, Local, Goto,
              WellFormedQueues
<1>3. CASE AcquireCount(t) \/ ReleaseCheck(t) \/ ReleaseZero(t) \/ ReleaseTest(t)
  BY <1>3 DEF AcquireCount, ReleaseCheck, ReleaseZero, ReleaseTest, Return, Goto,
              WellFormedQueues
<1>4. CASE AcquireWait(t)
  <2>1. currentTCB \in Tasks /\ arg[t] \in Objects /\ check[t] \in Nat
    BY <1>4 DEF AcquireWait, Executing, CallNamesMutex, AcquireLabels
  <2> QED
    BY <1>4, <2>1, SvcTyped DEF AcquireWait, Goto
<1>5. CASE ReleaseNotify(t)
  <2>1. arg[t] \in Objects
    BY <1>5 DEF ReleaseNotify, Executing, CallNamesMutex, ReleaseLabels
  <2> QED
    BY <1>5, <2>1, SvcTyped DEF ReleaseNotify, Return, Goto
<1> QED
  BY <1>1, <1>2, <1>3, <1>4, <1>5 DEF MutexStep, MutexBody

\* The steps of OS_MutexAquire and OS_MutexRelease keep the mutexes typed, and every
\* call about a mutex.
LEMMA MutexStepMux ==
  ASSUME NEW t \in Tasks, MutexShape, MutexStep(t)
  PROVE  PcDomain' /\ MuxTyped' /\ CallNamesMutex'
<1> USE CounterRange, MutexAssumption
    DEF MutexShape, PcDomain, MuxTyped, CallNamesMutex, KernelTyped, KernelTypeOK,
        AcquireLabels, ReleaseLabels, mutexVars, kernelVars, Executing, Goto
<1>1. CASE \E m \in Mutexes : AcquireCall(t, m) \/ ReleaseCall(t, m)
  <2>1. PICK m \in Mutexes : AcquireCall(t, m) \/ ReleaseCall(t, m)
    BY <1>1
  <2>2. CASE AcquireCall(t, m)
    BY <2>2 DEF AcquireCall, Calling
  <2>3. CASE ReleaseCall(t, m)
    <3>1. /\ pc' = [pc EXCEPT ![t] = "rl_check"]
          /\ arg' = [arg EXCEPT ![t] = m]
          /\ held' = [held EXCEPT ![t] = @ \ {m}]
          /\ mux' = mux
      BY <2>3 DEF ReleaseCall, Calling
    <3> QED
      BY <3>1
  <2> QED
    BY <2>1, <2>2, <2>3
<1>2. CASE AcquireLdrex(t)
  BY <1>2 DEF AcquireLdrex, Local
<1>3. CASE AcquireStrex(t)
  BY <1>3 DEF AcquireStrex, Local
<1>4. CASE AcquireWait(t)
  BY <1>4 DEF AcquireWait
<1>5. CASE AcquireCount(t)
  <2>1. arg[t] \in Mutexes
    BY <1>5 DEF AcquireCount
  <2>2. (mux[arg[t]].counter + 1) % (UIntMax + 1) \in 0 .. UIntMax
    BY <2>1
  <2>3. MuxTyped'
    BY <1>5, <2>1, <2>2 DEF AcquireCount
  <2> QED
    BY <1>5, <2>3 DEF AcquireCount, Return
<1>6. CASE ReleaseCheck(t)
  BY <1>6 DEF ReleaseCheck, Return
<1>7. CASE ReleaseZero(t)
  BY <1>7 DEF ReleaseZero, Return
<1>8. CASE ReleaseDec(t)
  <2>1. arg[t] \in Mutexes
    BY <1>8 DEF ReleaseDec, Local
  <2>2. (mux[arg[t]].counter + UIntMax) % (UIntMax + 1) \in 0 .. UIntMax
    BY <2>1
  <2>3. MuxTyped'
    BY <1>8, <2>1, <2>2 DEF ReleaseDec
  <2> QED
    BY <1>8, <2>3 DEF ReleaseDec, Local
<1>9. CASE ReleaseTest(t)
  BY <1>9 DEF ReleaseTest, Return
<1>10. CASE ReleaseClear(t)
  BY <1>10 DEF ReleaseClear, Local
<1>11. CASE ReleaseNotify(t)
  BY <1>11 DEF ReleaseNotify, Return
<1> QED
  BY <1>1, <1>2, <1>3, <1>4, <1>5, <1>6, <1>7, <1>8, <1>9, <1>10, <1>11 DEF MutexStep, MutexBody

\* Nor do they leave the labels of the program.
LEMMA MutexStepPc ==
  ASSUME NEW t \in Tasks, MutexPcTyped, MutexStep(t) PROVE MutexPcTyped'
<1> USE DEF MutexPcTyped, AcquireLabels, ReleaseLabels, KernelLabels, IdleLabels, Goto
<1>1. CASE \E m \in Mutexes : AcquireCall(t, m) \/ ReleaseCall(t, m)
  BY <1>1 DEF AcquireCall, ReleaseCall, Calling
<1>2. CASE AcquireLdrex(t)
  BY <1>2 DEF AcquireLdrex, Local
<1>3. CASE AcquireStrex(t)
  BY <1>3 DEF AcquireStrex, Local
<1>4. CASE AcquireWait(t)
  BY <1>4 DEF AcquireWait
<1>5. CASE AcquireCount(t) \/ ReleaseCheck(t) \/ ReleaseZero(t)
  BY <1>5 DEF AcquireCount, ReleaseCheck, ReleaseZero, Return
<1>6. CASE ReleaseDec(t) \/ ReleaseTest(t)
  BY <1>6 DEF ReleaseDec, ReleaseTest, Local, Return
<1>7. CASE ReleaseClear(t) \/ ReleaseNotify(t)
  BY <1>7 DEF ReleaseClear, ReleaseNotify, Local, Return
<1> QED
  BY <1>1, <1>2, <1>3, <1>4, <1>5, <1>6, <1>7 DEF MutexStep, MutexBody

\* A mutex step is one of the current task, which stays current.
LEMMA MutexStepCurrent ==
  ASSUME NEW t \in Tasks, MutexStep(t)
  PROVE  /\ mode = "thread" /\ currentTCB = t /\ currentTCB' = t
         /\ pc[t] \in {"user"} \cup AcquireLabels \cup ReleaseLabels
BY DEF MutexStep, MutexBody, AcquireCall, AcquireLdrex, AcquireStrex, AcquireWait,
       AcquireCount, ReleaseCall, ReleaseCheck, ReleaseZero, ReleaseDec, ReleaseTest,
       ReleaseClear, ReleaseNotify, _svc_OS_Wait, _svc_OS_Notify, kernelVars, cpuVars,
       Executing, Calling, Local, AcquireLabels, ReleaseLabels

\* A step of the kernel, or of a task outside the mutexes, changes no program counter
\* of a task to or from a label of a mutex call, and no argument.
LEMMA OtherStepPc ==
  ASSUME PcDomain, Handlers \/ \E t \in Tasks : TaskStep(t) \/ EndStep(t)
  PROVE  /\ PcDomain'
         /\ arg' = arg /\ check' = check
         /\ \A u \in Tasks :
              \/ pc'[u] = pc[u]
              \/ {pc[u], pc'[u]} \cap (AcquireLabels \cup ReleaseLabels) = {}
BY KernelStepPc
DEF EndStep, TaskLabels, KernelLabels, AcquireLabels, ReleaseLabels

\* It does not leave the labels of the program either.
LEMMA OtherStepLabels ==
  ASSUME MutexPcTyped, Handlers \/ \E t \in Tasks : TaskStep(t) \/ EndStep(t)
  PROVE  MutexPcTyped'
<1> USE KernelAssumption
    DEF MutexPcTyped, KernelLabels, IdleLabels, taskVars, Executing, Goto, Calling
<1>1. CASE Handlers
  BY <1>1
  DEF Handlers, SysTick_Handler, UpdateSleepingTasks, PendSV_Handler, ExtractNull, HeapTorn,
      OS_Start, IdleSchedule, BootAddTask
<1>2. ASSUME NEW t \in Tasks, TaskStep(t) \/ EndStep(t) PROVE MutexPcTyped'
  BY <1>2
  DEF TaskStep, OS_AddTask, RunPastEnd, SleepCall, SleepStamp, SleepStrex, SleepRemove,
      SleepInsert, SleepYield, EndStep, TaskEnd
<1> QED
  BY <1>1, <1>2

\* Every step keeps the state typed.
LEMMA MutexNextTyped == MutexTyped /\ [MutexNext]_allVars => MutexTyped'
<1> SUFFICES ASSUME MutexTyped, [MutexNext]_allVars PROVE MutexTyped'
  OBVIOUS
<1>0. MutexShape
  BY TypedShape
<1>1. CASE UNCHANGED allVars
  BY <1>1 DEF allVars, mutexVars, vars, kernelVars, cpuVars, timeVars, queueVars,
              taskVars, MutexTyped, KernelTyped, KernelTypeOK, WellFormedQueues, Started,
              MutexPcTyped, MuxTyped, CallNamesMutex
<1>2. CASE Handlers /\ UNCHANGED mutexVars
  <2>1. KernelTyped' /\ Started'
    BY <1>2, HandlersTyped, HandlersStarted DEF MutexTyped
  <2>2. MutexPcTyped'
    BY <1>2, OtherStepLabels DEF MutexTyped
  <2> QED
    BY <1>0, <1>2, <2>1, <2>2, OtherStepPc
    DEF MutexShape, MutexTyped, MuxTyped, mutexVars, CallNamesMutex
<1>3. ASSUME NEW t \in Tasks, TaskStep(t) \/ EndStep(t), UNCHANGED mutexVars
      PROVE  MutexTyped'
  <2>1. KernelTyped'
    BY <1>0, <1>3, KernelStepTyped DEF MutexShape, EndStep
  <2>2. Started'
    BY <1>3, KernelStepCurrent, QueueAssumption DEF Started, EndStep
  <2>3. MutexPcTyped'
    BY <1>3, OtherStepLabels DEF MutexTyped
  <2> QED
    BY <1>0, <1>3, <2>1, <2>2, <2>3, OtherStepPc
    DEF MutexShape, MutexTyped, MuxTyped, mutexVars, CallNamesMutex
<1>4. ASSUME NEW t \in Tasks, MutexStep(t) PROVE MutexTyped'
  <2>1. Started'
    BY <1>4, MutexStepCurrent, QueueAssumption DEF Started
  <2> QED
    BY <1>0, <1>4, <2>1, MutexStepTyped, MutexStepMux, MutexStepPc DEF MutexTyped
<1> QED
  BY <1>1, <1>2, <1>3, <1>4 DEF MutexNext

\* The kernel's and the mutexes' variables stay typed in every execution.
THEOREM MutexTypeCorrect == MutexSpec => []MutexTypeOK
<1>1. MutexSpec => []MutexTyped
  BY MutexInitTyped, MutexNextTyped, PTL DEF MutexSpec
<1>2. MutexTyped => MutexTypeOK
  BY DEF MutexTyped, KernelTyped, MutexPcTyped, MuxTyped, MutexTypeOK
<1> QED
  BY <1>1, <1>2, PTL

-----------------------------------------------------------------------------
\* Ownership.

OwnerLabels == {"aq_count", "rl_dec", "rl_test", "rl_clear"}

\* What a task holds, or is about to hold or to free, names it as the owner; what it
\* is releasing it no longer holds; and while the exclusive monitor is set, the
\* mutex its task is about to store into is still free.
HoldersOwn    == \A t \in Tasks : \A m \in held[t] : mux[m].tcb = t
CallersOwn    == \A t \in Tasks : pc[t] \in OwnerLabels => mux[arg[t]].tcb = t
ReleasersLeft == \A t \in Tasks : pc[t] \in ReleaseLabels => arg[t] \notin held[t]
MonitorFree   ==
  \A t \in Tasks :
    exclusive /\ currentTCB = t /\ pc[t] = "aq_strex" => mux[arg[t]].tcb = Nil

Owned == HoldersOwn /\ CallersOwn /\ ReleasersLeft /\ MonitorFree

\* A mutex step of one task leaves what the other tasks hold, own and are about to
\* store into alone.
LEMMA OwnedByOthers ==
  ASSUME MutexShape, Owned, NEW t \in Tasks, MutexStep(t), NEW u \in Tasks \ {t}
  PROVE  /\ held'[u] = held[u] /\ pc'[u] = pc[u]
         /\ arg'[u] = arg[u] /\ check'[u] = check[u]
         /\ \A m \in Mutexes : mux[m].tcb = u => mux'[m].tcb = u
<1> USE DEF MutexShape, PcDomain, MuxTyped, CallNamesMutex, KernelTyped, KernelTypeOK,
            AcquireLabels, ReleaseLabels, OwnerLabels, mutexVars, kernelVars, Executing,
            Goto
<1>1. CASE \E m \in Mutexes : AcquireCall(t, m) \/ ReleaseCall(t, m)
  BY <1>1 DEF AcquireCall, ReleaseCall, Calling
<1>2. CASE AcquireLdrex(t)
  BY <1>2 DEF AcquireLdrex, Local
<1>3. CASE AcquireStrex(t)
  <2>1. exclusive => mux[arg[t]].tcb = Nil
    BY <1>3 DEF AcquireStrex, Local, Owned, MonitorFree
  <2> QED
    BY <1>3, <2>1, QueueAssumption DEF AcquireStrex, Local
<1>4. CASE AcquireWait(t)
  BY <1>4 DEF AcquireWait
<1>5. CASE AcquireCount(t)
  BY <1>5 DEF AcquireCount, Return
<1>6. CASE ReleaseCheck(t) \/ ReleaseTest(t) \/ ReleaseNotify(t)
  BY <1>6 DEF ReleaseCheck, ReleaseTest, ReleaseNotify, Return
<1>7. CASE ReleaseZero(t)
  BY <1>7 DEF ReleaseZero, Return
<1>8. CASE ReleaseDec(t)
  BY <1>8 DEF ReleaseDec, Local
<1>9. CASE ReleaseClear(t)
  <2>1. mux[arg[t]].tcb = t
    BY <1>9 DEF ReleaseClear, Local, Owned, CallersOwn
  <2> QED
    BY <1>9, <2>1 DEF ReleaseClear, Local
<1> QED
  BY <1>1, <1>2, <1>3, <1>4, <1>5, <1>6, <1>7, <1>8, <1>9 DEF MutexStep, MutexBody

\* Nor does it disturb what the task itself holds and owns.
LEMMA OwnedBySelf ==
  ASSUME MutexShape, Owned, NEW t \in Tasks, MutexStep(t)
  PROVE  /\ \A m \in held'[t] : mux'[m].tcb = t
         /\ pc'[t] \in OwnerLabels => mux'[arg'[t]].tcb = t
         /\ pc'[t] \in ReleaseLabels => arg'[t] \notin held'[t]
         /\ exclusive' /\ pc'[t] = "aq_strex" => mux'[arg'[t]].tcb = Nil
<1> USE DEF MutexShape, PcDomain, MuxTyped, CallNamesMutex, KernelTyped, KernelTypeOK,
            AcquireLabels, ReleaseLabels, OwnerLabels, mutexVars, kernelVars, Executing,
            Goto, Owned, HoldersOwn, CallersOwn, ReleasersLeft
<1>1. CASE \E m \in Mutexes : AcquireCall(t, m)
  BY <1>1 DEF AcquireCall, Calling
<1>2. CASE \E m \in Mutexes : ReleaseCall(t, m)
  <2>1. PICK m \in Mutexes : ReleaseCall(t, m)
    BY <1>2
  <2>2. /\ pc'[t] = "rl_check" /\ arg'[t] = m
        /\ held'[t] = held[t] \ {m} /\ mux' = mux
    BY <2>1 DEF ReleaseCall, Calling
  <2> QED
    BY <2>2
<1>3. CASE AcquireLdrex(t)
  BY <1>3, QueueAssumption DEF AcquireLdrex, Local
<1>4. CASE AcquireStrex(t)
  <2>1. exclusive => mux[arg[t]].tcb = Nil
    BY <1>4 DEF AcquireStrex, Local, MonitorFree
  <2>2. arg[t] \in Mutexes /\ held' = held /\ arg' = arg /\ ~exclusive'
    BY <1>4 DEF AcquireStrex, Local
  <2>3. CASE exclusive
    <3>1. mux' = [mux EXCEPT ![arg[t]].tcb = t] /\ pc'[t] = "aq_count"
      BY <1>4, <2>3 DEF AcquireStrex, Local
    <3> QED
      BY <2>1, <2>2, <2>3, <3>1, QueueAssumption
  <2>4. CASE ~exclusive
    <3>1. mux' = mux /\ pc'[t] = "aq_ldrex"
      BY <1>4, <2>4 DEF AcquireStrex, Local
    <3> QED
      BY <2>2, <3>1
  <2> QED
    BY <2>3, <2>4
<1>5. CASE AcquireWait(t)
  BY <1>5 DEF AcquireWait
<1>6. CASE AcquireCount(t)
  BY <1>6 DEF AcquireCount, Return
<1>7. CASE ReleaseCheck(t)
  BY <1>7 DEF ReleaseCheck, Return
<1>8. CASE ReleaseTest(t) \/ ReleaseNotify(t)
  BY <1>8 DEF ReleaseTest, ReleaseNotify, Return
<1>9. CASE ReleaseZero(t)
  BY <1>9 DEF ReleaseZero, Return
<1>10. CASE ReleaseDec(t)
  BY <1>10 DEF ReleaseDec, Local
<1>11. CASE ReleaseClear(t)
  BY <1>11 DEF ReleaseClear, Local
<1> QED
  BY <1>1, <1>2, <1>3, <1>4, <1>5, <1>6, <1>7, <1>8, <1>9, <1>10, <1>11 DEF MutexStep, MutexBody

\* So it keeps ownership.
LEMMA MutexStepOwned ==
  ASSUME MutexShape, Owned, NEW t \in Tasks, MutexStep(t) PROVE Owned'
<1> USE DEF Owned, HoldersOwn, CallersOwn, ReleasersLeft, MonitorFree
<1>1. HoldersOwn'
  BY OwnedByOthers, OwnedBySelf DEF MutexShape, MuxTyped
<1>2. CallersOwn'
  BY OwnedByOthers, OwnedBySelf
  DEF MutexShape, CallNamesMutex, OwnerLabels, AcquireLabels, ReleaseLabels
<1>3. ReleasersLeft'
  BY OwnedByOthers, OwnedBySelf
<1>4. MonitorFree'
  BY OwnedBySelf, MutexStepCurrent
<1> QED
  BY <1>1, <1>2, <1>3, <1>4

\* So does a step outside the mutexes, which does not take a task to or from a label of
\* a mutex call.
LEMMA OtherStepOwned ==
  ASSUME PcDomain, Owned, Handlers \/ \E t \in Tasks : TaskStep(t) \/ EndStep(t),
         UNCHANGED mutexVars
  PROVE  Owned'
<1> USE DEF Owned, HoldersOwn, CallersOwn, ReleasersLeft, MonitorFree
<1>1. HoldersOwn' /\ CallersOwn' /\ ReleasersLeft'
  BY OtherStepPc DEF mutexVars, OwnerLabels, AcquireLabels, ReleaseLabels
<1>2. CASE Handlers
  BY <1>1, <1>2, OtherStepPc, HandlersMonitor, KernelAssumption DEF mutexVars, AcquireLabels
<1>3. ASSUME NEW t \in Tasks, TaskStep(t) \/ EndStep(t) PROVE MonitorFree'
  BY <1>3, OtherStepPc, KernelStepCurrent
  DEF EndStep, TaskLabels, KernelLabels, AcquireLabels
<1> QED
  BY <1>1, <1>2, <1>3

\* Every step keeps ownership.
LEMMA NextOwned == MutexTyped /\ Owned /\ [MutexNext]_allVars => Owned'
<1> SUFFICES ASSUME MutexTyped, Owned, [MutexNext]_allVars PROVE Owned'
  OBVIOUS
<1>0. MutexShape
  BY TypedShape
<1>1. CASE UNCHANGED allVars
  BY <1>1 DEF allVars, mutexVars, vars, kernelVars, cpuVars, taskVars, Owned, HoldersOwn,
              CallersOwn, ReleasersLeft, MonitorFree
<1> QED
  BY <1>0, <1>1, OtherStepOwned, MutexStepOwned DEF MutexNext, MutexShape

\* Typing and ownership hold in every execution.
LEMMA OwnedInvariant == MutexSpec => [](MutexTyped /\ Owned)
<1>1. MutexInit => Owned
  BY KernelAssumption
  DEF MutexInit, Init, Owned, HoldersOwn, CallersOwn, ReleasersLeft, MonitorFree,
      OwnerLabels, ReleaseLabels
<1>2. MutexTyped /\ Owned /\ [MutexNext]_allVars => (MutexTyped /\ Owned)'
  BY MutexNextTyped, NextOwned
<1> QED
  BY <1>1, <1>2, MutexInitTyped, PTL DEF MutexSpec

\* Two tasks never hold the same mutex, even if tasks release mutexes they do not
\* own or acquire mutexes they do.
THEOREM OneHolder == MutexSpec => []MutualExclusion
<1>1. MutexTyped /\ Owned => MutualExclusion
  BY DEF MutexTyped, MuxTyped, Owned, HoldersOwn, MutualExclusion
<1> QED
  BY <1>1, OwnedInvariant, PTL

-----------------------------------------------------------------------------
\* The mutexes implement LockSpec.

\* The variables of LockSpec, as Mutex maps them.
Owner  == [m \in Mutexes |-> mux[m].tcb]
Asking == [t \in Tasks |-> IF pc[t] \in AcquireLabels THEN arg[t] ELSE Nil]

\* The steps of LockSpec.
LEMMA LockSteps ==
  ASSUME NEW t \in Tasks, NEW m \in Mutexes,
         Lock!Ask(t, m) \/ Lock!Own(t, m) \/ Lock!Enter(t, m) \/ Lock!Leave(t, m)
  PROVE  Lock!Next
BY DEF Lock!Next

\* Ownership and requests change only as LockSpec allows.
LEMMA MutexStepLock ==
  ASSUME MutexShape, Owned, NEW t \in Tasks, MutexStep(t)
  PROVE  Lock!Next \/ (Owner' = Owner /\ Asking' = Asking)
<1> USE QueueAssumption, CounterRange, MutexAssumption
    DEF MutexShape, PcDomain, MuxTyped, CallNamesMutex, KernelTyped, KernelTypeOK,
        AcquireLabels, ReleaseLabels, mutexVars, kernelVars, Executing, Goto,
        Owner, Asking
<1>1. ASSUME NEW m \in Mutexes, AcquireCall(t, m) PROVE Lock!Ask(t, m)
  <2>1. /\ pc[t] = "user" /\ pc' = [pc EXCEPT ![t] = "aq_ldrex"]
        /\ arg' = [arg EXCEPT ![t] = m] /\ mux' = mux
    BY <1>1 DEF AcquireCall, Calling
  <2>2. Asking[t] = Nil /\ Asking' = [Asking EXCEPT ![t] = m]
    BY <2>1
  <2> QED
    BY <2>1, <2>2 DEF Lock!Ask
<1>2. ASSUME NEW m \in Mutexes, ReleaseCall(t, m) PROVE Owner' = Owner /\ Asking' = Asking
  <2>1. /\ pc[t] = "user" /\ pc' = [pc EXCEPT ![t] = "rl_check"]
        /\ arg' = [arg EXCEPT ![t] = m] /\ mux' = mux
    BY <1>2 DEF ReleaseCall, Calling
  <2> QED
    BY <2>1
<1>3. CASE AcquireLdrex(t)
  BY <1>3 DEF AcquireLdrex, Local
<1>4. CASE AcquireStrex(t)
  <2>1. CASE exclusive
    <3>1. /\ arg[t] \in Mutexes /\ pc[t] = "aq_strex" /\ mux[arg[t]].tcb = Nil
          /\ mux' = [mux EXCEPT ![arg[t]].tcb = t]
          /\ pc' = [pc EXCEPT ![t] = "aq_count"] /\ arg' = arg
      BY <1>4, <2>1 DEF AcquireStrex, Local, Owned, MonitorFree
    <3>2. Asking' = Asking /\ Asking[t] = arg[t]
      BY <3>1
    <3>3. Owner[arg[t]] = Nil /\ Owner' = [Owner EXCEPT ![arg[t]] = t]
      <4>1. \A m \in Mutexes : mux'[m].tcb = IF m = arg[t] THEN t ELSE mux[m].tcb
        BY <3>1
      <4> QED
        BY <3>1, <4>1
    <3>4. PICK m \in Mutexes : arg[t] = m
      BY <3>1
    <3>5. Lock!Own(t, m)
      BY <3>2, <3>3, <3>4 DEF Lock!Own
    <3> QED
      BY <3>5, LockSteps
  <2>2. CASE ~exclusive
    BY <1>4, <2>2 DEF AcquireStrex, Local
  <2> QED
    BY <2>1, <2>2
<1>5. CASE AcquireWait(t)
  BY <1>5 DEF AcquireWait
<1>6. CASE AcquireCount(t)
  <2>1. /\ arg[t] \in Mutexes /\ pc[t] = "aq_count" /\ mux[arg[t]].tcb = t
        /\ mux' = [mux EXCEPT ![arg[t]].counter = (@ + 1) % (UIntMax + 1)]
        /\ pc' = [pc EXCEPT ![t] = "user"] /\ arg' = [arg EXCEPT ![t] = Nil]
    BY <1>6 DEF AcquireCount, Return, Owned, CallersOwn, OwnerLabels
  <2>2. Asking[t] = arg[t] /\ Asking' = [Asking EXCEPT ![t] = Nil]
    BY <2>1
  <2>3. Owner[arg[t]] = t /\ Owner' = Owner
    BY <2>1
  <2>4. PICK m \in Mutexes : arg[t] = m
    BY <2>1
  <2>5. Lock!Enter(t, m)
    BY <2>2, <2>3, <2>4 DEF Lock!Enter
  <2> QED
    BY <2>5, LockSteps
<1>7. CASE ReleaseCheck(t) \/ ReleaseTest(t) \/ ReleaseNotify(t)
  BY <1>7 DEF ReleaseCheck, ReleaseTest, ReleaseNotify, Return
<1>8. CASE ReleaseZero(t)
  BY <1>8 DEF ReleaseZero, Return
<1>9. CASE ReleaseDec(t)
  BY <1>9 DEF ReleaseDec, Local
<1>10. CASE ReleaseClear(t)
  <2>1. /\ arg[t] \in Mutexes /\ pc[t] = "rl_clear" /\ mux[arg[t]].tcb = t
        /\ mux' = [mux EXCEPT ![arg[t]].tcb = Nil]
        /\ pc' = [pc EXCEPT ![t] = "rl_notify"] /\ arg' = arg
    BY <1>10 DEF ReleaseClear, Local, Owned, CallersOwn, OwnerLabels
  <2>2. Asking[t] # arg[t] /\ Asking' = Asking
    BY <2>1
  <2>3. Owner[arg[t]] = t /\ Owner' = [Owner EXCEPT ![arg[t]] = Nil]
    BY <2>1
  <2>4. PICK m \in Mutexes : arg[t] = m
    BY <2>1
  <2>5. Lock!Leave(t, m)
    BY <2>2, <2>3, <2>4 DEF Lock!Leave
  <2> QED
    BY <2>5, LockSteps
<1> QED
  BY <1>1, <1>2, <1>3, <1>4, <1>5, <1>6, <1>7, <1>8, <1>9, <1>10, LockSteps
  DEF MutexStep, MutexBody

\* Every execution of the mutexes is one of LockSpec: ownership passes only through
\* "free", only to a task that asked, and only the owner gives it up.
THEOREM MutexImplementsLock == MutexSpec => LockSpecHolds
<1>1. MutexInit => Lock!Init
  BY KernelAssumption DEF MutexInit, Init, Lock!Init, AcquireLabels
<1>2. MutexTyped /\ Owned /\ [MutexNext]_allVars => [Lock!Next]_<<Owner, Asking>>
  <2> SUFFICES ASSUME MutexTyped, Owned, [MutexNext]_allVars
               PROVE  Lock!Next \/ (Owner' = Owner /\ Asking' = Asking)
    OBVIOUS
  <2>0. PcDomain
    BY DEF MutexTyped, MutexPcTyped, PcDomain
  <2>1. CASE UNCHANGED allVars
    BY <2>1 DEF allVars, mutexVars, vars, taskVars, Owner, Asking
  <2>2. CASE Handlers /\ UNCHANGED mutexVars
    BY <2>0, <2>2, OtherStepPc DEF mutexVars, Owner, Asking
  <2>3. ASSUME NEW t \in Tasks, TaskStep(t) \/ EndStep(t), UNCHANGED mutexVars
        PROVE  Owner' = Owner /\ Asking' = Asking
    BY <2>0, <2>3, OtherStepPc DEF mutexVars, Owner, Asking
  <2> QED
    BY <2>1, <2>2, <2>3, MutexStepLock, TypedShape DEF MutexNext
<1> QED
  BY <1>1, <1>2, OwnedInvariant, PTL
  DEF MutexSpec, LockSpecHolds, Lock!Spec, Owner, Asking

-----------------------------------------------------------------------------
\* The counter of a mutex, which is read and written without protection.

\* The counter of a mutex that only its owners release is 1 for a task that holds the
\* mutex or begins to release it, and 0 between the store of the owner and the counting,
\* once it was counted down, and while the mutex is free.
HeldCounted == \A t \in Tasks : \A m \in held[t] \ Stray : mux[m].counter = 1

CallCounted ==
  \A t \in Tasks : arg[t] \notin Stray =>
    /\ pc[t] \in {"rl_check", "rl_dec"} => mux[arg[t]] = [tcb |-> t, counter |-> 1]
    /\ pc[t] \in {"aq_count", "rl_test", "rl_clear"} => mux[arg[t]].counter = 0
    /\ pc[t] # "rl_zero"

FreeCounted == \A m \in Mutexes \ Stray : mux[m].tcb = Nil => mux[m].counter = 0

CountsOwner == HeldCounted /\ CallCounted /\ FreeCounted

\* One acquire counts from 0 to 1, one release back.
LEMMA CountsUpAndDown ==
  (0 + 1) % (UIntMax + 1) = 1 /\ (1 + UIntMax) % (UIntMax + 1) = 0
BY CounterRange

\* A mutex step of one task leaves the mutexes of the other tasks alone.
LEMMA MuxOfOthers ==
  ASSUME MutexShape, Owned, CountsOwner, NEW t \in Tasks, MutexStep(t),
         NEW u \in Tasks \ {t}, NEW m \in Mutexes \ Stray, mux[m].tcb = u
  PROVE  mux'[m] = mux[m]
<1> USE QueueAssumption
    DEF MutexShape, PcDomain, MuxTyped, CallNamesMutex, AcquireLabels, ReleaseLabels,
        OwnerLabels, mutexVars, Executing, Owned, CallersOwn, MonitorFree, CountsOwner,
        CallCounted
<1>1. CASE AcquireStrex(t)
  BY <1>1 DEF AcquireStrex, Local
<1>2. CASE AcquireCount(t) \/ ReleaseDec(t) \/ ReleaseClear(t)
  <2>1. mux[arg[t]].tcb = t /\ arg[t] \in Mutexes
    BY <1>2 DEF AcquireCount, ReleaseDec, ReleaseClear, Local
  <2>2. m # arg[t]
    BY <2>1
  <2> QED
    BY <1>2, <2>2 DEF AcquireCount, ReleaseDec, ReleaseClear
<1>3. CASE \/ \E n \in Mutexes : AcquireCall(t, n) \/ ReleaseCall(t, n)
           \/ AcquireLdrex(t) \/ AcquireWait(t) \/ ReleaseCheck(t) \/ ReleaseTest(t)
           \/ ReleaseNotify(t)
  BY <1>3 DEF AcquireCall, ReleaseCall, AcquireLdrex, AcquireWait, ReleaseCheck,
              ReleaseTest, ReleaseNotify
<1>4. CASE ReleaseZero(t)
  <2>1. arg[t] \in Stray
    BY <1>4 DEF ReleaseZero
  <2>2. m # arg[t]
    BY <2>1
  <2> QED
    BY <1>4, <2>2 DEF ReleaseZero
<1> QED
  BY <1>1, <1>2, <1>3, <1>4 DEF MutexStep, MutexBody

\* Its own calls count what they own.
LEMMA MuxOfSelf ==
  ASSUME MutexShape, Owned, CountsOwner, NEW t \in Tasks, MutexStep(t),
         \A m \in Mutexes : ReleaseCall(t, m) => m \in held[t] \cup Stray
  PROVE  /\ \A m \in held'[t] \ Stray : mux'[m].counter = 1
         /\ arg'[t] \notin Stray =>
              /\ pc'[t] \in {"rl_check", "rl_dec"} =>
                   mux'[arg'[t]] = [tcb |-> t, counter |-> 1]
              /\ pc'[t] \in {"aq_count", "rl_test", "rl_clear"} =>
                   mux'[arg'[t]].counter = 0
              /\ pc'[t] # "rl_zero"
         /\ FreeCounted'
<1> USE QueueAssumption
    DEF MutexShape, PcDomain, MuxTyped, CallNamesMutex, KernelTyped, KernelTypeOK,
        AcquireLabels, ReleaseLabels, OwnerLabels, mutexVars, kernelVars, Executing, Goto,
        Owned, HoldersOwn, CallersOwn, ReleasersLeft, MonitorFree, CountsOwner,
        HeldCounted, CallCounted, FreeCounted
<1>1. CASE \E m \in Mutexes : AcquireCall(t, m)
  BY <1>1 DEF AcquireCall, Calling
<1>2. CASE \E m \in Mutexes : ReleaseCall(t, m)
  <2>1. PICK m \in Mutexes : ReleaseCall(t, m)
    BY <1>2
  <2>2. /\ pc'[t] = "rl_check" /\ arg'[t] = m /\ m \in held[t] \cup Stray
        /\ held'[t] = held[t] \ {m} /\ mux' = mux
    BY <2>1 DEF ReleaseCall, Calling
  <2>3. m \notin Stray => mux[m] = [tcb |-> t, counter |-> 1]
    BY <2>2
  <2> QED
    BY <2>2, <2>3
<1>3. CASE AcquireLdrex(t)
  BY <1>3 DEF AcquireLdrex, Local
<1>4. CASE AcquireStrex(t)
  <2>1. arg[t] \in Mutexes /\ held' = held /\ arg' = arg
    BY <1>4 DEF AcquireStrex, Local
  <2>2. CASE exclusive
    <3>1. /\ mux' = [mux EXCEPT ![arg[t]].tcb = t] /\ pc'[t] = "aq_count"
          /\ mux[arg[t]].tcb = Nil
      BY <1>4, <2>2 DEF AcquireStrex, Local
    <3>2. \A m \in Mutexes : /\ mux'[m].counter = mux[m].counter
                             /\ mux'[m].tcb = Nil => mux[m].tcb = Nil
      BY <2>1, <3>1
    <3> QED
      BY <2>1, <3>1, <3>2
  <2>3. CASE ~exclusive
    <3>1. mux' = mux /\ pc'[t] = "aq_ldrex"
      BY <1>4, <2>3 DEF AcquireStrex, Local
    <3> QED
      BY <2>1, <3>1
  <2> QED
    BY <2>2, <2>3
<1>5. CASE AcquireWait(t)
  BY <1>5 DEF AcquireWait
<1>6. CASE AcquireCount(t)
  <2>1. /\ arg[t] \in Mutexes /\ mux[arg[t]].tcb = t
        /\ arg[t] \notin Stray => mux[arg[t]].counter = 0
        /\ mux' = [mux EXCEPT ![arg[t]].counter = (@ + 1) % (UIntMax + 1)]
        /\ held' = [held EXCEPT ![t] = @ \cup {arg[t]}] /\ pc'[t] = "user"
    BY <1>6 DEF AcquireCount, Return
  <2>2. \A m \in Mutexes \ Stray :
          /\ mux'[m].tcb = mux[m].tcb
          /\ mux'[m].counter = IF m = arg[t] THEN 1 ELSE mux[m].counter
    BY <2>1, CountsUpAndDown
  <2>3. \A m \in held'[t] \ Stray : m = arg[t] \/ m \in held[t] \ Stray
    BY <2>1
  <2> QED
    BY <2>1, <2>2, <2>3
<1>7. CASE ReleaseCheck(t)
  BY <1>7 DEF ReleaseCheck, Return
<1>8. CASE ReleaseTest(t)
  BY <1>8 DEF ReleaseTest, Return
<1>9. CASE ReleaseNotify(t)
  BY <1>9 DEF ReleaseNotify, Return
<1>10. CASE ReleaseZero(t)
  <2>1. /\ arg[t] \in Mutexes \cap Stray /\ pc'[t] = "user" /\ held' = held
        /\ mux' = [mux EXCEPT ![arg[t]].counter = 0]
    BY <1>10 DEF ReleaseZero, Return
  <2>2. \A m \in Mutexes \ Stray : mux'[m] = mux[m]
    BY <2>1
  <2> QED
    BY <2>1, <2>2
<1>11. CASE ReleaseDec(t)
  <2>0. pc[t] = "rl_dec"
    BY <1>11 DEF ReleaseDec, Local
  <2>1. /\ arg[t] \in Mutexes /\ arg[t] \notin held[t] /\ mux[arg[t]].tcb = t
        /\ arg[t] \notin Stray => mux[arg[t]].counter = 1
        /\ mux' = [mux EXCEPT ![arg[t]].counter = (@ + UIntMax) % (UIntMax + 1)]
        /\ held' = held /\ pc'[t] = "rl_test" /\ arg' = arg
    <3>1. arg[t] \notin Stray => mux[arg[t]] = [tcb |-> t, counter |-> 1]
      BY <1>11, <2>0
    <3> QED
      BY <1>11, <2>0, <3>1 DEF ReleaseDec, Local
  <2>2. \A m \in Mutexes \ Stray :
          /\ mux'[m].tcb = mux[m].tcb
          /\ mux'[m].counter = IF m = arg[t] THEN 0 ELSE mux[m].counter
    BY <2>1, CountsUpAndDown
  <2> QED
    BY <2>1, <2>2
<1>12. CASE ReleaseClear(t)
  <2>1. /\ arg[t] \in Mutexes /\ (arg[t] \notin Stray => mux[arg[t]].counter = 0)
        /\ mux' = [mux EXCEPT ![arg[t]].tcb = Nil]
        /\ held' = held /\ pc'[t] = "rl_notify"
    BY <1>12 DEF ReleaseClear, Local
  <2>2. \A m \in Mutexes :
          /\ mux'[m].tcb = IF m = arg[t] THEN Nil ELSE mux[m].tcb
          /\ mux'[m].counter = mux[m].counter
    BY <2>1
  <2> QED
    BY <2>1, <2>2
<1> QED
  BY <1>1, <1>2, <1>3, <1>4, <1>5, <1>6, <1>7, <1>8, <1>9, <1>10, <1>11, <1>12
  DEF MutexStep, MutexBody

\* A step of a mutex call keeps the count.
LEMMA MutexStepCounts ==
  ASSUME MutexShape, Owned, CountsOwner, NEW t \in Tasks, MutexStep(t),
         \A m \in Mutexes : ReleaseCall(t, m) => m \in held[t] \cup Stray
  PROVE  CountsOwner'
<1>1. ASSUME NEW u \in Tasks \ {t}
      PROVE  /\ \A m \in held'[u] \ Stray : mux'[m].counter = 1
             /\ arg'[u] \notin Stray =>
                  /\ pc'[u] \in {"rl_check", "rl_dec"} =>
                       mux'[arg'[u]] = [tcb |-> u, counter |-> 1]
                  /\ pc'[u] \in {"aq_count", "rl_test", "rl_clear"} =>
                       mux'[arg'[u]].counter = 0
                  /\ pc'[u] # "rl_zero"
  <2>1. held'[u] = held[u] /\ pc'[u] = pc[u] /\ arg'[u] = arg[u]
    BY OwnedByOthers
  <2>2. \A m \in Mutexes \ Stray : mux[m].tcb = u => mux'[m] = mux[m]
    BY MuxOfOthers
  <2>3. \A m \in held[u] : m \in Mutexes /\ mux[m].tcb = u
    BY DEF MutexShape, MuxTyped, Owned, HoldersOwn
  <2>4. pc[u] \in {"rl_check"} \cup OwnerLabels =>
          arg[u] \in Mutexes /\ (arg[u] \notin Stray => mux[arg[u]].tcb = u)
    <3>1. pc[u] \in {"rl_check"} \cup OwnerLabels => arg[u] \in Mutexes
      BY DEF MutexShape, CallNamesMutex, OwnerLabels, AcquireLabels, ReleaseLabels
    <3>2. pc[u] = "rl_check" /\ arg[u] \notin Stray =>
            mux[arg[u]] = [tcb |-> u, counter |-> 1]
      BY DEF CountsOwner, CallCounted
    <3>3. pc[u] \in OwnerLabels => mux[arg[u]].tcb = u
      BY DEF Owned, CallersOwn
    <3> QED
      BY <3>1, <3>2, <3>3
  <2> QED
    BY <2>1, <2>2, <2>3, <2>4 DEF CountsOwner, HeldCounted, CallCounted, OwnerLabels
<1>2. /\ \A m \in held'[t] \ Stray : mux'[m].counter = 1
      /\ arg'[t] \notin Stray =>
           /\ pc'[t] \in {"rl_check", "rl_dec"} =>
                mux'[arg'[t]] = [tcb |-> t, counter |-> 1]
           /\ pc'[t] \in {"aq_count", "rl_test", "rl_clear"} => mux'[arg'[t]].counter = 0
           /\ pc'[t] # "rl_zero"
      /\ FreeCounted'
  BY MuxOfSelf
<1> QED
  BY <1>1, <1>2 DEF CountsOwner, HeldCounted, CallCounted

\* Every step keeps the count.
LEMMA NextCountsOwner ==
  ASSUME MutexTyped, Owned, CountsOwner, [MutexNext]_allVars
  PROVE  CountsOwner'
<1>0. MutexShape
  BY TypedShape
<1>1. CASE UNCHANGED allVars
  BY <1>1 DEF allVars, mutexVars, vars, taskVars, CountsOwner, HeldCounted, CallCounted,
              FreeCounted
<1>2. ASSUME Handlers \/ \E t \in Tasks : TaskStep(t) \/ EndStep(t), UNCHANGED mutexVars
      PROVE  CountsOwner'
  BY <1>0, <1>2, OtherStepPc
  DEF MutexShape, mutexVars, CountsOwner, HeldCounted, CallCounted, FreeCounted,
      AcquireLabels, ReleaseLabels
<1>3. ASSUME NEW t \in Tasks, MutexStep(t) PROVE CountsOwner'
  BY <1>0, <1>3, MutexStepCounts DEF ReleaseCall
<1> QED
  BY <1>1, <1>2, <1>3 DEF MutexNext

\* A mutex that a task holds, and that only its owners release, names it as its owner and
\* counts it once: without the exclusive monitor on it, no count is lost or doubled.
THEOREM HeldMutexCountsOwner == MutexSpec => []HeldIsOwned
<1>1. MutexInit => CountsOwner
  BY KernelAssumption
  DEF MutexInit, Init, CountsOwner, HeldCounted, CallCounted, FreeCounted
<1>2. MutexTyped /\ Owned /\ CountsOwner /\ [MutexNext]_allVars => CountsOwner'
  BY NextCountsOwner
<1>3. MutexTyped /\ Owned /\ CountsOwner => HeldIsOwned
  BY DEF MutexTyped, MuxTyped, Owned, HoldersOwn, CountsOwner, HeldCounted, HeldIsOwned
<1> QED
  BY <1>1, <1>2, <1>3, OwnedInvariant, PTL DEF MutexSpec

-----------------------------------------------------------------------------
\* No wakeup is lost.

\* The mutex calls keep every task in its place.
LEMMA MutexStepPlaced ==
  ASSUME Closed, Placed, MutexShape, NEW t \in Tasks, MutexStep(t) PROVE Placed'
<1> USE DEF Executing, Goto, Return, Calling, Local, Live, SleepWindow, cpuVars, queueVars,
            kernelVars
<1>0. KernelTyped'
  BY MutexStepTyped DEF MutexShape
<1>1. CASE \E m \in Mutexes : AcquireCall(t, m) \/ ReleaseCall(t, m)
  BY <1>0, <1>1, LocalPlaced DEF AcquireCall, ReleaseCall
<1>2. CASE AcquireLdrex(t)
  BY <1>0, <1>2, LocalPlaced DEF AcquireLdrex
<1>3. CASE AcquireStrex(t)
  BY <1>0, <1>3, LocalPlaced DEF AcquireStrex
<1>4. CASE AcquireWait(t)
  <2>1. arg[t] \in Objects
    BY <1>4, MutexAssumption DEF AcquireWait, MutexShape, CallNamesMutex, AcquireLabels
  <2> QED
    BY <1>0, <1>4, <2>1, WaitPlaced DEF AcquireWait
<1>5. CASE AcquireCount(t) \/ ReleaseZero(t)
  BY <1>0, <1>5, LocalPlaced DEF AcquireCount, ReleaseZero
<1>6. CASE ReleaseCheck(t) \/ ReleaseTest(t)
  BY <1>0, <1>6, LocalPlaced DEF ReleaseCheck, ReleaseTest
<1>7. CASE ReleaseDec(t) \/ ReleaseClear(t)
  BY <1>0, <1>7, LocalPlaced DEF ReleaseDec, ReleaseClear
<1>8. CASE ReleaseNotify(t)
  <2>1. arg[t] \in Objects
    BY <1>8, MutexAssumption DEF ReleaseNotify, MutexShape, CallNamesMutex, ReleaseLabels
  <2> QED
    BY <1>0, <1>8, <2>1, NotifyPlaced DEF ReleaseNotify
<1> QED
  BY <1>1, <1>2, <1>3, <1>4, <1>5, <1>6, <1>7, <1>8 DEF MutexStep, MutexBody

\* Who waits for a mutex waits in the retry loop of OS_MutexAquire.
WaitersAcquire ==
  \A m \in Mutexes : \A t \in waiting[m].tasks : pc[t] = "aq_ldrex" /\ arg[t] = m

\* A task whose OS_Wait would not be refused waits for a mutex that is owned or about
\* to be notified: between LDREX and the SVC the owner cannot have left unnoticed.
WaitsForOwner ==
  \A t \in Tasks :
    pc[t] = "aq_wait" /\ check[t] = checkCode =>
      \/ mux[arg[t]].tcb # Nil
      \/ \E u \in Tasks : pc[u] = "rl_notify" /\ arg[u] = arg[t]

\* While somebody waits for a mutex, it has an owner, or is about to be notified, or is
\* being acquired by another.
WakeupComing ==
  \A m \in Mutexes :
    waiting[m].tasks # {} =>
      \/ mux[m].tcb # Nil
      \/ \E t \in Tasks : pc[t] = "rl_notify" /\ arg[t] = m
      \/ \E t \in Tasks \ waiting[m].tasks : Acquiring(t, m)

Wakeups == CodesRead /\ WaitersAcquire /\ WaitsForOwner /\ WakeupComing

\* The three ways in which a step of a mutex call bears on who waits: it leaves the
\* queues alone, and then a mutex becomes free only on the way to OS_Notify, ...
LeavesWaiting(t) ==
  /\ UNCHANGED <<waiting, checkCode>>
  /\ pc[t] # "rl_notify"
  /\ pc'[t] = "aq_wait" => mux'[arg'[t]].tcb # Nil
  /\ \A m \in Mutexes :
       /\ mux[m].tcb # Nil =>
            mux'[m].tcb # Nil \/ (pc'[t] = "rl_notify" /\ arg'[t] = m)
       /\ Acquiring(t, m) => Acquiring(t, m)' \/ mux'[m].tcb # Nil

\* ... or it puts its task into the queue of the mutex, ...
StartsWaiting(t) ==
  /\ pc[t] = "aq_wait" /\ check[t] = checkCode
  /\ pc'[t] = "aq_ldrex" /\ arg'[t] = arg[t]
  /\ waiting'[arg[t]].tasks = waiting[arg[t]].tasks \cup {t}
  /\ \A m \in Mutexes \ {arg[t]} : waiting'[m] = waiting[m]
  /\ UNCHANGED <<mux, checkCode>>

\* ... or it takes one task out of it, if there is one.
WakesWaiter(t) ==
  /\ pc[t] = "rl_notify" /\ pc'[t] = "user"
  /\ \/ waiting[arg[t]].tasks = {} /\ waiting' = waiting
     \/ \E u \in waiting[arg[t]].tasks :
          waiting'[arg[t]].tasks = waiting[arg[t]].tasks \ {u}
  /\ \A m \in Mutexes \ {arg[t]} : waiting'[m] = waiting[m]
  /\ checkCode' = checkCode + 1
  /\ UNCHANGED mux

\* Every step of a mutex call is one of these, and sets the check code of its task to
\* one that is not from the future.
LEMMA MutexStepWaiting ==
  ASSUME Closed, Placed, MutexShape, Owned, WaitersAcquire, NEW t \in Tasks, MutexStep(t)
  PROVE  /\ LeavesWaiting(t) \/ StartsWaiting(t) \/ WakesWaiter(t)
         /\ check'[t] \in {check[t], checkCode, 0}
<1> USE MutexAssumption, QueueAssumption
    DEF MutexShape, PcDomain, MuxTyped, CallNamesMutex, KernelTyped, KernelTypeOK,
        AcquireLabels, ReleaseLabels, OwnerLabels, mutexVars, kernelVars, queueVars,
        Executing, Goto, Acquiring, LeavesWaiting
<1>1. CASE \E m \in Mutexes : AcquireCall(t, m) \/ ReleaseCall(t, m)
  BY <1>1 DEF AcquireCall, ReleaseCall, Calling
<1>2. CASE AcquireLdrex(t)
  BY <1>2 DEF AcquireLdrex, Local
<1>3. CASE AcquireStrex(t)
  BY <1>3 DEF AcquireStrex, Local
<1>4. CASE AcquireWait(t)
  <2>1. /\ arg[t] \in Mutexes /\ _svc_OS_Wait(arg[t], check[t]) /\ mux' = mux
        /\ pc' = [pc EXCEPT ![t] = "aq_ldrex"] /\ pc[t] = "aq_wait"
        /\ arg' = arg /\ check' = check /\ currentTCB = t
    BY <1>4 DEF AcquireWait
  <2>2. CASE check[t] = checkCode
    <3>1. t \notin waiting[arg[t]].tasks
      BY <1>4, <2>1, CurrentNotWaiting DEF AcquireWait, SleepWindow
    <3>2. StartsWaiting(t)
      BY <2>1, <2>2, <3>1, WaitMoves DEF StartsWaiting, _svc_OS_Wait
    <3> QED
      BY <2>1, <3>2
  <2>3. CASE check[t] # checkCode
    BY <2>1, <2>3 DEF _svc_OS_Wait, FPS_TaskWaitCallback
  <2> QED
    BY <2>2, <2>3
<1>5. CASE AcquireCount(t)
  <2>1. mux[arg[t]].tcb = t /\ arg[t] \in Mutexes
    BY <1>5 DEF AcquireCount, Owned, CallersOwn
  <2> QED
    BY <1>5, <2>1 DEF AcquireCount, Return
<1>6. CASE ReleaseCheck(t) \/ ReleaseTest(t)
  BY <1>6 DEF ReleaseCheck, ReleaseTest, Return
<1>7. CASE ReleaseZero(t)
  BY <1>7 DEF ReleaseZero, Return
<1>8. CASE ReleaseDec(t)
  BY <1>8 DEF ReleaseDec, Local
<1>9. CASE ReleaseClear(t)
  BY <1>9 DEF ReleaseClear, Local
<1>10. CASE ReleaseNotify(t)
  <2>1. /\ arg[t] \in Mutexes /\ _svc_OS_Notify(arg[t]) /\ mux' = mux
        /\ pc[t] = "rl_notify" /\ pc'[t] = "user" /\ check'[t] = 0
    BY <1>10 DEF ReleaseNotify, Return
  <2>2. CASE waiting[arg[t]].tasks = {}
    BY <2>1, <2>2 DEF WakesWaiter, _svc_OS_Notify, FPS_TaskNotifyCallback
  <2>3. CASE waiting[arg[t]].tasks # {}
    BY <2>1, <2>3, NotifyMoves DEF WakesWaiter, _svc_OS_Notify, Placed
  <2> QED
    BY <2>1, <2>2, <2>3
<1> QED
  BY <1>1, <1>2, <1>3, <1>4, <1>5, <1>6, <1>7, <1>8, <1>9, <1>10 DEF MutexStep, MutexBody

\* A step of a mutex call loses no wakeup.
LEMMA MutexStepWakeups ==
  ASSUME Closed, Placed, MutexShape, Owned, Wakeups, NEW t \in Tasks, MutexStep(t)
  PROVE  Wakeups'
<1> USE MutexAssumption
    DEF Wakeups, CodesRead, WaitersAcquire, WaitsForOwner, WakeupComing, Acquiring
<1>1. LeavesWaiting(t) \/ StartsWaiting(t) \/ WakesWaiter(t)
  BY MutexStepWaiting
<1>2. \A u \in Tasks \ {t} : pc'[u] = pc[u] /\ arg'[u] = arg[u] /\ check'[u] = check[u]
  BY OwnedByOthers
<1>3. \A m \in Mutexes : t \notin waiting[m].tasks
  BY CurrentNotWaiting, MutexStepCurrent DEF SleepWindow, AcquireLabels, ReleaseLabels
<1>4. \A m \in Mutexes : waiting[m].tasks \subseteq Tasks
  BY DEF MutexShape, KernelTyped, KernelTypeOK, Queue
<1>5. checkCode \in Nat /\ \A u \in Tasks : check[u] \in Nat
  BY DEF MutexShape, KernelTyped, KernelTypeOK
<1>6. pc[t] \in AcquireLabels \cup ReleaseLabels => arg[t] \in Mutexes
  BY DEF MutexShape, CallNamesMutex
<1>7. CodesRead'
  <2>1. check'[t] \in {check[t], checkCode, 0}
    BY MutexStepWaiting
  <2>2. checkCode' = checkCode \/ checkCode' = checkCode + 1
    BY <1>1 DEF LeavesWaiting, StartsWaiting, WakesWaiter
  <2> QED
    BY <1>2, <1>5, <2>1, <2>2
<1>8. WaitersAcquire'
  BY <1>1, <1>2, <1>3, <1>4 DEF LeavesWaiting, StartsWaiting, WakesWaiter
<1>9. WaitsForOwner'
  <2> SUFFICES ASSUME NEW v \in Tasks, pc'[v] = "aq_wait", check'[v] = checkCode'
               PROVE  \/ mux'[arg'[v]].tcb # Nil
                      \/ \E u \in Tasks : pc'[u] = "rl_notify" /\ arg'[u] = arg'[v]
    OBVIOUS
  <2>1. CASE v = t
    BY <1>1, <2>1 DEF LeavesWaiting, StartsWaiting, WakesWaiter
  <2>2. CASE v # t
    <3>1. pc[v] = "aq_wait" /\ arg'[v] = arg[v] /\ check'[v] = check[v]
      BY <1>2, <2>2
    <3>2. ~WakesWaiter(t)
      BY <1>5, <3>1 DEF WakesWaiter
    <3>3. arg[v] \in Mutexes
      BY <3>1 DEF MutexShape, CallNamesMutex, AcquireLabels
    <3>4. \/ mux[arg[v]].tcb # Nil
          \/ \E u \in Tasks : pc[u] = "rl_notify" /\ arg[u] = arg[v]
      BY <1>1, <3>1, <3>2 DEF LeavesWaiting, StartsWaiting
    <3> QED
      BY <1>1, <1>2, <3>1, <3>2, <3>3, <3>4 DEF LeavesWaiting, StartsWaiting
  <2> QED
    BY <2>1, <2>2
<1>10. WakeupComing'
  <2> SUFFICES ASSUME NEW m \in Mutexes, waiting'[m].tasks # {}
               PROVE  \/ mux'[m].tcb # Nil
                      \/ \E u \in Tasks : pc'[u] = "rl_notify" /\ arg'[u] = m
                      \/ \E u \in Tasks \ waiting'[m].tasks :
                           pc'[u] \in AcquireLabels /\ arg'[u] = m
    OBVIOUS
  <2>1. CASE LeavesWaiting(t)
    <3>1. \/ mux[m].tcb # Nil
          \/ \E u \in Tasks : pc[u] = "rl_notify" /\ arg[u] = m
          \/ \E u \in Tasks \ waiting[m].tasks : Acquiring(u, m)
      BY <2>1 DEF LeavesWaiting
    <3> QED
      BY <1>2, <2>1, <3>1 DEF LeavesWaiting
  <2>2. CASE StartsWaiting(t) /\ m = arg[t]
    BY <1>2, <2>2 DEF StartsWaiting
  <2>3. CASE StartsWaiting(t) /\ m # arg[t]
    BY <1>2, <2>3 DEF StartsWaiting
  <2>4. CASE WakesWaiter(t) /\ m = arg[t]
    <3>1. PICK u \in waiting[m].tasks : waiting'[m].tasks = waiting[m].tasks \ {u}
      BY <2>4 DEF WakesWaiter
    <3>2. u \in Tasks /\ u # t /\ pc'[u] = "aq_ldrex" /\ arg'[u] = m
      BY <1>2, <1>3, <1>4, <3>1
    <3> QED
      BY <3>1, <3>2 DEF AcquireLabels
  <2>5. CASE WakesWaiter(t) /\ m # arg[t]
    BY <1>2, <2>5 DEF WakesWaiter
  <2> QED
    BY <1>1, <2>1, <2>2, <2>3, <2>4, <2>5
<1> QED
  BY <1>7, <1>8, <1>9, <1>10

\* Nor does a step outside the mutex calls.
LEMMA OtherStepWakeups ==
  ASSUME MutexShape, Wakeups, Handlers \/ \E t \in Tasks : TaskStep(t) \/ EndStep(t),
         UNCHANGED mutexVars
  PROVE  Wakeups'
<1>1. waiting' = waiting /\ checkCode' = checkCode
  BY KernelStepWaiting DEF EndStep
<1>2. \A m \in Mutexes : waiting[m].tasks \subseteq Tasks
  BY MutexAssumption DEF MutexShape, KernelTyped, KernelTypeOK, Queue
<1>3. /\ mux' = mux /\ arg' = arg /\ check' = check
      /\ \A u \in Tasks :
           \A l \in AcquireLabels \cup ReleaseLabels : pc'[u] = l <=> pc[u] = l
  BY OtherStepPc DEF MutexShape, mutexVars
<1>4. CodesRead' /\ WaitersAcquire'
  BY <1>1, <1>2, <1>3 DEF Wakeups, CodesRead, WaitersAcquire, AcquireLabels
<1>5. WaitsForOwner'
  BY <1>1, <1>3 DEF Wakeups, WaitsForOwner, AcquireLabels, ReleaseLabels
<1>6. \A u \in Tasks, m \in Mutexes : Acquiring(u, m) => Acquiring(u, m)'
  BY <1>3 DEF Acquiring
<1>7. WakeupComing'
  BY <1>1, <1>3, <1>6 DEF Wakeups, WakeupComing, ReleaseLabels
<1> QED
  BY <1>4, <1>5, <1>7 DEF Wakeups

\* Every step keeps every task in its place and loses no wakeup.
LEMMA NextWakeups ==
  ASSUME Closed, MutexTyped, Owned, Placed, Wakeups, [MutexNext]_allVars
  PROVE  (Placed /\ Wakeups)'
<1>0. MutexShape
  BY TypedShape
<1>1. CASE UNCHANGED allVars
  BY <1>1
  DEF allVars, mutexVars, vars, kernelVars, cpuVars, timeVars, queueVars, taskVars, Placed,
      KernelTyped, KernelTypeOK, WellFormedQueues, PcDomain, Apart, Present, Waits,
      Dispatched, Wakeups, CodesRead, WaitersAcquire, WaitsForOwner, WakeupComing, Acquiring
<1>2. ASSUME Handlers, UNCHANGED mutexVars PROVE (Placed /\ Wakeups)'
  BY <1>0, <1>2, HandlersPlaced, OtherStepWakeups
<1>3. ASSUME NEW t \in Tasks, TaskStep(t) \/ EndStep(t), UNCHANGED mutexVars
      PROVE  (Placed /\ Wakeups)'
  <2>1. KernelTyped'
    BY <1>3, KernelStepTyped DEF Placed, EndStep
  <2>2. Placed'
    BY <1>3, <2>1, TaskStepPlaced, EndPlaced DEF EndStep
  <2> QED
    BY <1>0, <1>3, <2>2, OtherStepWakeups
<1>4. ASSUME NEW t \in Tasks, MutexStep(t) PROVE (Placed /\ Wakeups)'
  BY <1>0, <1>4, MutexStepPlaced, MutexStepWakeups
<1> QED
  BY <1>1, <1>2, <1>3, <1>4 DEF MutexNext

-----------------------------------------------------------------------------
\* The owner of a mutex is bound to notify.

\* Nobody acquires a mutex that he holds.
AcquirersLack == \A t \in Tasks : pc[t] \in AcquireLabels => arg[t] \notin held[t]

\* The owner of a mutex that only its owners release holds it, has just become its owner,
\* or is inside the release that ends its ownership: no owner is left over from calls that
\* are done.
OwnerKnown ==
  \A m \in Mutexes \ Stray, t \in Tasks :
    mux[m].tcb = t =>
      \/ m \in held[t]
      \/ arg[t] = m /\ pc[t] \in {"aq_count", "rl_check", "rl_dec", "rl_test", "rl_clear"}

OwnerBound == AcquirersLack /\ OwnerKnown

\* The calls of a task leave it bound, if it acquires what it does not hold and releases
\* what it holds.
LEMMA OwnerBoundSelf ==
  ASSUME MutexShape, Owned, CountsOwner, OwnerBound, NEW t \in Tasks, MutexStep(t),
         \A m \in Mutexes : ReleaseCall(t, m) => m \in held[t] \cup Stray,
         \A m \in Mutexes : AcquireCall(t, m) => m \notin held[t]
  PROVE  /\ pc'[t] \in AcquireLabels => arg'[t] \notin held'[t]
         /\ \A m \in Mutexes \ Stray :
              mux'[m].tcb = t =>
                \/ m \in held'[t]
                \/ /\ arg'[t] = m
                   /\ pc'[t] \in {"aq_count", "rl_check", "rl_dec", "rl_test", "rl_clear"}
<1> USE QueueAssumption
    DEF MutexShape, PcDomain, MuxTyped, CallNamesMutex, KernelTyped, KernelTypeOK,
        AcquireLabels, ReleaseLabels, mutexVars, kernelVars, Executing, Goto,
        OwnerBound, AcquirersLack, OwnerKnown
<1>1. CASE \E m \in Mutexes : AcquireCall(t, m)
  <2>1. PICK m \in Mutexes : AcquireCall(t, m)
    BY <1>1
  <2>2. /\ pc[t] = "user" /\ pc'[t] = "aq_ldrex" /\ arg'[t] = m /\ mux' = mux
        /\ held' = held /\ m \notin held[t]
    BY <2>1 DEF AcquireCall, Calling
  <2> QED
    BY <2>2
<1>2. CASE \E m \in Mutexes : ReleaseCall(t, m)
  <2>1. PICK m \in Mutexes : ReleaseCall(t, m)
    BY <1>2
  <2>2. /\ pc[t] = "user" /\ pc'[t] = "rl_check" /\ arg'[t] = m /\ mux' = mux
        /\ held'[t] = held[t] \ {m}
    BY <2>1 DEF ReleaseCall, Calling
  <2> QED
    BY <2>2
<1>3. CASE AcquireLdrex(t)
  BY <1>3 DEF AcquireLdrex, Local
<1>4. CASE AcquireStrex(t)
  <2>1. /\ arg[t] \in Mutexes /\ held' = held /\ arg' = arg /\ pc[t] = "aq_strex"
        /\ pc'[t] = IF exclusive THEN "aq_count" ELSE "aq_ldrex"
        /\ mux' = IF exclusive THEN [mux EXCEPT ![arg[t]].tcb = t] ELSE mux
    BY <1>4 DEF AcquireStrex, Local
  <2>2. \A m \in Mutexes \ {arg[t]} : mux'[m] = mux[m]
    BY <2>1
  <2>3. ~exclusive => mux' = mux
    BY <2>1
  <2> QED
    BY <2>1, <2>2, <2>3
<1>5. CASE AcquireWait(t)
  BY <1>5 DEF AcquireWait
<1>6. CASE AcquireCount(t)
  <2>1. /\ arg[t] \in Mutexes /\ pc[t] = "aq_count" /\ pc'[t] = "user"
        /\ held'[t] = held[t] \cup {arg[t]}
        /\ \A m \in Mutexes : mux'[m].tcb = mux[m].tcb
    BY <1>6 DEF AcquireCount, Return
  <2> QED
    BY <2>1
<1>7. CASE ReleaseCheck(t)
  <2>1. arg[t] \notin Stray => mux[arg[t]] = [tcb |-> t, counter |-> 1]
    BY <1>7 DEF ReleaseCheck, CountsOwner, CallCounted
  <2>2. /\ pc[t] = "rl_check" /\ mux' = mux /\ held' = held
        /\ pc'[t] \notin AcquireLabels
        /\ mux[arg[t]].tcb = t => pc'[t] = "rl_dec" /\ arg' = arg
    BY <1>7 DEF ReleaseCheck, Return
  <2>3. arg[t] \notin Stray => pc'[t] = "rl_dec" /\ arg' = arg
    BY <2>1, <2>2
  <2> QED
    BY <2>2, <2>3
<1>8. CASE ReleaseTest(t)
  <2>1. arg[t] \notin Stray => mux[arg[t]].counter = 0
    BY <1>8 DEF ReleaseTest, CountsOwner, CallCounted
  <2>2. /\ pc[t] = "rl_test" /\ mux' = mux /\ held' = held
        /\ pc'[t] \notin AcquireLabels
        /\ mux[arg[t]].counter = 0 => pc'[t] = "rl_clear" /\ arg' = arg
    BY <1>8 DEF ReleaseTest, Return
  <2> QED
    BY <2>1, <2>2
<1>9. CASE ReleaseZero(t)
  <2>1. /\ pc[t] = "rl_zero" /\ arg[t] \in Mutexes /\ pc'[t] = "user" /\ held' = held
        /\ \A m \in Mutexes : mux'[m].tcb = mux[m].tcb
    BY <1>9 DEF ReleaseZero, Return
  <2> QED
    BY <2>1
<1>10. CASE ReleaseDec(t)
  <2>1. /\ pc[t] = "rl_dec" /\ pc'[t] = "rl_test" /\ held' = held /\ arg' = arg
        /\ \A m \in Mutexes : mux'[m].tcb = mux[m].tcb
    BY <1>10 DEF ReleaseDec, Local
  <2> QED
    BY <2>1
<1>11. CASE ReleaseClear(t)
  <2>1. /\ arg[t] \in Mutexes /\ pc[t] = "rl_clear" /\ pc'[t] = "rl_notify"
        /\ held' = held /\ mux' = [mux EXCEPT ![arg[t]].tcb = Nil]
    BY <1>11 DEF ReleaseClear, Local
  <2> QED
    BY <2>1
<1>12. CASE ReleaseNotify(t)
  BY <1>12 DEF ReleaseNotify, Return
<1> QED
  BY <1>1, <1>2, <1>3, <1>4, <1>5, <1>6, <1>7, <1>8, <1>9, <1>10, <1>11, <1>12
  DEF MutexStep, MutexBody

\* Nor do they make another task an owner.
LEMMA MutexStepBound ==
  ASSUME MutexShape, Owned, CountsOwner, OwnerBound, NEW t \in Tasks, MutexStep(t),
         \A m \in Mutexes : ReleaseCall(t, m) => m \in held[t] \cup Stray,
         \A m \in Mutexes : AcquireCall(t, m) => m \notin held[t]
  PROVE  OwnerBound'
<1>1. ASSUME NEW u \in Tasks \ {t} PROVE held'[u] = held[u] /\ pc'[u] = pc[u] /\ arg'[u] = arg[u]
  BY OwnedByOthers
<1>2. \A m \in Mutexes : mux'[m].tcb \in {mux[m].tcb, t, Nil}
  <2> USE DEF MutexShape, MuxTyped, CallNamesMutex, AcquireLabels, ReleaseLabels, mutexVars,
              Executing
  <2>1. CASE AcquireStrex(t)
    BY <2>1 DEF AcquireStrex, Local
  <2>2. CASE AcquireCount(t) \/ ReleaseZero(t) \/ ReleaseDec(t)
    BY <2>2 DEF AcquireCount, ReleaseZero, ReleaseDec
  <2>3. CASE ReleaseClear(t)
    BY <2>3 DEF ReleaseClear, Local
  <2>4. CASE \/ \E m \in Mutexes : AcquireCall(t, m) \/ ReleaseCall(t, m)
             \/ AcquireLdrex(t) \/ AcquireWait(t) \/ ReleaseCheck(t) \/ ReleaseTest(t)
             \/ ReleaseNotify(t)
    BY <2>4 DEF AcquireCall, ReleaseCall, AcquireLdrex, AcquireWait, ReleaseCheck,
                ReleaseTest, ReleaseNotify
  <2> QED
    BY <2>1, <2>2, <2>3, <2>4 DEF MutexStep, MutexBody
<1>3. /\ pc'[t] \in AcquireLabels => arg'[t] \notin held'[t]
      /\ \A m \in Mutexes \ Stray :
           mux'[m].tcb = t =>
             \/ m \in held'[t]
             \/ /\ arg'[t] = m
                /\ pc'[t] \in {"aq_count", "rl_check", "rl_dec", "rl_test", "rl_clear"}
  BY OwnerBoundSelf
<1>4. AcquirersLack'
  BY <1>1, <1>3 DEF OwnerBound, AcquirersLack
<1>5. OwnerKnown'
  BY <1>1, <1>2, <1>3, QueueAssumption DEF OwnerBound, OwnerKnown
<1> QED
  BY <1>4, <1>5 DEF OwnerBound

\* Every step leaves the owners bound, as long as nobody acquires what he holds.
LEMMA NextBound ==
  ASSUME ~Recursive, MutexTyped, Owned, CountsOwner, OwnerBound,
         [MutexNext]_allVars
  PROVE  OwnerBound'
<1>0. MutexShape
  BY TypedShape
<1>1. CASE UNCHANGED allVars
  BY <1>1
  DEF allVars, mutexVars, vars, taskVars, OwnerBound, AcquirersLack, OwnerKnown
<1>2. ASSUME Handlers \/ \E t \in Tasks : TaskStep(t) \/ EndStep(t), UNCHANGED mutexVars
      PROVE  OwnerBound'
  BY <1>0, <1>2, OtherStepPc
  DEF MutexShape, mutexVars, OwnerBound, AcquirersLack, OwnerKnown, AcquireLabels,
      ReleaseLabels
<1>3. ASSUME NEW t \in Tasks, MutexStep(t) PROVE OwnerBound'
  BY <1>0, <1>3, MutexStepBound DEF ReleaseCall, AcquireCall
<1> QED
  BY <1>1, <1>2, <1>3 DEF MutexNext

\* So who waits, waits for another task that will notify or take the mutex.
LEMMA WakeupBound ==
  ASSUME MutexShape, Wakeups, OwnerBound PROVE NoLostWakeup
<1> SUFFICES ASSUME NEW m \in Mutexes \ Stray, waiting[m].tasks # {}
             PROVE  \E t \in Tasks \ waiting[m].tasks : WillNotify(t, m)
  BY DEF NoLostWakeup
<1>1. \A t \in waiting[m].tasks : pc[t] = "aq_ldrex" /\ arg[t] = m
  BY DEF Wakeups, WaitersAcquire
<1>2. CASE mux[m].tcb # Nil
  <2>1. PICK t \in Tasks : mux[m].tcb = t
    BY <1>2 DEF MutexShape, MuxTyped
  <2>2. \/ m \in held[t]
        \/ arg[t] = m /\ pc[t] \in {"aq_count", "rl_check", "rl_dec", "rl_test", "rl_clear"}
    BY <2>1 DEF OwnerBound, OwnerKnown
  <2>3. ~(m \in held[t] /\ Acquiring(t, m))
    BY DEF OwnerBound, AcquirersLack, Acquiring
  <2>4. t \notin waiting[m].tasks
    BY <1>1, <2>2, <2>3 DEF Acquiring, AcquireLabels
  <2> QED
    BY <2>2, <2>3, <2>4 DEF WillNotify, ReleaseLabels
<1>3. CASE mux[m].tcb = Nil
  <2>1. \/ \E t \in Tasks : pc[t] = "rl_notify" /\ arg[t] = m
        \/ \E t \in Tasks \ waiting[m].tasks : Acquiring(t, m)
    BY <1>3 DEF Wakeups, WakeupComing
  <2>2. ASSUME NEW t \in Tasks, pc[t] = "rl_notify", arg[t] = m
        PROVE  t \notin waiting[m].tasks /\ WillNotify(t, m)
    BY <1>1, <2>2 DEF WillNotify, ReleaseLabels
  <2>3. ASSUME NEW t \in Tasks, Acquiring(t, m) PROVE WillNotify(t, m)
    BY <1>3, <2>3 DEF WillNotify
  <2> QED
    BY <2>1, <2>2, <2>3
<1> QED
  BY <1>2, <1>3

\* While a task is in the waiting queue of a mutex, another one that is not holds the mutex,
\* takes it or is inside the release that notifies: as long as only its owners release it and
\* tasks acquire only what they do not hold, no preemption between LDREX, STREX, the counter
\* and the SVCs leaves a waiter without somebody who is bound to notify.
THEOREM MutexWakeupsKept ==
  ASSUME Closed, ~Recursive PROVE MutexSpec => []NoLostWakeup
<1>1. MutexInit => Placed /\ Wakeups /\ CountsOwner /\ OwnerBound
  <2> SUFFICES ASSUME MutexInit PROVE Placed /\ Wakeups /\ CountsOwner /\ OwnerBound
    OBVIOUS
  <2>1. /\ \A t \in Tasks : pc[t] = "dormant" /\ check[t] = 0 /\ held[t] = {}
        /\ checkCode \in Nat /\ mux = [m \in Mutexes |-> [tcb |-> Nil, counter |-> 0]]
        /\ \A o \in Objects : waiting[o].tasks = {}
    BY KernelAssumption DEF MutexInit, Init, EmptyQueue
  <2>2. Placed
    BY InitPlaced DEF MutexInit, Init
  <2>3. Wakeups
    BY <2>1, MutexAssumption
    DEF Wakeups, CodesRead, WaitersAcquire, WaitsForOwner, WakeupComing
  <2>4. CountsOwner
    BY <2>1 DEF CountsOwner, HeldCounted, CallCounted, FreeCounted
  <2>5. OwnerBound
    BY <2>1, QueueAssumption DEF OwnerBound, AcquirersLack, OwnerKnown, AcquireLabels
  <2> QED
    BY <2>2, <2>3, <2>4, <2>5
<1>2. /\ MutexTyped /\ Owned /\ Placed /\ Wakeups /\ CountsOwner /\ OwnerBound
      /\ [MutexNext]_allVars
      => (Placed /\ Wakeups /\ CountsOwner /\ OwnerBound)'
  BY NextWakeups, NextCountsOwner, NextBound
<1>3. MutexTyped /\ Wakeups /\ OwnerBound => NoLostWakeup
  BY TypedShape, WakeupBound
<1> QED
  BY <1>1, <1>2, <1>3, OwnedInvariant, PTL DEF MutexSpec

=============================================================================
