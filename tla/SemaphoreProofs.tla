--------------------------- MODULE SemaphoreProofs ---------------------------
(***************************************************************************)
(* Theorems about Semaphore, for every set of tasks, semaphores, other     *)
(* objects, levels and numbers of resources, and also when tasks release   *)
(* resources they never acquired.                                          *)
(***************************************************************************)
EXTENDS Semaphore, KernelProofs

-----------------------------------------------------------------------------
\* Type correctness.

SemPcTyped ==
  pc \in [Tasks \cup {IdleTCB} -> KernelLabels \cup IdleLabels \cup SemLabels]

CountersTyped ==
  /\ counter \in [Semaphores -> 0 .. UIntMax]
  /\ loaded \in [Tasks -> 0 .. UIntMax]

TakenTyped == taken \in [Tasks -> [Semaphores -> Nat]]

\* A call in progress is about a semaphore.
CallNamesSemaphore == \A t \in Tasks : pc[t] \in SemLabels => arg[t] \in Semaphores

\* The part that holds wherever the semaphores are used, whatever other calls there are.
SemShape == KernelTyped /\ PcDomain /\ CountersTyped /\ CallNamesSemaphore

SemTyped ==
  /\ KernelTyped /\ Started /\ SemPcTyped
  /\ CountersTyped /\ TakenTyped /\ CallNamesSemaphore

\* Typing includes that part.
LEMMA SemTypedShape == SemTyped => SemShape
BY DEF SemTyped, SemShape, SemPcTyped, PcDomain

\* A step of a semaphore call, whoever keeps the history of what was taken.
SemMove(t) ==
  \/ \E s \in Semaphores :
       SemAcquireCall(t, s) \/ GetCountCall(t, s) \/ SemReleaseCall(t, s)
  \/ SemBody(t)

\* What the proofs need to know of the counter's width.
LEMMA CounterWidth == UIntMax \in Nat \ {0}
BY KernelAssumption

\* The increment of a uint32_t.
LEMMA IncrementWraps ==
  ASSUME NEW n \in 0 .. UIntMax
  PROVE  (n + 1) % (UIntMax + 1) \in 0 .. UIntMax
BY CounterWidth

\* The decrement of an acquire, which stays at 0.
LEMMA DecrementStops ==
  ASSUME NEW n \in 0 .. UIntMax
  PROVE  (IF n = 0 THEN 0 ELSE n - 1) \in 0 .. UIntMax
BY CounterWidth

\* The increment is by one unless it wraps to 0.
LEMMA IncrementAlternatives ==
  ASSUME NEW n \in 0 .. UIntMax
  PROVE  (n + 1) % (UIntMax + 1) \in {0, n + 1}
<1>1. CASE n = UIntMax
  BY <1>1, CounterWidth
<1>2. CASE n < UIntMax
  <2>1. n + 1 \in Nat /\ UIntMax + 1 \in Nat /\ n + 1 < UIntMax + 1
    BY <1>2, CounterWidth
  <2> QED
    BY ONLY <2>1
<1> QED
  BY <1>1, <1>2, CounterWidth

\* The initial state is typed.
LEMMA SemInitTyped == SemInit => SemTyped
<1> SUFFICES ASSUME SemInit PROVE SemTyped
  OBVIOUS
<1>1. KernelTyped /\ Started
  BY InitTyped DEF SemInit, Typed
<1>2. SemPcTyped /\ CallNamesSemaphore
  BY KernelAssumption, QueueAssumption
  DEF SemInit, Init, SemPcTyped, CallNamesSemaphore, KernelLabels, IdleLabels,
      SemLabels, SemAcquireLabels
<1>3. CountersTyped /\ TakenTyped
  BY CounterWidth, SemaphoreAssumption DEF SemInit, CountersTyped, TakenTyped
<1> QED
  BY <1>1, <1>2, <1>3 DEF SemTyped

\* The steps of a semaphore call keep the kernel's state typed.
LEMMA SemStepTyped ==
  ASSUME NEW t \in Tasks, KernelTyped, CallNamesSemaphore, SemMove(t)
  PROVE  KernelTyped'
<1> USE SemaphoreAssumption
    DEF KernelTyped, KernelTypeOK, kernelVars, taskVars, cpuVars, timeVars, queueVars
<1>1. ASSUME NEW s \in Semaphores,
             SemAcquireCall(t, s) \/ GetCountCall(t, s) \/ SemReleaseCall(t, s)
      PROVE  KernelTyped'
  <2>1. /\ UNCHANGED kernelVars
        /\ arg' = [arg EXCEPT ![t] = s]
        /\ calls' = calls \/ (calls > 0 /\ calls' = calls - 1)
        /\ check' = check \/ check' = [check EXCEPT ![t] = checkCode]
    BY <1>1 DEF SemAcquireCall, GetCountCall, SemReleaseCall, SemCall, Calling
  <2>2. calls' \in Nat /\ check' \in [Tasks -> Nat] /\ arg' \in [Tasks -> Objects \cup {Nil}]
    BY <2>1
  <2> QED
    BY <2>1, <2>2 DEF WellFormedQueues
<1>2. CASE SemAcquireLdrex(t) \/ GetCountLdrex(t)
  <2>1. exclusive' = TRUE
    BY <1>2 DEF SemAcquireLdrex, GetCountLdrex, LoadCounter
  <2>2. UNCHANGED <<currentTCB, mode, timeVars, queueVars, checkCode, priority,
                    arg, check, calls>>
    BY <1>2 DEF SemAcquireLdrex, GetCountLdrex, Local
  <2> QED
    BY <2>1, <2>2 DEF WellFormedQueues
<1>3. CASE \/ SemReleaseLdrex(t)
           \/ SemAcquireStrex(t) \/ SemReleaseStrex(t) \/ GetCountStrex(t)
  <2>1. exclusive' \in BOOLEAN
    BY <1>3 DEF SemReleaseLdrex, SemAcquireStrex, SemReleaseStrex, GetCountStrex,
                LoadCounter, StoreCounter
  <2>2. /\ UNCHANGED <<currentTCB, mode, timeVars, queueVars, checkCode, priority>>
        /\ UNCHANGED calls
    BY <1>3 DEF SemReleaseLdrex, SemAcquireStrex, SemReleaseStrex, GetCountStrex,
                StoreCounter, Local, SemReturn, Return
  <2>3. /\ arg' = arg \/ arg' = [arg EXCEPT ![t] = Nil]
        /\ check' = check \/ check' = [check EXCEPT ![t] = 0]
    BY <1>3 DEF SemReleaseLdrex, SemAcquireStrex, SemReleaseStrex, GetCountStrex,
                Local, SemReturn, Return
  <2>4. arg' \in [Tasks -> Objects \cup {Nil}] /\ check' \in [Tasks -> Nat]
    BY <2>3
  <2> QED
    BY <2>1, <2>2, <2>4 DEF WellFormedQueues
<1>4. CASE SemAcquireWait(t)
  <2>1. currentTCB \in Tasks /\ arg[t] \in Objects /\ check[t] \in Nat
    BY <1>4 DEF SemAcquireWait, Executing, CallNamesSemaphore, SemLabels, SemAcquireLabels
  <2> QED
    BY <1>4, <2>1, SvcTyped DEF SemAcquireWait, Goto
<1>5. CASE SemNotify(t)
  <2>1. arg[t] \in Objects
    BY <1>5 DEF SemNotify, Executing, CallNamesSemaphore, SemLabels
  <2> QED
    BY <1>5, <2>1, SvcTyped DEF SemNotify, Return, Goto
<1> QED
  BY <1>1, <1>2, <1>3, <1>4, <1>5 DEF SemMove, SemBody

\* So does OS_SemaphoreNotify, which leaves every task where it was.
LEMMA SemaphoreNotifyTyped ==
  ASSUME NEW t \in Tasks, NEW s \in Semaphores, KernelTyped, PcDomain,
         OS_SemaphoreNotify(t, s)
  PROVE  /\ KernelTyped' /\ PcDomain' /\ arg' = arg /\ check' = check
         /\ pc[t] = "user" /\ pc' = [pc EXCEPT ![t] = "user"]
         /\ \A u \in Tasks : pc'[u] = pc[u]
         /\ mode = "thread" /\ currentTCB = t /\ currentTCB' = t
<1>1. s \in Objects
  BY SemaphoreAssumption
<1>2. /\ _svc_OS_Notify(s) /\ arg' = arg /\ check' = check
      /\ pc' = [pc EXCEPT ![t] = "user"] /\ pc[t] = "user" /\ calls' \in Nat
      /\ mode = "thread" /\ currentTCB = t
  BY DEF OS_SemaphoreNotify, OS_Notify, Calling, Executing, Goto, KernelTyped, KernelTypeOK
<1>3. PcDomain' /\ \A u \in Tasks : pc'[u] = pc[u]
  BY <1>2 DEF PcDomain
<1>4. KernelTyped'
  BY <1>1, <1>2, SvcTyped DEF KernelTyped, KernelTypeOK
<1> QED
  BY <1>2, <1>3, <1>4 DEF _svc_OS_Notify

\* The steps of a semaphore call keep the counters typed and every call about a semaphore.
LEMMA SemStepCounters ==
  ASSUME NEW t \in Tasks, SemShape, SemMove(t)
  PROVE  PcDomain' /\ CountersTyped' /\ CallNamesSemaphore'
<1> USE SemaphoreAssumption, CounterWidth
    DEF SemShape, PcDomain, CountersTyped, CallNamesSemaphore, KernelTyped,
        KernelTypeOK, SemLabels, SemAcquireLabels, semVars, kernelVars, Executing, Goto
<1>1. CASE \E s \in Semaphores :
             SemAcquireCall(t, s) \/ GetCountCall(t, s) \/ SemReleaseCall(t, s)
  BY <1>1 DEF SemAcquireCall, GetCountCall, SemReleaseCall, SemCall, Calling
<1>2. CASE SemAcquireLdrex(t) \/ GetCountLdrex(t)
  <2>1. /\ arg[t] \in Semaphores
        /\ loaded' = [loaded EXCEPT ![t] = counter[arg[t]]]
        /\ UNCHANGED <<counter, arg>>
        /\ \E l \in {"sa_wait", "sa_strex", "gc_strex"} : pc' = [pc EXCEPT ![t] = l]
    BY <1>2 DEF SemAcquireLdrex, GetCountLdrex, LoadCounter, Local
  <2> QED
    BY <2>1
<1>3. CASE SemAcquireWait(t)
  BY <1>3 DEF SemAcquireWait
<1>4. CASE SemAcquireStrex(t)
  <2>1. (IF loaded[t] = 0 THEN 0 ELSE loaded[t] - 1) \in 0 .. UIntMax
    BY DecrementStops
  <2>2. counter' \in [Semaphores -> 0 .. UIntMax]
    BY <1>4, <2>1 DEF SemAcquireStrex, StoreCounter
  <2>3. loaded' = [loaded EXCEPT ![t] = 0]
    BY <1>4 DEF SemAcquireStrex, SemReturn
  <2>4. \/ Goto(t, "user") /\ arg' = [arg EXCEPT ![t] = Nil]
        \/ /\ \/ Goto(t, "sa_notify")
              \/ Goto(t, "sa_ldrex")
           /\ arg' = arg /\ pc[t] = "sa_strex"
    <3>1. CASE exclusive
      BY <1>4, <3>1 DEF SemAcquireStrex, SemReturn, Return
    <3>2. CASE ~exclusive
      BY <1>4, <3>2 DEF SemAcquireStrex, SemReturn, Return
    <3> QED
      BY <3>1, <3>2
  <2>5. PcDomain'
    BY <2>4
  <2>6. CallNamesSemaphore'
    BY <2>4
  <2>7. loaded' \in [Tasks -> 0 .. UIntMax]
    BY <2>3
  <2> QED
    BY <2>2, <2>5, <2>6, <2>7
<1>5. CASE SemReleaseLdrex(t)
  <2>1. CASE TooMany(arg[t])
    <3>1. /\ Goto(t, "user") /\ arg' = [arg EXCEPT ![t] = Nil]
          /\ loaded' = [loaded EXCEPT ![t] = 0] /\ counter' = counter
      BY <1>5, <2>1 DEF SemReleaseLdrex, SemReturn, Return
    <3>2. loaded' \in [Tasks -> 0 .. UIntMax]
      BY <3>1
    <3> QED
      BY <3>1, <3>2
  <2>2. CASE ~TooMany(arg[t])
    <3>1. /\ arg[t] \in Semaphores
          /\ Goto(t, "sr_strex") /\ arg' = arg
          /\ loaded' = [loaded EXCEPT ![t] = counter[arg[t]]] /\ counter' = counter
      BY <1>5, <2>2 DEF SemReleaseLdrex, LoadCounter, Local
    <3>2. loaded' \in [Tasks -> 0 .. UIntMax]
      BY <3>1
    <3> QED
      BY <3>1, <3>2
  <2> QED
    BY <2>1, <2>2
<1>6. CASE SemReleaseStrex(t)
  <2>1. (loaded[t] + 1) % (UIntMax + 1) \in 0 .. UIntMax
    BY IncrementWraps
  <2>2. counter' \in [Semaphores -> 0 .. UIntMax]
    BY <1>6, <2>1 DEF SemReleaseStrex, StoreCounter
  <2>3. loaded' = [loaded EXCEPT ![t] = 0]
    BY <1>6 DEF SemReleaseStrex, SemReturn
  <2>4. \/ Goto(t, "user") /\ arg' = [arg EXCEPT ![t] = Nil]
        \/ /\ \/ Goto(t, "sr_notify")
              \/ Goto(t, "sr_ldrex")
           /\ arg' = arg /\ pc[t] = "sr_strex"
    <3>1. CASE exclusive
      BY <1>6, <3>1 DEF SemReleaseStrex, SemReturn, Return
    <3>2. CASE ~exclusive
      BY <1>6, <3>2 DEF SemReleaseStrex, SemReturn, Return
    <3> QED
      BY <3>1, <3>2
  <2>5. PcDomain'
    BY <2>4
  <2>6. CallNamesSemaphore'
    BY <2>4
  <2>7. loaded' \in [Tasks -> 0 .. UIntMax]
    BY <2>3
  <2> QED
    BY <2>2, <2>5, <2>6, <2>7
<1>7. CASE SemNotify(t)
  BY <1>7 DEF SemNotify, Return
<1>8. CASE GetCountStrex(t)
  <2>1. counter' \in [Semaphores -> 0 .. UIntMax] /\ loaded' = loaded
    BY <1>8 DEF GetCountStrex, StoreCounter
  <2>2. \/ Goto(t, "user") /\ arg' = [arg EXCEPT ![t] = Nil]
        \/ Goto(t, "gc_ldrex") /\ arg' = arg /\ pc[t] = "gc_strex"
    BY <1>8 DEF GetCountStrex, Return
  <2> QED
    BY <2>1, <2>2
<1> QED
  BY <1>1, <1>2, <1>3, <1>4, <1>5, <1>6, <1>7, <1>8 DEF SemMove, SemBody

\* Nor do they leave the labels of the program.
LEMMA SemStepPc ==
  ASSUME NEW t \in Tasks, SemPcTyped, SemMove(t) PROVE SemPcTyped'
<1> USE DEF SemPcTyped, SemLabels, SemAcquireLabels, KernelLabels, IdleLabels, Goto
<1>1. CASE \E s \in Semaphores :
             SemAcquireCall(t, s) \/ GetCountCall(t, s) \/ SemReleaseCall(t, s)
  BY <1>1 DEF SemAcquireCall, GetCountCall, SemReleaseCall, SemCall, Calling
<1>2. CASE SemAcquireLdrex(t) \/ GetCountLdrex(t)
  BY <1>2 DEF SemAcquireLdrex, GetCountLdrex, Local
<1>3. CASE SemAcquireWait(t)
  BY <1>3 DEF SemAcquireWait
<1>4. CASE SemAcquireStrex(t)
  BY <1>4 DEF SemAcquireStrex, SemReturn, Return
<1>5. CASE SemReleaseLdrex(t)
  BY <1>5 DEF SemReleaseLdrex, SemReturn, Return, Local
<1>6. CASE SemReleaseStrex(t)
  BY <1>6 DEF SemReleaseStrex, SemReturn, Return
<1>7. CASE SemNotify(t) \/ GetCountStrex(t)
  BY <1>7 DEF SemNotify, GetCountStrex, Return
<1> QED
  BY <1>1, <1>2, <1>3, <1>4, <1>5, <1>6, <1>7 DEF SemMove, SemBody

\* The history of what was taken stays typed.
LEMMA SemStepTaken ==
  ASSUME NEW t \in Tasks, TakenTyped, CallNamesSemaphore, SemStep(t) PROVE TakenTyped'
<1> USE DEF TakenTyped
<1>1. CASE UNCHANGED taken
  BY <1>1
<1>2. CASE \E s \in Semaphores : SemReleaseCall(t, s)
  <2>1. PICK s \in Semaphores : SemReleaseCall(t, s)
    BY <1>2
  <2>2. taken' = [taken EXCEPT ![t][s] = IF @ = 0 THEN 0 ELSE @ - 1]
    BY <2>1 DEF SemReleaseCall
  <2>3. \A n \in Nat : (IF n = 0 THEN 0 ELSE n - 1) \in Nat
    OBVIOUS
  <2> QED
    BY <2>2, <2>3
<1>3. CASE pc[t] = "sa_strex" /\ taken' = [taken EXCEPT ![t][arg[t]] = @ + 1]
  <2>1. \A n \in Nat : n + 1 \in Nat
    OBVIOUS
  <2>2. arg[t] \in Semaphores
    BY <1>3 DEF CallNamesSemaphore, SemLabels, SemAcquireLabels
  <2> QED
    BY <1>3, <2>1, <2>2
<1> QED
  BY <1>1, <1>2, <1>3 DEF SemStep, RecordTaken

\* What a step of the program does, forgetting the history.
LEMMA SemStepMoves == ASSUME NEW t \in Tasks, SemStep(t) PROVE SemMove(t)
BY DEF SemStep, SemMove

\* A step of a semaphore call is one of the current task, which stays current.
LEMMA SemStepCurrent ==
  ASSUME NEW t \in Tasks, SemMove(t)
  PROVE  /\ mode = "thread" /\ currentTCB = t /\ currentTCB' = t
         /\ pc[t] \in {"user"} \cup SemLabels
BY DEF SemMove, SemBody, SemAcquireCall, GetCountCall, SemReleaseCall, SemCall,
       SemAcquireLdrex, SemAcquireWait, SemAcquireStrex, SemReleaseLdrex,
       SemReleaseStrex, SemNotify, GetCountLdrex, GetCountStrex, StoreCounter,
       _svc_OS_Wait, _svc_OS_Notify, kernelVars, cpuVars, Executing, Calling, Local,
       SemLabels, SemAcquireLabels

\* It leaves the other tasks alone.
LEMMA SemStepOthers ==
  ASSUME SemShape, NEW t \in Tasks, SemMove(t), NEW u \in Tasks \ {t}
  PROVE  /\ pc'[u] = pc[u] /\ arg'[u] = arg[u]
         /\ check'[u] = check[u] /\ loaded'[u] = loaded[u]
<1> USE DEF SemShape, PcDomain, CountersTyped, KernelTyped, KernelTypeOK, semVars, Executing,
            Goto, Return
<1>1. CASE \E s \in Semaphores :
             SemAcquireCall(t, s) \/ GetCountCall(t, s) \/ SemReleaseCall(t, s)
  BY <1>1 DEF SemAcquireCall, GetCountCall, SemReleaseCall, SemCall, Calling
<1>2. CASE SemAcquireLdrex(t) \/ GetCountLdrex(t)
  BY <1>2 DEF SemAcquireLdrex, GetCountLdrex, LoadCounter, Local
<1>3. CASE SemAcquireWait(t)
  BY <1>3 DEF SemAcquireWait
<1>4. CASE SemAcquireStrex(t)
  BY <1>4 DEF SemAcquireStrex, SemReturn
<1>5. CASE SemReleaseLdrex(t)
  BY <1>5 DEF SemReleaseLdrex, SemReturn, Local, LoadCounter
<1>6. CASE SemReleaseStrex(t)
  BY <1>6 DEF SemReleaseStrex, SemReturn
<1>7. CASE SemNotify(t) \/ GetCountStrex(t)
  BY <1>7 DEF SemNotify, GetCountStrex
<1> QED
  BY <1>1, <1>2, <1>3, <1>4, <1>5, <1>6, <1>7 DEF SemMove, SemBody

\* A step of the kernel, or of a task outside the semaphore calls, changes no program
\* counter of a task to or from a label of a semaphore call, and no argument.
LEMMA SemOtherStepPc ==
  ASSUME PcDomain, Handlers \/ \E t \in Tasks : TaskStep(t) \/ TaskEnd(t)
  PROVE  /\ PcDomain'
         /\ arg' = arg /\ check' = check
         /\ \A u \in Tasks : pc'[u] = pc[u] \/ {pc[u], pc'[u]} \cap SemLabels = {}
BY KernelStepPc DEF TaskLabels, KernelLabels, SemLabels, SemAcquireLabels

\* It does not leave the labels of the program either.
LEMMA SemOtherStepLabels ==
  ASSUME SemPcTyped, Handlers \/ \E t \in Tasks : TaskStep(t) \/ TaskEnd(t)
  PROVE  SemPcTyped'
<1> USE KernelAssumption
    DEF SemPcTyped, KernelLabels, IdleLabels, taskVars, Executing, Goto, Calling
<1>1. CASE Handlers
  BY <1>1
  DEF Handlers, SysTick_Handler, UpdateSleepingTasks, PendSV_Handler, ExtractNull, HeapTorn,
      OS_Start, IdleSchedule, BootAddTask
<1>2. ASSUME NEW t \in Tasks, TaskStep(t) \/ TaskEnd(t) PROVE SemPcTyped'
  BY <1>2
  DEF TaskStep, OS_AddTask, RunPastEnd, SleepCall, SleepStamp, SleepStrex, SleepRemove,
      SleepInsert, SleepYield, TaskEnd
<1> QED
  BY <1>1, <1>2

\* Every step keeps the state typed.
LEMMA SemNextTyped == SemTyped /\ [SemNext]_allSemVars => SemTyped'
<1> SUFFICES ASSUME SemTyped, [SemNext]_allSemVars PROVE SemTyped'
  OBVIOUS
<1>0. SemShape
  BY SemTypedShape
<1>1. CASE UNCHANGED allSemVars
  BY <1>1 DEF allSemVars, semVars, vars, kernelVars, cpuVars, timeVars, queueVars,
              taskVars, SemTyped, KernelTyped, KernelTypeOK, WellFormedQueues, Started,
              SemPcTyped, CountersTyped, TakenTyped, CallNamesSemaphore
<1>2. CASE Handlers /\ UNCHANGED <<semVars, taken>>
  <2>1. KernelTyped' /\ Started'
    BY <1>2, HandlersTyped, HandlersStarted DEF SemTyped
  <2>2. SemPcTyped'
    BY <1>2, SemOtherStepLabels DEF SemTyped
  <2> QED
    BY <1>0, <1>2, <2>1, <2>2, SemOtherStepPc
    DEF SemShape, SemTyped, CountersTyped, TakenTyped, semVars, CallNamesSemaphore
<1>3. ASSUME NEW t \in Tasks, TaskStep(t) \/ SemEndStep(t), UNCHANGED <<semVars, taken>>
      PROVE  SemTyped'
  <2>1. KernelTyped'
    BY <1>3, KernelStepTyped DEF SemTyped, SemEndStep
  <2>2. Started'
    BY <1>3, KernelStepCurrent, QueueAssumption DEF Started, SemEndStep
  <2>3. SemPcTyped'
    BY <1>3, SemOtherStepLabels DEF SemTyped, SemEndStep
  <2> QED
    BY <1>0, <1>3, <2>1, <2>2, <2>3, SemOtherStepPc
    DEF SemEndStep, SemShape, SemTyped, CountersTyped, TakenTyped, semVars, CallNamesSemaphore
<1>4. ASSUME NEW t \in Tasks, SemStep(t) PROVE SemTyped'
  <2>1. SemMove(t)
    BY <1>4, SemStepMoves
  <2>2. Started'
    BY <2>1, SemStepCurrent, QueueAssumption DEF Started
  <2> QED
    BY <1>0, <1>4, <2>1, <2>2, SemStepTyped, SemStepCounters, SemStepPc, SemStepTaken
    DEF SemTyped
<1>5. ASSUME NEW t \in Tasks, NEW s \in Semaphores, OS_SemaphoreNotify(t, s),
             UNCHANGED taken
      PROVE  SemTyped'
  BY <1>0, <1>5, SemaphoreNotifyTyped, QueueAssumption
  DEF SemShape, Started, OS_SemaphoreNotify, SemTyped, SemPcTyped, CountersTyped,
      TakenTyped, semVars, CallNamesSemaphore
<1> QED
  BY <1>1, <1>2, <1>3, <1>4, <1>5 DEF SemNext, SemThread

\* The kernel's and the semaphores' variables stay typed in every execution, however
\* often tasks release and whatever interrupts an LDREX/STREX pair: the arithmetic on the
\* counters never leaves the range of a uint32_t.
THEOREM SemTypeCorrect == SemSpec => []SemTypeOK
<1>1. SemSpec => []SemTyped
  BY SemInitTyped, SemNextTyped, PTL DEF SemSpec
<1>2. SemTyped => SemTypeOK
  BY DEF SemTyped, KernelTyped, SemPcTyped, CountersTyped, TakenTyped, SemTypeOK
<1> QED
  BY <1>1, <1>2, PTL

-----------------------------------------------------------------------------
\* The counter stays within the size.

StoreLabels == {"sa_strex", "sr_strex", "gc_strex"}

\* While the exclusive monitor is set and its task is about to store, the register of
\* the LDREX still holds the counter, and what the code tested of it still holds.
RegisterCurrent ==
  \A t \in Tasks :
    exclusive /\ currentTCB = t /\ pc[t] \in StoreLabels =>
      /\ loaded[t] = counter[arg[t]]
      /\ pc[t] = "sa_strex" => loaded[t] > 0
      /\ pc[t] = "sr_strex" => ~TooMany(arg[t])

Counted == CountWithinSize /\ RegisterCurrent

\* What an LDREX leaves behind: the register holds the counter.
LEMMA LoadsCounter ==
  ASSUME SemShape, NEW t \in Tasks, LoadCounter(t)
  PROVE  counter' = counter /\ loaded'[t] = counter[arg[t]]
BY DEF SemShape, CountersTyped, LoadCounter

\* What a STREX stores, if it stores.
LEMMA StoresValue ==
  ASSUME SemShape, NEW t \in Tasks, pc[t] \in SemLabels, NEW value,
         StoreCounter(t, value)
  PROVE  /\ exclusive' = FALSE
         /\ \A s \in Semaphores :
              counter'[s] = IF exclusive /\ s = arg[t] THEN value ELSE counter[s]
BY DEF SemShape, CountersTyped, StoreCounter, CallNamesSemaphore

\* Under Counted a step of a semaphore call keeps every counter within its size and
\* its own register current.
LEMMA SemStepCounted ==
  ASSUME SemShape, Counted, NEW t \in Tasks, SemMove(t)
  PROVE  /\ CountWithinSize'
         /\ exclusive' /\ pc'[t] \in StoreLabels =>
              /\ loaded'[t] = counter'[arg'[t]]
              /\ pc'[t] = "sa_strex" => loaded'[t] > 0
              /\ pc'[t] = "sr_strex" => ~TooMany(arg[t])'
<1> USE SemaphoreAssumption, CounterWidth
    DEF SemShape, PcDomain, CountersTyped, CallNamesSemaphore, KernelTyped,
        KernelTypeOK, SemLabels, SemAcquireLabels, StoreLabels, Counted,
        CountWithinSize, RegisterCurrent, semVars, kernelVars, Executing, Goto
<1>1. CASE \E s \in Semaphores :
             SemAcquireCall(t, s) \/ GetCountCall(t, s) \/ SemReleaseCall(t, s)
  BY <1>1 DEF SemAcquireCall, GetCountCall, SemReleaseCall, SemCall, Calling
<1>2. CASE SemAcquireLdrex(t)
  <2>1. counter' = counter /\ loaded'[t] = counter[arg[t]]
    BY <1>2, LoadsCounter DEF SemAcquireLdrex
  <2>2. /\ arg' = arg /\ arg[t] \in Semaphores
        /\ pc'[t] = IF counter[arg[t]] = 0 THEN "sa_wait" ELSE "sa_strex"
    BY <1>2 DEF SemAcquireLdrex, Local
  <2> QED
    BY <2>1, <2>2
<1>3. CASE SemAcquireWait(t)
  BY <1>3 DEF SemAcquireWait, _svc_OS_Wait
<1>4. CASE SemAcquireStrex(t)
  <2>1. PICK value \in Nat :
             /\ value = IF loaded[t] = 0 THEN 0 ELSE loaded[t] - 1
             /\ StoreCounter(t, value)
    BY <1>4, DecrementStops DEF SemAcquireStrex
  <2>2. /\ ~exclusive'
        /\ \A s \in Semaphores :
             counter'[s] = IF exclusive /\ s = arg[t] THEN value ELSE counter[s]
    <3>1. pc[t] \in SemLabels
      BY <1>4 DEF SemAcquireStrex
    <3> QED
      BY ONLY <2>1, <3>1, StoresValue, SemShape, t \in Tasks
  <2>3. exclusive => loaded[t] > 0 /\ loaded[t] = counter[arg[t]]
    BY <1>4 DEF SemAcquireStrex
  <2> QED
    BY <2>1, <2>2, <2>3
<1>5. CASE SemReleaseLdrex(t)
  <2>1. CASE TooMany(arg[t])
    <3>1. ~exclusive' /\ counter' = counter
      BY <1>5, <2>1 DEF SemReleaseLdrex
    <3> QED
      BY <3>1
  <2>2. CASE ~TooMany(arg[t])
    <3>1. LoadCounter(t) /\ Local(t, "sr_ldrex", "sr_strex")
      BY <1>5, <2>2 DEF SemReleaseLdrex
    <3>2. counter' = counter /\ loaded'[t] = counter[arg[t]]
      BY <3>1, LoadsCounter
    <3>3. arg' = arg /\ pc'[t] = "sr_strex"
      BY <3>1 DEF Local
    <3> QED
      BY <2>2, <3>2, <3>3 DEF TooMany
  <2> QED
    BY <2>1, <2>2
<1>6. CASE SemReleaseStrex(t)
  <2>1. /\ ~exclusive'
        /\ \A s \in Semaphores :
             counter'[s] = IF exclusive /\ s = arg[t]
                             THEN (loaded[t] + 1) % (UIntMax + 1) ELSE counter[s]
    BY <1>6, StoresValue DEF SemReleaseStrex
  <2>2. exclusive => ~TooMany(arg[t]) /\ loaded[t] = counter[arg[t]]
    BY <1>6 DEF SemReleaseStrex
  <2>3. exclusive => (loaded[t] + 1) % (UIntMax + 1) <= Resources[arg[t]]
    <3>1. (loaded[t] + 1) % (UIntMax + 1) \in 0 .. UIntMax
      BY IncrementWraps
    <3>2. arg[t] \in Semaphores
      BY <1>6 DEF SemReleaseStrex
    <3> QED
      BY <2>2, <3>1, <3>2 DEF TooMany
  <2> QED
    BY <2>1, <2>3
<1>7. CASE SemNotify(t)
  BY <1>7 DEF SemNotify, Return
<1>8. CASE GetCountLdrex(t)
  <2>1. counter' = counter /\ loaded'[t] = counter[arg[t]]
    BY <1>8, LoadsCounter DEF GetCountLdrex
  <2>2. arg' = arg /\ pc'[t] = "gc_strex"
    BY <1>8 DEF GetCountLdrex, Local
  <2> QED
    BY <2>1, <2>2
<1>9. CASE GetCountStrex(t)
  <2>1. /\ ~exclusive'
        /\ \A s \in Semaphores :
             counter'[s] = IF exclusive /\ s = arg[t] THEN loaded[t] ELSE counter[s]
    BY <1>9, StoresValue DEF GetCountStrex
  <2>2. exclusive => loaded[t] = counter[arg[t]]
    BY <1>9 DEF GetCountStrex
  <2> QED
    BY <2>1, <2>2
<1> QED
  BY <1>1, <1>2, <1>3, <1>4, <1>5, <1>6, <1>7, <1>8, <1>9 DEF SemMove, SemBody

\* So it keeps the counters within their sizes and every register current.
LEMMA SemMoveCounted ==
  ASSUME SemShape, Counted, NEW t \in Tasks, SemMove(t) PROVE Counted'
BY SemStepCounted, SemStepCurrent DEF Counted, RegisterCurrent

\* So does a step outside the semaphores.
LEMMA SemOtherStepCounted ==
  ASSUME PcDomain, Counted, Handlers \/ \E t \in Tasks : TaskStep(t) \/ TaskEnd(t),
         UNCHANGED semVars
  PROVE  Counted'
<1> USE DEF Counted, CountWithinSize, RegisterCurrent, StoreLabels, SemLabels,
            SemAcquireLabels, TooMany, semVars
<1>1. CASE Handlers
  <2>1. exclusive' => exclusive /\ \A t \in Tasks : currentTCB' = t => currentTCB = t
    BY <1>1, HandlersMonitor, KernelAssumption
  <2>2. \A t \in Tasks : pc'[t] \in SemLabels => pc[t] = pc'[t] /\ arg'[t] = arg[t]
    BY <1>1, SemOtherStepPc
  <2> QED
    BY <2>1, <2>2
<1>2. ASSUME NEW t \in Tasks, TaskStep(t) \/ TaskEnd(t) PROVE Counted'
  BY <1>2, SemOtherStepPc, KernelStepCurrent DEF TaskLabels, KernelLabels
<1> QED
  BY <1>1, <1>2

\* So does OS_SemaphoreNotify.
LEMMA SemaphoreNotifyCounted ==
  ASSUME Counted, NEW t \in Tasks, NEW s \in Semaphores, OS_SemaphoreNotify(t, s)
  PROVE  Counted'
BY DEF Counted, CountWithinSize, RegisterCurrent, OS_SemaphoreNotify, OS_Notify,
       _svc_OS_Notify, semVars

\* Every step keeps them.
LEMMA SemNextCounted == SemTyped /\ Counted /\ [SemNext]_allSemVars => Counted'
<1> SUFFICES ASSUME SemTyped, Counted, [SemNext]_allSemVars PROVE Counted'
  OBVIOUS
<1>0. SemShape
  BY SemTypedShape
<1>1. CASE UNCHANGED allSemVars
  BY <1>1 DEF allSemVars, semVars, vars, kernelVars, cpuVars, taskVars, TooMany, Counted,
              CountWithinSize, RegisterCurrent
<1>2. ASSUME NEW t \in Tasks, SemStep(t) PROVE Counted'
  BY <1>0, <1>2, SemStepMoves, SemMoveCounted
<1> QED
  BY <1>0, <1>1, <1>2, SemOtherStepCounted, SemaphoreNotifyCounted
  DEF SemShape, SemEndStep, SemNext, SemThread

\* Typing and counting hold in every execution.
LEMMA CountedInvariant == SemSpec => [](SemTyped /\ Counted)
<1>1. SemInit => Counted
  BY SemaphoreAssumption
  DEF SemInit, Init, Counted, CountWithinSize, RegisterCurrent
<1>2. SemTyped /\ Counted /\ [SemNext]_allSemVars => (SemTyped /\ Counted)'
  BY SemNextTyped, SemNextCounted
<1> QED
  BY <1>1, <1>2, SemInitTyped, PTL DEF SemSpec

\* The counter never exceeds nResources, even if tasks release what they never
\* acquired and tasks are preempted between the test and the store of a release.
THEOREM CounterWithinSize == SemSpec => []CountWithinSize
<1>1. Counted => CountWithinSize
  BY DEF Counted
<1> QED
  BY <1>1, CountedInvariant, PTL

-----------------------------------------------------------------------------
\* The semaphores implement SemaphoreSpec.

\* The variables of SemaphoreSpec, as Semaphore maps them.
SemAsking == [t \in Tasks |-> IF pc[t] \in SemAcquireLabels THEN arg[t] ELSE Nil]
SemGiving == [t \in Tasks |-> IF pc[t] \in {"sr_ldrex", "sr_strex"} THEN arg[t] ELSE Nil]

\* No semaphore is as large as its counter can count: then the sum of the test in
\* OS_SemaphoreRelease does not wrap.
SizesBelowWrap == \A s \in Semaphores : Resources[s] < UIntMax

\* A number below the modulus is its own remainder.
LEMMA RemainderBelow ==
  ASSUME NEW n \in Nat, NEW m \in Nat, n < m
  PROVE  n % m = n
OBVIOUS

\* Below the greatest value, a uint32_t does not wrap.
LEMMA IncrementBelowWrap ==
  ASSUME NEW n \in Nat, n < UIntMax
  PROVE  (n + 1) % (UIntMax + 1) = n + 1
BY CounterWidth, RemainderBelow

\* There is no number between n and n + 1.
LEMMA NothingBetween ==
  ASSUME NEW n \in Nat, NEW m \in Nat, n <= m, ~(n + 1 <= m)
  PROVE  n = m
OBVIOUS

\* The steps of SemaphoreSpec.
LEMMA CountingSteps ==
  ASSUME NEW t \in Tasks, NEW s \in Semaphores,
         \/ Counting!Ask(t, s) \/ Counting!Take(t, s) \/ Counting!Offer(t, s)
         \/ Counting!Give(t, s) \/ Counting!Refuse(t, s)
  PROVE  Counting!Next
BY DEF Counting!Next

\* What is left and what is asked and given changes only as SemaphoreSpec allows.
LEMMA SemStepCounting ==
  ASSUME SemShape, Counted, SizesBelowWrap, NEW t \in Tasks, SemMove(t)
  PROVE  \/ Counting!Next
         \/ counter' = counter /\ SemAsking' = SemAsking /\ SemGiving' = SemGiving
<1> USE SemaphoreAssumption, CounterWidth
    DEF SemShape, PcDomain, CountersTyped, CallNamesSemaphore, KernelTyped,
        KernelTypeOK, SemLabels, SemAcquireLabels, StoreLabels, Counted,
        CountWithinSize, RegisterCurrent, semVars, kernelVars, Executing, Goto,
        SemAsking, SemGiving
<1>1. ASSUME NEW s \in Semaphores, SemAcquireCall(t, s) PROVE Counting!Ask(t, s)
  <2>1. /\ pc[t] = "user" /\ pc' = [pc EXCEPT ![t] = "sa_ldrex"]
        /\ arg' = [arg EXCEPT ![t] = s] /\ counter' = counter
    BY <1>1 DEF SemAcquireCall, SemCall, Calling
  <2>2. SemAsking[t] = Nil /\ SemGiving[t] = Nil
    BY <2>1
  <2>3. SemAsking' = [SemAsking EXCEPT ![t] = s] /\ SemGiving' = SemGiving
    BY <2>1
  <2> QED
    BY <2>1, <2>2, <2>3 DEF Counting!Ask, Counting!Idle
<1>2. ASSUME NEW s \in Semaphores, GetCountCall(t, s)
      PROVE  counter' = counter /\ SemAsking' = SemAsking /\ SemGiving' = SemGiving
  BY <1>2 DEF GetCountCall, SemCall, Calling
<1>3. ASSUME NEW s \in Semaphores, SemReleaseCall(t, s) PROVE Counting!Offer(t, s)
  <2>1. /\ pc[t] = "user" /\ pc' = [pc EXCEPT ![t] = "sr_ldrex"]
        /\ arg' = [arg EXCEPT ![t] = s] /\ counter' = counter
    BY <1>3 DEF SemReleaseCall, SemCall, Calling
  <2>2. SemAsking[t] = Nil /\ SemGiving[t] = Nil
    BY <2>1
  <2>3. SemGiving' = [SemGiving EXCEPT ![t] = s] /\ SemAsking' = SemAsking
    BY <2>1
  <2> QED
    BY <2>1, <2>2, <2>3 DEF Counting!Offer, Counting!Idle
<1>4. CASE SemAcquireLdrex(t) \/ GetCountLdrex(t)
  <2>1. /\ counter' = counter /\ arg' = arg
        /\ \/ pc[t] = "sa_ldrex" /\ \/ pc' = [pc EXCEPT ![t] = "sa_wait"]
                                    \/ pc' = [pc EXCEPT ![t] = "sa_strex"]
           \/ pc[t] = "gc_ldrex" /\ pc' = [pc EXCEPT ![t] = "gc_strex"]
    BY <1>4 DEF SemAcquireLdrex, GetCountLdrex, LoadCounter, Local
  <2> QED
    BY <2>1
<1>5. CASE SemAcquireWait(t)
  BY <1>5 DEF SemAcquireWait
<1>6. CASE SemAcquireStrex(t)
  <2>1. CASE exclusive
    <3>1. PICK s \in Semaphores : arg[t] = s
      BY <1>6 DEF SemAcquireStrex
    <3>2. /\ pc[t] = "sa_strex" /\ counter[s] > 0
          /\ counter' = [counter EXCEPT ![s] = @ - 1]
      <4>1. pc[t] = "sa_strex" /\ loaded[t] = counter[s] /\ loaded[t] > 0
        BY <1>6, <2>1, <3>1 DEF SemAcquireStrex
      <4>2. (IF loaded[t] = 0 THEN 0 ELSE loaded[t] - 1) = counter[s] - 1
        BY <4>1
      <4>3. counter' = [counter EXCEPT ![s] = counter[s] - 1]
        BY <1>6, <2>1, <3>1, <4>2 DEF SemAcquireStrex, StoreCounter
      <4> QED
        BY <4>1, <4>3
    <3>3. \/ pc' = [pc EXCEPT ![t] = "user"] /\ arg' = [arg EXCEPT ![t] = Nil]
          \/ pc' = [pc EXCEPT ![t] = "sa_notify"] /\ arg' = arg
      BY <1>6, <2>1 DEF SemAcquireStrex, SemReturn, Return
    <3>4. /\ SemAsking[t] = s /\ SemAsking' = [SemAsking EXCEPT ![t] = Nil]
          /\ SemGiving' = SemGiving
      BY <3>1, <3>2, <3>3
    <3>5. Counting!Take(t, s)
      BY <3>2, <3>4 DEF Counting!Take
    <3> QED
      BY <3>5, CountingSteps
  <2>2. CASE ~exclusive
    BY <1>6, <2>2 DEF SemAcquireStrex, StoreCounter, SemReturn
  <2> QED
    BY <2>1, <2>2
<1>7. CASE SemReleaseLdrex(t)
  <2>1. CASE TooMany(arg[t])
    <3>1. PICK s \in Semaphores : arg[t] = s
      BY <1>7 DEF SemReleaseLdrex, Local
    <3>2. /\ pc[t] = "sr_ldrex" /\ pc' = [pc EXCEPT ![t] = "user"]
          /\ arg' = [arg EXCEPT ![t] = Nil] /\ counter' = counter
      BY <1>7, <2>1 DEF SemReleaseLdrex, SemReturn, Return
    <3>3. counter[s] = Resources[s]
      <4>1. /\ counter[s] \in Nat /\ Resources[s] \in Nat
            /\ counter[s] <= Resources[s] /\ counter[s] < UIntMax
        BY DEF SizesBelowWrap
      <4>2. (counter[s] + 1) % (UIntMax + 1) = counter[s] + 1
        BY <4>1, IncrementBelowWrap
      <4>3. ~(counter[s] + 1 <= Resources[s])
        BY <2>1, <3>1, <4>1, <4>2 DEF TooMany
      <4> QED
        BY <4>1, <4>3, NothingBetween
    <3>4. /\ SemGiving[t] = s /\ SemGiving' = [SemGiving EXCEPT ![t] = Nil]
          /\ SemAsking' = SemAsking
      BY <3>1, <3>2
    <3>5. Counting!Refuse(t, s)
      BY <3>2, <3>3, <3>4 DEF Counting!Refuse
    <3> QED
      BY <3>5, CountingSteps
  <2>2. CASE ~TooMany(arg[t])
    <3>1. /\ pc[t] = "sr_ldrex" /\ pc' = [pc EXCEPT ![t] = "sr_strex"]
          /\ arg' = arg /\ counter' = counter
      BY <1>7, <2>2 DEF SemReleaseLdrex, LoadCounter, Local
    <3> QED
      BY <3>1
  <2> QED
    BY <2>1, <2>2
<1>8. CASE SemReleaseStrex(t)
  <2>1. CASE exclusive
    <3>1. PICK s \in Semaphores : arg[t] = s
      BY <1>8 DEF SemReleaseStrex
    <3>2. /\ pc[t] = "sr_strex" /\ loaded[t] = counter[s] /\ ~TooMany(s)
          /\ counter' = [counter EXCEPT ![s] = (loaded[t] + 1) % (UIntMax + 1)]
      BY <1>8, <2>1, <3>1 DEF SemReleaseStrex, StoreCounter
    <3>3. (counter[s] + 1) % (UIntMax + 1) = counter[s] + 1
      <4>1. counter[s] \in Nat /\ counter[s] < UIntMax
        BY DEF SizesBelowWrap
      <4> QED
        BY <4>1, IncrementBelowWrap
    <3>4. counter[s] < Resources[s] /\ counter' = [counter EXCEPT ![s] = @ + 1]
      <4>1. counter[s] \in Nat /\ Resources[s] \in Nat /\ counter[s] + 1 <= Resources[s]
        BY <3>2, <3>3 DEF TooMany
      <4>2. counter[s] < Resources[s]
        BY <4>1
      <4> QED
        BY <3>2, <3>3, <4>2
    <3>5. \/ pc' = [pc EXCEPT ![t] = "user"] /\ arg' = [arg EXCEPT ![t] = Nil]
          \/ pc' = [pc EXCEPT ![t] = "sr_notify"] /\ arg' = arg
      BY <1>8, <2>1 DEF SemReleaseStrex, SemReturn, Return
    <3>6. /\ SemGiving[t] = s /\ SemGiving' = [SemGiving EXCEPT ![t] = Nil]
          /\ SemAsking' = SemAsking
      BY <3>1, <3>2, <3>5
    <3>7. Counting!Give(t, s)
      BY <3>4, <3>6 DEF Counting!Give
    <3> QED
      BY <3>7, CountingSteps
  <2>2. CASE ~exclusive
    BY <1>8, <2>2 DEF SemReleaseStrex, StoreCounter, SemReturn
  <2> QED
    BY <2>1, <2>2
<1>9. CASE SemNotify(t)
  BY <1>9 DEF SemNotify, Return
<1>10. CASE GetCountStrex(t)
  <2>1. counter' = counter
    BY <1>10 DEF GetCountStrex, StoreCounter
  <2>2. /\ pc[t] = "gc_strex"
        /\ \/ pc' = [pc EXCEPT ![t] = "user"] /\ arg' = [arg EXCEPT ![t] = Nil]
           \/ pc' = [pc EXCEPT ![t] = "gc_ldrex"] /\ arg' = arg
    BY <1>10 DEF GetCountStrex, Return
  <2> QED
    BY <2>1, <2>2
<1> QED
  BY <1>1, <1>2, <1>3, <1>4, <1>5, <1>6, <1>7, <1>8, <1>9, <1>10, CountingSteps
  DEF SemMove, SemBody

\* Every execution of the semaphores is one of SemaphoreSpec: an acquire takes one
\* resource, once, while one is available, a release gives one back, and only a full
\* semaphore refuses it.
THEOREM SemaphoreImplementsSpec ==
  ASSUME SizesBelowWrap
  PROVE  SemSpec => SemaphoreSpecHolds
<1>1. SemInit => Counting!Init
  BY KernelAssumption DEF SemInit, Init, Counting!Init, SemAcquireLabels
<1>2. SemTyped /\ Counted /\ [SemNext]_allSemVars
        => [Counting!Next]_<<counter, SemAsking, SemGiving>>
  <2> SUFFICES ASSUME SemTyped, Counted, [SemNext]_allSemVars
               PROVE  \/ Counting!Next
                      \/ counter' = counter /\ SemAsking' = SemAsking
                           /\ SemGiving' = SemGiving
    OBVIOUS
  <2>1. CASE UNCHANGED allSemVars
    BY <2>1 DEF allSemVars, semVars, vars, taskVars, SemAsking, SemGiving
  <2>0. SemShape
    BY SemTypedShape
  <2>2. ASSUME \/ Handlers
               \/ \E t \in Tasks : TaskStep(t) \/ SemEndStep(t),
               UNCHANGED semVars
        PROVE  counter' = counter /\ SemAsking' = SemAsking /\ SemGiving' = SemGiving
    BY <2>0, <2>2, SemOtherStepPc
    DEF SemShape, SemEndStep, semVars, SemAsking, SemGiving, SemLabels, SemAcquireLabels
  <2>3. ASSUME NEW t \in Tasks, NEW s \in Semaphores, OS_SemaphoreNotify(t, s)
        PROVE  counter' = counter /\ SemAsking' = SemAsking /\ SemGiving' = SemGiving
    BY <2>0, <2>3, SemaphoreNotifyTyped
    DEF SemShape, OS_SemaphoreNotify, semVars, SemAsking, SemGiving
  <2>4. ASSUME NEW t \in Tasks, SemStep(t)
        PROVE  \/ Counting!Next
               \/ counter' = counter /\ SemAsking' = SemAsking /\ SemGiving' = SemGiving
    BY <2>0, <2>4, SemStepMoves, SemStepCounting
  <2> QED
    BY <2>1, <2>2, <2>3, <2>4 DEF SemNext, SemThread
<1> QED
  BY <1>1, <1>2, CountedInvariant, PTL
  DEF SemSpec, SemaphoreSpecHolds, Counting!Spec, SemAsking, SemGiving

-----------------------------------------------------------------------------
\* No wakeup is lost.

\* The semaphore calls keep every task in its place.
LEMMA SemStepPlaced ==
  ASSUME Closed, Placed, SemShape, NEW t \in Tasks, SemMove(t) PROVE Placed'
<1> USE DEF Executing, Goto, Return, Calling, Local, Live, SleepWindow, cpuVars, queueVars,
            kernelVars
<1>0. KernelTyped'
  BY SemStepTyped DEF SemShape
<1>1. CASE \E s \in Semaphores :
             SemAcquireCall(t, s) \/ GetCountCall(t, s) \/ SemReleaseCall(t, s)
  BY <1>0, <1>1, LocalPlaced DEF SemAcquireCall, GetCountCall, SemReleaseCall, SemCall
<1>2. CASE SemAcquireLdrex(t) \/ GetCountLdrex(t)
  BY <1>0, <1>2, LocalPlaced DEF SemAcquireLdrex, GetCountLdrex
<1>3. CASE SemAcquireWait(t)
  <2>1. arg[t] \in Objects
    BY <1>3, SemaphoreAssumption
    DEF SemAcquireWait, SemShape, CallNamesSemaphore, SemLabels, SemAcquireLabels
  <2> QED
    BY <1>0, <1>3, <2>1, WaitPlaced DEF SemAcquireWait
<1>4. CASE SemAcquireStrex(t)
  BY <1>0, <1>4, LocalPlaced DEF SemAcquireStrex, StoreCounter, SemReturn
<1>5. CASE SemReleaseLdrex(t)
  BY <1>0, <1>5, LocalPlaced DEF SemReleaseLdrex, SemReturn
<1>6. CASE SemReleaseStrex(t)
  BY <1>0, <1>6, LocalPlaced DEF SemReleaseStrex, StoreCounter, SemReturn
<1>7. CASE SemNotify(t)
  <2>1. arg[t] \in Objects
    BY <1>7, SemaphoreAssumption DEF SemNotify, SemShape, CallNamesSemaphore, SemLabels
  <2> QED
    BY <1>0, <1>7, <2>1, NotifyPlaced DEF SemNotify
<1>8. CASE GetCountStrex(t)
  BY <1>0, <1>8, LocalPlaced DEF GetCountStrex, StoreCounter
<1> QED
  BY <1>1, <1>2, <1>3, <1>4, <1>5, <1>6, <1>7, <1>8 DEF SemMove, SemBody

\* So does OS_SemaphoreNotify.
LEMMA SemaphoreNotifyPlaced ==
  ASSUME Closed, Placed, NEW t \in Tasks, NEW s \in Semaphores, OS_SemaphoreNotify(t, s)
  PROVE  Placed'
<1>1. KernelTyped'
  BY SemaphoreNotifyTyped DEF Placed
<1> QED
  BY <1>1, NotifyPlaced, SemaphoreAssumption
  DEF OS_SemaphoreNotify, OS_Notify, Calling, Executing, Goto, Live, SleepWindow

\* Who will notify a semaphore, and who is awake in OS_SemaphoreAquire.
Notifiers(s) == {t \in Tasks : SemNotifying(t, s)}
Takers(s)    == {t \in Tasks \ waiting[s].tasks : SemAcquiring(t, s)}

\* Who waits for a resource waits in the retry loop of OS_SemaphoreAquire.
SemWaitersAcquire ==
  \A s \in Semaphores : \A t \in waiting[s].tasks : pc[t] = "sa_strex" /\ arg[t] = s

\* A task whose OS_Wait would not be refused waits while every resource is about to be
\* notified: between LDREX and the SVC none can have come back unnoticed.
WaitsWhileEmpty ==
  \A t \in Tasks :
    pc[t] = "sa_wait" /\ check[t] = checkCode =>
      counter[arg[t]] <= Cardinality(Notifiers(arg[t]))

SemWakeups == CodesRead /\ SemWaitersAcquire /\ WaitsWhileEmpty /\ SemNoLostWakeup

\* The number of tasks in a set of tasks.
LEMMA TasksCounted ==
  ASSUME Closed, NEW S \in SUBSET Tasks
  PROVE  /\ IsFiniteSet(S) /\ Cardinality(S) \in Nat
         /\ \A T \in SUBSET S : Cardinality(T) <= Cardinality(S)
         /\ \A t \in Tasks \ S : Cardinality(S \cup {t}) = Cardinality(S) + 1
         /\ \A t \in S : Cardinality(S \ {t}) = Cardinality(S) - 1
<1>1. IsFiniteSet(S)
  BY FS_Subset DEF Closed
<1> QED
  BY <1>1, FS_CardinalityType, FS_Subset, FS_AddElement, FS_RemoveElement

\* What a step of a semaphore call can mean to those who wait.  It leaves the counters
\* and the queues alone, its task no less ready to notify or to take than before, ...
KeepsResources(t) ==
  /\ UNCHANGED <<counter, waiting, checkCode>>
  /\ \A s \in Semaphores :
       /\ SemNotifying(t, s) => SemNotifying(t, s)'
       /\ SemAcquiring(t, s) => SemAcquiring(t, s)'
  /\ pc'[t] = "sa_wait" => counter[arg'[t]] = 0

\* ... or it takes a resource, ...
TakesResource(t) ==
  /\ pc[t] = "sa_strex" /\ pc'[t] \in {"user", "sa_notify"}
  /\ counter[arg[t]] > 0
  /\ counter' = [counter EXCEPT ![arg[t]] = @ - 1]
  /\ UNCHANGED <<waiting, checkCode>>

\* ... or it gives one back and is going to notify, if the sum did not wrap to 0, ...
GivesResource(t) ==
  /\ pc[t] = "sr_strex"
  /\ \/ pc'[t] = "user" /\ counter' = [counter EXCEPT ![arg[t]] = 0]
     \/ /\ pc'[t] = "sr_notify" /\ arg'[t] = arg[t]
        /\ counter' = [counter EXCEPT ![arg[t]] = @ + 1]
  /\ UNCHANGED <<waiting, checkCode>>

\* ... or it puts its task into the queue of the semaphore, ...
StartsSemWait(t) ==
  /\ pc[t] = "sa_wait" /\ check[t] = checkCode
  /\ pc'[t] = "sa_strex" /\ arg'[t] = arg[t]
  /\ waiting'[arg[t]].tasks = waiting[arg[t]].tasks \cup {t}
  /\ \A s \in Semaphores \ {arg[t]} : waiting'[s] = waiting[s]
  /\ UNCHANGED <<counter, checkCode>>

\* ... or it notifies, which takes one task out of the queue, if there is one.
Notified(s) ==
  /\ \/ waiting[s].tasks = {} /\ waiting'[s] = waiting[s]
     \/ \E u \in waiting[s].tasks : waiting'[s].tasks = waiting[s].tasks \ {u}
  /\ \A p \in Semaphores \ {s} : waiting'[p] = waiting[p]
  /\ checkCode' = checkCode + 1
  /\ UNCHANGED counter

WakesTaker(t) ==
  /\ pc[t] \in {"sa_notify", "sr_notify"} /\ pc'[t] = "user"
  /\ Notified(arg[t])

\* The SVC of a notification.
LEMMA NotifiesSemaphore ==
  ASSUME Closed, Placed, NEW s \in Semaphores, _svc_OS_Notify(s), UNCHANGED counter
  PROVE  Notified(s)
<1>1. s \in Objects /\ Semaphores \subseteq Objects
  BY SemaphoreAssumption
<1>2. checkCode' = checkCode + 1
  BY DEF _svc_OS_Notify
<1>3. CASE waiting[s].tasks = {}
  BY <1>2, <1>3 DEF Notified, _svc_OS_Notify, FPS_TaskNotifyCallback
<1>4. CASE waiting[s].tasks # {}
  BY <1>1, <1>2, <1>4, NotifyMoves DEF Notified, Placed
<1> QED
  BY <1>3, <1>4

\* Every step of a semaphore call is one of these, and sets the check code of its task
\* to one that is not from the future.
LEMMA SemStepWaiting ==
  ASSUME Closed, Placed, SemShape, Counted, NEW t \in Tasks, SemMove(t)
  PROVE  /\ \/ KeepsResources(t) \/ TakesResource(t) \/ GivesResource(t)
            \/ StartsSemWait(t) \/ WakesTaker(t)
         /\ check'[t] \in {check[t], checkCode, 0}
<1> USE SemaphoreAssumption, CounterWidth
    DEF SemShape, PcDomain, CountersTyped, CallNamesSemaphore, KernelTyped, KernelTypeOK,
        SemLabels, SemAcquireLabels, semVars, kernelVars, queueVars, Executing, Goto,
        SemNotifying, SemAcquiring, KeepsResources
<1>1. CASE \E s \in Semaphores :
             SemAcquireCall(t, s) \/ GetCountCall(t, s) \/ SemReleaseCall(t, s)
  BY <1>1 DEF SemAcquireCall, GetCountCall, SemReleaseCall, SemCall, Calling
<1>2. CASE SemAcquireLdrex(t) \/ GetCountLdrex(t)
  BY <1>2 DEF SemAcquireLdrex, GetCountLdrex, LoadCounter, Local
<1>3. CASE SemAcquireWait(t)
  <2>1. /\ arg[t] \in Semaphores /\ _svc_OS_Wait(arg[t], check[t]) /\ counter' = counter
        /\ pc' = [pc EXCEPT ![t] = "sa_strex"] /\ pc[t] = "sa_wait"
        /\ arg' = arg /\ check' = check /\ currentTCB = t
    BY <1>3 DEF SemAcquireWait
  <2>2. CASE check[t] = checkCode
    <3>1. t \notin waiting[arg[t]].tasks
      BY <1>3, <2>1, CurrentNotWaiting DEF SemAcquireWait, SleepWindow
    <3>2. StartsSemWait(t)
      BY <2>1, <2>2, <3>1, WaitMoves DEF StartsSemWait, _svc_OS_Wait
    <3> QED
      BY <2>1, <3>2
  <2>3. CASE check[t] # checkCode
    BY <2>1, <2>3 DEF _svc_OS_Wait, FPS_TaskWaitCallback
  <2> QED
    BY <2>2, <2>3
<1>4. CASE SemAcquireStrex(t)
  <2>1. /\ pc[t] = "sa_strex" /\ arg[t] \in Semaphores
        /\ UNCHANGED <<waiting, checkCode>>
        /\ check'[t] = check[t] \/ check'[t] = 0
    BY <1>4 DEF SemAcquireStrex, StoreCounter, SemReturn, Return
  <2>2. CASE exclusive
    <3>1. loaded[t] = counter[arg[t]] /\ loaded[t] > 0
      BY <1>4, <2>2 DEF SemAcquireStrex, Counted, RegisterCurrent, StoreLabels
    <3>2. (IF loaded[t] = 0 THEN 0 ELSE loaded[t] - 1) = counter[arg[t]] - 1
      BY <3>1
    <3>3. counter' = [counter EXCEPT ![arg[t]] = @ - 1]
      BY <1>4, <2>2, <3>2 DEF SemAcquireStrex, StoreCounter
    <3>4. pc'[t] \in {"user", "sa_notify"}
      BY <1>4, <2>2 DEF SemAcquireStrex, SemReturn, Return
    <3>5. counter[arg[t]] > 0
      BY <3>1
    <3> QED
      BY ONLY <2>1, <3>3, <3>4, <3>5 DEF TakesResource
  <2>3. CASE ~exclusive
    <3>1. counter' = counter /\ pc'[t] = "sa_ldrex" /\ arg' = arg
      BY <1>4, <2>3 DEF SemAcquireStrex, StoreCounter, SemReturn
    <3> QED
      BY <2>1, <3>1
  <2> QED
    BY <2>2, <2>3
<1>5. CASE SemReleaseLdrex(t)
  <2>1. counter' = counter /\ pc'[t] \in {"user", "sr_strex"}
    BY <1>5 DEF SemReleaseLdrex, SemReturn, Return, LoadCounter, Local
  <2>2. /\ pc[t] = "sr_ldrex" /\ UNCHANGED <<waiting, checkCode>>
        /\ check'[t] = check[t] \/ check'[t] = 0
    BY <1>5 DEF SemReleaseLdrex, SemReturn, Return, Local
  <2> QED
    BY <2>1, <2>2
<1>6. CASE SemReleaseStrex(t)
  <2> DEFINE sum == (loaded[t] + 1) % (UIntMax + 1)
  <2>1. /\ pc[t] = "sr_strex" /\ arg[t] \in Semaphores
        /\ UNCHANGED <<waiting, checkCode>>
        /\ check'[t] = check[t] \/ check'[t] = 0
    BY <1>6 DEF SemReleaseStrex, StoreCounter, SemReturn, Return
  <2>2. CASE exclusive /\ sum = 0
    <3>1. counter' = [counter EXCEPT ![arg[t]] = sum] /\ SemReturn(t)
      BY ONLY <1>6, <2>2 DEF SemReleaseStrex, StoreCounter
    <3>2. counter' = [counter EXCEPT ![arg[t]] = 0]
      BY ONLY <2>2, <3>1
    <3>3. pc'[t] = "user"
      BY ONLY <3>1, t \in Tasks, PcDomain DEF SemReturn, Return, Goto, PcDomain
    <3> QED
      BY ONLY <2>1, <3>2, <3>3 DEF GivesResource
  <2>3. CASE exclusive /\ sum # 0
    <3>1. /\ counter' = [counter EXCEPT ![arg[t]] = sum]
          /\ pc'[t] = "sr_notify" /\ arg' = arg
      BY <1>6, <2>3 DEF SemReleaseStrex, StoreCounter, SemReturn
    <3>2. loaded[t] = counter[arg[t]]
      BY <1>6, <2>3 DEF SemReleaseStrex, Counted, RegisterCurrent, StoreLabels
    <3>3. sum = loaded[t] + 1
      <4>1. loaded[t] \in 0 .. UIntMax
        OBVIOUS
      <4> HIDE DEF sum
      <4>2. sum \in {0, loaded[t] + 1}
        BY ONLY <4>1, IncrementAlternatives DEF sum
      <4> QED
        BY ONLY <2>3, <4>2
    <3>4. counter' = [counter EXCEPT ![arg[t]] = @ + 1]
      BY <3>1, <3>2, <3>3
    <3> QED
      BY ONLY <2>1, <3>1, <3>4 DEF GivesResource
  <2>4. CASE ~exclusive
    <3>1. counter' = counter /\ pc'[t] = "sr_ldrex" /\ arg' = arg
      BY <1>6, <2>4 DEF SemReleaseStrex, StoreCounter, SemReturn
    <3> QED
      BY <2>1, <3>1
  <2> QED
    BY <2>2, <2>3, <2>4
<1>7. CASE SemNotify(t)
  <2>1. /\ arg[t] \in Semaphores /\ _svc_OS_Notify(arg[t]) /\ counter' = counter
        /\ pc[t] \in {"sa_notify", "sr_notify"} /\ pc'[t] = "user" /\ check'[t] = 0
    BY <1>7 DEF SemNotify, Return
  <2>2. Notified(arg[t])
    BY <2>1, NotifiesSemaphore
  <2> QED
    BY <2>1, <2>2 DEF WakesTaker
<1>8. CASE GetCountStrex(t)
  <2>1. counter' = counter
    <3>1. exclusive => loaded[t] = counter[arg[t]]
      BY <1>8 DEF GetCountStrex, Counted, RegisterCurrent, StoreLabels
    <3> QED
      BY <1>8, <3>1 DEF GetCountStrex, StoreCounter
  <2>2. /\ pc[t] = "gc_strex" /\ pc'[t] \in {"user", "gc_ldrex"}
        /\ UNCHANGED <<waiting, checkCode>>
        /\ check'[t] = check[t] \/ check'[t] = 0
    BY <1>8 DEF GetCountStrex, StoreCounter, Return
  <2> QED
    BY <2>1, <2>2
<1> QED
  BY <1>1, <1>2, <1>3, <1>4, <1>5, <1>6, <1>7, <1>8 DEF SemMove, SemBody

\* What such a step makes of the tasks that will notify a semaphore.
LEMMA NotifiersKept ==
  ASSUME Closed, SemShape, NEW t \in Tasks, NEW s \in Semaphores,
         \A u \in Tasks \ {t} : pc'[u] = pc[u] /\ arg'[u] = arg[u],
         SemNotifying(t, s) => SemNotifying(t, s)'
  PROVE  Cardinality(Notifiers(s)) <= Cardinality(Notifiers(s)')
<1>1. Notifiers(s) \subseteq Notifiers(s)' /\ Notifiers(s)' \subseteq Tasks
  BY DEF Notifiers, SemNotifying
<1> QED
  BY <1>1, TasksCounted

\* ... and of those that will take what they find.
LEMMA TakersKept ==
  ASSUME Closed, SemShape, NEW t \in Tasks, NEW s \in Semaphores,
         \A u \in Tasks \ {t} : pc'[u] = pc[u] /\ arg'[u] = arg[u],
         SemAcquiring(t, s) => SemAcquiring(t, s)',
         waiting'[s].tasks = waiting[s].tasks
  PROVE  Cardinality(Takers(s)) <= Cardinality(Takers(s)')
<1>1. Takers(s) \subseteq Takers(s)' /\ Takers(s)' \subseteq Tasks
  BY DEF Takers, SemAcquiring
<1> QED
  BY <1>1, TasksCounted

\* After a notification that found a waiting task there is one task more to take
\* something, and at most one less to notify.
LEMMA NotifiedBalance ==
  ASSUME Closed, SemShape, SemWakeups, NEW t \in Tasks, NEW s \in Semaphores,
         \A u \in Tasks \ {t} : pc'[u] = pc[u] /\ arg'[u] = arg[u],
         ~SemAcquiring(t, s), t \notin waiting[s].tasks,
         Notified(s), waiting'[s].tasks # {}
  PROVE  counter'[s] <= Cardinality(Notifiers(s)') + Cardinality(Takers(s)')
<1>1. waiting[s].tasks \subseteq Tasks
  BY SemaphoreAssumption DEF SemShape, KernelTyped, KernelTypeOK, Queue
<1>2. PICK u \in waiting[s].tasks : waiting'[s].tasks = waiting[s].tasks \ {u}
  BY DEF Notified
<1>3. /\ u \in Tasks /\ u # t /\ u \notin Takers(s)
      /\ pc'[u] = "sa_strex" /\ arg'[u] = s
  BY <1>1, <1>2 DEF SemWakeups, SemWaitersAcquire, Takers
<1>4. Takers(s) \cup {u} \subseteq Takers(s)'
  BY <1>2, <1>3 DEF Takers, SemAcquiring, SemAcquireLabels
<1>5. Notifiers(s) \ {t} \subseteq Notifiers(s)'
  BY DEF Notifiers, SemNotifying
<1>6. /\ Notifiers(s) \subseteq Tasks /\ Notifiers(s)' \subseteq Tasks
      /\ Takers(s) \subseteq Tasks /\ Takers(s)' \subseteq Tasks
  BY DEF Notifiers, Takers
<1>7. Cardinality(Takers(s)) + 1 <= Cardinality(Takers(s)')
  <2>1. Cardinality(Takers(s) \cup {u}) = Cardinality(Takers(s)) + 1
    BY <1>3, <1>6, TasksCounted
  <2> QED
    BY <1>4, <1>6, <2>1, TasksCounted
<1>8. Cardinality(Notifiers(s)) - 1 <= Cardinality(Notifiers(s)')
  <2>1. CASE t \in Notifiers(s)
    <3>1. Cardinality(Notifiers(s) \ {t}) = Cardinality(Notifiers(s)) - 1
      BY <1>6, <2>1, TasksCounted
    <3> QED
      BY <1>5, <1>6, <3>1, TasksCounted
  <2>2. CASE t \notin Notifiers(s)
    <3>1. Notifiers(s) \subseteq Notifiers(s)'
      BY <1>5, <2>2
    <3>2. Cardinality(Notifiers(s)) <= Cardinality(Notifiers(s)')
      BY <1>6, <3>1, TasksCounted
    <3> QED
      BY <1>6, <3>2, TasksCounted
  <2> QED
    BY <2>1, <2>2
<1>9. counter[s] <= Cardinality(Notifiers(s)) + Cardinality(Takers(s))
  BY <1>2 DEF SemWakeups, SemNoLostWakeup, Notifiers, Takers
<1>10. /\ counter'[s] = counter[s] /\ counter[s] \in Nat
       /\ Cardinality(Notifiers(s)) \in Nat /\ Cardinality(Notifiers(s)') \in Nat
       /\ Cardinality(Takers(s)) \in Nat /\ Cardinality(Takers(s)') \in Nat
  <2>1. counter'[s] = counter[s] /\ counter[s] \in Nat
    BY CounterWidth DEF Notified, SemShape, CountersTyped
  <2> QED
    BY <1>6, <2>1, TasksCounted
<1> QED
  BY <1>7, <1>8, <1>9, <1>10

\* A step of a semaphore call keeps the balance of every semaphore that has waiters.
LEMMA SemStepBalance ==
  ASSUME Closed, Placed, SemShape, Counted, SemWakeups, NEW t \in Tasks, SemMove(t),
         NEW s \in Semaphores, waiting'[s].tasks # {}
  PROVE  counter'[s] <= Cardinality(Notifiers(s)') + Cardinality(Takers(s)')
<1>1. \A u \in Tasks \ {t} : pc'[u] = pc[u] /\ arg'[u] = arg[u]
  BY SemStepOthers
<1>2. t \notin waiting[s].tasks
  BY CurrentNotWaiting, SemStepCurrent, SemaphoreAssumption
  DEF SleepWindow, SemLabels, SemAcquireLabels
<1>3. /\ Notifiers(s) \subseteq Tasks /\ Notifiers(s)' \subseteq Tasks
      /\ Takers(s) \subseteq Tasks /\ Takers(s)' \subseteq Tasks
  BY DEF Notifiers, Takers
<1>4. /\ Cardinality(Notifiers(s)) \in Nat /\ Cardinality(Notifiers(s)') \in Nat
      /\ Cardinality(Takers(s)) \in Nat /\ Cardinality(Takers(s)') \in Nat
  BY <1>3, TasksCounted
<1>5. counter[s] \in Nat /\ counter \in [Semaphores -> Nat]
  BY CounterWidth DEF SemShape, CountersTyped
<1>6. waiting[s].tasks # {} =>
        counter[s] <= Cardinality(Notifiers(s)) + Cardinality(Takers(s))
  BY DEF SemWakeups, SemNoLostWakeup, Notifiers, Takers
<1>7. CASE KeepsResources(t)
  <2>1. Cardinality(Notifiers(s)) <= Cardinality(Notifiers(s)')
    BY <1>1, <1>7, NotifiersKept DEF KeepsResources
  <2>2. Cardinality(Takers(s)) <= Cardinality(Takers(s)')
    BY <1>1, <1>7, TakersKept DEF KeepsResources
  <2> QED
    BY <1>4, <1>5, <1>6, <1>7, <2>1, <2>2 DEF KeepsResources
<1>8. CASE TakesResource(t)
  <2>1. Cardinality(Notifiers(s)) <= Cardinality(Notifiers(s)')
    BY <1>1, <1>8, NotifiersKept DEF TakesResource, SemNotifying
  <2>2. CASE s = arg[t]
    <3>1. Takers(s) \ {t} \subseteq Takers(s)' /\ t \in Takers(s)
      BY <1>1, <1>2, <1>8, <2>2
      DEF TakesResource, Takers, SemAcquiring, SemAcquireLabels
    <3>2. Cardinality(Takers(s)) - 1 <= Cardinality(Takers(s)')
      <4>1. Cardinality(Takers(s) \ {t}) = Cardinality(Takers(s)) - 1
        BY <1>3, <3>1, TasksCounted
      <4> QED
        BY <1>3, <3>1, <4>1, TasksCounted
    <3>3. counter'[s] = counter[s] - 1 /\ waiting' = waiting
      BY <1>5, <1>8, <2>2 DEF TakesResource
    <3> QED
      BY <1>4, <1>5, <1>6, <2>1, <3>2, <3>3
  <2>3. CASE s # arg[t]
    <3>1. Cardinality(Takers(s)) <= Cardinality(Takers(s)')
      BY <1>1, <1>8, <2>3, TakersKept DEF TakesResource, SemAcquiring
    <3>2. counter'[s] = counter[s] /\ waiting' = waiting
      BY <1>5, <1>8, <2>3 DEF TakesResource
    <3> QED
      BY <1>4, <1>5, <1>6, <2>1, <3>1, <3>2
  <2> QED
    BY <2>2, <2>3
<1>9. CASE GivesResource(t)
  <2>1. Cardinality(Takers(s)) <= Cardinality(Takers(s)')
    BY <1>1, <1>9, TakersKept DEF GivesResource, SemAcquiring, SemAcquireLabels
  <2>2. CASE counter'[s] <= counter[s]
    <3>1. Cardinality(Notifiers(s)) <= Cardinality(Notifiers(s)')
      BY <1>1, <1>9, NotifiersKept DEF GivesResource, SemNotifying
    <3>2. counter'[s] \in Nat /\ waiting' = waiting
      BY <1>5, <1>9 DEF GivesResource
    <3> QED
      BY <1>4, <1>5, <1>6, <2>1, <2>2, <3>1, <3>2
  <2>3. CASE ~(counter'[s] <= counter[s])
    <3>1. /\ s = arg[t] /\ pc[t] = "sr_strex" /\ pc'[t] = "sr_notify" /\ arg'[t] = s
          /\ counter'[s] = counter[s] + 1 /\ waiting' = waiting
      BY <1>5, <1>9, <2>3 DEF GivesResource
    <3>2. Notifiers(s) \cup {t} \subseteq Notifiers(s)' /\ t \notin Notifiers(s)
      BY <1>1, <3>1 DEF Notifiers, SemNotifying
    <3>3. Cardinality(Notifiers(s)) + 1 <= Cardinality(Notifiers(s)')
      <4>1. Cardinality(Notifiers(s) \cup {t}) = Cardinality(Notifiers(s)) + 1
        BY <1>3, <3>2, TasksCounted
      <4> QED
        BY <1>3, <3>2, <4>1, TasksCounted
    <3> QED
      BY <1>4, <1>5, <1>6, <2>1, <3>1, <3>3
  <2> QED
    BY <2>2, <2>3
<1>10. CASE StartsSemWait(t)
  <2>1. Cardinality(Notifiers(s)) <= Cardinality(Notifiers(s)')
    BY <1>1, <1>10, NotifiersKept DEF StartsSemWait, SemNotifying
  <2>2. CASE s = arg[t]
    <3>1. counter[s] <= Cardinality(Notifiers(s))
      BY <1>10, <2>2 DEF StartsSemWait, SemWakeups, WaitsWhileEmpty
    <3>2. counter' = counter
      BY <1>10 DEF StartsSemWait
    <3> QED
      BY <1>4, <1>5, <2>1, <3>1, <3>2
  <2>3. CASE s # arg[t]
    <3>1. counter' = counter /\ waiting'[s] = waiting[s]
      BY <1>10, <2>3 DEF StartsSemWait
    <3>2. Cardinality(Takers(s)) <= Cardinality(Takers(s)')
      BY <1>1, <2>3, <3>1, TakersKept DEF SemAcquiring
    <3> QED
      BY <1>4, <1>5, <1>6, <2>1, <3>1, <3>2
  <2> QED
    BY <2>2, <2>3
<1>11. CASE WakesTaker(t)
  <2>1. CASE s = arg[t]
    <3>1. ~SemAcquiring(t, s) /\ Notified(s)
      BY <1>11, <2>1 DEF WakesTaker, SemAcquiring, SemAcquireLabels
    <3> QED
      BY <1>1, <1>2, <3>1, NotifiedBalance
  <2>2. CASE s # arg[t]
    <3>1. counter' = counter /\ waiting'[s] = waiting[s]
      BY <1>11, <2>2 DEF WakesTaker, Notified
    <3>2. Cardinality(Notifiers(s)) <= Cardinality(Notifiers(s)')
      BY <1>1, <2>2, NotifiersKept DEF SemNotifying
    <3>3. Cardinality(Takers(s)) <= Cardinality(Takers(s)')
      BY <1>1, <2>2, <3>1, TakersKept DEF SemAcquiring
    <3> QED
      BY <1>4, <1>5, <1>6, <3>1, <3>2, <3>3
  <2> QED
    BY <2>1, <2>2
<1> QED
  BY <1>7, <1>8, <1>9, <1>10, <1>11, SemStepWaiting

\* A step of a semaphore call loses no wakeup.
LEMMA SemStepWakeups ==
  ASSUME Closed, Placed, SemShape, Counted, SemWakeups, NEW t \in Tasks, SemMove(t)
  PROVE  SemWakeups'
<1>1. \/ KeepsResources(t) \/ TakesResource(t) \/ GivesResource(t)
      \/ StartsSemWait(t) \/ WakesTaker(t)
  BY SemStepWaiting
<1>2. \A u \in Tasks \ {t} : pc'[u] = pc[u] /\ arg'[u] = arg[u] /\ check'[u] = check[u]
  BY SemStepOthers
<1>3. \A s \in Semaphores : waiting[s].tasks \subseteq Tasks /\ t \notin waiting[s].tasks
  BY CurrentNotWaiting, SemStepCurrent, SemaphoreAssumption
  DEF SleepWindow, SemLabels, SemAcquireLabels, SemShape, KernelTyped, KernelTypeOK, Queue
<1>4. checkCode \in Nat /\ \A u \in Tasks : check[u] \in Nat /\ check[u] <= checkCode
  BY DEF SemShape, KernelTyped, KernelTypeOK, SemWakeups, CodesRead
<1>5. CodesRead'
  <2>1. check'[t] \in {check[t], checkCode, 0}
    BY SemStepWaiting
  <2>2. checkCode' = checkCode \/ checkCode' = checkCode + 1
    BY <1>1 DEF KeepsResources, TakesResource, GivesResource, StartsSemWait, WakesTaker,
                Notified
  <2> QED
    BY <1>2, <1>4, <2>1, <2>2 DEF CodesRead
<1>6. SemWaitersAcquire'
  <2> SUFFICES ASSUME NEW s \in Semaphores, NEW u \in waiting'[s].tasks
               PROVE  pc'[u] = "sa_strex" /\ arg'[u] = s
    BY DEF SemWaitersAcquire
  <2>1. CASE u \in waiting[s].tasks
    BY <1>2, <1>3, <2>1 DEF SemWakeups, SemWaitersAcquire
  <2>2. CASE u \notin waiting[s].tasks
    <3>1. StartsSemWait(t) /\ s = arg[t] /\ u = t
      BY <1>1, <2>2 DEF KeepsResources, TakesResource, GivesResource, StartsSemWait,
                        WakesTaker, Notified
    <3> QED
      BY <3>1 DEF StartsSemWait
  <2> QED
    BY <2>1, <2>2
<1>7. WaitsWhileEmpty'
  <2>1. \A v \in Tasks : pc'[v] = "sa_wait" => arg'[v] \in Semaphores
    BY SemStepCounters DEF CallNamesSemaphore, SemLabels, SemAcquireLabels
  <2> SUFFICES ASSUME NEW v \in Tasks, NEW s \in Semaphores,
                      pc'[v] = "sa_wait", check'[v] = checkCode', arg'[v] = s
               PROVE  counter'[s] <= Cardinality(Notifiers(s)')
    BY <2>1 DEF WaitsWhileEmpty, Notifiers, SemNotifying
  <2>2. Notifiers(s)' \subseteq Tasks /\ Cardinality(Notifiers(s)') \in Nat
    <3>1. Notifiers(s)' \subseteq Tasks
      BY DEF Notifiers
    <3> QED
      BY <3>1, TasksCounted
  <2>3. CASE v = t
    <3>1. KeepsResources(t)
      BY <1>1, <2>3 DEF TakesResource, GivesResource, StartsSemWait, WakesTaker
    <3>2. counter'[s] = 0
      BY <2>3, <3>1 DEF KeepsResources
    <3> QED
      BY <2>2, <3>2
  <2>4. CASE v # t
    <3>1. pc[v] = "sa_wait" /\ arg[v] = s /\ check'[v] = check[v]
      BY <1>2, <2>4
    <3>2. ~WakesTaker(t)
      BY <1>4, <3>1 DEF WakesTaker, Notified
    <3>3. counter[s] <= Cardinality(Notifiers(s))
      BY <1>1, <3>1, <3>2
      DEF KeepsResources, TakesResource, GivesResource, StartsSemWait, SemWakeups,
          WaitsWhileEmpty
    <3>4. /\ counter \in [Semaphores -> Nat] /\ counter[s] \in Nat
          /\ Notifiers(s) \subseteq Tasks /\ Cardinality(Notifiers(s)) \in Nat
      <4>1. Notifiers(s) \subseteq Tasks
        BY DEF Notifiers
      <4> QED
        BY <2>1, <4>1, CounterWidth, TasksCounted DEF SemShape, CountersTyped
    <3>5. CASE SemNotifying(t, s) => SemNotifying(t, s)'
      <4>1. Cardinality(Notifiers(s)) <= Cardinality(Notifiers(s)')
        BY <1>2, <3>5, NotifiersKept
      <4>2. CASE counter'[s] <= counter[s]
        <5>1. counter'[s] \in Nat
          BY <1>1, <2>1, <3>2, <3>4
          DEF KeepsResources, TakesResource, GivesResource, StartsSemWait
        <5> QED
          BY <2>2, <3>3, <3>4, <4>1, <4>2, <5>1
      <4>3. CASE ~(counter'[s] <= counter[s])
        <5>1. /\ s = arg[t] /\ pc[t] = "sr_strex" /\ pc'[t] = "sr_notify" /\ arg'[t] = s
              /\ counter'[s] = counter[s] + 1
          BY <1>1, <2>1, <3>2, <3>4, <4>3
          DEF KeepsResources, TakesResource, GivesResource, StartsSemWait
        <5>2. Notifiers(s) \cup {t} \subseteq Notifiers(s)' /\ t \notin Notifiers(s)
          BY <1>2, <5>1 DEF Notifiers, SemNotifying
        <5>3. Cardinality(Notifiers(s)) + 1 <= Cardinality(Notifiers(s)')
          <6>1. Cardinality(Notifiers(s) \cup {t}) = Cardinality(Notifiers(s)) + 1
            BY <3>4, <5>2, TasksCounted
          <6> QED
            BY <2>2, <5>2, <6>1, TasksCounted
        <5> QED
          BY <2>2, <3>3, <3>4, <5>1, <5>3
      <4> QED
        BY <4>2, <4>3
    <3>6. SemNotifying(t, s) => SemNotifying(t, s)'
      BY <1>1, <3>2
      DEF KeepsResources, TakesResource, GivesResource, StartsSemWait, SemNotifying
    <3> QED
      BY <3>5, <3>6
  <2> QED
    BY <2>3, <2>4
<1>8. SemNoLostWakeup'
  BY SemStepBalance DEF SemNoLostWakeup, Notifiers, Takers
<1> QED
  BY <1>5, <1>6, <1>7, <1>8 DEF SemWakeups

\* Nor does OS_SemaphoreNotify.
LEMMA SemaphoreNotifyWakeups ==
  ASSUME Closed, Placed, SemShape, SemWakeups, NEW t \in Tasks, NEW s \in Semaphores,
         OS_SemaphoreNotify(t, s)
  PROVE  SemWakeups'
<1>1. /\ arg' = arg /\ check' = check /\ pc[t] = "user"
      /\ \A u \in Tasks : pc'[u] = pc[u]
      /\ mode = "thread" /\ currentTCB = t
  BY SemaphoreNotifyTyped DEF SemShape
<1>2. Notified(s)
  BY NotifiesSemaphore DEF OS_SemaphoreNotify, OS_Notify, semVars
<1>3. checkCode \in Nat /\ \A u \in Tasks : check[u] \in Nat /\ check[u] <= checkCode
  BY DEF SemShape, KernelTyped, KernelTypeOK, SemWakeups, CodesRead
<1>4. \A p \in Semaphores : waiting[p].tasks \subseteq Tasks /\ t \notin waiting[p].tasks
  BY <1>1, CurrentNotWaiting, SemaphoreAssumption
  DEF SleepWindow, SemShape, KernelTyped, KernelTypeOK, Queue
<1>5. CodesRead' /\ WaitsWhileEmpty'
  BY <1>1, <1>2, <1>3 DEF Notified, CodesRead, WaitsWhileEmpty
<1>6. SemWaitersAcquire'
  BY <1>1, <1>2, <1>4 DEF Notified, SemWakeups, SemWaitersAcquire
<1>7. SemNoLostWakeup'
  <2> SUFFICES ASSUME NEW p \in Semaphores, waiting'[p].tasks # {}
               PROVE  counter'[p] <= Cardinality(Notifiers(p)') + Cardinality(Takers(p)')
    BY DEF SemNoLostWakeup, Notifiers, Takers
  <2>1. CASE p = s
    <3>1. ~SemAcquiring(t, s)
      BY <1>1 DEF SemAcquiring, SemAcquireLabels
    <3> QED
      BY <1>1, <1>2, <1>4, <2>1, <3>1, NotifiedBalance
  <2>2. CASE p # s
    <3>1. counter' = counter /\ waiting'[p] = waiting[p]
      BY <1>2, <2>2 DEF Notified
    <3>2. Notifiers(p)' = Notifiers(p) /\ Takers(p)' = Takers(p)
      BY <1>1, <3>1 DEF Notifiers, Takers, SemNotifying, SemAcquiring
    <3> QED
      BY <3>1, <3>2 DEF SemWakeups, SemNoLostWakeup, Notifiers, Takers
  <2> QED
    BY <2>1, <2>2
<1> QED
  BY <1>5, <1>6, <1>7 DEF SemWakeups

\* Nor does a step outside the semaphore calls.
LEMMA SemOtherStepWakeups ==
  ASSUME SemShape, SemWakeups, Handlers \/ \E t \in Tasks : TaskStep(t) \/ TaskEnd(t),
         UNCHANGED semVars
  PROVE  SemWakeups'
<1>1. waiting' = waiting /\ checkCode' = checkCode
  BY KernelStepWaiting
<1>2. /\ counter' = counter /\ arg' = arg /\ check' = check
      /\ \A u \in Tasks : \A l \in SemLabels : pc'[u] = l <=> pc[u] = l
  BY SemOtherStepPc DEF SemShape, semVars
<1>3. \A s \in Semaphores : waiting[s].tasks \subseteq Tasks
  BY SemaphoreAssumption DEF SemShape, KernelTyped, KernelTypeOK, Queue
<1>4. CodesRead' /\ SemWaitersAcquire'
  BY <1>1, <1>2, <1>3
  DEF SemWakeups, CodesRead, SemWaitersAcquire, SemLabels, SemAcquireLabels
<1>5. \A s : Notifiers(s)' = Notifiers(s) /\ Takers(s)' = Takers(s)
  BY <1>1, <1>2
  DEF Notifiers, Takers, SemNotifying, SemAcquiring, SemLabels, SemAcquireLabels
<1>6. WaitsWhileEmpty'
  BY <1>1, <1>2, <1>5 DEF SemWakeups, WaitsWhileEmpty, SemLabels, SemAcquireLabels
<1>7. SemNoLostWakeup'
  BY <1>1, <1>2, <1>5 DEF SemWakeups, SemNoLostWakeup, Notifiers, Takers
<1> QED
  BY <1>4, <1>6, <1>7 DEF SemWakeups

\* Every step keeps every task in its place and loses no wakeup.
LEMMA SemNextWakeups ==
  ASSUME Closed, SemTyped, Counted, Placed, SemWakeups, [SemNext]_allSemVars
  PROVE  (Placed /\ SemWakeups)'
<1>0. SemShape
  BY SemTypedShape
<1>1. CASE UNCHANGED allSemVars
  BY <1>1
  DEF allSemVars, semVars, vars, kernelVars, cpuVars, timeVars, queueVars, taskVars, Placed,
      KernelTyped, KernelTypeOK, WellFormedQueues, PcDomain, Apart, Present, Waits,
      Dispatched, SemWakeups, CodesRead, SemWaitersAcquire, WaitsWhileEmpty,
      SemNoLostWakeup, Notifiers, SemNotifying, SemAcquiring
<1>2. ASSUME Handlers, UNCHANGED semVars PROVE (Placed /\ SemWakeups)'
  BY <1>0, <1>2, HandlersPlaced, SemOtherStepWakeups
<1>3. ASSUME NEW t \in Tasks, TaskStep(t) \/ SemEndStep(t), UNCHANGED semVars
      PROVE  (Placed /\ SemWakeups)'
  <2>1. KernelTyped'
    BY <1>3, KernelStepTyped DEF Placed, SemEndStep
  <2>2. Placed'
    BY <1>3, <2>1, TaskStepPlaced, EndPlaced DEF SemEndStep
  <2> QED
    BY <1>0, <1>3, <2>2, SemOtherStepWakeups DEF SemEndStep
<1>4. ASSUME NEW t \in Tasks, SemStep(t) PROVE (Placed /\ SemWakeups)'
  BY <1>0, <1>4, SemStepMoves, SemStepPlaced, SemStepWakeups
<1>5. ASSUME NEW t \in Tasks, NEW s \in Semaphores, OS_SemaphoreNotify(t, s)
      PROVE  (Placed /\ SemWakeups)'
  BY <1>0, <1>5, SemaphoreNotifyPlaced, SemaphoreNotifyWakeups
<1> QED
  BY <1>1, <1>2, <1>3, <1>4, <1>5 DEF SemNext, SemThread

\* While tasks wait for a resource, every resource the counter shows is about to be
\* notified or matched by a task that is awake in OS_SemaphoreAquire, in spite of the
\* window between its LDREX and OS_Wait, and however often tasks release.
THEOREM SemaphoreWakeupsKept == ASSUME Closed PROVE SemSpec => []SemNoLostWakeup
<1>1. SemInit => Placed /\ SemWakeups
  BY InitPlaced, SemaphoreAssumption, KernelAssumption
  DEF SemInit, Init, EmptyQueue, SemWakeups, CodesRead, SemWaitersAcquire,
      WaitsWhileEmpty, SemNoLostWakeup
<1>2. SemTyped /\ Counted /\ Placed /\ SemWakeups /\ [SemNext]_allSemVars
        => (Placed /\ SemWakeups)'
  BY SemNextWakeups
<1>3. SemWakeups => SemNoLostWakeup
  BY DEF SemWakeups
<1> QED
  BY <1>1, <1>2, <1>3, CountedInvariant, PTL DEF SemSpec

-----------------------------------------------------------------------------
\* No resource is lost or made up.

Releasers(s) == {t \in Tasks : SemReleasing(t, s)}

\* Both sets of ResourcesConserved are finite, however many tasks there are.
Conserved ==
  \A s \in Semaphores :
    /\ IsFiniteSet(TakenOf(s)) /\ IsFiniteSet(Releasers(s))
    /\ counter[s] + Cardinality(TakenOf(s)) + Cardinality(Releasers(s)) = Resources[s]

\* One resource more that a task has.
LEMMA TakenOneMore ==
  ASSUME TakenTyped, NEW t \in Tasks, NEW s \in Semaphores, IsFiniteSet(TakenOf(s)),
         taken' = [taken EXCEPT ![t][s] = @ + 1]
  PROVE  /\ IsFiniteSet(TakenOf(s)')
         /\ Cardinality(TakenOf(s)') = Cardinality(TakenOf(s)) + 1
<1> DEFINE n == taken[t][s] + 1
<1>1. n \in Nat /\ n > taken[t][s]
  BY DEF TakenTyped
<1>2. \A u \in Tasks : taken'[u][s] = IF u = t THEN n ELSE taken[u][s]
  BY DEF TakenTyped
<1>3. 1 .. n = (1 .. taken[t][s]) \cup {n}
  <2>1. \A m \in Nat : 1 .. (m + 1) = (1 .. m) \cup {m + 1}
    OBVIOUS
  <2> QED
    BY <2>1 DEF TakenTyped
<1> HIDE DEF n
<1>4. \A u \in Tasks : 1 .. taken'[u][s] =
        (1 .. taken[u][s]) \cup (IF u = t THEN {n} ELSE {})
  BY <1>2, <1>3
<1>5. TakenOf(s)' = TakenOf(s) \cup {<<t, n>>}
  BY <1>4 DEF TakenOf
<1>6. <<t, n>> \notin TakenOf(s)
  BY <1>1 DEF TakenOf, TakenTyped
<1> QED
  BY <1>5, <1>6, FS_AddElement

\* One resource less.
LEMMA TakenOneLess ==
  ASSUME TakenTyped, NEW t \in Tasks, NEW s \in Semaphores, IsFiniteSet(TakenOf(s)),
         taken[t][s] > 0,
         taken' = [taken EXCEPT ![t][s] = @ - 1]
  PROVE  /\ IsFiniteSet(TakenOf(s)')
         /\ Cardinality(TakenOf(s)') = Cardinality(TakenOf(s)) - 1
<1> DEFINE n == taken[t][s]
<1>1. n \in Nat /\ n > 0
  BY DEF TakenTyped
<1>2. \A u \in Tasks : taken'[u][s] = IF u = t THEN n - 1 ELSE taken[u][s]
  BY DEF TakenTyped
<1>3. 1 .. (n - 1) = (1 .. n) \ {n}
  BY <1>1
<1>4. /\ \A u \in Tasks \ {t} : taken'[u][s] = taken[u][s]
      /\ 1 .. taken'[t][s] = (1 .. n) \ {n}
  BY <1>2, <1>3
<1> HIDE DEF n
<1>5. TakenOf(s)' = TakenOf(s) \ {<<t, n>>}
  <2>1. \A x : x \in TakenOf(s)' <=> \E u \in Tasks : \E k \in 1 .. taken'[u][s] : x = <<u, k>>
    BY DEF TakenOf
  <2>2. \A x : x \in TakenOf(s) <=> \E u \in Tasks : \E k \in 1 .. taken[u][s] : x = <<u, k>>
    BY DEF TakenOf
  <2>3. \A u \in Tasks : \A k :
          k \in 1 .. taken'[u][s] <=> k \in 1 .. taken[u][s] /\ <<u, k>> # <<t, n>>
    <3>1. 1 .. taken[t][s] = 1 .. n
      BY DEF n
    <3> QED
      BY <1>4, <3>1
  <2>4. \A x \in TakenOf(s)' : x \in TakenOf(s) /\ x # <<t, n>>
    BY <2>1, <2>2, <2>3
  <2>5. \A x \in TakenOf(s) : x # <<t, n>> => x \in TakenOf(s)'
    BY <2>1, <2>2, <2>3
  <2> QED
    BY <2>4, <2>5
<1>6. <<t, n>> \in TakenOf(s)
  BY <1>1 DEF TakenOf, n
<1> QED
  BY <1>5, <1>6, FS_RemoveElement

\* What other semaphores tasks have is not concerned.
LEMMA TakenOfOthers ==
  ASSUME NEW s, taken' = taken \/ (TakenTyped /\ \E t \in Tasks, p \in Semaphores : \E n :
                                     p # s /\ taken' = [taken EXCEPT ![t][p] = n])
  PROVE  TakenOf(s)' = TakenOf(s)
<1>1. CASE taken' = taken
  BY <1>1 DEF TakenOf
<1>2. ASSUME TakenTyped, NEW t \in Tasks, NEW p \in Semaphores, NEW n, p # s,
             taken' = [taken EXCEPT ![t][p] = n]
      PROVE  TakenOf(s)' = TakenOf(s)
  <2>1. \A u \in Tasks : taken'[u][s] = taken[u][s]
    BY <1>2 DEF TakenTyped
  <2> QED
    BY <2>1 DEF TakenOf
<1> QED
  BY <1>1, <1>2

\* A step of a semaphore call that is not about semaphore s, or leaves it alone.
LEMMA UntouchedConserved ==
  ASSUME Conserved, NEW s \in Semaphores, counter'[s] = counter[s],
         TakenOf(s)' = TakenOf(s),
         \A u \in Tasks : SemReleasing(u, s)' <=> SemReleasing(u, s)
  PROVE  /\ IsFiniteSet(TakenOf(s)') /\ IsFiniteSet(Releasers(s)')
         /\ counter'[s] + Cardinality(TakenOf(s)') + Cardinality(Releasers(s)') = Resources[s]
<1>1. Releasers(s)' = Releasers(s)
  BY DEF Releasers
<1> QED
  BY <1>1 DEF Conserved

\* What ResourcesConserved adds up.
LEMMA CountsAreNumbers ==
  ASSUME SemShape, Conserved, NEW s \in Semaphores
  PROVE  /\ Cardinality(TakenOf(s)) \in Nat /\ Cardinality(Releasers(s)) \in Nat
         /\ counter[s] \in Nat /\ Resources[s] \in Nat /\ Resources[s] <= UIntMax
<1>1. Resources[s] \in 0 .. UIntMax /\ counter[s] \in 0 .. UIntMax
  BY SemaphoreAssumption DEF SemShape, CountersTyped
<1> QED
  BY <1>1, CounterWidth, FS_CardinalityType DEF Conserved

\* While one task releases a resource, the semaphore has room for it.
LEMMA ReleaserHasRoom ==
  ASSUME SemShape, Conserved, NEW t \in Tasks, NEW s \in Semaphores, SemReleasing(t, s)
  PROVE  ~TooMany(s) /\ (counter[s] + 1) % (UIntMax + 1) = counter[s] + 1
<1>1. Cardinality(Releasers(s)) >= 1
  <2>1. t \in Releasers(s) /\ IsFiniteSet(Releasers(s))
    BY DEF Releasers, Conserved
  <2>2. IsFiniteSet(Releasers(s) \ {t})
        /\ Cardinality(Releasers(s) \ {t}) = Cardinality(Releasers(s)) - 1
    BY <2>1, FS_RemoveElement
  <2> QED
    BY <2>1, <2>2, FS_CardinalityType
<1>2. /\ Cardinality(TakenOf(s)) \in Nat /\ Cardinality(Releasers(s)) \in Nat
      /\ counter[s] \in Nat /\ Resources[s] \in Nat /\ Resources[s] <= UIntMax
      /\ counter[s] + Cardinality(TakenOf(s)) + Cardinality(Releasers(s)) = Resources[s]
  BY CountsAreNumbers DEF Conserved
<1>3. counter[s] + 1 <= Resources[s] /\ counter[s] < UIntMax
  BY <1>1, <1>2, CounterWidth
<1>4. (counter[s] + 1) % (UIntMax + 1) = counter[s] + 1
  BY <1>2, <1>3, IncrementBelowWrap
<1>5. ~TooMany(s)
  BY <1>2, <1>3, <1>4 DEF TooMany
<1> QED
  BY <1>4, <1>5

\* A release takes a resource from its task and is about to give it back.
LEMMA ReleaseCallConserves ==
  ASSUME ~OverRelease, SemShape, TakenTyped, Conserved, NEW t \in Tasks,
         NEW s \in Semaphores, SemReleaseCall(t, s)
  PROVE  Conserved'
<1>1. /\ pc[t] = "user" /\ counter' = counter /\ taken[t][s] > 0
      /\ \A u \in Tasks : pc'[u] = IF u = t THEN "sr_ldrex" ELSE pc[u]
      /\ \A u \in Tasks : arg'[u] = IF u = t THEN s ELSE arg[u]
  BY DEF SemReleaseCall, SemCall, semVars, Executing, Goto, SemShape, PcDomain, KernelTyped,
         KernelTypeOK
<1>2. taken' = [taken EXCEPT ![t][s] = @ - 1]
  <2>1. taken' = [taken EXCEPT ![t][s] = IF @ = 0 THEN 0 ELSE @ - 1] /\ taken[t][s] # 0
    BY <1>1 DEF SemReleaseCall, TakenTyped
  <2> QED
    BY <2>1
<1>3. ASSUME NEW p \in Semaphores \ {s}
      PROVE  /\ IsFiniteSet(TakenOf(p)') /\ IsFiniteSet(Releasers(p)')
             /\ counter'[p] + Cardinality(TakenOf(p)') + Cardinality(Releasers(p)')
                  = Resources[p]
  <2>1. TakenOf(p)' = TakenOf(p)
    BY <1>2, TakenOfOthers
  <2>2. \A u \in Tasks : SemReleasing(u, p)' <=> SemReleasing(u, p)
    BY <1>1 DEF SemReleasing
  <2> QED
    BY <1>1, <2>1, <2>2, UntouchedConserved
<1>4. /\ IsFiniteSet(TakenOf(s)') /\ IsFiniteSet(Releasers(s)')
      /\ counter'[s] + Cardinality(TakenOf(s)') + Cardinality(Releasers(s)') = Resources[s]
  <2>1. /\ IsFiniteSet(TakenOf(s)')
        /\ Cardinality(TakenOf(s)') = Cardinality(TakenOf(s)) - 1
    BY <1>1, <1>2, TakenOneLess DEF Conserved
  <2>2. Releasers(s)' = Releasers(s) \cup {t} /\ t \notin Releasers(s)
    BY <1>1 DEF Releasers, SemReleasing
  <2>3. /\ IsFiniteSet(Releasers(s)')
        /\ Cardinality(Releasers(s)') = Cardinality(Releasers(s)) + 1
    BY <2>2, FS_AddElement DEF Conserved
  <2> QED
    BY <1>1, <2>1, <2>3, CountsAreNumbers DEF Conserved
<1> QED
  BY <1>3, <1>4 DEF Conserved

\* An acquire whose store-exclusive succeeds takes one resource for its task.
LEMMA AcquireConserves ==
  ASSUME SemShape, TakenTyped, Counted, Conserved, NEW t \in Tasks,
         SemAcquireStrex(t), RecordTaken(t)
  PROVE  Conserved'
<1>1. PICK s \in Semaphores : arg[t] = s /\ pc[t] = "sa_strex"
  BY DEF SemAcquireStrex, Executing, SemShape, CallNamesSemaphore, SemLabels,
         SemAcquireLabels
<1>2. /\ \A u \in Tasks \ {t} : pc'[u] = pc[u] /\ arg'[u] = arg[u]
      /\ pc'[t] \in {"user", "sa_notify", "sa_ldrex"}
      /\ exclusive <=> pc'[t] # "sa_ldrex"
  BY DEF SemAcquireStrex, SemReturn, Return, Goto, SemShape, PcDomain, KernelTyped, KernelTypeOK
<1>3. \A u \in Tasks, p \in Semaphores : SemReleasing(u, p)' <=> SemReleasing(u, p)
  BY <1>1, <1>2 DEF SemReleasing
<1>4. CASE exclusive
  <2>1. /\ loaded[t] = counter[s] /\ loaded[t] > 0 /\ counter[s] \in Nat
    BY <1>1, <1>4, CounterWidth
    DEF SemAcquireStrex, Executing, Counted, RegisterCurrent, StoreLabels, SemShape,
        CountersTyped
  <2>2. (IF loaded[t] = 0 THEN 0 ELSE loaded[t] - 1) = counter[s] - 1
    BY <2>1
  <2>3. counter' = [counter EXCEPT ![s] = counter[s] - 1]
    BY <1>1, <1>4, <2>2 DEF SemAcquireStrex, StoreCounter
  <2>4. taken' = [taken EXCEPT ![t][s] = @ + 1]
    BY <1>1, <1>2, <1>4 DEF RecordTaken
  <2>5. ASSUME NEW p \in Semaphores \ {s}
        PROVE  /\ IsFiniteSet(TakenOf(p)') /\ IsFiniteSet(Releasers(p)')
               /\ counter'[p] + Cardinality(TakenOf(p)') + Cardinality(Releasers(p)')
                    = Resources[p]
    <3>1. TakenOf(p)' = TakenOf(p)
      BY <2>4, TakenOfOthers
    <3>2. counter'[p] = counter[p]
      BY <2>3 DEF SemShape, CountersTyped
    <3> QED
      BY <1>3, <3>1, <3>2, UntouchedConserved
  <2>6. /\ IsFiniteSet(TakenOf(s)') /\ IsFiniteSet(Releasers(s)')
        /\ counter'[s] + Cardinality(TakenOf(s)') + Cardinality(Releasers(s)') = Resources[s]
    <3>1. /\ IsFiniteSet(TakenOf(s)')
          /\ Cardinality(TakenOf(s)') = Cardinality(TakenOf(s)) + 1
      BY <2>4, TakenOneMore DEF Conserved
    <3>2. Releasers(s)' = Releasers(s)
      BY <1>3 DEF Releasers
    <3>3. counter'[s] = counter[s] - 1
      BY <2>3 DEF SemShape, CountersTyped
    <3> QED
      BY <3>1, <3>2, <3>3, CountsAreNumbers DEF Conserved
  <2> QED
    BY <2>5, <2>6 DEF Conserved
<1>5. CASE ~exclusive
  <2>1. counter' = counter /\ taken' = taken
    BY <1>1, <1>2, <1>5 DEF SemAcquireStrex, StoreCounter, RecordTaken
  <2>2. \A p \in Semaphores : TakenOf(p)' = TakenOf(p)
    BY <2>1, TakenOfOthers
  <2> QED
    BY <1>3, <2>1, <2>2, UntouchedConserved DEF Conserved
<1> QED
  BY <1>4, <1>5

\* A release whose store-exclusive succeeds gives back what its task had set aside.
LEMMA ReleaseConserves ==
  ASSUME SemShape, Counted, Conserved, NEW t \in Tasks, SemReleaseStrex(t),
         taken' = taken
  PROVE  Conserved'
<1>1. PICK s \in Semaphores : arg[t] = s /\ pc[t] = "sr_strex"
  BY DEF SemReleaseStrex, Executing, SemShape, CallNamesSemaphore, SemLabels
<1>2. SemReleasing(t, s)
  BY <1>1 DEF SemReleasing
<1>3. \A p \in Semaphores : TakenOf(p)' = TakenOf(p)
  BY TakenOfOthers
<1>4. \A u \in Tasks \ {t} : pc'[u] = pc[u] /\ arg'[u] = arg[u]
  BY DEF SemReleaseStrex, SemReturn, Return, Goto, SemShape, PcDomain, KernelTyped,
         KernelTypeOK
<1>5. CASE exclusive
  <2>1. loaded[t] = counter[s] /\ counter[s] \in Nat
    BY <1>1, <1>5, CounterWidth
    DEF SemReleaseStrex, Executing, Counted, RegisterCurrent, StoreLabels, SemShape,
        CountersTyped
  <2>2. (loaded[t] + 1) % (UIntMax + 1) = counter[s] + 1
    BY <1>2, <2>1, ReleaserHasRoom
  <2>3. counter' = [counter EXCEPT ![s] = counter[s] + 1]
    BY <1>1, <1>5, <2>2 DEF SemReleaseStrex, StoreCounter
  <2>4. pc'[t] \in {"user", "sr_notify"}
    BY <1>5 DEF SemReleaseStrex, SemReturn, Return, Goto, SemShape, PcDomain
  <2>5. ASSUME NEW p \in Semaphores \ {s}
        PROVE  /\ IsFiniteSet(TakenOf(p)') /\ IsFiniteSet(Releasers(p)')
               /\ counter'[p] + Cardinality(TakenOf(p)') + Cardinality(Releasers(p)')
                    = Resources[p]
    <3>1. \A u \in Tasks : SemReleasing(u, p)' <=> SemReleasing(u, p)
      BY <1>1, <1>4, <2>4 DEF SemReleasing
    <3>2. counter'[p] = counter[p]
      BY <2>3 DEF SemShape, CountersTyped
    <3> QED
      BY <1>3, <3>1, <3>2, UntouchedConserved
  <2>6. /\ IsFiniteSet(TakenOf(s)') /\ IsFiniteSet(Releasers(s)')
        /\ counter'[s] + Cardinality(TakenOf(s)') + Cardinality(Releasers(s)') = Resources[s]
    <3>1. Releasers(s)' = Releasers(s) \ {t} /\ t \in Releasers(s)
      BY <1>2, <1>4, <2>4 DEF Releasers, SemReleasing
    <3>2. /\ IsFiniteSet(Releasers(s)')
          /\ Cardinality(Releasers(s)') = Cardinality(Releasers(s)) - 1
      BY <3>1, FS_RemoveElement DEF Conserved
    <3>3. counter'[s] = counter[s] + 1
      BY <2>3 DEF SemShape, CountersTyped
    <3> QED
      BY <1>3, <3>2, <3>3, CountsAreNumbers DEF Conserved
  <2> QED
    BY <2>5, <2>6 DEF Conserved
<1>6. CASE ~exclusive
  <2>1. counter' = counter /\ arg' = arg /\ pc'[t] = "sr_ldrex"
    BY <1>6 DEF SemReleaseStrex, StoreCounter, Goto, SemShape, PcDomain
  <2>2. \A u \in Tasks, p \in Semaphores : SemReleasing(u, p)' <=> SemReleasing(u, p)
    BY <1>1, <1>4, <2>1 DEF SemReleasing
  <2> QED
    BY <1>3, <2>1, <2>2, UntouchedConserved DEF Conserved
<1> QED
  BY <1>5, <1>6

\* Every other step of a semaphore call moves nothing: a release that loads the counter
\* finds room, and OS_SemaphoreGetCount writes back what the counter still is.
LEMMA OtherSemStepConserves ==
  ASSUME SemShape, Counted, Conserved, NEW t \in Tasks, taken' = taken,
         \/ \E s \in Semaphores : SemAcquireCall(t, s) \/ GetCountCall(t, s)
         \/ SemAcquireLdrex(t) \/ SemAcquireWait(t) \/ SemReleaseLdrex(t)
         \/ SemNotify(t) \/ GetCountLdrex(t) \/ GetCountStrex(t)
  PROVE  Conserved'
<1>1. \A p \in Semaphores : TakenOf(p)' = TakenOf(p)
  BY TakenOfOthers
<1>2. \A u \in Tasks \ {t} : pc'[u] = pc[u] /\ arg'[u] = arg[u]
  BY SemStepOthers DEF SemMove, SemBody
<1>3. /\ counter' = counter
      /\ \A p \in Semaphores : SemReleasing(t, p)' <=> SemReleasing(t, p)
  <2> USE DEF SemReleasing, Executing, Goto, SemShape, PcDomain, semVars
  <2>1. CASE \E s \in Semaphores : SemAcquireCall(t, s) \/ GetCountCall(t, s)
    BY <2>1 DEF SemAcquireCall, GetCountCall, SemCall, Calling
  <2>2. CASE SemAcquireLdrex(t) \/ GetCountLdrex(t)
    BY <2>2 DEF SemAcquireLdrex, GetCountLdrex, Local, LoadCounter
  <2>3. CASE SemAcquireWait(t)
    BY <2>3 DEF SemAcquireWait
  <2>4. CASE SemReleaseLdrex(t)
    <3>1. PICK s \in Semaphores : arg[t] = s /\ pc[t] = "sr_ldrex"
      BY <2>4 DEF SemReleaseLdrex, Local, CallNamesSemaphore, SemLabels
    <3>2. ~TooMany(s)
      BY <3>1, ReleaserHasRoom
    <3>3. Local(t, "sr_ldrex", "sr_strex") /\ LoadCounter(t)
      BY <2>4, <3>1, <3>2 DEF SemReleaseLdrex
    <3> QED
      BY <3>1, <3>3 DEF Local, LoadCounter
  <2>5. CASE SemNotify(t)
    BY <2>5 DEF SemNotify, Return
  <2>6. CASE GetCountStrex(t)
    <3>1. counter' = counter
      <4>1. PICK s \in Semaphores : arg[t] = s /\ pc[t] = "gc_strex"
        BY <2>6 DEF GetCountStrex, CallNamesSemaphore, SemLabels
      <4>2. exclusive => loaded[t] = counter[s]
        BY <2>6, <4>1 DEF GetCountStrex, Counted, RegisterCurrent, StoreLabels
      <4> QED
        BY <2>6, <4>1, <4>2 DEF GetCountStrex, StoreCounter, CountersTyped
    <3>2. pc[t] = "gc_strex" /\ pc'[t] \in {"user", "gc_ldrex"}
      BY <2>6 DEF GetCountStrex, Return
    <3> QED
      BY <3>1, <3>2
  <2> QED
    BY <2>1, <2>2, <2>3, <2>4, <2>5, <2>6
<1>4. \A u \in Tasks, p \in Semaphores : SemReleasing(u, p)' <=> SemReleasing(u, p)
  BY <1>2, <1>3 DEF SemReleasing
<1> QED
  BY <1>1, <1>3, <1>4, UntouchedConserved DEF Conserved

\* Every step conserves the resources.
LEMMA SemNextConserved ==
  ASSUME ~OverRelease, SemTyped, Counted, Conserved, [SemNext]_allSemVars
  PROVE  Conserved'
<1>0. SemShape /\ TakenTyped
  BY SemTypedShape DEF SemTyped
<1>1. ASSUME counter' = counter, taken' = taken,
             \A u \in Tasks, p \in Semaphores : SemReleasing(u, p)' <=> SemReleasing(u, p)
      PROVE  Conserved'
  BY <1>1, TakenOfOthers, UntouchedConserved DEF Conserved
<1>2. CASE UNCHANGED allSemVars
  BY <1>1, <1>2 DEF allSemVars, semVars, vars, taskVars, SemReleasing
<1>3. CASE UNCHANGED <<semVars, taken>> /\ (Handlers \/ \E t \in Tasks :
                                               TaskStep(t) \/ SemEndStep(t))
  <2>1. arg' = arg /\ \A u \in Tasks : pc'[u] = pc[u] \/ {pc[u], pc'[u]} \cap SemLabels = {}
    BY <1>0, <1>3, SemOtherStepPc DEF SemShape, SemEndStep
  <2> QED
    BY <1>1, <1>3, <2>1 DEF semVars, SemReleasing, SemLabels
<1>4. ASSUME NEW t \in Tasks, SemStep(t) PROVE Conserved'
  <2>1. CASE \E s \in Semaphores : SemReleaseCall(t, s)
    BY <1>0, <2>1, ReleaseCallConserves
  <2>2. CASE SemAcquireStrex(t) /\ RecordTaken(t)
    BY <1>0, <2>2, AcquireConserves
  <2>3. CASE SemReleaseStrex(t) /\ RecordTaken(t)
    <3>1. taken' = taken
      BY <2>3 DEF SemReleaseStrex, Executing, RecordTaken
    <3> QED
      BY <1>0, <2>3, <3>1, ReleaseConserves
  <2>4. ASSUME \/ /\ taken' = taken
                  /\ \E s \in Semaphores : SemAcquireCall(t, s) \/ GetCountCall(t, s)
               \/ /\ RecordTaken(t)
                  /\ \/ SemAcquireLdrex(t) \/ SemAcquireWait(t) \/ SemReleaseLdrex(t)
                     \/ SemNotify(t) \/ GetCountLdrex(t) \/ GetCountStrex(t)
        PROVE  Conserved'
    <3>1. taken' = taken
      BY <2>4
      DEF RecordTaken, SemAcquireLdrex, SemAcquireWait, SemReleaseLdrex, SemNotify,
          GetCountLdrex, GetCountStrex, Executing, Local
    <3> QED
      BY <1>0, <2>4, <3>1, OtherSemStepConserves
  <2> QED
    BY <1>4, <2>1, <2>2, <2>3, <2>4 DEF SemStep, SemBody
<1>5. ASSUME NEW t \in Tasks, NEW s \in Semaphores, OS_SemaphoreNotify(t, s), taken' = taken
      PROVE  Conserved'
  <2>1. arg' = arg /\ \A u \in Tasks : pc'[u] = pc[u]
    BY <1>0, <1>5, SemaphoreNotifyTyped DEF SemShape
  <2> QED
    BY <1>1, <1>5, <2>1 DEF OS_SemaphoreNotify, semVars, SemReleasing
<1> QED
  BY <1>2, <1>3, <1>4, <1>5 DEF SemNext, SemThread

\* What the counter shows, what tasks have acquired and what they are giving back are
\* nResources together, if tasks release only what they have: no retry loop, no store of
\* the 0 an acquire read before it waited and no OS_SemaphoreGetCount loses a resource.
THEOREM ResourcesKept == ASSUME ~OverRelease PROVE SemSpec => []ResourcesConserved
<1>1. SemInit => Conserved
  <2> SUFFICES ASSUME SemInit PROVE Conserved
    OBVIOUS
  <2> SUFFICES ASSUME NEW s \in Semaphores
               PROVE  /\ IsFiniteSet(TakenOf(s)) /\ IsFiniteSet(Releasers(s))
                      /\ counter[s] + Cardinality(TakenOf(s)) + Cardinality(Releasers(s))
                           = Resources[s]
    BY DEF Conserved
  <2>1. TakenOf(s) = {}
    BY DEF SemInit, TakenOf
  <2>2. Releasers(s) = {}
    BY DEF SemInit, Init, Releasers, SemReleasing
  <2>3. counter[s] = Resources[s] /\ Resources[s] \in Nat
    BY SemaphoreAssumption, CounterWidth DEF SemInit
  <2> QED
    BY <2>1, <2>2, <2>3, FS_EmptySet
<1>2. SemTyped /\ Counted /\ Conserved /\ [SemNext]_allSemVars => Conserved'
  BY SemNextConserved
<1>3. Conserved => ResourcesConserved
  BY DEF Conserved, ResourcesConserved, Releasers
<1> QED
  BY <1>1, <1>2, <1>3, CountedInvariant, PTL DEF SemSpec

=============================================================================
