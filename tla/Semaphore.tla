----------------------------- MODULE Semaphore -----------------------------
(***************************************************************************)
(* The counting semaphores of OS/semaphore.c on the DocetOS kernel.  The   *)
(* counter is only accessed between an LDREX and a STREX, each a step of   *)
(* its own, and so is every SVC.                                           *)
(***************************************************************************)
EXTENDS Kernel

CONSTANTS
  Semaphores,   \* the semaphores of the application
  Resources,    \* nResources of every semaphore
  OverRelease   \* TRUE: tasks release resources that they have not acquired

ASSUME SemaphoreAssumption ==
  /\ Semaphores \subseteq Objects
  /\ Nil \notin Semaphores
  /\ Resources \in [Semaphores -> 0 .. UIntMax]
  /\ OverRelease \in BOOLEAN

VARIABLES
  counter,  \* the counter field of every semaphore
  loaded,   \* what the LDREX of the call in progress has read
  taken     \* history: the resources every task has acquired and not released

semVars    == <<counter, loaded>>
allSemVars == <<vars, semVars, taken>>

SemAcquireLabels == {"sa_ldrex", "sa_wait", "sa_strex"}

SemLabels ==
  SemAcquireLabels \cup
    {"sa_notify", "sr_ldrex", "sr_strex", "sr_notify", "gc_ldrex", "gc_strex"}

\* The call returns, its register of no use any more.
SemReturn(t) ==
  /\ Return(t)
  /\ loaded' = [loaded EXCEPT ![t] = 0]

\* LDREX of the counter by the call of task t.
LoadCounter(t) ==
  /\ loaded' = [loaded EXCEPT ![t] = counter[arg[t]]]
  /\ exclusive' = TRUE
  /\ UNCHANGED counter

\* STREX of value: fails if the monitor is open.
StoreCounter(t, value) ==
  /\ counter' = IF exclusive THEN [counter EXCEPT ![arg[t]] = value] ELSE counter
  /\ exclusive' = FALSE
  /\ UNCHANGED <<currentTCB, mode, timeVars, queueVars, checkCode, priority>>

\* The call of task t is about semaphore s.
SemCall(t, s) ==
  /\ arg' = [arg EXCEPT ![t] = s]
  /\ UNCHANGED <<kernelVars, semVars>>

-----------------------------------------------------------------------------
\* OS_SemaphoreAquire

\* The check code is read once, before the loop.
SemAcquireCall(t, s) ==
  /\ Calling(t, "sa_ldrex")
  /\ SemCall(t, s)
  /\ check' = [check EXCEPT ![t] = checkCode]

SemAcquireLdrex(t) ==
  /\ Local(t, "sa_ldrex", IF counter[arg[t]] = 0 THEN "sa_wait" ELSE "sa_strex")
  /\ LoadCounter(t)

\* Mutant: the check code is read when OS_Wait is called.
SemAcquireWaitFreshCode(t) ==
  /\ Executing(t, "sa_wait")
  /\ _svc_OS_Wait(arg[t], checkCode)
  /\ Goto(t, "sa_strex")
  /\ UNCHANGED <<arg, check, calls, semVars>>

\* OS_Wait, after which the loop stores the 0 it has read; the SVC has opened
\* the monitor, so that this STREX fails.
SemAcquireWait(t) ==
  /\ Executing(t, "sa_wait")
  /\ _svc_OS_Wait(arg[t], check[t])
  /\ Goto(t, "sa_strex")
  /\ UNCHANGED <<arg, check, calls, semVars>>

\* Mutant: a plain store in place of the STREX.
SemAcquireStore(t) ==
  /\ Executing(t, "sa_strex")
  /\ counter' = [counter EXCEPT ![arg[t]] = IF loaded[t] = 0 THEN 0 ELSE loaded[t] - 1]
  /\ exclusive' = FALSE
  /\ UNCHANGED <<currentTCB, mode, timeVars, queueVars, checkCode, priority>>
  /\ SemReturn(t)

\* The call is over unless the semaphore had all its resources: the variable of
\* the code is called wasEmpty.
SemAcquireStrex(t) ==
  /\ Executing(t, "sa_strex")
  /\ StoreCounter(t, IF loaded[t] = 0 THEN 0 ELSE loaded[t] - 1)
  /\ \/ /\ exclusive
        /\ loaded[t] < Resources[arg[t]]
        /\ SemReturn(t)
     \/ /\ ~exclusive \/ loaded[t] >= Resources[arg[t]]
        /\ Goto(t, IF exclusive THEN "sa_notify" ELSE "sa_ldrex")
        /\ loaded' = [loaded EXCEPT ![t] = 0]
        /\ UNCHANGED <<arg, check, calls>>

-----------------------------------------------------------------------------
\* OS_SemaphoreRelease

SemReleaseCall(t, s) ==
  /\ \/ /\ taken[t][s] > 0
        /\ Executing(t, "user")
        /\ Goto(t, "sr_ldrex")
        /\ UNCHANGED calls
     \/ /\ OverRelease
        /\ taken[t][s] = 0
        /\ Calling(t, "sr_ldrex")
  /\ SemCall(t, s)
  /\ taken' = [taken EXCEPT ![t][s] = IF @ = 0 THEN 0 ELSE @ - 1]
  /\ UNCHANGED check

\* Mutant: one resource too many is let in.
TooManyByOne(s) == counter[s] > Resources[s]

\* The sum is that of a uint32_t and a size_t of 32 bits.
TooMany(s) == (counter[s] + 1) % (UIntMax + 1) > Resources[s]

\* LDREX, and CLREX if the semaphore has all its resources.
SemReleaseLdrex(t) ==
  \/ /\ Local(t, "sr_ldrex", "sr_strex")
     /\ ~TooMany(arg[t])
     /\ LoadCounter(t)
  \/ /\ Executing(t, "sr_ldrex")
     /\ TooMany(arg[t])
     /\ exclusive' = FALSE
     /\ SemReturn(t)
     /\ UNCHANGED <<currentTCB, mode, timeVars, queueVars, checkCode, priority,
                    counter>>

\* Mutant: nobody is notified.
SemReleaseSilently(t) ==
  /\ Executing(t, "sr_strex")
  /\ StoreCounter(t, (loaded[t] + 1) % (UIntMax + 1))
  /\ \/ exclusive /\ SemReturn(t)
     \/ /\ ~exclusive
        /\ Goto(t, "sr_ldrex")
        /\ UNCHANGED <<arg, check, calls, loaded>>

SemReleaseStrex(t) ==
  /\ Executing(t, "sr_strex")
  /\ LET sum == (loaded[t] + 1) % (UIntMax + 1) IN
       /\ StoreCounter(t, sum)
       /\ \/ exclusive /\ sum = 0 /\ SemReturn(t)
          \/ /\ ~exclusive \/ sum > 0
             /\ Goto(t, IF exclusive THEN "sr_notify" ELSE "sr_ldrex")
             /\ loaded' = [loaded EXCEPT ![t] = 0]
             /\ UNCHANGED <<arg, check, calls>>

\* The OS_Notify at the end of an acquire or a release.
SemNotify(t) ==
  /\ Executing(t, "sa_notify") \/ Executing(t, "sr_notify")
  /\ _svc_OS_Notify(arg[t])
  /\ Return(t)
  /\ UNCHANGED semVars

-----------------------------------------------------------------------------
\* OS_SemaphoreGetCount, which writes back what it has read.  The count stays in
\* loaded for the caller.

GetCountCall(t, s) ==
  /\ Calling(t, "gc_ldrex")
  /\ SemCall(t, s)
  /\ UNCHANGED check

GetCountLdrex(t) ==
  /\ Local(t, "gc_ldrex", "gc_strex")
  /\ LoadCounter(t)

\* Mutant: the count is written back by a plain store.
GetCountStore(t) ==
  /\ Executing(t, "gc_strex")
  /\ counter' = [counter EXCEPT ![arg[t]] = loaded[t]]
  /\ exclusive' = FALSE
  /\ Return(t)
  /\ UNCHANGED <<currentTCB, mode, timeVars, queueVars, checkCode, priority, loaded>>

GetCountStrex(t) ==
  /\ Executing(t, "gc_strex")
  /\ StoreCounter(t, loaded[t])
  /\ \/ exclusive /\ Return(t)
     \/ ~exclusive /\ Goto(t, "gc_ldrex") /\ UNCHANGED <<arg, check, calls>>
  /\ UNCHANGED loaded

\* OS_SemaphoreFull and OS_SemaphoreEmpty of the count that was read.
OS_SemaphoreFull(t) == loaded[t] <= 0

\* Mutant: a strict comparison.
EmptyStrict(t, s) == loaded[t] > Resources[s]

OS_SemaphoreEmpty(t, s) == loaded[t] >= Resources[s]

-----------------------------------------------------------------------------

SemInit ==
  /\ Init
  /\ counter = Resources
  /\ loaded = [t \in Tasks |-> 0]
  /\ taken = [t \in Tasks |-> [s \in Semaphores |-> 0]]

\* The steps of a call in progress.
SemBody(t) ==
  \/ SemAcquireLdrex(t)
  \/ SemAcquireWait(t)
  \/ SemAcquireStrex(t)
  \/ SemReleaseLdrex(t)
  \/ SemReleaseStrex(t)
  \/ SemNotify(t)
  \/ GetCountLdrex(t)
  \/ GetCountStrex(t)

\* An acquire has its resource once it leaves the retry loop.
RecordTaken(t) ==
  taken' = IF pc[t] = "sa_strex" /\ pc'[t] # "sa_ldrex"
             THEN [taken EXCEPT ![t][arg[t]] = @ + 1] ELSE taken

SemStep(t) ==
  \/ \E s \in Semaphores :
       \/ (SemAcquireCall(t, s) \/ GetCountCall(t, s)) /\ UNCHANGED taken
       \/ SemReleaseCall(t, s)
  \/ SemBody(t) /\ RecordTaken(t)

\* OS_SemaphoreNotify; OS_SemaphoreWait is a step of the functions of SyncCalls.
OS_SemaphoreNotify(t, s) == OS_Notify(t, s) /\ UNCHANGED semVars

\* Tasks release what they have before they end.
SemEndStep(t) == (\A s \in Semaphores : taken[t][s] = 0) /\ TaskEnd(t)

SemThread(t) ==
  \/ (TaskStep(t) \/ SemEndStep(t)) /\ UNCHANGED <<semVars, taken>>
  \/ SemStep(t)
  \/ \E s \in Semaphores : OS_SemaphoreNotify(t, s) /\ UNCHANGED taken

SemNext ==
  \/ Handlers /\ UNCHANGED <<semVars, taken>>
  \/ \E t \in Tasks : SemThread(t)

SemSpec == SemInit /\ [][SemNext]_allSemVars

-----------------------------------------------------------------------------
\* Fairness as in Mutex: threads make steps between two SysTicks, and an
\* LDREX/STREX pair is not interrupted for ever.

SemFairness ==
  /\ WF_allSemVars(OS_Start /\ UNCHANGED <<semVars, taken>>)
  /\ WF_allSemVars(SysTick_Handler /\ UNCHANGED <<semVars, taken>>)
  /\ WF_allSemVars((UpdateSleepingTasks \/ PendSV_Handler) /\ UNCHANGED <<semVars, taken>>)
  /\ SF_allSemVars(\/ IdleSchedule /\ UNCHANGED <<semVars, taken>>
                   \/ \E t \in Tasks : SemThread(t))
  /\ SF_allSemVars(/\ exclusive
                   /\ \E t \in Tasks :
                        \/ /\ SemAcquireStrex(t) \/ SemReleaseStrex(t) \/ GetCountStrex(t)
                           /\ RecordTaken(t)
                        \/ SleepStrex(t) /\ UNCHANGED <<semVars, taken>>)

SemFairSpec == SemSpec /\ SemFairness

-----------------------------------------------------------------------------
\* Properties.

SemAcquiring(t, s) == pc[t] \in SemAcquireLabels /\ arg[t] = s

SemReleasing(t, s) == pc[t] \in {"sr_ldrex", "sr_strex"} /\ arg[t] = s

SemNotifying(t, s) == pc[t] \in {"sa_notify", "sr_notify"} /\ arg[t] = s

\* The kernel, the semaphores and the calls of every task are well typed.
SemTypeOK ==
  /\ KernelTypeOK
  /\ Started
  /\ pc \in [Tasks \cup {IdleTCB} -> KernelLabels \cup IdleLabels \cup SemLabels]
  /\ counter \in [Semaphores -> 0 .. UIntMax]
  /\ loaded \in [Tasks -> 0 .. UIntMax]
  /\ taken \in [Tasks -> [Semaphores -> Nat]]

\* The counter never exceeds nResources, however often tasks release what they
\* have not acquired and whatever comes between the test and the store of
\* OS_SemaphoreRelease.
CountWithinSize == \A s \in Semaphores : counter[s] <= Resources[s]

\* The resources of s that tasks have acquired, those of every task numbered.
TakenOf(s) == UNION {{t} \X (1 .. taken[t][s]) : t \in Tasks}

\* Resources are neither lost nor made up: what the counter says is left, what
\* tasks have acquired and what they are just giving back are nResources together,
\* in spite of the retry loops, of the 0 that an acquire stores after it waited and
\* of OS_SemaphoreGetCount writing the counter back.
ResourcesConserved ==
  \A s \in Semaphores :
    counter[s] + Cardinality(TakenOf(s)) + Cardinality({t \in Tasks : SemReleasing(t, s)})
      = Resources[s]

\* No wakeup is lost: while tasks wait for a resource, every resource the counter
\* shows is either about to be notified or matched by a task that is awake in
\* OS_SemaphoreAquire and will take it.
SemNoLostWakeup ==
  \A s \in Semaphores :
    waiting[s].tasks # {} =>
      counter[s] <= Cardinality({t \in Tasks : SemNotifying(t, s)})
                      + Cardinality({t \in Tasks \ waiting[s].tasks : SemAcquiring(t, s)})

\* The semaphores implement SemaphoreSpec: every acquire takes one resource, once,
\* while one is available, and a release is refused only by a full semaphore.
Counting == INSTANCE SemaphoreSpec WITH
  Size      <- Resources,
  available <- counter,
  asking    <- [t \in Tasks |-> IF pc[t] \in SemAcquireLabels THEN arg[t] ELSE Nil],
  giving    <- [t \in Tasks |->
                 IF pc[t] \in {"sr_ldrex", "sr_strex"} THEN arg[t] ELSE Nil]

SemaphoreSpecHolds == Counting!Spec

\* A task does not stay in the waiting queue of a semaphore that has resources
\* left: it is woken, or somebody else takes them.
SemWaiterServed ==
  \A t \in Tasks, s \in Semaphores :
    t \in waiting[s].tasks /\ counter[s] > 0
      ~> t \notin waiting[s].tasks \/ counter[s] = 0

\* "If there are no resources available, the task that called this function will be
\* put into the wait state" (semaphore.h): a task that finds no resource waits, unless
\* one becomes available in the meantime.
EmptyMeansWait ==
  \A t \in Tasks, s \in Semaphores :
    pc[t] = "sa_wait" /\ arg[t] = s
      ~> t \in waiting[s].tasks \/ counter[s] > 0

\* "If a task attempts to release too many resources back to the semaphore, this
\* function will simply return without relasing any extra" (semaphore.h): only an
\* acquire lowers the counter.
ReleaseNeverLowers ==
  [][\A t \in Tasks, s \in Semaphores :
       SemReleasing(t, s) => counter'[s] >= counter[s]]_allSemVars

=============================================================================
