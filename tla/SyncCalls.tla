----------------------------- MODULE SyncCalls -----------------------------
(***************************************************************************)
(* Functions built from calls of mutexes and semaphores, as those of       *)
(* OS/itc_queue.c and OS/memory.c are.  While such a function runs, stage  *)
(* says where it continues once the call in progress has returned, that is *)
(* once pc is "user" again.                                                *)
(***************************************************************************)
EXTENDS Mutex, Semaphore

\* Every mutex and every semaphore has a waiting queue of its own.
ASSUME SyncAssumption == Mutexes \cap Semaphores = {}

VARIABLE stage  \* where every task is in the function it runs, or "none"

syncVars == <<mutexVars, semVars, taken>>

\* The task is at stage s of its function, with no call in progress.
AtStage(t, s) == Executing(t, "user") /\ stage[t] = s

ToStage(t, s) == stage' = [stage EXCEPT ![t] = s]

\* The functions whose first step reads the check code, as do the callers of
\* OS_Wait to pass it on.
ReadsCheckCode == {"aq_ldrex", "sa_ldrex", "wait_svc"}

\* Task t calls a function of object o whose first step is label, from within a
\* function that continues at stage s.
Enter(t, label, o, s) ==
  /\ Goto(t, label)
  /\ arg' = [arg EXCEPT ![t] = o]
  /\ check' = IF label \in ReadsCheckCode
                THEN [check EXCEPT ![t] = checkCode] ELSE check
  /\ ToStage(t, s)
  /\ UNCHANGED <<kernelVars, calls, mutexVars, counter, taken>>

\* A step on the function's own data: no call is made.
OwnStep(t, from, to) ==
  /\ AtStage(t, from)
  /\ ToStage(t, to)
  /\ UNCHANGED <<vars, syncVars>>

\* Task t, which runs no function, calls one that starts with
\* OS_SemaphoreGetCount(o) and continues at stage s.
CallCounting(t, o, s) ==
  /\ AtStage(t, "none")
  /\ GetCountCall(t, o)
  /\ ToStage(t, s)
  /\ UNCHANGED <<mutexVars, taken>>

\* The count is read.  If it says so the task calls OS_SemaphoreWait(o,
\* OS_GetCheckCode()) and acquires the mutex m afterwards, otherwise at once.
WaitOrLock(t, from, mustWait, o, m, waited, locked) ==
  /\ AtStage(t, from)
  /\ IF mustWait THEN Enter(t, "wait_svc", o, waited) ELSE Enter(t, "aq_ldrex", m, locked)
  /\ loaded' = [loaded EXCEPT ![t] = 0]

CallMutexAquire(t, from, m, to) ==
  /\ AtStage(t, from)
  /\ Enter(t, "aq_ldrex", m, to)
  /\ UNCHANGED loaded

CallMutexRelease(t, from, m, to) ==
  /\ AtStage(t, from)
  /\ ReleaseCall(t, m)
  /\ ToStage(t, to)
  /\ UNCHANGED <<semVars, taken>>

CallSemaphoreAquire(t, from, s, to) ==
  /\ AtStage(t, from)
  /\ Enter(t, "sa_ldrex", s, to)
  /\ UNCHANGED loaded

CallSemaphoreRelease(t, from, s, to) ==
  /\ AtStage(t, from)
  /\ Enter(t, "sr_ldrex", s, to)
  /\ UNCHANGED loaded

-----------------------------------------------------------------------------

SyncInit ==
  /\ MutexInit
  /\ counter = Resources
  /\ loaded = [t \in Tasks |-> 0]
  /\ taken = [t \in Tasks |-> [s \in Semaphores |-> 0]]
  /\ stage = [t \in Tasks |-> "none"]

\* A step of the mutex or semaphore call that task t is in.
InnerStep(t) ==
  /\ \/ MutexBody(t) /\ UNCHANGED semVars
     \/ SemBody(t) /\ UNCHANGED mutexVars
     \/ WaitSvc(t) /\ UNCHANGED <<mutexVars, semVars>>
  /\ UNCHANGED <<taken, stage>>

\* A step of a task outside every function: it sleeps or ends.
OuterStep(t) ==
  /\ stage[t] = "none"
  /\ TaskStep(t) \/ EndStep(t)
  /\ UNCHANGED <<syncVars, stage>>

\* The store-exclusives, which an interrupt makes fail.
StrexStep(t) ==
  /\ exclusive
  /\ \/ AcquireStrex(t) /\ UNCHANGED semVars
     \/ /\ SemAcquireStrex(t) \/ SemReleaseStrex(t) \/ GetCountStrex(t)
        /\ UNCHANGED mutexVars
     \/ SleepStrex(t) /\ UNCHANGED <<mutexVars, semVars>>
  /\ UNCHANGED <<taken, stage>>

=============================================================================
