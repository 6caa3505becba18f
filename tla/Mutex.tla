------------------------------- MODULE Mutex -------------------------------
(***************************************************************************)
(* The mutexes of OS/mutex.c on the DocetOS kernel.  Every LDREX, STREX,   *)
(* SVC and access to a shared field is a step, so that a SysTick, and with *)
(* it any other task, can come between any two of them.                    *)
(***************************************************************************)
EXTENDS Kernel

CONSTANTS
  Mutexes,    \* the mutexes of the application
  Recursive,  \* TRUE: tasks acquire mutexes that they own
  Stray       \* the mutexes that tasks release without owning them, too

ASSUME MutexAssumption ==
  /\ Mutexes \subseteq Objects
  /\ Nil \notin Mutexes
  /\ Recursive \in BOOLEAN
  /\ Stray \subseteq Mutexes

VARIABLES
  mux,   \* the tcb and the counter field of every mutex
  held   \* the mutexes every task has acquired and not released since

mutexVars == <<mux, held>>
allVars   == <<vars, mutexVars>>

AcquireLabels == {"aq_ldrex", "aq_strex", "aq_wait", "aq_count"}

ReleaseLabels ==
  {"rl_check", "rl_zero", "rl_dec", "rl_test", "rl_clear", "rl_notify"}

-----------------------------------------------------------------------------
\* OS_MutexAquire

\* The check code is read once, before the loop.
AcquireCall(t, m) ==
  /\ Recursive \/ m \notin held[t]
  /\ Calling(t, "aq_ldrex")
  /\ arg' = [arg EXCEPT ![t] = m]
  /\ check' = [check EXCEPT ![t] = checkCode]
  /\ UNCHANGED <<kernelVars, mutexVars>>

\* Mutant: the owner is not looked at.
AcquireLdrexBlind(t) ==
  /\ Local(t, "aq_ldrex", "aq_strex")
  /\ exclusive' = TRUE
  /\ UNCHANGED mutexVars

\* LDREX of mutex->tcb.  The owner itself takes neither branch: it loops.
AcquireLdrex(t) ==
  /\ LET tcb == mux[arg[t]].tcb IN
       Local(t, "aq_ldrex", CASE tcb = Nil -> "aq_strex"
                              [] tcb = t   -> "aq_ldrex"
                              [] OTHER     -> "aq_wait")
  /\ exclusive' = TRUE
  /\ UNCHANGED mutexVars

\* Mutant: a plain store in place of the STREX.
AcquireStore(t) ==
  /\ Local(t, "aq_strex", "aq_count")
  /\ mux' = [mux EXCEPT ![arg[t]].tcb = t]
  /\ exclusive' = FALSE
  /\ UNCHANGED held

AcquireStrex(t) ==
  /\ Local(t, "aq_strex", IF exclusive THEN "aq_count" ELSE "aq_ldrex")
  /\ mux' = IF exclusive THEN [mux EXCEPT ![arg[t]].tcb = t] ELSE mux
  /\ exclusive' = FALSE
  /\ UNCHANGED held

\* Mutant: the check code is read when OS_Wait is called.
AcquireWaitFreshCode(t) ==
  /\ Executing(t, "aq_wait")
  /\ _svc_OS_Wait(arg[t], checkCode)
  /\ Goto(t, "aq_ldrex")
  /\ UNCHANGED <<arg, check, calls, mutexVars>>

\* OS_Wait with the check code of the call.  stored is still 1: once the task
\* runs again it goes round the loop.
AcquireWait(t) ==
  /\ Executing(t, "aq_wait")
  /\ _svc_OS_Wait(arg[t], check[t])
  /\ Goto(t, "aq_ldrex")
  /\ UNCHANGED <<arg, check, calls, mutexVars>>

AcquireCount(t) ==
  /\ Executing(t, "aq_count")
  /\ mux' = [mux EXCEPT ![arg[t]].counter = (@ + 1) % (UIntMax + 1)]
  /\ held' = [held EXCEPT ![t] = @ \cup {arg[t]}]
  /\ Return(t)
  /\ UNCHANGED kernelVars

-----------------------------------------------------------------------------
\* OS_MutexRelease

ReleaseCall(t, m) ==
  /\ \/ /\ m \in held[t]
        /\ Executing(t, "user")
        /\ Goto(t, "rl_check")
        /\ UNCHANGED calls
     \/ /\ m \in Stray \ held[t]
        /\ Calling(t, "rl_check")
  /\ arg' = [arg EXCEPT ![t] = m]
  /\ held' = [held EXCEPT ![t] = @ \ {m}]
  /\ UNCHANGED <<kernelVars, check, mux>>

\* Mutant: the release does not ask who the owner is.
ReleaseWithoutOwnerTest(t) ==
  /\ Executing(t, "rl_check")
  /\ Goto(t, IF mux[arg[t]].tcb = Nil THEN "rl_zero" ELSE "rl_dec")
  /\ UNCHANGED <<kernelVars, arg, check, calls, mutexVars>>

\* The tests of mutex->tcb.  Only t itself makes t the owner, so that reading
\* the field once or twice gives the same branch.
ReleaseCheck(t) ==
  /\ Executing(t, "rl_check")
  /\ LET tcb == mux[arg[t]].tcb IN
       \/ /\ tcb = Nil
          /\ Goto(t, "rl_zero")
          /\ UNCHANGED <<arg, check, calls>>
       \/ /\ tcb \notin {Nil, t}
          /\ Return(t)
       \/ /\ tcb = t
          /\ Goto(t, "rl_dec")
          /\ UNCHANGED <<arg, check, calls>>
  /\ UNCHANGED <<kernelVars, mutexVars>>

\* The mutex was free when ReleaseCheck read it.
ReleaseZero(t) ==
  /\ Executing(t, "rl_zero")
  /\ mux' = [mux EXCEPT ![arg[t]].counter = 0]
  /\ Return(t)
  /\ UNCHANGED <<kernelVars, held>>

\* Mutant: a counter that can go below zero.
ReleaseDecSigned(t) ==
  /\ Local(t, "rl_dec", "rl_test")
  /\ mux' = [mux EXCEPT ![arg[t]].counter = @ - 1]
  /\ UNCHANGED <<exclusive, held>>

ReleaseDec(t) ==
  /\ Local(t, "rl_dec", "rl_test")
  /\ mux' = [mux EXCEPT ![arg[t]].counter = (@ + UIntMax) % (UIntMax + 1)]
  /\ UNCHANGED <<exclusive, held>>

ReleaseTest(t) ==
  /\ Executing(t, "rl_test")
  /\ \/ /\ mux[arg[t]].counter = 0
        /\ Goto(t, "rl_clear")
        /\ UNCHANGED <<arg, check, calls>>
     \/ /\ mux[arg[t]].counter # 0
        /\ Return(t)
  /\ UNCHANGED <<kernelVars, mutexVars>>

ReleaseClear(t) ==
  /\ Local(t, "rl_clear", "rl_notify")
  /\ mux' = [mux EXCEPT ![arg[t]].tcb = Nil]
  /\ UNCHANGED <<exclusive, held>>

\* Mutant: nobody is notified.
ReleaseWithoutNotify(t) ==
  /\ Executing(t, "rl_notify")
  /\ Return(t)
  /\ UNCHANGED <<kernelVars, mutexVars>>

ReleaseNotify(t) ==
  /\ Executing(t, "rl_notify")
  /\ _svc_OS_Notify(arg[t])
  /\ Return(t)
  /\ UNCHANGED mutexVars

-----------------------------------------------------------------------------

MutexInit ==
  /\ Init
  /\ mux = [m \in Mutexes |-> [tcb |-> Nil, counter |-> 0]]
  /\ held = [t \in Tasks |-> {}]

\* The steps of a call in progress.
MutexBody(t) ==
  \/ AcquireLdrex(t)
  \/ AcquireStrex(t)
  \/ AcquireWait(t)
  \/ AcquireCount(t)
  \/ ReleaseCheck(t)
  \/ ReleaseZero(t)
  \/ ReleaseDec(t)
  \/ ReleaseTest(t)
  \/ ReleaseClear(t)
  \/ ReleaseNotify(t)

MutexStep(t) ==
  \/ \E m \in Mutexes : AcquireCall(t, m) \/ ReleaseCall(t, m)
  \/ MutexBody(t)

\* Tasks release what they hold before they end.
EndStep(t) == held[t] = {} /\ TaskEnd(t)

MutexNext ==
  \/ Handlers /\ UNCHANGED mutexVars
  \/ \E t \in Tasks : (TaskStep(t) \/ EndStep(t)) /\ UNCHANGED mutexVars
  \/ \E t \in Tasks : MutexStep(t)

MutexSpec == MutexInit /\ [][MutexNext]_allVars

-----------------------------------------------------------------------------
\* Fairness: between two SysTicks the core executes many instructions, so that a
\* thread makes steps, and an LDREX/STREX pair is not interrupted for ever.

ThreadStep ==
  \/ IdleSchedule /\ UNCHANGED mutexVars
  \/ \E t \in Tasks : (TaskStep(t) \/ EndStep(t)) /\ UNCHANGED mutexVars
  \/ \E t \in Tasks : MutexStep(t)

UninterruptedStrex ==
  /\ exclusive
  /\ \E t \in Tasks : AcquireStrex(t) \/ (SleepStrex(t) /\ UNCHANGED mutexVars)

MutexFairness ==
  /\ WF_allVars(OS_Start /\ UNCHANGED mutexVars)
  /\ WF_allVars(SysTick_Handler /\ UNCHANGED mutexVars)
  /\ WF_allVars((UpdateSleepingTasks \/ PendSV_Handler) /\ UNCHANGED mutexVars)
  /\ SF_allVars(ThreadStep)
  /\ SF_allVars(UninterruptedStrex)

MutexFairSpec == MutexSpec /\ MutexFairness

-----------------------------------------------------------------------------
\* Properties.

Acquiring(t, m) == pc[t] \in AcquireLabels /\ arg[t] = m

\* The kernel, the mutexes and the program counters are well typed.
MutexTypeOK ==
  /\ KernelTypeOK
  /\ Started
  /\ pc \in [Tasks \cup {IdleTCB} ->
               KernelLabels \cup IdleLabels \cup AcquireLabels \cup ReleaseLabels]
  /\ mux \in [Mutexes -> [tcb : Tasks \cup {Nil}, counter : 0 .. UIntMax]]
  /\ held \in [Tasks -> SUBSET Mutexes]

\* A mutex that OS_MutexAquire has given to a task, and that the task has not
\* released, names this task as its owner and counts it once: no interleaving of
\* LDREX, STREX and the unprotected counter lets two tasks in, or loses a count, unless
\* tasks release the mutex without owning it.
HeldIsOwned ==
  \A t \in Tasks : \A m \in held[t] \ Stray : mux[m] = [tcb |-> t, counter |-> 1]

\* Two tasks never hold the same mutex.
MutualExclusion ==
  \A t, u \in Tasks : t # u => held[t] \cap held[u] = {}

\* Task t is bound to notify mutex m or to take it: it holds m, it has stored
\* itself as the owner and returns next, it is inside a release of m that will
\* notify, or it is awake and acquires m, which is free.
WillNotify(t, m) ==
  \/ m \in held[t] /\ ~Acquiring(t, m)
  \/ arg[t] = m /\ pc[t] \in {"aq_count"} \cup (ReleaseLabels \ {"rl_zero"})
  \/ Acquiring(t, m) /\ mux[m].tcb = Nil

\* No wakeup is lost: while a task is in the waiting queue of a mutex, another one
\* that is not holds the mutex, takes it or is on its way to notify.  The check
\* code makes OS_Wait fail if a notification came between LDREX and the SVC, and
\* OS_MutexRelease notifies whenever it clears the owner.  A release by a non-owner, or
\* a recursive acquire, breaks it.
NoLostWakeup ==
  \A m \in Mutexes \ Stray :
    waiting[m].tasks # {} =>
      \E t \in Tasks \ waiting[m].tasks : WillNotify(t, m)

\* The mutexes implement LockSpec: ownership passes through "free" only, to a
\* task that asked, and only the owner gives it up.
Lock == INSTANCE LockSpec WITH
  owner  <- [m \in Mutexes |-> mux[m].tcb],
  asking <- [t \in Tasks |-> IF pc[t] \in AcquireLabels THEN arg[t] ELSE Nil]

LockSpecHolds == Lock!Spec

\* "If the mutex is not currently owned, or the task calling this function does not
\* own the mutex, the function will simply return" (mutex.h): such a release does
\* nothing to a task that holds the mutex.
StraySimplyReturns ==
  \A t \in Tasks : \A m \in held[t] \cap Stray : mux[m] = [tcb |-> t, counter |-> 1]

\* "Recursive mutexes" (README.md): a task that acquires a mutex it already owns
\* gets it again.
RecursiveAcquireReturns ==
  \A t \in Tasks, m \in Mutexes :
    Acquiring(t, m) /\ mux[m].tcb = t ~> pc[t] \notin AcquireLabels

\* "If the mutex is currently owned (has already been aquired by a different task),
\* then the task calling this function will be put into the wait state" (mutex.h):
\* a task that finds a mutex owned waits in its queue, unless the mutex becomes free
\* in the meantime.
OwnedMeansWait ==
  \A t \in Tasks, m \in Mutexes :
    pc[t] = "aq_wait" /\ arg[t] = m ~>
      t \in waiting[m].tasks \/ mux[m].tcb = Nil

=============================================================================
