---------------------------- MODULE MutexProofs ----------------------------
(***************************************************************************)
(* Mutual exclusion, the absence of lost wakeups and the release by        *)
(* destroyed owners, for any set of threads and any depth of recursion.    *)
(***************************************************************************)
EXTENDS Mutex, TLAPS

\* The owner's VCPU has the mutex in its resource list until the flush takes
\* it off, and between that and the cleanup it is still the owner.
ResourceInv ==
  /\ lock = 0 => owner = None
  /\ res # None => res = owner
  /\ lock > 0 => res = owner \/ stage[owner] = "popped"
  /\ \A t \in Thread : stage[t] = "popped" => res # t

\* A thread that was reset never runs again, so it changes nothing.
ResetInv ==
  \A t \in Thread : stage[t] \in {"reset", "popped", "dead"} => st[t] = "RESET"

IInv ==
  /\ TypeOK
  /\ Exclusion
  /\ NoLostWakeup
  /\ DeadOwnsNothing
  /\ ResourceInv
  /\ ResetInv

\* The initial state: everybody runs, nobody has the mutex.
LEMMA InitInv == Init => IInv
  BY ThreadAssumption
  DEF Init, WqInit, IInv, TypeOK, WqTypeOK, Exclusion, NoLostWakeup,
      DeadOwnsNothing, ResourceInv, ResetInv, Paused

\* Types are preserved by every step; an unlock counts down a count above zero.
LEMMA TypeStep == TypeOK /\ Exclusion /\ [Next]_vars => TypeOK'
<1> USE DEF TypeOK, WqTypeOK
<1> SUFFICES ASSUME TypeOK, Exclusion, [Next]_vars PROVE TypeOK'
  OBVIOUS
<1>1. CASE UNCHANGED vars
  BY <1>1 DEF vars, wqVars, mutVars
<1>2. ASSUME NEW t \in Thread, WqStep(t), UNCHANGED mutVars PROVE TypeOK'
  <2>1. CASE Dispatch(t)
    BY <1>2, <2>1 DEF Dispatch, mutVars
  <2>2. CASE waitqueue_timeout(t)
    BY <1>2, <2>2 DEF waitqueue_timeout, mutVars
  <2>3. CASE vmm_threads_wakeup(t)
    BY <1>2, <2>3 DEF vmm_threads_wakeup, mutVars
  <2>4. CASE vmm_waitqueue_forced_remove(t)
    BY <1>2, <2>4 DEF vmm_waitqueue_forced_remove, mutVars
  <2>5. CASE Reset(t)
    BY <1>2, <2>5 DEF Reset, mutVars
  <2>6. CASE ResumeRemoved(t)
    BY <1>2, <2>6 DEF ResumeRemoved, mutVars
  <2> QED
    BY <1>2, <2>1, <2>2, <2>3, <2>4, <2>5, <2>6 DEF WqStep
<1>3. ASSUME NEW t \in Thread, MutexStep(t) PROVE TypeOK'
  <2>1. CASE vmm_mutex_trylock(t)
    BY <2>1 DEF vmm_mutex_trylock, Take, wqVars
  <2>2. CASE mutex_lock_sleep(t)
    BY <2>2 DEF mutex_lock_sleep, Sleep, mutVars
  <2>3. CASE mutex_lock_retry(t)
    BY <2>3 DEF mutex_lock_retry, Sleep, Leave, Take, mutVars
  <2>4. CASE mutex_lock_timeout(t)
    BY <2>4 DEF mutex_lock_timeout, Leave, mutVars
  <2>5. CASE vmm_mutex_unlock(t)
    <3>1. held[t] - 1 \in Nat /\ lock - 1 \in Nat
      BY <2>5 DEF vmm_mutex_unlock, Exclusion
    <3> QED
      BY <2>5, <3>1 DEF vmm_mutex_unlock, Release, WakeAll
  <2>6. CASE vmm_manager_vcpu_resource_flush(t)
    BY <2>6 DEF vmm_manager_vcpu_resource_flush
  <2>7. CASE mutex_cleanup(t)
    BY <2>7 DEF mutex_cleanup, Release, WakeAll
  <2> QED
    BY <1>3, <2>1, <2>2, <2>3, <2>4, <2>5, <2>6, <2>7 DEF MutexStep
<1> QED
  BY <1>1, <1>2, <1>3 DEF Next

\* The wait queue's own steps leave the mutex alone; they only wake threads,
\* take them off the list, or stop them for good.
LEMMA WqStepInv ==
  ASSUME IInv, NEW u \in Thread, WqStep(u), UNCHANGED mutVars
  PROVE  Exclusion' /\ NoLostWakeup' /\ DeadOwnsNothing' /\ ResourceInv' /\ ResetInv'
<1> USE DEF IInv, TypeOK, WqTypeOK, mutVars
<1>1. stage' = stage \/ stage' = [stage EXCEPT ![u] = "removed"]
                     \/ stage' = [stage EXCEPT ![u] = "reset"]
  BY DEF WqStep, Dispatch, waitqueue_timeout, vmm_threads_wakeup,
         vmm_waitqueue_forced_remove, Reset, ResumeRemoved
<1>2. stage' # stage => stage[u] \in {"alive", "removed"}
  BY DEF WqStep, Dispatch, waitqueue_timeout, vmm_threads_wakeup,
         vmm_waitqueue_forced_remove, Reset, ResumeRemoved
<1>3. Exclusion'
  BY DEF Exclusion
<1>4. NoLostWakeup'
  <2>1. waiters' \subseteq waiters
    BY DEF WqStep, Dispatch, waitqueue_timeout, vmm_threads_wakeup,
           vmm_waitqueue_forced_remove, Reset, ResumeRemoved
  <2>2. \A t \in Thread : st'[t] = "PAUSED" => st[t] = "PAUSED"
    BY DEF WqStep, Dispatch, waitqueue_timeout, vmm_threads_wakeup,
           vmm_waitqueue_forced_remove, Reset, ResumeRemoved
  <2> QED
    BY <2>1, <2>2 DEF NoLostWakeup, Paused
<1>5. DeadOwnsNothing'
  BY <1>1 DEF DeadOwnsNothing
<1>6. ResourceInv'
  <2>1. \A t \in Thread : stage'[t] = "popped" <=> stage[t] = "popped"
    BY <1>1, <1>2
  <2>2. lock > 0 => owner \in Thread
    BY DEF Exclusion
  <2> QED
    BY <2>1, <2>2 DEF ResourceInv
<1>7. ResetInv'
  <2>1. CASE Reset(u)
    BY <2>1 DEF Reset, ResetInv
  <2>2. CASE vmm_waitqueue_forced_remove(u)
    BY <2>2 DEF vmm_waitqueue_forced_remove, ResetInv
  <2>3. CASE Dispatch(u) \/ waitqueue_timeout(u) \/ vmm_threads_wakeup(u) \/ ResumeRemoved(u)
    BY <2>3 DEF Dispatch, waitqueue_timeout, vmm_threads_wakeup, ResumeRemoved, ResetInv
  <2> QED
    BY <2>1, <2>2, <2>3 DEF WqStep
<1> QED
  BY <1>3, <1>4, <1>5, <1>6, <1>7

\* A thread that takes the mutex runs, so it is neither reset nor dead; one
\* that sleeps does so because another thread has the mutex.
LEMMA LockStepInv ==
  ASSUME IInv, NEW u \in Thread,
         \/ vmm_mutex_trylock(u) \/ mutex_lock_sleep(u)
         \/ mutex_lock_retry(u) \/ mutex_lock_timeout(u)
  PROVE  Exclusion' /\ NoLostWakeup' /\ DeadOwnsNothing' /\ ResourceInv' /\ ResetInv'
<1> USE DEF IInv, TypeOK, WqTypeOK
<1>1. stage' = stage /\ st[u] = "RUNNING" /\ stage[u] \notin {"reset", "popped", "dead"}
  BY DEF vmm_mutex_trylock, mutex_lock_sleep, mutex_lock_retry, mutex_lock_timeout,
         Calls, Resumes, wqVars, ResetInv
<1>2. ASSUME Take(u), Available(u), st' = st, waiters' \subseteq waiters
      PROVE  Exclusion' /\ NoLostWakeup' /\ DeadOwnsNothing' /\ ResourceInv' /\ ResetInv'
  <2>1. lock' > 0 /\ lock' = lock + 1 /\ owner' = u
    BY <1>2, ThreadAssumption DEF Take, Available
  <2>2. \A t \in Thread : held'[t] = IF t = u THEN held[u] + 1 ELSE held[t]
    BY <1>2 DEF Take
  <2>3. \A t \in Thread : t # u => held[t] = 0
    BY <1>2 DEF Available, Exclusion
  <2>4. held[u] = lock
    BY <1>2 DEF Available, Exclusion
  <2>5. Exclusion'
    BY <2>1, <2>2, <2>3, <2>4 DEF Exclusion
  <2>6. NoLostWakeup'
    BY <2>1 DEF NoLostWakeup
  <2>7. DeadOwnsNothing'
    BY <1>1, <2>1, <2>2, <2>3 DEF DeadOwnsNothing
  <2>8. ResourceInv'
    BY <1>1, <1>2, <2>1 DEF Take, Available, ResourceInv
  <2>9. ResetInv'
    BY <1>1, <1>2 DEF ResetInv
  <2> QED
    BY <2>5, <2>6, <2>7, <2>8, <2>9
<1>3. ASSUME Sleep(u), ~Available(u), UNCHANGED mutVars
      PROVE  Exclusion' /\ NoLostWakeup' /\ DeadOwnsNothing' /\ ResourceInv' /\ ResetInv'
  BY <1>1, <1>3 DEF Sleep, Available, mutVars, Exclusion, NoLostWakeup,
                    DeadOwnsNothing, ResourceInv, ResetInv
<1>4. CASE vmm_mutex_trylock(u)
  BY <1>2, <1>4 DEF vmm_mutex_trylock, wqVars
<1>5. CASE mutex_lock_sleep(u)
  BY <1>3, <1>5 DEF mutex_lock_sleep
<1>6. CASE mutex_lock_retry(u)
  BY <1>2, <1>3, <1>6 DEF mutex_lock_retry, Leave
<1>7. CASE mutex_lock_timeout(u)
  BY <1>1, <1>7 DEF mutex_lock_timeout, Leave, mutVars, Exclusion, NoLostWakeup,
                    Paused, DeadOwnsNothing, ResourceInv, ResetInv
<1> QED
  BY <1>4, <1>5, <1>6, <1>7

\* A release leaves the mutex free, without an owner, and nobody asleep.
LEMMA ReleaseWakes ==
  ASSUME TypeOK, Release, waiters' = waiters
  PROVE  /\ lock' = 0 /\ owner' = None /\ res' = None
         /\ NoLostWakeup'
         /\ \A t \in Thread : st[t] = "RESET" => st'[t] = "RESET"
<1> USE DEF TypeOK, WqTypeOK
<1>1. lock' = 0 /\ owner' = None /\ res' = None
  BY DEF Release
<1>2. st' = [t \in Thread |-> IF t \in Paused(waiters) THEN "READY" ELSE st[t]]
  BY DEF Release, WakeAll
<1>3. \A t \in waiters : st'[t] # "PAUSED"
  BY <1>2 DEF Paused
<1>4. NoLostWakeup'
  BY <1>3 DEF NoLostWakeup, Paused
<1>5. \A t \in Thread : st[t] = "RESET" => st'[t] = "RESET"
  BY <1>2 DEF Paused
<1> QED
  BY <1>1, <1>4, <1>5

\* An unlock is the owner's; the last one releases the mutex.
LEMMA UnlockStepInv ==
  ASSUME IInv, NEW u \in Thread, vmm_mutex_unlock(u)
  PROVE  Exclusion' /\ NoLostWakeup' /\ DeadOwnsNothing' /\ ResourceInv' /\ ResetInv'
<1> USE DEF IInv, TypeOK, WqTypeOK
<1>1. /\ stage' = stage /\ waiters' = waiters /\ owner = u /\ lock > 0
      /\ st[u] = "RUNNING" /\ stage[u] \notin {"reset", "popped", "dead"}
  BY DEF vmm_mutex_unlock, Calls, ResetInv
<1>2. held[u] = lock /\ \A t \in Thread : t # u => held[t] = 0
  BY <1>1 DEF Exclusion
<1>3. held'[u] = lock - 1 /\ \A t \in Thread : t # u => held'[t] = 0
  BY <1>2 DEF vmm_mutex_unlock
<1>4. CASE lock = 1
  <2>1. Release
    BY <1>4 DEF vmm_mutex_unlock
  <2>2. /\ lock' = 0 /\ owner' = None /\ res' = None
        /\ NoLostWakeup'
        /\ \A t \in Thread : st[t] = "RESET" => st'[t] = "RESET"
    BY <1>1, <2>1, ReleaseWakes
  <2>3. Exclusion'
    BY <1>3, <1>4, <2>2 DEF Exclusion
  <2>4. DeadOwnsNothing'
    BY <1>3, <1>4, <2>2, ThreadAssumption DEF DeadOwnsNothing
  <2>5. ResourceInv'
    BY <2>2, ThreadAssumption DEF ResourceInv
  <2>6. ResetInv'
    BY <1>1, <2>2 DEF ResetInv
  <2> QED
    BY <2>2, <2>3, <2>4, <2>5, <2>6
<1>5. CASE lock # 1
  <2>1. lock' = lock - 1 /\ lock' > 0 /\ UNCHANGED <<owner, res, st, crash>>
    BY <1>1, <1>5 DEF vmm_mutex_unlock
  <2>2. Exclusion'
    BY <1>1, <1>3, <2>1 DEF Exclusion
  <2>3. NoLostWakeup'
    BY <2>1 DEF NoLostWakeup
  <2>4. DeadOwnsNothing'
    BY <1>1, <1>3, <2>1 DEF DeadOwnsNothing
  <2>5. ResourceInv' /\ ResetInv'
    BY <1>1, <2>1 DEF ResourceInv, ResetInv
  <2> QED
    BY <2>2, <2>3, <2>4, <2>5
<1> QED
  BY <1>4, <1>5

\* The flush of a destroyed thread finds the mutex if the thread owns it.
LEMMA FlushStepInv ==
  ASSUME IInv, NEW u \in Thread, vmm_manager_vcpu_resource_flush(u)
  PROVE  Exclusion' /\ NoLostWakeup' /\ DeadOwnsNothing' /\ ResourceInv' /\ ResetInv'
<1> USE DEF IInv, TypeOK, WqTypeOK
<1>1. stage[u] = "reset" /\ UNCHANGED <<st, waiters, pc, expired, crash, lock, owner, held>>
  BY DEF vmm_manager_vcpu_resource_flush
<1>2. Exclusion' /\ NoLostWakeup'
  BY <1>1 DEF Exclusion, NoLostWakeup, Paused
<1>3. CASE res = u
  <2>1. res' = None /\ stage' = [stage EXCEPT ![u] = "popped"] /\ owner = u
    BY <1>3, ThreadAssumption DEF vmm_manager_vcpu_resource_flush, ResourceInv
  <2>2. DeadOwnsNothing'
    BY <1>1, <2>1 DEF DeadOwnsNothing
  <2>3. ResourceInv'
    BY <1>1, <1>3, <2>1, ThreadAssumption DEF ResourceInv
  <2>4. ResetInv'
    BY <1>1, <2>1 DEF ResetInv
  <2> QED
    BY <1>2, <2>2, <2>3, <2>4
<1>4. CASE res # u
  <2>1. res' = res /\ stage' = [stage EXCEPT ![u] = "dead"]
    BY <1>4 DEF vmm_manager_vcpu_resource_flush
  <2>2. lock > 0 => owner # u
    BY <1>1, <1>4 DEF ResourceInv
  <2>3. held[u] = 0 /\ owner # u
    BY <2>2, ThreadAssumption DEF Exclusion, ResourceInv
  <2>4. DeadOwnsNothing'
    BY <1>1, <2>1, <2>3 DEF DeadOwnsNothing
  <2>5. ResourceInv'
    BY <1>1, <2>1, <2>3 DEF ResourceInv
  <2>6. ResetInv'
    BY <1>1, <2>1 DEF ResetInv
  <2> QED
    BY <1>2, <2>4, <2>5, <2>6
<1> QED
  BY <1>3, <1>4

\* The cleanup releases the mutex for the destroyed owner.
LEMMA CleanupStepInv ==
  ASSUME IInv, NEW u \in Thread, mutex_cleanup(u)
  PROVE  Exclusion' /\ NoLostWakeup' /\ DeadOwnsNothing' /\ ResourceInv' /\ ResetInv'
<1> USE DEF IInv, TypeOK, WqTypeOK
<1>1. /\ stage[u] = "popped" /\ st[u] = "RESET" /\ waiters' = waiters
      /\ stage' = [stage EXCEPT ![u] = "dead"]
      /\ held' = [held EXCEPT ![u] = 0]
  BY DEF mutex_cleanup, ResetInv
<1>2. CASE lock > 0 /\ owner = u
  <2>1. Release
    BY <1>2 DEF mutex_cleanup
  <2>2. /\ lock' = 0 /\ owner' = None /\ res' = None
        /\ NoLostWakeup'
        /\ \A t \in Thread : st[t] = "RESET" => st'[t] = "RESET"
    BY <1>1, <2>1, ReleaseWakes
  <2>3. \A t \in Thread : held'[t] = 0
    BY <1>1, <1>2 DEF Exclusion
  <2>4. Exclusion'
    BY <2>2, <2>3 DEF Exclusion
  <2>5. DeadOwnsNothing'
    BY <2>2, <2>3, ThreadAssumption DEF DeadOwnsNothing
  <2>6. ResourceInv'
    BY <2>2, ThreadAssumption DEF ResourceInv
  <2>7. ResetInv'
    BY <1>1, <2>2 DEF ResetInv
  <2> QED
    BY <2>2, <2>4, <2>5, <2>6, <2>7
<1>3. CASE ~(lock > 0 /\ owner = u)
  <2>1. UNCHANGED <<st, crash, lock, owner, res>>
    BY <1>3 DEF mutex_cleanup
  <2>2. owner # u /\ held[u] = 0
    BY <1>3, ThreadAssumption DEF Exclusion, ResourceInv
  <2>3. Exclusion' /\ NoLostWakeup'
    BY <1>1, <2>1, <2>2 DEF Exclusion, NoLostWakeup, Paused
  <2>4. DeadOwnsNothing'
    BY <1>1, <2>1, <2>2 DEF DeadOwnsNothing
  <2>5. ResourceInv'
    BY <1>1, <2>1, <2>2 DEF ResourceInv
  <2>6. ResetInv'
    BY <1>1, <2>1 DEF ResetInv
  <2> QED
    BY <2>3, <2>4, <2>5, <2>6
<1> QED
  BY <1>2, <1>3

\* The inductive step, action by action.
LEMMA StepInv == IInv /\ [Next]_vars => IInv'
<1> SUFFICES ASSUME IInv, [Next]_vars PROVE IInv'
  OBVIOUS
<1>1. TypeOK'
  BY TypeStep DEF IInv
<1>2. CASE UNCHANGED vars
  BY <1>1, <1>2 DEF vars, wqVars, mutVars, IInv, Exclusion, NoLostWakeup, Paused,
                    DeadOwnsNothing, ResourceInv, ResetInv
<1>3. ASSUME NEW t \in Thread, WqStep(t), UNCHANGED mutVars PROVE IInv'
  BY <1>1, <1>3, WqStepInv DEF IInv
<1>4. ASSUME NEW t \in Thread, MutexStep(t) PROVE IInv'
  BY <1>1, <1>4, LockStepInv, UnlockStepInv, FlushStepInv, CleanupStepInv
  DEF MutexStep, IInv
<1> QED
  BY <1>2, <1>3, <1>4 DEF Next

\* All fields stay in their ranges; in particular the lock count never goes
\* below zero.
THEOREM TypeSafe == Spec => []TypeOK
<1>1. IInv => TypeOK
  BY DEF IInv
<1> QED
  BY <1>1, InitInv, StepInv, PTL DEF Spec

\* vmm_mutex.c is a mutex: at most one thread has it, as often as mut->lock
\* counts, whoever else is destroyed or times out.
THEOREM MutexExclusion == Spec => []Exclusion
<1>1. IInv => Exclusion
  BY DEF IInv
<1> QED
  BY <1>1, InitInv, StepInv, PTL DEF Spec

\* Nobody sleeps in mutex_lock_common() while the mutex is free.
THEOREM WakeupsKept == Spec => []NoLostWakeup
<1>1. IInv => NoLostWakeup
  BY DEF IInv
<1> QED
  BY <1>1, InitInv, StepInv, PTL DEF Spec

\* A destroyed thread, at whatever point it was stopped, does not keep the
\* mutex.
THEOREM DeadReleased == Spec => []DeadOwnsNothing
<1>1. IInv => DeadOwnsNothing
  BY DEF IInv
<1> QED
  BY <1>1, InitInv, StepInv, PTL DEF Spec

=============================================================================
