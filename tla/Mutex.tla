------------------------------- MODULE Mutex -------------------------------
(***************************************************************************)
(* The recursive mutex of core/vmm_mutex.c.  Each critical section of      *)
(* wq.lock is one step; a lock request that finds the mutex taken sleeps   *)
(* in the wait queue and tries again when it is woken.                     *)
(***************************************************************************)
EXTENDS Waitqueue

CONSTANT MaxDepth   \* bound: how often a thread locks before it unlocks

VARIABLES
  lock,   \* mut->lock
  owner,  \* mut->owner
  res,    \* the VCPU whose resource list has the mutex
  held    \* how often each thread was told that it has locked the mutex

mutVars == <<lock, owner, res, held>>
vars == <<wqVars, mutVars>>

Init ==
  /\ WqInit
  /\ lock = 0
  /\ owner = None
  /\ res = None
  /\ held = [t \in Thread |-> 0]

-----------------------------------------------------------------------------

\* The thread runs and is where it may call a function of the mutex.
Calls(t) == st[t] = "RUNNING" /\ pc[t] = "idle"

\* The thread comes out of its sleep, with the lock of the wait queue.
Resumes(t) == st[t] = "RUNNING" /\ pc[t] = "wait" /\ t \in waiters

\* The mutex is free, or the thread has it already.
Available(t) == lock = 0 \/ owner = t

Take(t) ==
  /\ held[t] < MaxDepth
  /\ lock' = lock + 1
  /\ IF lock = 0 THEN owner' = t /\ res' = t ELSE UNCHANGED <<owner, res>>
  /\ held' = [held EXCEPT ![t] = @ + 1]

\* vmm_mutex_lock() and vmm_mutex_trylock() that find the mutex available.
vmm_mutex_trylock(t) ==
  /\ Calls(t)
  /\ Available(t)
  /\ Take(t)
  /\ UNCHANGED wqVars

\* mutex_lock_common(): the mutex is taken, so the thread sleeps.
mutex_lock_sleep(t) ==
  /\ Calls(t)
  /\ ~Available(t)
  /\ Sleep(t)
  /\ UNCHANGED <<stage, crash, mutVars>>

\* The loop of mutex_lock_common() after a sleep.  (Mutant: not a loop.)
mutex_lock_once(t) ==
  /\ Resumes(t) /\ t \notin expired
  /\ Leave(t) /\ Take(t) /\ UNCHANGED <<st, stage, crash>>

mutex_lock_retry(t) ==
  /\ Resumes(t) /\ t \notin expired
  /\ IF Available(t)
       THEN Leave(t) /\ Take(t) /\ UNCHANGED <<st, stage, crash>>
       ELSE Sleep(t) /\ UNCHANGED <<stage, crash, mutVars>>

\* VMM_ETIMEDOUT.
mutex_lock_timeout(t) ==
  /\ Resumes(t) /\ t \in expired
  /\ Leave(t)
  /\ UNCHANGED <<st, stage, crash, mutVars>>

\* The end of the last unlock.  (Mutant: the waiters are not woken.)
ReleaseSilently ==
  /\ lock' = 0 /\ owner' = None /\ res' = None
  /\ WakeNone

Release ==
  /\ lock' = 0 /\ owner' = None /\ res' = None
  /\ WakeAll

vmm_mutex_unlock(t) ==
  /\ Calls(t)
  /\ lock > 0 /\ owner = t
  /\ held' = [held EXCEPT ![t] = @ - 1]
  /\ IF lock = 1
       THEN Release
       ELSE lock' = lock - 1 /\ UNCHANGED <<owner, res, st, crash>>
  /\ UNCHANGED <<waiters, pc, expired, stage>>

-----------------------------------------------------------------------------

\* vmm_manager_vcpu_resource_flush() takes the mutex off the list of the VCPU.
vmm_manager_vcpu_resource_flush(t) ==
  /\ stage[t] = "reset"
  /\ stage' = [stage EXCEPT ![t] = IF res = t THEN "popped" ELSE "dead"]
  /\ res' = IF res = t THEN None ELSE res
  /\ UNCHANGED <<st, waiters, pc, expired, crash, lock, owner, held>>

\* __vmm_mutex_cleanup().  (Mutant: the mutex stays locked.)
mutex_cleanup_skipped(t) ==
  /\ stage[t] = "popped"
  /\ stage' = [stage EXCEPT ![t] = "dead"]
  /\ held' = [held EXCEPT ![t] = 0]
  /\ UNCHANGED <<st, crash, lock, owner, res, waiters, pc, expired>>

mutex_cleanup(t) ==
  /\ stage[t] = "popped"
  /\ stage' = [stage EXCEPT ![t] = "dead"]
  /\ held' = [held EXCEPT ![t] = 0]
  /\ IF lock > 0 /\ owner = t THEN Release ELSE UNCHANGED <<st, crash, lock, owner, res>>
  /\ UNCHANGED <<waiters, pc, expired>>

MutexStep(t) ==
  \/ vmm_mutex_trylock(t) \/ mutex_lock_sleep(t)
  \/ mutex_lock_retry(t) \/ mutex_lock_timeout(t)
  \/ vmm_mutex_unlock(t)
  \/ vmm_manager_vcpu_resource_flush(t) \/ mutex_cleanup(t)

Next ==
  /\ crash = "none"
  /\ \E t \in Thread : (WqStep(t) /\ UNCHANGED mutVars) \/ MutexStep(t)

Spec == Init /\ [][Next]_vars

\* The scheduler runs READY threads, and a thread that runs goes on in the
\* function it is in.
Fairness ==
  \A t \in Thread :
    /\ WF_vars(Dispatch(t) /\ UNCHANGED mutVars)
    /\ WF_vars(mutex_lock_retry(t)) /\ WF_vars(mutex_lock_timeout(t))

FairSpec == Spec /\ Fairness

-----------------------------------------------------------------------------
(* Properties                                                              *)

TypeOK ==
  /\ WqTypeOK
  /\ lock \in Nat
  /\ owner \in Thread \cup {None}
  /\ res \in Thread \cup {None}
  /\ held \in [Thread -> Nat]

\* Mutual exclusion with recursion: the thread that was told it has the mutex
\* is the owner, and mut->lock is the number of times it has to unlock it.
Exclusion ==
  /\ \A t \in Thread : held[t] > 0 => owner = t /\ lock = held[t]
  /\ lock > 0 => owner \in Thread /\ held[owner] = lock

\* No wakeup is lost: while the mutex is free no thread sleeps in its wait
\* queue, whoever released it, an unlock or the cleanup of a destroyed owner.
NoLostWakeup == lock = 0 => Paused(waiters) = {}

\* A thread that was destroyed does not own the mutex.
DeadOwnsNothing == \A t \in Thread : stage[t] = "dead" => owner # t /\ held[t] = 0

\* A thread that was destroyed is not in the list of the wait queue.
DeadNotWaiting == \A t \in Thread : stage[t] = "dead" => t \notin waiters

\* A free mutex that threads wait for is taken, or all of them time out,
\* whoever else is destroyed.  (A waiter that is being destroyed itself can be
\* left in the list, see DeadNotWaiting, and need not take anything.)
FreeIsTaken ==
  lock = 0 /\ Living # {} ~> lock > 0 \/ Living = {} \/ crash # "none"

=============================================================================
