----------------------------- MODULE Waitqueue -----------------------------
(***************************************************************************)
(* One wait queue (core/vmm_waitqueue.c) and the threads that use it, as   *)
(* the mutex and the semaphore see it: everything happens under wq->lock.  *)
(* A thread's VCPU state is the part of Scheduler's that matters here; the *)
(* wait queue wakes all its threads, so the order of the list is left out. *)
(*                                                                         *)
(* A thread may be destroyed while others run (vmm_threads_destroy()):     *)
(* vmm_manager_vcpu_orphan_destroy() first forces it out of the wait       *)
(* queue, then resets it, then takes its resources away one after the      *)
(* other, each in a step of its own.                                       *)
(***************************************************************************)
EXTENDS Naturals

CONSTANTS
  Thread,   \* threads (orphan VCPUs)
  Timed,    \* the ones that wait with a timeout
  Victims,  \* the ones that may be destroyed
  None      \* the NULL pointer

ASSUME ThreadAssumption ==
  None \notin Thread /\ Timed \subseteq Thread /\ Victims \subseteq Thread

VARIABLES
  st,       \* vcpu->state
  waiters,  \* wq->vcpu_list
  pc,       \* "idle" outside of the lock function, "wait" in its sleep
  expired,  \* the threads whose timeout is over
  stage,    \* how far the destruction of a thread has come
  crash     \* how the hypervisor died

wqVars == <<st, waiters, pc, expired, stage, crash>>

WqTypeOK ==
  /\ st \in [Thread -> {"RUNNING", "READY", "PAUSED", "RESET"}]
  /\ waiters \subseteq Thread
  /\ pc \in [Thread -> {"idle", "wait"}]
  /\ expired \subseteq Thread
  /\ stage \in [Thread -> {"alive", "removed", "reset", "popped", "dead"}]
  /\ crash \in {"none", "list_del", "stale"}

\* The waiters that nobody is destroying.
Living == {t \in waiters : stage[t] = "alive"}

WqInit ==
  /\ st = [t \in Thread |-> "RUNNING"]
  /\ waiters = {}
  /\ pc = [t \in Thread |-> "idle"]
  /\ expired = {}
  /\ stage = [t \in Thread |-> "alive"]
  /\ crash = "none"

-----------------------------------------------------------------------------

\* __vmm_waitqueue_sleep() up to the pause.  A resume that comes before the
\* pause cancels it, and the caller's loop sleeps once more at once.
Sleep(t) ==
  /\ waiters' = waiters \cup {t}
  /\ st' = [st EXCEPT ![t] = "PAUSED"]
  /\ pc' = [pc EXCEPT ![t] = "wait"]
  /\ expired' = expired \ {t}

\* __vmm_waitqueue_sleep() after the pause, without sleeping again.
Leave(t) ==
  /\ waiters' = waiters \ {t}
  /\ pc' = [pc EXCEPT ![t] = "idle"]
  /\ expired' = expired \ {t}

Paused(s) == {t \in s : st[t] = "PAUSED"}

\* __vmm_waitqueue_wakeall().  A waiter that was reset would be kicked anew.
\* (Mutants: one of the waiters is woken, or none.)
WakeOne ==
  /\ \/ Paused(waiters) = {} /\ UNCHANGED st
     \/ \E t \in Paused(waiters) : st' = [st EXCEPT ![t] = "READY"]
  /\ UNCHANGED crash

WakeNone ==
  UNCHANGED <<st, crash>>

WakeAll ==
  /\ st' = [t \in Thread |-> IF t \in Paused(waiters) THEN "READY" ELSE st[t]]
  /\ crash' = IF \E t \in waiters : st[t] = "RESET" THEN "stale" ELSE crash

\* The scheduler runs a READY thread.
Dispatch(t) ==
  /\ st[t] = "READY"
  /\ st' = [st EXCEPT ![t] = "RUNNING"]
  /\ UNCHANGED <<waiters, pc, expired, stage, crash>>

\* waitqueue_timeout(): the timer event of the sleep.
waitqueue_timeout(t) ==
  /\ t \in Timed \cap waiters
  /\ t \notin expired
  /\ stage[t] = "alive"
  /\ expired' = expired \cup {t}
  /\ st' = [st EXCEPT ![t] = IF @ = "PAUSED" THEN "READY" ELSE @]
  /\ UNCHANGED <<waiters, pc, stage, crash>>

\* vmm_threads_wakeup() of a thread, for whatever reason.
vmm_threads_wakeup(t) ==
  /\ st[t] = "PAUSED"
  /\ st' = [st EXCEPT ![t] = "READY"]
  /\ UNCHANGED <<waiters, pc, expired, stage, crash>>

-----------------------------------------------------------------------------

\* vmm_waitqueue_forced_remove(), the first step of the destruction.
vmm_waitqueue_forced_remove(t) ==
  /\ t \in Victims
  /\ stage[t] = "alive"
  /\ waiters' = waiters \ {t}
  /\ expired' = expired \ {t}
  /\ stage' = [stage EXCEPT ![t] = "removed"]
  /\ UNCHANGED <<st, pc, crash>>

\* The reset of the VCPU, by a synchronous IPI on the host CPU of the thread,
\* which therefore is not inside a critical section; it never runs again.
Reset(t) ==
  /\ stage[t] = "removed"
  /\ st' = [st EXCEPT ![t] = "RESET"]
  /\ stage' = [stage EXCEPT ![t] = "reset"]
  /\ UNCHANGED <<waiters, pc, expired, crash>>

\* A thread that was forced out of the wait queue, but not reset yet, comes
\* out of its sleep and unlinks itself again: list_del() writes through
\* poisoned pointers.
ResumeRemoved(t) ==
  /\ st[t] = "RUNNING" /\ pc[t] = "wait"
  /\ t \notin waiters
  /\ crash' = "list_del"
  /\ UNCHANGED <<st, waiters, pc, expired, stage>>

WqStep(t) ==
  \/ Dispatch(t) \/ waitqueue_timeout(t) \/ vmm_threads_wakeup(t)
  \/ vmm_waitqueue_forced_remove(t) \/ Reset(t) \/ ResumeRemoved(t)

=============================================================================
