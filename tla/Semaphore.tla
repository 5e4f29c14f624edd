----------------------------- MODULE Semaphore -----------------------------
(***************************************************************************)
(* The counting semaphore of core/vmm_semaphore.c.  The semaphore records  *)
(* who acquired it how often, in a list of resources that are also linked  *)
(* to the VCPUs, so that a destroyed thread gives back what it acquired.   *)
(***************************************************************************)
EXTENDS Waitqueue, Sequences, FiniteSets

CONSTANTS
  Limit,      \* sem->limit
  Initial,    \* the value INIT_SEMAPHORE() is given
  Signallers  \* the threads that release what others acquired

ASSUME LimitAssumption == Limit \in Nat \ {0} /\ Initial \in 0 .. Limit

VARIABLES
  value,   \* sem->value
  resList, \* sem->res_list: the threads that have a resource, oldest first
  count    \* sres->count of each thread

semVars == <<value, resList, count>>
vars == <<wqVars, semVars>>

Init ==
  /\ WqInit
  /\ value = Initial
  /\ resList = <<>>
  /\ count = [t \in Thread |-> 0]

HasResource(t) == \E i \in DOMAIN resList : resList[i] = t

\* list_del() of a thread's resource, which is linked at most once.
list_del(t) ==
  LET i == CHOOSE i \in DOMAIN resList : resList[i] = t
  IN  [j \in 1 .. Len(resList) - 1 |-> resList[IF j < i THEN j ELSE j + 1]]

-----------------------------------------------------------------------------

Calls(t) == st[t] = "RUNNING" /\ pc[t] = "idle"
Resumes(t) == st[t] = "RUNNING" /\ pc[t] = "wait" /\ t \in waiters

\* The end of semaphore_down_common().
Take(t) ==
  /\ value' = value - 1
  /\ count' = [count EXCEPT ![t] = @ + 1]
  /\ resList' = IF HasResource(t) THEN resList ELSE Append(resList, t)

vmm_semaphore_down(t) ==
  /\ Calls(t)
  /\ IF value > 0
       THEN Take(t) /\ UNCHANGED wqVars
       ELSE Sleep(t) /\ UNCHANGED <<stage, crash, semVars>>

\* The loop of semaphore_down_common() after a sleep.
semaphore_down_retry(t) ==
  /\ Resumes(t) /\ t \notin expired
  /\ IF value > 0
       THEN Leave(t) /\ Take(t) /\ UNCHANGED <<st, stage, crash>>
       ELSE Sleep(t) /\ UNCHANGED <<stage, crash, semVars>>

\* VMM_ETIMEDOUT, even if the value is above zero by now.
semaphore_down_timeout(t) ==
  /\ Resumes(t) /\ t \in expired
  /\ Leave(t)
  /\ UNCHANGED <<st, stage, crash, semVars>>

\* The resource an up is charged to: the caller's, or else the oldest.
Charged(t) == IF HasResource(t) THEN t ELSE Head(resList)

\* One less; a resource that comes to zero is unlinked and freed.
\* (Mutants: nothing is charged, or the resource stays at zero.)
UnchargeNothing(t) == UNCHANGED <<count, resList>>

UnchargeLinked(t) ==
  /\ count' = [count EXCEPT ![t] = @ - 1]
  /\ UNCHANGED resList

Uncharge(t) ==
  /\ count' = [count EXCEPT ![t] = @ - 1]
  /\ resList' = IF count[t] = 1 THEN list_del(t) ELSE resList

\* vmm_semaphore_up() with only one waiter woken, a mutant.
vmm_semaphore_up_one(t) ==
  /\ Calls(t) /\ (HasResource(t) \/ t \in Signallers)
  /\ value < Limit
  /\ value' = value + 1
  /\ IF resList = <<>> THEN UNCHANGED <<count, resList>> ELSE Uncharge(Charged(t))
  /\ WakeOne
  /\ UNCHANGED <<waiters, pc, expired, stage>>

\* Unlinking the resource from a VCPU whose flush has taken it off already
\* writes through poisoned pointers; the flush then uses the freed resource.
Flushed(t) == resList # <<>> /\ stage[Charged(t)] = "popped" /\ count[Charged(t)] = 1

vmm_semaphore_up(t) ==
  /\ Calls(t) /\ (HasResource(t) \/ t \in Signallers)
  /\ value < Limit
  /\ value' = value + 1
  /\ IF resList = <<>> THEN UNCHANGED <<count, resList>> ELSE Uncharge(Charged(t))
  /\ IF Flushed(t) THEN crash' = "list_del" /\ UNCHANGED st ELSE WakeAll
  /\ UNCHANGED <<waiters, pc, expired, stage>>

-----------------------------------------------------------------------------

\* vmm_manager_vcpu_resource_flush() takes the resource off the VCPU's list.
vmm_manager_vcpu_resource_flush(t) ==
  /\ stage[t] = "reset"
  /\ stage' = [stage EXCEPT ![t] = IF HasResource(t) THEN "popped" ELSE "dead"]
  /\ UNCHANGED <<st, waiters, pc, expired, crash, semVars>>

\* __vmm_semaphore_cleanup().  (Mutant: what was acquired is not given back.)
semaphore_cleanup_keeps(t) ==
  /\ stage[t] = "popped"
  /\ stage' = [stage EXCEPT ![t] = "dead"]
  /\ UNCHANGED <<value, count>>
  /\ resList' = IF HasResource(t) THEN list_del(t) ELSE resList
  /\ WakeAll
  /\ UNCHANGED <<waiters, pc, expired>>

\* The value after the cleanup is cut off at the limit.
Clamped(n) == IF n > Limit THEN Limit ELSE n

semaphore_cleanup(t) ==
  /\ stage[t] = "popped"
  /\ stage' = [stage EXCEPT ![t] = "dead"]
  /\ value' = Clamped(value + count[t])
  /\ count' = [count EXCEPT ![t] = 0]
  /\ resList' = IF HasResource(t) THEN list_del(t) ELSE resList
  /\ IF count[t] > 0 THEN WakeAll ELSE UNCHANGED <<st, crash>>
  /\ UNCHANGED <<waiters, pc, expired>>

SemaphoreStep(t) ==
  \/ vmm_semaphore_down(t)
  \/ semaphore_down_retry(t) \/ semaphore_down_timeout(t)
  \/ vmm_semaphore_up(t)
  \/ vmm_manager_vcpu_resource_flush(t) \/ semaphore_cleanup(t)

Next ==
  /\ crash = "none"
  /\ \E t \in Thread : (WqStep(t) /\ UNCHANGED semVars) \/ SemaphoreStep(t)

Spec == Init /\ [][Next]_vars

Fairness ==
  \A t \in Thread :
    /\ WF_vars(Dispatch(t) /\ UNCHANGED semVars)
    /\ WF_vars(semaphore_down_retry(t)) /\ WF_vars(semaphore_down_timeout(t))

FairSpec == Spec /\ Fairness

-----------------------------------------------------------------------------
(* Properties                                                              *)

TypeOK ==
  /\ WqTypeOK
  /\ value \in 0 .. Limit
  /\ resList \in Seq(Thread)
  /\ count \in [Thread -> 0 .. Limit]

\* What the threads have acquired and not given back, unit by unit.
Held == UNION {{t} \X (1 .. count[t]) : t \in Thread}

\* What the threads hold and what is left never exceed the limit, whoever
\* releases and whoever is destroyed; so the clamp in the cleanup never cuts.
Conserved == crash = "none" => value + Cardinality(Held) \in Initial .. Limit

\* The resources are the threads that hold something, each once.
ResourcesCharged ==
  /\ \A i, j \in DOMAIN resList : resList[i] = resList[j] => i = j
  /\ \A t \in Thread : HasResource(t) <=> count[t] > 0

\* No wakeup is lost: nobody sleeps in the wait queue while there is
\* something to acquire, because a release wakes all that wait.
NoLostWakeup == value > 0 /\ crash = "none" => Paused(waiters) = {}

\* A thread that was destroyed holds nothing.
DeadHoldsNothing == \A t \in Thread : stage[t] = "dead" => count[t] = 0

\* A resource that a destroyed thread's flush has taken off is there until
\* its cleanup runs.
FlushedStays == \A t \in Thread : stage[t] = "popped" => HasResource(t)

\* What is released is acquired, or all that wait have timed out, whoever else
\* is destroyed, unless a destruction brings the hypervisor down (FlushedStays).
FreeIsTaken ==
  value > 0 /\ Living # {} ~> value = 0 \/ Living = {} \/ crash # "none"

=============================================================================
