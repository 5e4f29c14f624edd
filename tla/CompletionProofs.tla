-------------------------- MODULE CompletionProofs --------------------------
(***************************************************************************)
(* Waiters of a completion are woken by its signals, for any number of     *)
(* threads, with timeouts, and for any width of the counter.               *)
(***************************************************************************)
EXTENDS Completion, TLAPS

\* Adding to cmpl->done stays within its width.
LEMMA SignalFacts ==
  ASSUME done \in 0..Modulus - 1, NEW n \in Nat, Signal(n)
  PROVE  done' \in 0..Modulus - 1
<1>1. Modulus \in Nat /\ Modulus > 0 /\ done + n \in Nat
  BY CompletionAssumption
<1>2. (done + n) % Modulus \in 0..Modulus - 1
  BY <1>1
<1> QED BY <1>2 DEF Signal

\* complete_all() adds a natural number.
LEMMA HalfFacts == (Modulus - 1) \div 2 \in Nat
  BY CompletionAssumption

\* What list_del() does to a list.
LEMMA ListDelFacts ==
  ASSUME NEW s \in Seq(Waiter), NEW t, \E i \in DOMAIN s : s[i] = t
  PROVE  /\ list_del(s, t) \in Seq(Waiter)
         /\ \A u : (\E j \in DOMAIN list_del(s, t) : list_del(s, t)[j] = u) => \E i \in DOMAIN s : s[i] = u
<1>1. PICK i \in DOMAIN s : i = (CHOOSE j \in DOMAIN s : s[j] = t)
  OBVIOUS
<1> DEFINE r == [j \in 1..Len(s) - 1 |-> s[IF j < i THEN j ELSE j + 1]]
<1>2. list_del(s, t) = r
  BY <1>1 DEF list_del
<1>3. Len(s) \in Nat /\ DOMAIN s = 1..Len(s) /\ i \in 1..Len(s)
  OBVIOUS
<1>4. \A j \in 1..Len(s) - 1 : (IF j < i THEN j ELSE j + 1) \in DOMAIN s
  BY <1>3
<1>5. r \in Seq(Waiter)
  BY <1>3, <1>4
<1>6. \A j \in DOMAIN r : \E k \in DOMAIN s : s[k] = r[j]
  BY <1>4
<1> QED BY <1>2, <1>5, <1>6

\* Wake() only changes the states of threads and what the scheduler remembers.
LEMMA WakeFacts ==
  ASSUME TypeOK, NEW s \in SUBSET Waiter, Wake(s)
  PROVE  /\ st' \in [Waiter -> {"RUNNING", "READY", "PAUSED"}]
         /\ resumed' \subseteq Waiter
         /\ \A t \in Waiter : st'[t] = "PAUSED" => st[t] = "PAUSED" /\ t \notin s
  BY DEF TypeOK, Wake

\* Who vmm_completion_complete() wakes.
LEMMA FirstFacts ==
  ASSUME TypeOK, WakeFirst
  PROVE  \E s \in SUBSET Waiter : /\ Wake(s)
                                  /\ wait # <<>> => s = {Head(wait)}
<1>1. wait # <<>> => Head(wait) \in Waiter
  BY DEF TypeOK
<1> DEFINE s == IF wait = <<>> THEN {} ELSE {Head(wait)}
<1>2. s \in SUBSET Waiter
  BY <1>1
<1> QED BY <1>2, Zenon DEF WakeFirst

-----------------------------------------------------------------------------

LEMMA ConsumeFacts ==
  ASSUME TypeOK, NEW t \in Waiter, NEW ok \in BOOLEAN, Consume(t, ok)
  PROVE  done' \in 0..Modulus - 1 /\ (done' > 0 => done > 0) /\ reply' \in [Waiter -> Replies]
<1>1. done \in 0..Modulus - 1 /\ Modulus \in Nat /\ Modulus > 0 /\ reply \in [Waiter -> Replies]
  BY CompletionAssumption DEF TypeOK
<1>2. done' \in 0..Modulus - 1 /\ (done' > 0 => done > 0)
  BY <1>1 DEF Consume
<1>3. reply' \in [Waiter -> Replies]
  BY <1>1 DEF Consume, Replies
<1> QED BY <1>2, <1>3

LEMMA TypesStep == TypeOK /\ [Next]_vars => TypeOK'
<1> SUFFICES ASSUME TypeOK, [Next]_vars PROVE TypeOK'
  OBVIOUS
<1>1. ASSUME NEW t \in Waiter, completion_wait(t) PROVE TypeOK'
  <2>1. CASE done > 0 \/ t \in resumed
    <3>1. done' \in 0..Modulus - 1 /\ reply' \in [Waiter -> Replies]
      BY <1>1, <2>1, ConsumeFacts DEF completion_wait
    <3> QED BY <1>1, <2>1, <3>1 DEF completion_wait, TypeOK
  <2>2. CASE ~(done > 0 \/ t \in resumed)
    BY <1>1, <2>2 DEF completion_wait, TypeOK
  <2> QED BY <2>1, <2>2
<1>2. ASSUME NEW t \in Waiter, completion_wait_end(t) PROVE TypeOK'
  <2>1. done' \in 0..Modulus - 1 /\ reply' \in [Waiter -> Replies]
    BY <1>2, ConsumeFacts DEF completion_wait_end
  <2>2. wait' \in Seq(Waiter)
    BY <1>2, ListDelFacts DEF completion_wait_end, TypeOK, Waiting
  <2> QED BY <1>2, <2>1, <2>2 DEF completion_wait_end, TypeOK
<1>3. ASSUME NEW t \in Waiter, waitqueue_timeout(t) PROVE TypeOK'
  BY <1>3, WakeFacts DEF waitqueue_timeout, TypeOK
<1>4. ASSUME NEW t \in Waiter, Dispatch(t) \/ Preempt(t) PROVE TypeOK'
  BY <1>4 DEF Dispatch, Preempt, TypeOK
<1>5. ASSUME Completer PROVE TypeOK'
  <2>1. ASSUME NEW n \in Nat, NEW s \in SUBSET Waiter, Signal(n), Wake(s), UNCHANGED <<wait, expired, reply>>
        PROVE  TypeOK'
    <3>1. done' \in 0..Modulus - 1
      BY <2>1, SignalFacts DEF TypeOK
    <3> QED BY <2>1, <3>1, WakeFacts DEF TypeOK
  <2>2. CASE vmm_completion_complete \/ vmm_completion_complete_once
    BY <2>1, <2>2, FirstFacts DEF vmm_completion_complete, vmm_completion_complete_once
  <2>3. CASE vmm_completion_complete_all
    BY <2>1, <2>3, HalfFacts DEF vmm_completion_complete_all
  <2>4. CASE REINIT_COMPLETION
    BY <2>4, CompletionAssumption DEF REINIT_COMPLETION, TypeOK
  <2> QED BY <1>5, <2>2, <2>3, <2>4 DEF Completer
<1>6. CASE UNCHANGED vars
  BY <1>6 DEF vars, TypeOK
<1> QED BY <1>1, <1>2, <1>3, <1>4, <1>5, <1>6 DEF Next

\* The counter stays within its width, and the wait list holds threads.
THEOREM CompletionTypes == Spec => []TypeOK
<1>1. Init => TypeOK
  BY CompletionAssumption DEF Init, TypeOK, NoReply, Replies
<1> QED BY <1>1, TypesStep, PTL DEF Spec

-----------------------------------------------------------------------------

\* Every signal reaches every waiter: there is one thread that waits, or all are
\* signalled.
ReachesAll ==
  \/ \A t, u \in Waiter : t = u
  \/ Ops \cap {"complete", "once"} = {}

LEMMA WakeupStep ==
  ReachesAll /\ TypeOK /\ NoLostWakeup /\ [Next]_vars => NoLostWakeup'
<1> SUFFICES ASSUME ReachesAll, TypeOK, NoLostWakeup, [Next]_vars PROVE NoLostWakeup'
  OBVIOUS
<1>0. st \in [Waiter -> {"RUNNING", "READY", "PAUSED"}]
  BY DEF TypeOK
<1>1. ASSUME NEW t \in Waiter, completion_wait(t) PROVE NoLostWakeup'
  <2>1. CASE done > 0 \/ t \in resumed
    <3>1. (done' > 0 => done > 0) /\ UNCHANGED <<st, wait>>
      BY <1>1, <2>1, ConsumeFacts DEF completion_wait
    <3> QED BY <3>1 DEF NoLostWakeup, Waiting
  <2>2. CASE ~(done > 0 \/ t \in resumed)
    BY <1>1, <2>2 DEF completion_wait, NoLostWakeup
  <2> QED BY <2>1, <2>2
<1>2. ASSUME NEW t \in Waiter, completion_wait_end(t) PROVE NoLostWakeup'
  <2>1. (done' > 0 => done > 0) /\ UNCHANGED st
    BY <1>2, ConsumeFacts DEF completion_wait_end
  <2>2. \A u : Waiting(u)' => Waiting(u)
    <3>1. wait \in Seq(Waiter) /\ (\E i \in DOMAIN wait : wait[i] = t) /\ wait' = list_del(wait, t)
      BY <1>2 DEF completion_wait_end, TypeOK, Waiting
    <3> DEFINE r == list_del(wait, t)
    <3>2. \A u : (\E j \in DOMAIN r : r[j] = u) => \E i \in DOMAIN wait : wait[i] = u
      BY <3>1, ListDelFacts
    <3> HIDE DEF r
    <3>3. wait' = r
      BY <3>1 DEF r
    <3> QED BY <3>2, <3>3, Zenon DEF Waiting
  <2> QED BY <2>1, <2>2 DEF NoLostWakeup
<1>3. ASSUME NEW t \in Waiter, waitqueue_timeout(t) PROVE NoLostWakeup'
  <2>1. \A u \in Waiter : st'[u] = "PAUSED" => st[u] = "PAUSED"
    BY <1>3, WakeFacts DEF waitqueue_timeout
  <2> QED BY <1>3, <2>1 DEF waitqueue_timeout, NoLostWakeup, Waiting
<1>4. ASSUME NEW t \in Waiter, Dispatch(t) \/ Preempt(t) PROVE NoLostWakeup'
  BY <1>0, <1>4 DEF Dispatch, Preempt, NoLostWakeup, Waiting
<1>5. ASSUME NEW s \in SUBSET Waiter, Wake(s), UNCHANGED wait, \A t \in Waiter : Waiting(t) => t \in s
      PROVE  NoLostWakeup'
  <2>1. \A u \in Waiter : st'[u] = "PAUSED" => u \notin s
    BY <1>5, WakeFacts
  <2> QED BY <1>5, <2>1 DEF NoLostWakeup, Waiting
<1>6. CASE vmm_completion_complete \/ vmm_completion_complete_once
  <2>1. \A t, u \in Waiter : t = u
    BY <1>6 DEF ReachesAll, vmm_completion_complete, vmm_completion_complete_once
  <2>2. PICK s \in SUBSET Waiter : Wake(s) /\ (wait # <<>> => s = {Head(wait)})
    BY <1>6, FirstFacts DEF vmm_completion_complete, vmm_completion_complete_once
  <2>3. \A t \in Waiter : Waiting(t) => wait # <<>> /\ Head(wait) \in Waiter
    BY DEF Waiting, TypeOK
  <2>4. \A t \in Waiter : Waiting(t) => t \in s
    BY <2>1, <2>2, <2>3, Zenon
  <2> QED BY <1>5, <1>6, <2>2, <2>4 DEF vmm_completion_complete, vmm_completion_complete_once
<1>7. CASE vmm_completion_complete_all
  BY <1>5, <1>7 DEF vmm_completion_complete_all
<1>8. CASE REINIT_COMPLETION
  BY <1>8 DEF REINIT_COMPLETION, NoLostWakeup
<1>9. CASE UNCHANGED vars
  BY <1>9 DEF vars, NoLostWakeup, Waiting
<1> QED BY <1>1, <1>2, <1>3, <1>4, <1>6, <1>7, <1>8, <1>9 DEF Next, Completer

\* No thread sleeps while there is a signal, although a waiter stays in the list
\* until it runs again and a signal may be taken by a thread that has not slept.
THEOREM WakeupsKept == ReachesAll => (Spec => []NoLostWakeup)
<1> SUFFICES ASSUME ReachesAll PROVE Spec => []NoLostWakeup
  OBVIOUS
<1>1. Init => NoLostWakeup
  BY DEF Init, NoLostWakeup
<1>2. TypeOK /\ NoLostWakeup /\ [Next]_vars => NoLostWakeup'
  BY WakeupStep
<1> QED BY <1>1, <1>2, CompletionTypes, PTL DEF Spec

=============================================================================
