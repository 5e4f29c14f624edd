----------------------------- MODULE Completion ----------------------------
(***************************************************************************)
(* The completion event of core/vmm_completion.c on its wait queue         *)
(* (core/vmm_waitqueue.c).  Unlike the mutex and the semaphore it wakes    *)
(* the first waiter only and does not test again after a sleep, so here    *)
(* the order of the wait queue matters, and the flag vcpu->resumed with    *)
(* which the scheduler remembers the resume of a VCPU that runs.           *)
(***************************************************************************)
EXTENDS Naturals, Sequences

CONSTANTS
  Waiter,   \* the threads that wait for the completion
  Timed,    \* the ones that do so with a timeout
  Ops,      \* how it is signalled: "complete", "once", "all", "reinit"
  Modulus   \* 2^32 in the code: cmpl->done is a u32

ASSUME CompletionAssumption ==
  /\ Timed \subseteq Waiter
  /\ Ops \subseteq {"complete", "once", "all", "reinit"}
  /\ Modulus \in Nat \ {0}

VARIABLES
  st,      \* vcpu->state of the waiters
  resumed, \* the waiters with vcpu->resumed
  wait,    \* wq->vcpu_list
  expired, \* the waiters whose timeout is over
  done,    \* cmpl->done
  reply    \* what the last wait of each thread has returned

vars == <<st, resumed, wait, expired, done, reply>>

\* A wait returns VMM_OK or VMM_ETIMEDOUT, with or without a signal consumed.
Replies == [ok : BOOLEAN, consumed : BOOLEAN]
NoReply == [ok |-> FALSE, consumed |-> FALSE]

TypeOK ==
  /\ st \in [Waiter -> {"RUNNING", "READY", "PAUSED"}]
  /\ resumed \subseteq Waiter
  /\ wait \in Seq(Waiter)
  /\ expired \subseteq Waiter
  /\ done \in 0 .. Modulus - 1
  /\ reply \in [Waiter -> Replies]

Init ==
  /\ st = [t \in Waiter |-> "RUNNING"]
  /\ resumed = {}
  /\ wait = <<>>
  /\ expired = {}
  /\ done = 0
  /\ reply = [t \in Waiter |-> NoReply]

Waiting(t) == \E i \in DOMAIN wait : wait[i] = t

-----------------------------------------------------------------------------

\* The end of completion_wait_common(): a signal is consumed if there is one,
\* whatever the sleep has returned.
Consume(t, ok) ==
  /\ done' = IF done > 0 THEN done - 1 ELSE 0
  /\ reply' = [reply EXCEPT ![t] = [ok |-> ok, consumed |-> done > 0]]

\* completion_wait_common() up to the sleep.  The pause of a VCPU that was
\* resumed while it ran does nothing, and the sleep ends at once.
\* (Mutant: it sleeps without a look at the signals.)
completion_wait_blind(t) ==
  /\ st[t] = "RUNNING" /\ ~Waiting(t)
  /\ wait' = Append(wait, t)
  /\ st' = [st EXCEPT ![t] = "PAUSED"]
  /\ UNCHANGED <<resumed, expired, done, reply>>

completion_wait(t) ==
  /\ st[t] = "RUNNING" /\ ~Waiting(t)
  /\ IF done > 0 \/ t \in resumed
       THEN /\ Consume(t, TRUE)
            /\ resumed' = IF done > 0 THEN resumed ELSE resumed \ {t}
            /\ UNCHANGED <<st, wait>>
       ELSE /\ wait' = Append(wait, t)
            /\ st' = [st EXCEPT ![t] = "PAUSED"]
            /\ UNCHANGED <<resumed, done, reply>>
  /\ UNCHANGED expired

\* list_del() of a thread in the list.
list_del(list, t) ==
  LET i == CHOOSE j \in DOMAIN list : list[j] = t
  IN  [j \in 1..Len(list) - 1 |-> list[IF j < i THEN j ELSE j + 1]]

\* The rest of completion_wait_common(), when the thread runs again.
completion_wait_end(t) ==
  /\ st[t] = "RUNNING" /\ Waiting(t)
  /\ wait' = list_del(wait, t)
  /\ expired' = expired \ {t}
  /\ Consume(t, t \notin expired)
  /\ UNCHANGED <<st, resumed>>

\* vmm_scheduler_state_change(vcpu, READY) of the threads in s.
Wake(s) ==
  /\ st' = [t \in Waiter |-> IF t \in s /\ st[t] = "PAUSED" THEN "READY" ELSE st[t]]
  /\ resumed' = resumed \cup {t \in s : st[t] = "RUNNING"}

\* __vmm_waitqueue_wakefirst(): the first waiter stays in the list.
\* (Mutant: nobody is woken.)
WakeNobody == Wake({})

WakeFirst == Wake(IF wait = <<>> THEN {} ELSE {Head(wait)})

\* Adding to the u32 cmpl->done.
Signal(n) == done' = (done + n) % Modulus

vmm_completion_complete ==
  /\ "complete" \in Ops
  /\ Signal(1)
  /\ WakeFirst
  /\ UNCHANGED <<wait, expired, reply>>

vmm_completion_complete_once ==
  /\ "once" \in Ops
  /\ done = 0
  /\ Signal(1)
  /\ WakeFirst
  /\ UNCHANGED <<wait, expired, reply>>

vmm_completion_complete_all ==
  /\ "all" \in Ops
  /\ Signal((Modulus - 1) \div 2)
  /\ Wake({t \in Waiter : Waiting(t)})
  /\ UNCHANGED <<wait, expired, reply>>

\* REINIT_COMPLETION(), without the lock of the wait queue.
REINIT_COMPLETION ==
  /\ "reinit" \in Ops
  /\ done' = 0
  /\ UNCHANGED <<st, resumed, wait, expired, reply>>

\* waitqueue_timeout(): the timer event of the sleep.
waitqueue_timeout(t) ==
  /\ t \in Timed \ expired /\ Waiting(t)
  /\ expired' = expired \cup {t}
  /\ Wake({t})
  /\ UNCHANGED <<wait, done, reply>>

\* The scheduler runs a READY thread; a thread that runs may be preempted, but
\* not inside of the wait, where interrupts are off.
Dispatch(t) ==
  /\ st[t] = "READY"
  /\ st' = [st EXCEPT ![t] = "RUNNING"]
  /\ resumed' = resumed \ {t}
  /\ UNCHANGED <<wait, expired, done, reply>>

Preempt(t) ==
  /\ st[t] = "RUNNING" /\ ~Waiting(t)
  /\ st' = [st EXCEPT ![t] = "READY"]
  /\ UNCHANGED <<resumed, wait, expired, done, reply>>

Completer ==
  \/ vmm_completion_complete \/ vmm_completion_complete_once
  \/ vmm_completion_complete_all \/ REINIT_COMPLETION

Next ==
  \/ Completer
  \/ \E t \in Waiter :
       \/ completion_wait(t) \/ completion_wait_end(t)
       \/ waitqueue_timeout(t) \/ Dispatch(t) \/ Preempt(t)

Spec == Init /\ [][Next]_vars

\* The scheduler runs READY threads, and a thread that runs gets on with the
\* wait it is in.
Fairness ==
  \A t \in Waiter : WF_vars(Dispatch(t)) /\ WF_vars(completion_wait_end(t))

FairSpec == Spec /\ Fairness

-----------------------------------------------------------------------------
(* Properties                                                              *)

\* No wakeup is lost: while there is a signal to consume no thread sleeps.
\* With one waiter, or when all signals are vmm_completion_complete_all().
NoLostWakeup == done > 0 => \A t \in Waiter : Waiting(t) => st[t] # "PAUSED"

\* vmm_completion_complete() wakes a thread that sleeps, if there is one.
CompleteWakes ==
  [][vmm_completion_complete /\ (\E t \in Waiter : st[t] = "PAUSED")
       => \E t \in Waiter : st[t] = "PAUSED" /\ st'[t] = "READY"]_vars

\* A wait that returns VMM_OK has waited for a signal.
OkIsDone == \A t \in Waiter : reply[t].ok => reply[t].consumed

\* The waiter of a signal comes back from its wait.
WaitReturns == \A t \in Waiter : done > 0 /\ Waiting(t) ~> ~Waiting(t)

=============================================================================
