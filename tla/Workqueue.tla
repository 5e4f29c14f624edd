------------------------------ MODULE Workqueue -----------------------------
(***************************************************************************)
(* Work queues: core/vmm_workqueue.c, on top of the timer events of module *)
(* Timer.  A queue has a list of works and a worker thread, which waits    *)
(* for the completion work_avail and empties the list.  A delayed work is  *)
(* put in its queue by the handler of its timer event.                     *)
(*                                                                         *)
(* The sections under work->lock are one step each (the list lock of the   *)
(* queue is taken inside).  The completion is its counter, as in SmpIpi.   *)
(* After a list is corrupted nothing more is modelled.                     *)
(***************************************************************************)
EXTENDS Timer

CONSTANTS
  Work,       \* struct vmm_work, each the first part of a vmm_delayed_work
  Delayed,    \* the works that are scheduled with a delay
  Queue,      \* the work queues
  syswq,      \* the system work queue of each host CPU
  Where,      \* the host CPU of the worker of each queue
  None,       \* NULL
  Targets,    \* the queues, or NULL, that callers schedule a work on
  Rearming,   \* the works whose function schedules them once more (bound: once)
  Overlap     \* callers schedule a delayed work also when it is delayed already

ASSUME WorkAssumption ==
  /\ Delayed \cup Rearming \subseteq Work
  /\ Event = Plain \cup Delayed /\ Plain \cap Delayed = {}
  /\ syswq \in [Cpu -> Queue] /\ Where \in [Queue -> Cpu]
  /\ None \notin Queue /\ Targets \in [Work -> SUBSET (Queue \cup {None})]
  /\ Overlap \in BOOLEAN
  /\ \A t \in User : Ops[t] \subseteq {"event_start", "event_stop", "schedule", "delay", "stop",
                                      "stop_delayed", "flush"}

VARIABLES
  flags,      \* work->flags
  wq,         \* work->wq
  work_list,  \* wq->work_list
  work_avail, \* wq->work_avail.done
  wp,         \* where workqueue_main() is: "wait", "loop", "held", "run"
  held,       \* the work it has unlinked
  rearmed,    \* the works that have scheduled themselves
  arg,        \* the work or queue a caller works on
  hq,         \* the queue the clock handler has put a work in
  stopped     \* works stopped and not scheduled since

workVars == <<flags, wq, work_list, work_avail, wp, held, rearmed, hq, stopped>>
vars == <<timerVars, workVars, arg>>

Init ==
  /\ TimerInit
  /\ flags = [w \in Work |-> {"CREATED"}]
  /\ wq = [w \in Work |-> None]
  /\ work_list = [q \in Queue |-> <<>>]
  /\ work_avail = [q \in Queue |-> 0]
  /\ wp = [q \in Queue |-> "wait"]
  /\ held = [q \in Queue |-> None]
  /\ rearmed = {}
  /\ arg = [t \in User |-> None]
  /\ hq = [c \in Cpu |-> None]
  /\ stopped = {}

Scheduled(w) == "SCHEDULED" \in flags[w]

InProgress(w) == "INPROGRESS" \in flags[w]

InList(w, q) == \E i \in DOMAIN work_list[q] : work_list[q][i] = w

\* NULL stands for the system work queue of the executing host CPU.
QueueFor(q, here) == IF q = None THEN syswq[here] ELSE q

-----------------------------------------------------------------------------
(* The functions of vmm_workqueue.c                                        *)

\* vmm_workqueue_schedule_work() under work->lock, for a work that is not
\* scheduled (else it returns VMM_EALREADY).  (Mutant: a work in
\* progress is not added to the list.)
AddForgotten(w, q) ==
  /\ flags' = [flags EXCEPT ![w] = (@ \ {"CREATED"}) \cup {"SCHEDULED"}]
  /\ wq' = [wq EXCEPT ![w] = q]
  /\ work_list' = IF InProgress(w) THEN work_list ELSE [work_list EXCEPT ![q] = Append(@, w)]
  /\ stopped' = stopped \ {w}

Add(w, q) ==
  /\ flags' = [flags EXCEPT ![w] = (@ \ {"CREATED"}) \cup {"SCHEDULED"}]
  /\ wq' = [wq EXCEPT ![w] = q]
  /\ work_list' = [work_list EXCEPT ![q] = Append(@, w)]
  /\ stopped' = stopped \ {w}

Complete(q) == [work_avail EXCEPT ![q] = @ + 1]

-----------------------------------------------------------------------------
(* Callers                                                                 *)

vmm_workqueue_schedule_work(t, w, q) ==
  /\ Op(t, "schedule")
  /\ ~Scheduled(w)
  /\ Add(w, QueueFor(q, on[t]))
  /\ pc' = [pc EXCEPT ![t] = "complete"]
  /\ arg' = [arg EXCEPT ![t] = QueueFor(q, on[t])]
  /\ calls' = [calls EXCEPT ![t] = @ + 1]
  /\ UNCHANGED <<ctrlVars, eventVars, on, ev, hcpu, tstamp, dur, torn,
                 work_avail, wp, held, rearmed, hq>>

\* The locks are released before the worker is signalled.  (Mutant: the worker
\* of the caller's own host CPU is.)
schedule_complete_own(t) ==
  /\ pc[t] = "complete" /\ Runs(t)
  /\ work_avail' = Complete(syswq[on[t]])
  /\ pc' = [pc EXCEPT ![t] = "idle"]
  /\ arg' = [arg EXCEPT ![t] = None]
  /\ UNCHANGED <<ctrlVars, eventVars, on, ev, hcpu, tstamp, dur, calls, torn,
                 flags, wq, work_list, wp, held, rearmed, hq, stopped>>

schedule_complete(t) ==
  /\ pc[t] = "complete" /\ Runs(t)
  /\ work_avail' = Complete(arg[t])
  /\ pc' = [pc EXCEPT ![t] = "idle"]
  /\ arg' = [arg EXCEPT ![t] = None]
  /\ UNCHANGED <<ctrlVars, eventVars, on, ev, hcpu, tstamp, dur, calls, torn,
                 flags, wq, work_list, wp, held, rearmed, hq, stopped>>

\* vmm_workqueue_schedule_delayed_work(): without a lock, the queue is set and the
\* event initialised, also if it is in a list; then the event is started.
vmm_workqueue_schedule_delayed_work(t, w, q, d) ==
  /\ Op(t, "delay")
  /\ Overlap \/ (~active_state[w] /\ \A u \in User : pc[u] = "start" => ev[u] # w)
  /\ now + d <= MaxTime
  /\ wq' = [wq EXCEPT ![w] = QueueFor(q, on[t])]
  /\ torn' = IF active_state[w] THEN torn \cup {w} ELSE torn
  /\ active_state' = [active_state EXCEPT ![w] = FALSE]
  /\ active_hcpu' = [active_hcpu EXCEPT ![w] = 0]
  /\ expiry' = [expiry EXCEPT ![w] = 0]
  /\ duration' = [duration EXCEPT ![w] = 0]
  /\ pc' = [pc EXCEPT ![t] = "start"]
  /\ ev' = [ev EXCEPT ![t] = w]
  /\ hcpu' = [hcpu EXCEPT ![t] = on[t]]
  /\ tstamp' = [tstamp EXCEPT ![t] = now]
  /\ dur' = [dur EXCEPT ![t] = d]
  /\ calls' = [calls EXCEPT ![t] = @ + 1]
  /\ stopped' = stopped \ {w}
  /\ UNCHANGED <<ctrlVars, on, flags, work_list, work_avail, wp, held, rearmed, arg, hq>>

\* vmm_workqueue_stop_work() and vmm_workqueue_stop_delayed_work(), which first
\* stops the timer event.
stop_begin(t, w) ==
  /\ \/ Op(t, "stop") /\ UNCHANGED <<event_list, active_state, expiry, torn>>
     \/ Op(t, "stop_delayed") /\ w \in Delayed /\ EventStop(w)
  /\ pc' = [pc EXCEPT ![t] = "stop"]
  /\ arg' = [arg EXCEPT ![t] = w]
  /\ calls' = [calls EXCEPT ![t] = @ + 1]
  /\ UNCHANGED <<now, started, inprocess, chip, hp, he, active_hcpu, duration,
                 on, ev, hcpu, tstamp, dur, workVars>>

\* It waits for a work in progress.  (Mutant: it does not.)
NoWait(w) == TRUE

StopMay(w) == ~InProgress(w)

\* A scheduled work is unlinked from its list, under the lock of the queue in
\* work->wq: it is not there if the worker has unlinked it already.
vmm_workqueue_stop_work(t) ==
  LET w == arg[t]
      q == wq[w]
      unlink == q # None /\ Scheduled(w)
  IN
  /\ pc[t] = "stop" /\ Runs(t)
  /\ StopMay(w)
  /\ torn' = IF unlink /\ ~InList(w, q) THEN torn \cup {w} ELSE torn
  /\ work_list' = IF unlink THEN [work_list EXCEPT ![q] = list_del(@, w)]
                            ELSE work_list
  /\ flags' = [flags EXCEPT ![w] = {}]
  /\ wq' = [wq EXCEPT ![w] = None]
  /\ stopped' = stopped \cup {w}
  /\ pc' = [pc EXCEPT ![t] = "idle"]
  /\ arg' = [arg EXCEPT ![t] = None]
  /\ UNCHANGED <<ctrlVars, eventVars, on, ev, hcpu, tstamp, dur, calls,
                 work_avail, wp, held, rearmed, hq>>

\* vmm_workqueue_flush(): while there is a work in the list the worker is woken,
\* also from a wait for work_avail.
flush_begin(t, q) ==
  /\ Op(t, "flush")
  /\ pc' = [pc EXCEPT ![t] = "flush"]
  /\ arg' = [arg EXCEPT ![t] = q]
  /\ calls' = [calls EXCEPT ![t] = @ + 1]
  /\ UNCHANGED <<ctrlVars, eventVars, on, ev, hcpu, tstamp, dur, torn, workVars>>

vmm_workqueue_flush(t) ==
  /\ pc[t] = "flush" /\ Runs(t)
  /\ \/ /\ work_list[arg[t]] = <<>>
        /\ pc' = [pc EXCEPT ![t] = "idle"]
        /\ arg' = [arg EXCEPT ![t] = None]
        /\ UNCHANGED <<wp, work_avail>>
     \/ /\ work_list[arg[t]] # <<>> /\ wp[arg[t]] = "wait"
        /\ wp' = [wp EXCEPT ![arg[t]] = "loop"]
        /\ work_avail' = [work_avail EXCEPT ![arg[t]] = IF @ > 0 THEN @ - 1 ELSE 0]
        /\ UNCHANGED <<pc, arg>>
  /\ UNCHANGED <<ctrlVars, eventVars, on, ev, hcpu, tstamp, dur, calls, torn,
                 flags, wq, work_list, held, rearmed, hq, stopped>>

-----------------------------------------------------------------------------
(* The handler of the timer event of a delayed work                        *)

delayed_work_timer_event(c) ==
  LET w == he[c]
      q == QueueFor(wq[w], c)
  IN
  /\ hp[c] = "call" /\ w \in Delayed
  /\ IF Scheduled(w)
       THEN /\ hp' = [hp EXCEPT ![c] = "scan"]
            /\ UNCHANGED <<flags, wq, work_list, hq, stopped>>
       ELSE /\ Add(w, q)
            /\ hq' = [hq EXCEPT ![c] = q]
            /\ hp' = [hp EXCEPT ![c] = "complete"]
  /\ he' = [he EXCEPT ![c] = AnEvent]
  /\ UNCHANGED <<now, started, inprocess, event_list, chip, eventVars, userVars, torn,
                 work_avail, wp, held, rearmed, arg>>

delayed_complete(c) ==
  /\ hp[c] = "complete"
  /\ work_avail' = Complete(hq[c])
  /\ hp' = [hp EXCEPT ![c] = "scan"]
  /\ hq' = [hq EXCEPT ![c] = None]
  /\ UNCHANGED <<now, started, inprocess, event_list, chip, he, eventVars, userVars, torn,
                 flags, wq, work_list, wp, held, rearmed, arg, stopped>>

-----------------------------------------------------------------------------
(* workqueue_main()                                                        *)

WorkerRuns(q) == hp[Where[q]] = "idle"

worker_wait(q) ==
  /\ wp[q] = "wait" /\ WorkerRuns(q)
  /\ work_avail[q] > 0
  /\ work_avail' = [work_avail EXCEPT ![q] = @ - 1]
  /\ wp' = [wp EXCEPT ![q] = "loop"]
  /\ UNCHANGED <<timerVars, flags, wq, work_list, held, rearmed, arg, hq, stopped>>

\* The first work is unlinked, under the lock of the queue only.
worker_unlink(q) ==
  /\ wp[q] = "loop" /\ WorkerRuns(q)
  /\ IF work_list[q] = <<>>
       THEN wp' = [wp EXCEPT ![q] = "wait"] /\ UNCHANGED <<work_list, held>>
       ELSE /\ wp' = [wp EXCEPT ![q] = "held"]
            /\ held' = [held EXCEPT ![q] = Head(work_list[q])]
            /\ work_list' = [work_list EXCEPT ![q] = Tail(@)]
  /\ UNCHANGED <<timerVars, flags, wq, work_avail, rearmed, arg, hq, stopped>>

\* Under work->lock: has it been stopped?  (It has not, unless a list is torn.)
worker_begin(q) ==
  /\ wp[q] = "held" /\ WorkerRuns(q)
  /\ IF Scheduled(held[q])
       THEN /\ flags' = [flags EXCEPT ![held[q]] = (@ \ {"SCHEDULED"}) \cup {"INPROGRESS"}]
            /\ wp' = [wp EXCEPT ![q] = "run"]
            /\ UNCHANGED held
       ELSE /\ wp' = [wp EXCEPT ![q] = "loop"]
            /\ held' = [held EXCEPT ![q] = None]
            /\ UNCHANGED flags
  /\ UNCHANGED <<timerVars, wq, work_list, work_avail, rearmed, arg, hq, stopped>>

\* The function of the work schedules the work anew.
work_func(q) ==
  LET w == held[q] IN
  /\ wp[q] = "run" /\ WorkerRuns(q)
  /\ w \in Rearming \ rearmed
  /\ ~Scheduled(w)
  /\ \E r \in Targets[w] :
       /\ Add(w, QueueFor(r, Where[q]))
       /\ work_avail' = Complete(QueueFor(r, Where[q]))
  /\ rearmed' = rearmed \cup {w}
  /\ UNCHANGED <<timerVars, wp, held, arg, hq>>

\* (Mutant: the work stays in progress.)
FinishedNot(w) == flags[w]

Finished(w) == flags[w] \ {"INPROGRESS"}

worker_end(q) ==
  /\ wp[q] = "run" /\ WorkerRuns(q)
  /\ flags' = [flags EXCEPT ![held[q]] = Finished(held[q])]
  /\ wp' = [wp EXCEPT ![q] = "loop"]
  /\ held' = [held EXCEPT ![q] = None]
  /\ UNCHANGED <<timerVars, wq, work_list, work_avail, rearmed, arg, hq, stopped>>

workqueue_main(q) ==
  worker_wait(q) \/ worker_unlink(q) \/ worker_begin(q) \/ work_func(q) \/ worker_end(q)

-----------------------------------------------------------------------------

Begins(t) ==
  \/ \E w \in Work : \/ \E q \in Targets[w] : vmm_workqueue_schedule_work(t, w, q)
                     \/ stop_begin(t, w)
  \/ \E w \in Delayed, d \in Durations :
       \E q \in Targets[w] : vmm_workqueue_schedule_delayed_work(t, w, q, d)
  \/ \E q \in Queue : flush_begin(t, q)

\* What happens without a new call.
Continues ==
  \/ \E q \in Queue : workqueue_main(q)
  \/ \E c \in Cpu : delayed_work_timer_event(c) \/ delayed_complete(c)
  \/ \E t \in User : schedule_complete(t) \/ vmm_workqueue_stop_work(t) \/ vmm_workqueue_flush(t)
  \/ /\ \/ Tick
        \/ \E c \in Cpu : vmm_timer_start(c) \/ clock_interrupt(c) \/ Handles(c)
        \/ \E t \in User, c \in Cpu : vmm_timer_event_start(t, c)
     /\ UNCHANGED <<workVars, arg>>

Next ==
  /\ torn = {}
  /\ \/ Continues
     \/ \E t \in User : Begins(t)
     \/ TimerCalls /\ UNCHANGED <<workVars, arg>>

Spec == Init /\ [][Next]_vars

\* Time passes, interrupts are taken and handled, and workers and callers are
\* scheduled (module Scheduler).  Between calls only finitely many such steps are
\* possible, so that it is enough that one of them is taken while there is one.
Fairness == WF_vars(torn = {} /\ Continues)

FairSpec == Spec /\ Fairness

-----------------------------------------------------------------------------
(* Properties                                                              *)

TypeOK ==
  /\ TimerTypeOK
  /\ flags \in [Work -> SUBSET {"CREATED", "SCHEDULED", "INPROGRESS"}]
  /\ wq \in [Work -> Queue \cup {None}]
  /\ work_list \in [Queue -> Seq(Work)]
  /\ work_avail \in [Queue -> Nat]
  /\ wp \in [Queue -> {"wait", "loop", "held", "run"}]
  /\ held \in [Queue -> Work \cup {None}]
  /\ rearmed \subseteq Work /\ stopped \subseteq Work
  /\ torn \subseteq Event \cup Work
  /\ arg \in [User -> Work \cup Queue \cup {None}]
  /\ hq \in [Cpu -> Queue \cup {None}]

\* A work that is scheduled, and no other, is in a list, once, or in the hands
\* of a worker that has not yet looked whether to run it.
ScheduledIsQueued ==
  torn = {} => \A w \in Work :
    LET listed == {p \in UNION {{q} \X DOMAIN work_list[q] : q \in Queue} :
                     work_list[p[1]][p[2]] = w}
        taken == {q \in Queue : wp[q] = "held" /\ held[q] = w}
    IN  IF Scheduled(w) THEN \/ taken = {} /\ \E p \in listed : listed = {p}
                             \/ listed = {} /\ \E q \in taken : taken = {q}
                        ELSE listed = {} /\ taken = {}

\* No work is left in a list whose worker sleeps: the worker is signalled or
\* about to be, although that happens after the locks are released.
NoLostWork ==
  \A q \in Queue : work_list[q] # <<>> =>
    \/ wp[q] # "wait" \/ work_avail[q] > 0
    \/ \E t \in User : pc[t] = "complete" /\ arg[t] = q
    \/ \E c \in Cpu : hp[c] = "complete" /\ hq[c] = q

\* The works that only ever go to one queue.
Pinned == {w \in Work \ Delayed : \E q \in Queue : Targets[w] = {q}}

RunsOn(w) == {q \in Queue : wp[q] = "run" /\ held[q] = w}

\* "Stop a scheduled or in-progress work": when vmm_workqueue_stop_work() has
\* returned, the function does not run until the work is scheduled again.
\* Here for the works that only ever go to one queue.
StopHolds == \A w \in Pinned \cap stopped : RunsOn(w) = {}

\* The same for every work.
StopHoldsAll == \A w \in stopped : RunsOn(w) = {}

\* A delayed work that was stopped is not scheduled behind the caller's back.
StoppedStays == \A w \in stopped, c \in Cpu : ~(hp[c] \in {"stop", "call"} /\ he[c] = w)

\* No list node is unlinked twice or overwritten while it is linked: list_del()
\* poisons it for that.
ListsIntact == torn = {}

\* A scheduled work is run or stopped.
WorkRuns == \A w \in Work : Scheduled(w) ~> ~Scheduled(w) \/ torn # {}

\* vmm_workqueue_stop_work() and vmm_workqueue_flush() return.
CallsReturn == \A t \in User : pc[t] # "idle" ~> pc[t] = "idle" \/ torn # {}
=============================================================================
