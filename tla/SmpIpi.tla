------------------------------- MODULE SmpIpi -------------------------------
(***************************************************************************)
(* Calls of functions on other host CPUs: core/vmm_smp.c.  Each host CPU   *)
(* has a fifo of sync calls, emptied by the handler of the IPI interrupt,  *)
(* and one of async calls, emptied by its IPI VCPU (smp_ipi_main), which   *)
(* the handler wakes with the completion ipi_avail.                        *)
(*                                                                         *)
(* The fifos are the queues of module BoundedQueue (which Fifo implements) *)
(* and the completion is its counter: with its one waiter no signal is     *)
(* lost (module Completion).  The functions called are opaque and call no  *)
(* further ones.  for_each_cpu() visits the host CPUs in any order.        *)
(***************************************************************************)
EXTENDS Naturals, Sequences

CONSTANTS
  Cpu,        \* host CPUs
  Late,       \* the ones that are started while others already make calls
  Caller,     \* threads that make calls
  Home,       \* the host CPU of each caller
  Movers,     \* the callers that may be moved to another host CPU
  Masking,    \* the ones whose async calls are made with interrupts off
  Kinds,      \* what they call: "sync", "async"
  SyncSize,   \* SMP_IPI_MAX_SYNC_PER_CPU
  AsyncSize,  \* SMP_IPI_MAX_ASYNC_PER_CPU
  Tries,      \* SMP_IPI_WAIT_TRY_COUNT
  MaxCalls    \* bound: the number of calls of each caller

ASSUME IpiAssumption ==
  /\ Late \subseteq Cpu
  /\ Home \in [Caller -> Cpu]
  /\ Movers \cup Masking \subseteq Caller
  /\ Kinds \subseteq {"sync", "async"}
  /\ SyncSize \in Nat \ {0} /\ AsyncSize \in Nat \ {0}
  /\ Tries \in Nat
  /\ MaxCalls \in [Caller -> Nat]

VARIABLES
  up,         \* how far the host CPU has booted
  sync_fifo,  \* ictl.sync_fifo
  async_fifo, \* ictl.async_fifo
  ipi_avail,  \* ictl.ipi_avail.done
  irq,        \* the host CPUs with the IPI interrupt pending
  exec,       \* where vmm_smp_ipi_exec() is: "idle", "sync", "run", "async"
  main,       \* where smp_ipi_main() is: "wait", "async", "run"
  ecall,      \* the call the handler has dequeued
  mcall,      \* the call the IPI VCPU has dequeued
  missed,     \* host CPUs that took the interrupt without a handler for it
  on,         \* the host CPU a caller runs on
  pc,         \* where the caller is
  kind,       \* what it calls
  masked,     \* the callers with interrupts off
  num,        \* the number of its call
  cpu,        \* vmm_smp_processor_id() at the start of the call
  todo,       \* destinations not looked at yet
  dst,        \* the one it submits to
  try,        \* tries left
  trig_mask,  \* destinations it waits for
  rc,         \* what the last sync call has returned
  asked,      \* the destinations of the last sync call that were online
  ran,        \* calls that have returned: for which host CPU, and on which
  panic       \* why the hypervisor has stopped

cpuVars == <<up, sync_fifo, async_fifo, ipi_avail, irq, exec, main, ecall, mcall, missed>>
callerVars == <<on, pc, kind, masked, num, cpu, todo, dst, try, trig_mask, rc, asked>>
vars == <<cpuVars, callerVars, ran, panic>>

Call == Caller \X Nat

\* Any call, where there is none.
NoCall == <<CHOOSE t \in Caller : TRUE, 0>>

ThisCall(t) == <<t, num[t]>>

Init ==
  /\ up = [c \in Cpu |-> IF c \in Late THEN "off" ELSE "ready"]
  /\ sync_fifo = [c \in Cpu |-> <<>>]
  /\ async_fifo = [c \in Cpu |-> <<>>]
  /\ ipi_avail = [c \in Cpu |-> 0]
  /\ irq = {}
  /\ exec = [c \in Cpu |-> "idle"]
  /\ main = [c \in Cpu |-> "wait"]
  /\ ecall = [c \in Cpu |-> NoCall]
  /\ mcall = [c \in Cpu |-> NoCall]
  /\ missed = {}
  /\ on = Home
  /\ pc = [t \in Caller |-> "idle"]
  /\ kind = [t \in Caller |-> "async"]
  /\ masked = {}
  /\ num = [t \in Caller |-> 0]
  /\ cpu = Home
  /\ todo = [t \in Caller |-> {}]
  /\ dst = Home
  /\ try = [t \in Caller |-> 0]
  /\ trig_mask = [t \in Caller |-> {}]
  /\ rc = [t \in Caller |-> "none"]
  /\ asked = [t \in Caller |-> {}]
  /\ ran = {}
  /\ panic = "none"

-----------------------------------------------------------------------------
(* Booting a host CPU: init_secondary()                                    *)

\* vmm_scheduler_init() marks it online, ...
vmm_scheduler_init(c) ==
  /\ up[c] = "off"
  /\ up' = [up EXCEPT ![c] = "online"]
  /\ UNCHANGED <<sync_fifo, async_fifo, ipi_avail, irq, exec, main, ecall, mcall,
                 missed, callerVars, ran, panic>>

\* ... vmm_smp_ipi_init() allocates the fifos and then registers the handler.
vmm_smp_ipi_init(c) ==
  /\ up[c] \in {"online", "fifos"}
  /\ up' = [up EXCEPT ![c] = IF @ = "online" THEN "fifos" ELSE "ready"]
  /\ UNCHANGED <<sync_fifo, async_fifo, ipi_avail, irq, exec, main, ecall, mcall,
                 missed, callerVars, ran, panic>>

\* SGIs are enabled by gic_cpu_init(), long before.  One that comes too early
\* finds no action and is acknowledged all the same.
vmm_handle_percpu_irq(c) ==
  /\ c \in irq
  /\ up[c] \in {"online", "fifos"}
  /\ irq' = irq \ {c}
  /\ missed' = missed \cup {c}
  /\ UNCHANGED <<up, sync_fifo, async_fifo, ipi_avail, exec, main, ecall, mcall,
                 callerVars, ran, panic>>

-----------------------------------------------------------------------------
(* The called host CPU                                                     *)

\* Interrupts are off on the host CPU.
Masked(c) == \E t \in masked : on[t] = c

\* The interrupt is acknowledged before its handler runs, so that a trigger
\* during the handler makes it pending again.
smp_ipi_handler(c) ==
  /\ c \in irq
  /\ up[c] = "ready" /\ exec[c] = "idle" /\ ~Masked(c)
  /\ irq' = irq \ {c}
  /\ exec' = [exec EXCEPT ![c] = "sync"]
  /\ UNCHANGED <<up, sync_fifo, async_fifo, ipi_avail, main, ecall, mcall, missed,
                 callerVars, ran, panic>>

\* vmm_smp_ipi_exec() runs the sync calls.
exec_dequeue(c) ==
  /\ exec[c] = "sync"
  /\ IF sync_fifo[c] = <<>>
       THEN exec' = [exec EXCEPT ![c] = "async"] /\ UNCHANGED <<sync_fifo, ecall>>
       ELSE /\ exec' = [exec EXCEPT ![c] = "run"]
            /\ ecall' = [ecall EXCEPT ![c] = Head(sync_fifo[c])]
            /\ sync_fifo' = [sync_fifo EXCEPT ![c] = Tail(@)]
  /\ UNCHANGED <<up, async_fifo, ipi_avail, irq, main, mcall, missed, callerVars, ran, panic>>

exec_func(c) ==
  /\ exec[c] = "run"
  /\ ran' = ran \cup {<<ecall[c], c, c>>}
  /\ exec' = [exec EXCEPT ![c] = "sync"]
  /\ ecall' = [ecall EXCEPT ![c] = NoCall]
  /\ UNCHANGED <<up, sync_fifo, async_fifo, ipi_avail, irq, main, mcall, missed,
                 callerVars, panic>>

\* (Mutant: the IPI VCPU is only woken if there is more than one call.)
exec_complete_late(c) ==
  /\ exec[c] = "async"
  /\ ipi_avail' = [ipi_avail EXCEPT ![c] = IF Len(async_fifo[c]) > 1 THEN @ + 1 ELSE @]
  /\ exec' = [exec EXCEPT ![c] = "idle"]
  /\ UNCHANGED <<up, sync_fifo, async_fifo, irq, main, ecall, mcall, missed,
                 callerVars, ran, panic>>

exec_complete(c) ==
  /\ exec[c] = "async"
  /\ ipi_avail' = [ipi_avail EXCEPT ![c] = IF async_fifo[c] # <<>> THEN @ + 1 ELSE @]
  /\ exec' = [exec EXCEPT ![c] = "idle"]
  /\ UNCHANGED <<up, sync_fifo, async_fifo, irq, main, ecall, mcall, missed,
                 callerVars, ran, panic>>

vmm_smp_ipi_exec(c) == exec_dequeue(c) \/ exec_func(c) \/ exec_complete(c)

\* The threads of the host CPU can run.
ThreadsRun(c) == up[c] = "ready" /\ exec[c] = "idle" /\ ~Masked(c)

\* smp_ipi_main(), the IPI VCPU: waits for ipi_avail, then empties the fifo.
main_wait(c) ==
  /\ main[c] = "wait" /\ ThreadsRun(c)
  /\ ipi_avail[c] > 0
  /\ ipi_avail' = [ipi_avail EXCEPT ![c] = @ - 1]
  /\ main' = [main EXCEPT ![c] = "async"]
  /\ UNCHANGED <<up, sync_fifo, async_fifo, irq, exec, ecall, mcall, missed,
                 callerVars, ran, panic>>

main_dequeue(c) ==
  /\ main[c] = "async" /\ ThreadsRun(c)
  /\ IF async_fifo[c] = <<>>
       THEN main' = [main EXCEPT ![c] = "wait"] /\ UNCHANGED <<async_fifo, mcall>>
       ELSE /\ main' = [main EXCEPT ![c] = "run"]
            /\ mcall' = [mcall EXCEPT ![c] = Head(async_fifo[c])]
            /\ async_fifo' = [async_fifo EXCEPT ![c] = Tail(@)]
  /\ UNCHANGED <<up, sync_fifo, ipi_avail, irq, exec, ecall, missed, callerVars, ran, panic>>

main_func(c) ==
  /\ main[c] = "run" /\ ThreadsRun(c)
  /\ ran' = ran \cup {<<mcall[c], c, c>>}
  /\ main' = [main EXCEPT ![c] = "async"]
  /\ mcall' = [mcall EXCEPT ![c] = NoCall]
  /\ UNCHANGED <<up, sync_fifo, async_fifo, ipi_avail, irq, exec, ecall, missed,
                 callerVars, panic>>

smp_ipi_main(c) == main_wait(c) \/ main_dequeue(c) \/ main_func(c)

-----------------------------------------------------------------------------
(* The caller                                                              *)

\* The caller can take a step: no handler and no other caller with interrupts
\* off has the host CPU.
Runs(t) ==
  /\ up[on[t]] = "ready"
  /\ exec[on[t]] = "idle"
  /\ \A o \in masked : on[o] = on[t] => o = t

\* vmm_smp_ipi_sync_call() and vmm_smp_ipi_async_call() up to their loop.
Start(t, k, dest, mask) ==
  /\ pc[t] = "idle" /\ Runs(t)
  /\ num[t] < MaxCalls[t]
  /\ mask => k = "async" /\ t \in Masking
  /\ pc' = [pc EXCEPT ![t] = "scan"]
  /\ kind' = [kind EXCEPT ![t] = k]
  /\ masked' = IF mask THEN masked \cup {t} ELSE masked
  /\ num' = [num EXCEPT ![t] = @ + 1]
  /\ cpu' = [cpu EXCEPT ![t] = on[t]]
  /\ todo' = [todo EXCEPT ![t] = dest]
  /\ rc' = [rc EXCEPT ![t] = "none"]
  /\ asked' = [asked EXCEPT ![t] = {}]
  /\ UNCHANGED <<cpuVars, on, dst, try, trig_mask, ran, panic>>

\* The loop over the destinations: the own host CPU is called directly, one
\* that is not online is left out.
Scan(t, c) ==
  /\ pc[t] = "scan" /\ Runs(t)
  /\ c \in todo[t]
  /\ \/ /\ c = cpu[t]
        /\ ran' = ran \cup {<<ThisCall(t), c, on[t]>>}
        /\ todo' = [todo EXCEPT ![t] = @ \ {c}]
        /\ UNCHANGED <<pc, dst, try>>
     \/ /\ c # cpu[t] /\ up[c] = "off"
        /\ todo' = [todo EXCEPT ![t] = @ \ {c}]
        /\ UNCHANGED <<pc, dst, try, ran>>
     \/ /\ c # cpu[t] /\ up[c] # "off"
        /\ pc' = [pc EXCEPT ![t] = "submit"]
        /\ dst' = [dst EXCEPT ![t] = c]
        /\ try' = [try EXCEPT ![t] = Tries]
        /\ UNCHANGED <<todo, ran>>
  /\ UNCHANGED <<cpuVars, on, kind, masked, num, cpu, trig_mask, rc, asked, panic>>

Full(t) ==
  IF kind[t] = "sync" THEN Len(sync_fifo[dst[t]]) >= SyncSize
                      ELSE Len(async_fifo[dst[t]]) >= AsyncSize

\* fifo_enqueue() returns FALSE, also for a fifo that is not allocated yet.
Refused(t) == up[dst[t]] \in {"off", "online"} \/ Full(t)

\* The retry loop of smp_ipi_sync_submit() and smp_ipi_async_submit().
submit_retry(t) ==
  /\ pc[t] = "submit" /\ Runs(t)
  /\ Refused(t) /\ try[t] > 0
  /\ irq' = irq \cup {dst[t]}
  /\ try' = [try EXCEPT ![t] = @ - 1]
  /\ UNCHANGED <<up, sync_fifo, async_fifo, ipi_avail, exec, main, ecall, mcall, missed,
                 on, pc, kind, masked, num, cpu, todo, dst, trig_mask, rc, asked, ran, panic>>

Enqueue(t) ==
  LET d == dst[t] IN
  IF kind[t] = "sync"
    THEN /\ sync_fifo' = [sync_fifo EXCEPT ![d] = Append(@, ThisCall(t))]
         /\ UNCHANGED async_fifo
    ELSE /\ async_fifo' = [async_fifo EXCEPT ![d] = Append(@, ThisCall(t))]
         /\ UNCHANGED sync_fifo

\* The loop ends with the call in the fifo; it is the number of tries left, and
\* not the fifo, that then decides about the panic.
submit_enqueue(t) ==
  /\ pc[t] = "submit" /\ Runs(t)
  /\ ~Refused(t)
  /\ Enqueue(t)
  /\ panic' = IF try[t] = 0 THEN "enqueued" ELSE panic
  /\ pc' = [pc EXCEPT ![t] = "trigger"]
  /\ UNCHANGED <<up, ipi_avail, irq, exec, main, ecall, mcall, missed, on, kind, masked,
                 num, cpu, todo, dst, try, trig_mask, rc, asked, ran>>

\* It ends with the last try refused.
submit_fail(t) ==
  /\ pc[t] = "submit" /\ Runs(t)
  /\ Refused(t) /\ try[t] = 0
  /\ panic' = IF Full(t) THEN "full" ELSE "missing"
  /\ UNCHANGED <<cpuVars, callerVars, ran>>

\* The last arch_smp_ipi_trigger() of a submit, and the bookkeeping after it.
\* (Mutant: no interrupt if one call is there already.)
TriggerFirst(t) ==
  IF Len(sync_fifo[dst[t]]) + Len(async_fifo[dst[t]]) > 1 THEN irq ELSE irq \cup {dst[t]}

Triggered(t) == irq \cup {dst[t]}

submit_trigger(t) ==
  /\ pc[t] = "trigger" /\ Runs(t)
  /\ irq' = Triggered(t)
  /\ pc' = [pc EXCEPT ![t] = "scan"]
  /\ todo' = [todo EXCEPT ![t] = @ \ {dst[t]}]
  /\ trig_mask' = [trig_mask EXCEPT ![t] = IF kind[t] = "sync" THEN @ \cup {dst[t]} ELSE @]
  /\ asked' = [asked EXCEPT ![t] = IF kind[t] = "sync" THEN @ \cup {dst[t]} ELSE @]
  /\ UNCHANGED <<up, sync_fifo, async_fifo, ipi_avail, exec, main, ecall, mcall, missed,
                 on, kind, masked, num, cpu, dst, try, rc, ran, panic>>

Submit(t) == submit_retry(t) \/ submit_enqueue(t) \/ submit_fail(t) \/ submit_trigger(t)

\* All destinations have been looked at: the call returns, or a sync call
\* starts to wait.
Scanned(t) ==
  /\ pc[t] = "scan" /\ Runs(t)
  /\ todo[t] = {}
  /\ pc' = [pc EXCEPT ![t] = IF trig_mask[t] = {} THEN "idle" ELSE "wait"]
  /\ rc' = [rc EXCEPT ![t] = IF kind[t] = "sync" /\ trig_mask[t] = {} THEN "OK" ELSE @]
  /\ masked' = masked \ {t}
  /\ UNCHANGED <<cpuVars, on, kind, num, cpu, todo, dst, try, trig_mask, asked, ran, panic>>

\* fifo_avail() of a destination is zero.  (Mutant: not more than one call.)
AlmostServed(c) == Len(sync_fifo[c]) <= 1

Served(c) == sync_fifo[c] = <<>>

\* One look at a destination in the waiting loop; the last one ends it.
Poll(t, c) ==
  /\ pc[t] = "wait" /\ Runs(t)
  /\ c \in trig_mask[t]
  /\ Served(c)
  /\ trig_mask' = [trig_mask EXCEPT ![t] = @ \ {c}]
  /\ pc' = [pc EXCEPT ![t] = IF trig_mask[t] = {c} THEN "idle" ELSE "wait"]
  /\ rc' = [rc EXCEPT ![t] = IF trig_mask[t] = {c} THEN "OK" ELSE @]
  /\ UNCHANGED <<cpuVars, on, kind, masked, num, cpu, todo, dst, try, asked, ran, panic>>

\* The time is over: the calls stay in the fifos.  (Mutant: there is no timeout.)
TimeoutNever(t) == pc[t] = "wait" /\ FALSE /\ UNCHANGED vars

Timeout(t) ==
  /\ pc[t] = "wait" /\ Runs(t)
  /\ trig_mask' = [trig_mask EXCEPT ![t] = {}]
  /\ pc' = [pc EXCEPT ![t] = "idle"]
  /\ rc' = [rc EXCEPT ![t] = "ETIMEDOUT"]
  /\ UNCHANGED <<cpuVars, on, kind, masked, num, cpu, todo, dst, try, asked, ran, panic>>

\* The load balancer moves the calling thread (bound: once).
Move(t, c) ==
  /\ t \in Movers /\ t \notin masked /\ Runs(t)
  /\ up[c] = "ready" /\ on[t] = Home[t] /\ c # on[t]
  /\ on' = [on EXCEPT ![t] = c]
  /\ UNCHANGED <<cpuVars, pc, kind, masked, num, cpu, todo, dst, try, trig_mask, rc,
                 asked, ran, panic>>

-----------------------------------------------------------------------------

Boots(c) == vmm_scheduler_init(c) \/ vmm_smp_ipi_init(c) \/ vmm_handle_percpu_irq(c)

Serves(c) == vmm_smp_ipi_exec(c) \/ smp_ipi_main(c)

Goes(t) ==
  \/ \E c \in Cpu : Scan(t, c) \/ Poll(t, c)
  \/ Submit(t) \/ Scanned(t) \/ Timeout(t)

Next ==
  /\ panic = "none"
  /\ \/ \E c \in Cpu : Boots(c) \/ smp_ipi_handler(c) \/ Serves(c)
     \/ \E t \in Caller :
          \/ \E k \in Kinds, dest \in SUBSET Cpu \ {{}}, mask \in BOOLEAN : Start(t, k, dest, mask)
          \/ Goes(t)
          \/ \E c \in Cpu : Move(t, c)

Spec == Init /\ [][Next]_vars

\* A boot that has begun ends, a pending interrupt is taken, its handler and the IPI VCPU, which has the
\* highest priority, go on, and so does a caller (its loops are bounded).
Fairness ==
  /\ \A c \in Cpu :
       /\ WF_vars(panic = "none" /\ vmm_smp_ipi_init(c))
       /\ WF_vars(panic = "none" /\ smp_ipi_handler(c))
       /\ WF_vars(panic = "none" /\ vmm_smp_ipi_exec(c))
       /\ WF_vars(panic = "none" /\ smp_ipi_main(c))
  /\ \A t \in Caller : WF_vars(panic = "none" /\ Goes(t))

FairSpec == Spec /\ Fairness

-----------------------------------------------------------------------------
(* Properties                                                              *)

TypeOK ==
  /\ up \in [Cpu -> {"off", "online", "fifos", "ready"}]
  /\ sync_fifo \in [Cpu -> Seq(Call)]
  /\ async_fifo \in [Cpu -> Seq(Call)]
  /\ \A c \in Cpu : Len(sync_fifo[c]) <= SyncSize /\ Len(async_fifo[c]) <= AsyncSize
  /\ ipi_avail \in [Cpu -> Nat]
  /\ irq \subseteq Cpu
  /\ exec \in [Cpu -> {"idle", "sync", "run", "async"}]
  /\ main \in [Cpu -> {"wait", "async", "run"}]
  /\ ecall \in [Cpu -> Call]
  /\ mcall \in [Cpu -> Call]
  /\ missed \subseteq Cpu
  /\ on \in [Caller -> Cpu]
  /\ pc \in [Caller -> {"idle", "scan", "submit", "trigger", "wait"}]
  /\ kind \in [Caller -> {"sync", "async"}]
  /\ masked \subseteq Caller
  /\ num \in [Caller -> Nat]
  /\ cpu \in [Caller -> Cpu]
  /\ todo \in [Caller -> SUBSET Cpu]
  /\ dst \in [Caller -> Cpu]
  /\ try \in [Caller -> 0..Tries]
  /\ trig_mask \in [Caller -> SUBSET Cpu]
  /\ rc \in [Caller -> {"none", "OK", "ETIMEDOUT"}]
  /\ asked \in [Caller -> SUBSET Cpu]
  /\ ran \subseteq Call \X Cpu \X Cpu
  /\ panic \in {"none", "enqueued", "full", "missing"}

\* The interrupt of a host CPU is pending or about to be triggered.
Coming(c) == c \in irq \/ \E t \in Caller : pc[t] = "trigger" /\ dst[t] = c

\* No sync call is left in the fifo of a host CPU that is not going to look
\* there: its handler is in the loop, or another interrupt will come.
NoSyncLost ==
  \A c \in Cpu \ missed :
    sync_fifo[c] # <<>> => Coming(c) \/ exec[c] \in {"sync", "run"}

\* No async call is left either: an interrupt comes, the handler has not yet
\* tested the fifo, or the IPI VCPU is signalled or in its loop.
NoAsyncLost ==
  \A c \in Cpu \ missed :
    async_fifo[c] # <<>>
      => Coming(c) \/ exec[c] # "idle" \/ ipi_avail[c] > 0 \/ main[c] # "wait"

\* When vmm_smp_ipi_sync_call() has returned VMM_OK its function has run, or is
\* the one that runs, on every destination, also on a fifo shared with others.
OkIsStarted ==
  \A t \in Caller : rc[t] = "OK" =>
    \A c \in asked[t] :
      \/ <<ThisCall(t), c, c>> \in ran
      \/ exec[c] = "run" /\ ecall[c] = ThisCall(t)

\* "Synchronus call to function on multiple cores": when vmm_smp_ipi_sync_call()
\* has returned VMM_OK the function has run on every destination.
OkIsDone ==
  \A t \in Caller : rc[t] = "OK" => \A c \in asked[t] : <<ThisCall(t), c, c>> \in ran

\* The poll for all host CPUs to be online is there because "modules might use
\* SMP IPIs": a sync call to an online host CPU is not left unattended.
EarlyCallServed ==
  \A c \in Cpu : sync_fifo[c] # <<>> => Coming(c) \/ exec[c] \in {"sync", "run"}

\* A call in a fifo leaves it to be run.
CallsServed ==
  \A c \in Cpu, t \in Caller : \A n \in 1..MaxCalls[t] : LET call == <<t, n>> IN
    (\E i \in DOMAIN sync_fifo[c] : sync_fifo[c][i] = call)
      \/ (\E i \in DOMAIN async_fifo[c] : async_fifo[c][i] = call)
    ~> (\E r \in ran : r[1] = call /\ r[2] = c) \/ panic # "none" \/ c \in missed

\* A call returns, whatever happens on the other host CPUs.
CallReturns == \A t \in Caller : pc[t] # "idle" ~> pc[t] = "idle" \/ panic # "none"

=============================================================================
