----------------------------- MODULE Scheduler -----------------------------
(***************************************************************************)
(* VCPU scheduling on several host CPUs: core/vmm_scheduler.c with the     *)
(* round robin ready queues of core/schedalgo/vmm_schedalgo_prr.c.         *)
(*                                                                         *)
(* A step of this module is one critical section of the code.  What is     *)
(* done under vcpu->sched_lock is atomic, except for the context switch,   *)
(* which holds the lock of the current VCPU, dequeues the next one under   *)
(* rq_lock only, and then waits for the lock of that one: this gap is the  *)
(* phase "lock" of a host CPU.  A host CPU runs hypervisor code with its   *)
(* interrupts off, so it takes an interrupt only in the context "vcpu".    *)
(***************************************************************************)
EXTENDS Naturals, Sequences, FiniteSets

CONSTANTS
  Hcpu,       \* host CPUs
  Thread,     \* orphan VCPUs: hypervisor threads
  Guest,      \* normal VCPUs
  None,       \* the NULL pointer
  Home,       \* the host CPU each thread and guest VCPU is created on
  High,       \* threads and guest VCPUs of a higher priority than the others
  (* What the rest of the hypervisor and the guests do in a model: *)
  SelfOps,    \* states a VCPU asks for itself
  OtherOps,   \* states asked for a VCPU by code that runs elsewhere
  Sleepers,   \* threads that sleep on a wait queue and are woken
  Preempters, \* threads that disable preemption (hold a spinlock) at times
  Movers,     \* threads that move VCPUs to another host CPU
  Both        \* VCPUs are moved and have their states changed in one behaviour

Idle(h) == <<"idle", h>>
IpiVcpu(h) == <<"ipi", h>>

User == Thread \cup Guest
Orphan == Thread \cup {Idle(h) : h \in Hcpu} \cup {IpiVcpu(h) : h \in Hcpu}
Vcpu == Orphan \cup Guest

States == {"UNKNOWN", "RESET", "READY", "RUNNING", "PAUSED", "HALTED"}

ASSUME SchedAssumption ==
  /\ IsFiniteSet(Hcpu)
  /\ Home \in [User -> Hcpu]
  /\ None \notin Vcpu /\ None \notin Hcpu
  /\ Thread \cap Guest = {}
  /\ \A h \in Hcpu : Idle(h) \notin User /\ IpiVcpu(h) \notin User
  /\ High \subseteq User
  /\ Sleepers \cup Preempters \cup Movers \subseteq Thread
  /\ SelfOps \cup OtherOps \subseteq States \ {"RUNNING"}
  /\ Both \in BOOLEAN

VARIABLES
  state,    \* vcpu->state
  hcpu,     \* vcpu->hcpu
  resumed,  \* vcpu->resumed
  preempt,  \* vcpu->preempt_count
  asleep,   \* vcpu->wq_lock is set: on the list of a wait queue
  lock,     \* the host CPU that holds vcpu->sched_lock
  saved,    \* the registers in memory are newer than the ones on a host CPU
  relock,   \* the VCPU whose wq_lock a thread takes when its preemption ends
  move,     \* the migration a mover has decided on but not started yet
  wq,       \* the VCPU that holds the lock of a wait queue
  rq,       \* sched.rq: the ready queue, oldest first
  cur,      \* sched.current_vcpu
  ctx,      \* what the host CPU does: "vcpu", "irq", "trap", "done", "exit"
  yield,    \* sched.yield_on_irq_exit
  phase,    \* where it is in vmm_scheduler_switch(), "none" outside
  nxt,      \* the VCPU it has dequeued
  save,     \* tcurrent is set
  ipi,      \* async calls submitted to the host CPU
  lost,     \* VCPUs that went on with registers that are not their last ones
  crash     \* how the hypervisor died

vcpuVars == <<state, hcpu, resumed, preempt, asleep, lock, saved, relock, move>>
cpuVars == <<cur, ctx, yield, phase, nxt, save>>
vars == <<vcpuVars, cpuVars, wq, rq, ipi, lost, crash>>

Priority(v) ==
  IF v \in {Idle(h) : h \in Hcpu} THEN 0
  ELSE IF v \in {IpiVcpu(h) : h \in Hcpu} THEN 3
  ELSE IF v \in High THEN 2 ELSE 1

\* The wait queue a sleeper uses; the IPI VCPU of a host CPU has its own.
QueueOf(v) ==
  IF \E h \in Hcpu : v = IpiVcpu(h) THEN CHOOSE h \in Hcpu : v = IpiVcpu(h) ELSE None

Queues == Hcpu \cup {None}

Resched == [func |-> "resched"]
MigrateCall(v, new) == [func |-> "migrate", vcpu |-> v, hcpu |-> new]
Calls == {Resched} \cup {MigrateCall(v, h) : v \in Vcpu, h \in Hcpu}

-----------------------------------------------------------------------------
(* The ready queue: a FIFO per priority, the highest priority first.       *)

Linked(v) == \E h \in Hcpu : \E i \in DOMAIN rq[h] : rq[h][i] = v

\* vmm_schedalgo_rq_dequeue() takes the i-th entry.
Front(q, i) ==
  \A j \in DOMAIN q :
    Priority(q[j]) < Priority(q[i]) \/ (Priority(q[j]) = Priority(q[i]) /\ i <= j)

list_del(q, i) == [j \in 1..Len(q) - 1 |-> q[IF j < i THEN j ELSE j + 1]]

Without(q, v) ==
  IF \E i \in DOMAIN q : q[i] = v THEN list_del(q, CHOOSE i \in DOMAIN q : q[i] = v) ELSE q

prempt_needed(q, c) ==
  c # None /\ \E i \in DOMAIN q : Priority(q[i]) > Priority(c)

\* list_del() of an entry that is on no list writes through poisoned
\* pointers, list_add_tail() of one that is on a list makes a cycle.
rq_detach(v) ==
  IF Linked(v) THEN rq' = [h \in Hcpu |-> Without(rq[h], v)] /\ UNCHANGED crash
               ELSE crash' = "detach" /\ UNCHANGED rq

\* (Mutants: the entry is forgotten, or added at the head.)
rq_enqueue_lost(h, v) == UNCHANGED <<rq, crash>>

rq_enqueue_head(h, v) == rq' = [rq EXCEPT ![h] = <<v>> \o @] /\ UNCHANGED crash

rq_enqueue(h, v) ==
  IF Linked(v) THEN crash' = "relink" /\ UNCHANGED rq
               ELSE rq' = [rq EXCEPT ![h] = Append(@, v)] /\ UNCHANGED crash

-----------------------------------------------------------------------------
(* vmm_scheduler_state_change()                                            *)

\* What a request for state new does to VCPU v.  (Mutant: READY twice.)
SkippedNotReady(v, new) ==
  \/ new = state[v] /\ new \in {"RESET", "PAUSED"}
  \/ new = "READY" /\ state[v] = "RUNNING"
  \/ new = "PAUSED" /\ state[v] \in {"READY", "RUNNING"} /\ resumed[v]

Skipped(v, new) ==
  \/ new = state[v] /\ new \in {"RESET", "READY", "PAUSED"}
  \/ new = "READY" /\ state[v] = "RUNNING"
  \/ new = "PAUSED" /\ state[v] \in {"READY", "RUNNING"} /\ resumed[v]

Invalid(v, new) ==
  \/ new = "READY" /\ state[v] \in {"UNKNOWN", "HALTED"}
  \/ new \in {"PAUSED", "HALTED"} /\ state[v] \notin {"READY", "RUNNING", new}
  \/ new = "HALTED" /\ state[v] = "HALTED"
  \/ new = "RUNNING"

Changes(v, new) == ~Skipped(v, new) /\ ~Invalid(v, new)

IsCurrent(v) == cur[hcpu[v]] = v

Enqueues(v, new) == Changes(v, new) /\ new = "READY"

Detaches(v, new) ==
  /\ Changes(v, new)
  /\ new \in {"RESET", "PAUSED", "HALTED"}
  /\ state[v] = "READY"
  /\ ~IsCurrent(v)

WantsPreempt(v, new) ==
  \/ new = "READY" /\ state[v] = "RUNNING"
  \/ Enqueues(v, new) /\ ~IsCurrent(v)
     /\ prempt_needed(Append(rq[hcpu[v]], v), cur[hcpu[v]])
  \/ new = "RESET" /\ state[v] = "RUNNING" /\ IsCurrent(v)
  \/ new \in {"PAUSED", "HALTED"} /\ Changes(v, new) /\ IsCurrent(v)

\* The caller is a thread and preempts itself: arch_vcpu_preempt_orphan().
PreemptsItself(h, v, new) ==
  /\ WantsPreempt(v, new) /\ h = hcpu[v]
  /\ cur[h] # None /\ cur[h] \notin Guest /\ ctx[h] = "vcpu"

\* force_resched(), or a preemption of the calling host CPU: a guest VCPU
\* yields when the interrupt or trap ends, a thread is switched at once unless
\* the caller holds a spinlock, which disables its preemption.
Preempt(h, target, wanted, held) ==
  IF \/ ~wanted \/ cur[target] = None
     \/ h = target /\ cur[h] \notin Guest /\ ctx[h] = "vcpu" /\ held
    THEN UNCHANGED <<yield, phase, ipi>>
  ELSE IF h # target
    THEN ipi' = [ipi EXCEPT ![target] = @ \cup {Resched}] /\ UNCHANGED <<yield, phase>>
  ELSE IF cur[h] \in Guest
    THEN yield' = [yield EXCEPT ![h] = TRUE] /\ UNCHANGED <<phase, ipi>>
    ELSE phase' = [phase EXCEPT ![h] = "begin"] /\ UNCHANGED <<yield, ipi>>

state_change(h, v, new, held) ==
  /\ lock[v] = None
  /\ resumed' = [resumed EXCEPT ![v] =
       IF new = "READY" /\ state[v] = "RUNNING" THEN TRUE
       ELSE IF \/ new = "RESET" /\ state[v] \notin {"UNKNOWN", "RESET"}
               \/ new \in {"PAUSED", "HALTED"} /\ state[v] \in {"READY", "RUNNING"}
            THEN FALSE ELSE @]
  /\ state' = [state EXCEPT ![v] = IF Changes(v, new) THEN new ELSE @]
  /\ saved' = [saved EXCEPT ![v] = (new = "RESET" /\ Changes(v, new)) \/ @]
  /\ CASE Enqueues(v, new) -> rq_enqueue(hcpu[v], v)
       [] Detaches(v, new) -> rq_detach(v)
       [] OTHER -> UNCHANGED <<rq, crash>>
  /\ Preempt(h, hcpu[v], WantsPreempt(v, new), held)
  /\ relock' = IF PreemptsItself(h, v, new) /\ v # cur[h]
                 THEN [relock EXCEPT ![cur[h]] = v]
               ELSE IF new = "RESET" THEN [relock EXCEPT ![v] = None] ELSE relock

-----------------------------------------------------------------------------
(* vmm_scheduler_switch(), __vmm_scheduler_next1() and next2()             *)

\* (Mutant: the registers of a VCPU that only gives way are not saved.)
SaveableStopped == {"PAUSED", "HALTED"}

Saveable == {"RUNNING", "PAUSED", "HALTED"}

\* The value of preempt_count at which a VCPU may be switched out.  (Mutant: as
\* if every VCPU slept on a wait queue.)
preempt_min_asleep(v) == 1

preempt_min(v) == IF asleep[v] THEN 1 ELSE 0

\* (Mutant: preemption is never disabled.)
PreemptibleAlways(v) == TRUE

Preemptible(v) == preempt[v] = preempt_min(v)

\* The current VCPU goes back to the ready queue.
Requeues(v) == state[v] = "RUNNING"

\* The state a VCPU gives way with.  (Mutant: it stays RUNNING.)
RequeuedStateKept == "RUNNING"

RequeuedState == "READY"

\* What follows the switch: irq_exit() ends, a handler or a VCPU goes on.
Return(h) ==
  /\ phase' = [phase EXCEPT ![h] = "none"]
  /\ ctx' = [ctx EXCEPT ![h] = IF @ = "exit" THEN "vcpu" ELSE @]
  /\ yield' = [yield EXCEPT ![h] = IF ctx[h] = "exit" THEN FALSE ELSE @]

\* The lock of current, a RUNNING one goes back to the ready queue.
SwitchBegin(h) ==
  LET c == cur[h] IN
  /\ phase[h] = "begin"
  /\ c # None => Preemptible(c) /\ lock[c] = None
  /\ IF c # None
       THEN /\ lock' = [lock EXCEPT ![c] = h]
            /\ save' = [save EXCEPT ![h] = state[c] \in Saveable]
            /\ IF Requeues(c)
                 THEN state' = [state EXCEPT ![c] = RequeuedState] /\ rq_enqueue(h, c)
                 ELSE UNCHANGED <<state, rq, crash>>
       ELSE save' = [save EXCEPT ![h] = FALSE] /\ UNCHANGED <<state, lock, rq, crash>>
  /\ phase' = [phase EXCEPT ![h] = "dequeue"]
  /\ UNCHANGED <<hcpu, resumed, preempt, asleep, saved, relock, move, wq, cur, ctx, yield, nxt, ipi, lost>>

\* Preemption is disabled: only the scheduler's timer event is restarted.
SwitchRefused(h) ==
  /\ phase[h] = "begin"
  /\ cur[h] # None
  /\ ~Preemptible(cur[h])
  /\ Return(h)
  /\ UNCHANGED <<vcpuVars, wq, rq, cur, nxt, save, ipi, lost, crash>>

\* n becomes current, both locks and the lock of a wait queue are released.
SwitchTo(h, n) ==
  LET c == cur[h]
      sleeps == c # None /\ asleep[c]
  IN /\ state' = [state EXCEPT ![n] = "RUNNING"]
     /\ resumed' = [resumed EXCEPT ![n] = FALSE]
     /\ cur' = [cur EXCEPT ![h] = n]
     /\ lock' = [v \in Vcpu |-> IF lock[v] = h THEN None ELSE lock[v]]
     /\ wq' = IF sleeps THEN [wq EXCEPT ![QueueOf(c)] = None] ELSE wq
     /\ preempt' = IF sleeps /\ preempt[c] > 0
                     THEN [preempt EXCEPT ![c] = @ - 1] ELSE preempt
     /\ nxt' = [nxt EXCEPT ![h] = None]
     /\ Return(h)
     /\ UNCHANGED <<hcpu, asleep, relock, move, save, ipi, crash>>

\* The dequeued VCPU is current itself: arch_vcpu_switch() is not called, so
\* registers that a reset has written to memory meanwhile are not loaded.
SwitchSame(h) ==
  /\ phase[h] = "dequeue"
  /\ \E i \in DOMAIN rq[h] :
       LET n == rq[h][i] IN
       /\ Front(rq[h], i)
       /\ n = cur[h]
       /\ rq' = [rq EXCEPT ![h] = list_del(@, i)]
       /\ lost' = IF saved[n] THEN lost \cup {n} ELSE lost
       /\ saved' = [saved EXCEPT ![n] = FALSE]
       /\ SwitchTo(h, n)

SwitchDequeue(h) ==
  /\ phase[h] = "dequeue"
  /\ IF rq[h] = <<>>
       THEN crash' = "dequeue" /\ UNCHANGED <<rq, phase, nxt>>
       ELSE \E i \in DOMAIN rq[h] :
              /\ Front(rq[h], i)
              /\ rq[h][i] # cur[h]
              /\ rq' = [rq EXCEPT ![h] = list_del(@, i)]
              /\ nxt' = [nxt EXCEPT ![h] = rq[h][i]]
              /\ phase' = [phase EXCEPT ![h] = "lock"]
              /\ UNCHANGED crash
  /\ UNCHANGED <<vcpuVars, wq, cur, ctx, yield, save, ipi, lost>>

\* The dequeued VCPU has left the READY state: dequeue again (next2 only).
SwitchRetry(h) ==
  /\ phase[h] = "lock"
  /\ lock[nxt[h]] = None
  /\ cur[h] # None
  /\ state[nxt[h]] # "READY"
  /\ phase' = [phase EXCEPT ![h] = "dequeue"]
  /\ nxt' = [nxt EXCEPT ![h] = None]
  /\ UNCHANGED <<vcpuVars, wq, rq, cur, ctx, yield, save, ipi, lost, crash>>

\* arch_vcpu_switch(): the registers of current are saved if it has to be,
\* the ones of next are loaded.
SwitchFinish(h) ==
  LET n == nxt[h] IN
  /\ phase[h] = "lock"
  /\ lock[n] = None
  /\ cur[h] = None \/ state[n] = "READY"
  /\ saved' = [v \in Vcpu |-> IF v = n THEN FALSE
                              ELSE (v = cur[h] /\ save[h]) \/ saved[v]]
  /\ lost' = IF saved[n] THEN lost ELSE lost \cup {n}
  /\ UNCHANGED rq
  /\ SwitchTo(h, n)

Switch(h) ==
  \/ SwitchBegin(h) \/ SwitchRefused(h) \/ SwitchSame(h)
  \/ SwitchDequeue(h) \/ SwitchRetry(h) \/ SwitchFinish(h)

-----------------------------------------------------------------------------
(* Interrupts and traps                                                    *)

\* The host CPU runs its VCPU with interrupts on; a thread that returns into
\* the sleep it was woken from, or into vmm_scheduler_state_change(), still has
\* them off.
Executes(h) ==
  /\ phase[h] = "none"
  /\ ctx[h] = "vcpu"
  /\ cur[h] # None => ~asleep[cur[h]] /\ relock[cur[h]] = None

irq_enter(h, context) ==
  /\ Executes(h)
  /\ context = "trap" => cur[h] \in Guest
  /\ ctx' = [ctx EXCEPT ![h] = context]
  /\ yield' = [yield EXCEPT ![h] = FALSE]
  /\ UNCHANGED <<vcpuVars, wq, rq, cur, phase, nxt, save, ipi, lost, crash>>

\* scheduler_timer_event(): the time slice is over.  The handler of the timer
\* interrupt calls it once.
Tick(h) ==
  /\ ctx[h] = "irq" /\ phase[h] = "none"
  /\ phase' = [phase EXCEPT ![h] = "begin"]
  /\ ctx' = [ctx EXCEPT ![h] = "done"]
  /\ UNCHANGED <<vcpuVars, wq, rq, cur, yield, nxt, save, ipi, lost, crash>>

irq_exit(h) ==
  /\ ctx[h] \in {"irq", "trap", "done"} /\ phase[h] = "none"
  /\ IF cur[h] # None /\ (state[cur[h]] # "RUNNING" \/ yield[h])
       THEN ctx' = [ctx EXCEPT ![h] = "exit"] /\ phase' = [phase EXCEPT ![h] = "begin"]
       ELSE ctx' = [ctx EXCEPT ![h] = "vcpu"] /\ UNCHANGED phase
  /\ UNCHANGED <<vcpuVars, wq, rq, cur, yield, nxt, save, ipi, lost, crash>>

-----------------------------------------------------------------------------
(* Who changes the state of VCPUs                                          *)

\* The movers of this behaviour: unless Both, one in which there are none is one
\* in which states are changed.
movers == DOMAIN move

Changed == Both \/ movers = {}

\* The host CPU runs a VCPU that is not inside vmm_scheduler_set_hcpu().
Free(h) == Executes(h) /\ (cur[h] \in movers => move[cur[h]] = None)

\* Hypervisor code that may call the manager runs on the host CPU.
MayCall(h) ==
  /\ phase[h] = "none"
  /\ ctx[h] \in {"irq", "trap"} \/ (Free(h) /\ cur[h] \in Thread)

\* vmm_manager_vcpu_set_state(): a reset is a sync call to the VCPU's host CPU.
\* The handler of a trap makes one request and ends ("done").
\* A VCPU is destroyed (UNKNOWN) only after its reset, and kicked when created.
set_state(h, v, new) ==
  /\ MayCall(h)
  /\ \/ Changed /\ new \in IF ctx[h] # "irq" /\ v = cur[h] THEN SelfOps ELSE OtherOps
     \/ new = "READY" /\ state[v] = "RESET"
  /\ new = "RESET" => h = hcpu[v]
  /\ new = "UNKNOWN" => state[v] = "RESET"
  /\ state_change(h, v, new, FALSE)
  /\ ctx' = [ctx EXCEPT ![h] = IF @ = "trap" THEN "done" ELSE @]
  /\ move' = [m \in movers |-> IF m = v /\ new = "RESET" THEN None ELSE move[m]]
  /\ UNCHANGED <<hcpu, preempt, asleep, lock, wq, cur, nxt, save, lost>>

vmm_scheduler_yield(h) ==
  /\ Free(h)
  /\ cur[h] \in Thread \cup {Idle(h)}
  /\ state[cur[h]] = "RUNNING"
  /\ state_change(h, cur[h], "READY", FALSE)
  /\ UNCHANGED <<hcpu, preempt, asleep, lock, move, wq, cur, ctx, nxt, save, lost>>

preempt_disable(h) ==
  /\ Free(h) /\ cur[h] \in Preempters
  /\ preempt[cur[h]] = 0
  /\ preempt' = [preempt EXCEPT ![cur[h]] = @ + 1]
  /\ UNCHANGED <<state, hcpu, resumed, asleep, lock, saved, relock, move, cpuVars, wq, rq, ipi, lost, crash>>

preempt_enable(h) ==
  /\ Free(h) /\ cur[h] \in Preempters
  /\ preempt[cur[h]] > IF wq[QueueOf(cur[h])] = cur[h] THEN 1 ELSE 0
  /\ preempt' = [preempt EXCEPT ![cur[h]] = @ - 1]
  /\ UNCHANGED <<state, hcpu, resumed, asleep, lock, saved, relock, move, cpuVars, wq, rq, ipi, lost, crash>>

\* The lock of the wait queue of v can be taken.  (Mutant: it is not held while
\* a thread falls asleep.)
QueueFreeAlways(v) == TRUE

QueueFree(v) == wq[QueueOf(v)] = None

\* vmm_spin_lock() of that lock by VCPU c: c cannot be preempted any more.
LockQueue(c, v) ==
  /\ wq' = [wq EXCEPT ![QueueOf(v)] = c]
  /\ preempt' = [preempt EXCEPT ![c] = @ + 1]

\* A thread that has changed the state of another VCPU of its host CPU is back
\* from arch_vcpu_preempt_orphan().  If this VCPU is on the list of a wait queue,
\* the thread takes the lock of the queue, which the code means for a VCPU that
\* has put itself to sleep; nothing releases it.  A waker, which was not switched
\* out, waits here for the lock that it holds itself.
preempt_orphan_return(h) ==
  LET c == cur[h]
      v == relock[c]
  IN /\ phase[h] = "none" /\ ctx[h] = "vcpu"
     /\ c # None /\ relock[c] # None
     /\ IF asleep[v] THEN QueueFree(v) /\ LockQueue(c, v) ELSE UNCHANGED <<wq, preempt>>
     /\ relock' = [relock EXCEPT ![c] = None]
     /\ UNCHANGED <<state, hcpu, resumed, asleep, lock, saved, move, cpuVars, rq, ipi, lost, crash>>

\* __vmm_waitqueue_sleep(): with the lock of the wait queue held (and so with
\* preemption disabled) the VCPU pauses itself.  A resume that came first
\* cancels the pause; the thread is then off the list again at once.
waitqueue_sleep(h) ==
  LET v == cur[h] IN
  /\ Free(h)
  /\ \/ v \in Sleepers
     \/ v = IpiVcpu(h) /\ ipi[h] = {}
  /\ preempt[v] = 0
  /\ QueueFree(v)
  /\ state_change(h, v, "PAUSED", FALSE)
  /\ IF WantsPreempt(v, "PAUSED")
       THEN LockQueue(v, v) /\ asleep' = [asleep EXCEPT ![v] = TRUE]
       ELSE UNCHANGED <<wq, asleep, preempt>>
  /\ UNCHANGED <<hcpu, lock, move, cur, ctx, nxt, save, lost>>

\* The woken thread has the lock of the wait queue again and leaves its list.
waitqueue_awake(h) ==
  LET v == cur[h] IN
  /\ phase[h] = "none" /\ ctx[h] = "vcpu"
  /\ v # None /\ asleep[v]
  /\ QueueFree(v)
  /\ asleep' = [asleep EXCEPT ![v] = FALSE]
  /\ UNCHANGED <<state, hcpu, resumed, preempt, lock, saved, relock, move, cpuVars, wq, rq, ipi, lost, crash>>

\* vmm_waitqueue_wake() under the lock of the queue, and the IPI interrupt
\* that completes ipi_avail for the IPI VCPU of the host CPU.  A thread that has
\* to preempt itself in it does not come to the unlock.
waitqueue_wake(h, v) ==
  /\ \/ MayCall(h) /\ v \in Sleepers
     \/ ctx[h] = "irq" /\ phase[h] = "none" /\ v = IpiVcpu(h) /\ ipi[h] # {}
  /\ asleep[v]
  /\ QueueFree(v)
  /\ state_change(h, v, "READY", TRUE)
  /\ IF PreemptsItself(h, v, "READY")
       THEN LockQueue(cur[h], v) ELSE UNCHANGED <<wq, preempt>>
  /\ UNCHANGED <<hcpu, asleep, lock, move, cur, ctx, nxt, save, lost>>

-----------------------------------------------------------------------------
(* Moving a VCPU to another host CPU                                       *)

\* scheduler_ipi_migrate_vcpu() on the host CPU h.  (Mutant: whatever its state.)
MigratesAny(h, v, new) == hcpu[v] = h /\ new # h

Migrates(h, v, new) == state[v] = "READY" /\ hcpu[v] = h /\ new # h

scheduler_ipi_migrate_vcpu(h, v, new) ==
  IF Migrates(h, v, new)
    THEN /\ IF Linked(v)
              THEN /\ rq' = [q \in Hcpu |-> IF q = new THEN Append(Without(rq[q], v), v)
                                                      ELSE Without(rq[q], v)]
                   /\ UNCHANGED crash
              ELSE crash' = "detach" /\ UNCHANGED rq
         /\ hcpu' = [hcpu EXCEPT ![v] = new]
    ELSE UNCHANGED <<hcpu, rq, crash>>

\* smp_ipi_main(): the IPI VCPU of a host CPU makes the submitted calls.  The
\* calls are a set: their order is not kept and equal ones are merged.
smp_ipi_main(h) ==
  /\ Executes(h)
  /\ cur[h] = IpiVcpu(h)
  /\ \E call \in ipi[h] :
       IF call = Resched
         THEN /\ ipi' = [ipi EXCEPT ![h] = @ \ {call}]
              /\ UNCHANGED <<hcpu, rq, crash>>
         ELSE /\ lock[call.vcpu] = None
              /\ scheduler_ipi_migrate_vcpu(h, call.vcpu, call.hcpu)
              /\ ipi' = [q \in Hcpu |->
                   IF q = h THEN ipi[q] \ {call}
                   ELSE IF q = call.hcpu /\ Migrates(h, call.vcpu, q)
                     THEN ipi[q] \cup {Resched} ELSE ipi[q]]
  /\ UNCHANGED <<state, resumed, preempt, asleep, lock, saved, relock, move, cpuVars, wq, lost>>

\* vmm_scheduler_set_hcpu() under the lock of the VCPU: one that is neither
\* READY nor RUNNING changes its host CPU at once, ...
vmm_scheduler_set_hcpu(h, v, new) ==
  /\ Free(h) /\ cur[h] \in movers
  /\ lock[v] = None
  /\ hcpu[v] # new
  /\ IF state[v] \notin {"READY", "RUNNING"}
       THEN hcpu' = [hcpu EXCEPT ![v] = new] /\ UNCHANGED move
       ELSE /\ move' = [move EXCEPT ![cur[h]] = [vcpu |-> v, old |-> hcpu[v], new |-> new]]
            /\ UNCHANGED hcpu
  /\ UNCHANGED <<state, resumed, preempt, asleep, lock, saved, relock, cpuVars, wq, rq, ipi, lost, crash>>

\* ... for another the host CPU it had then is called after the unlock: with an
\* IPI, or directly if that is the one the mover runs on.
set_hcpu_migrate(h) ==
  LET m == move[cur[h]] IN
  /\ Executes(h) /\ ~Free(h)
  /\ IF m.old # h
       THEN /\ ipi' = [ipi EXCEPT ![m.old] = @ \cup {MigrateCall(m.vcpu, m.new)}]
            /\ UNCHANGED <<hcpu, rq, crash>>
       ELSE /\ lock[m.vcpu] = None
            /\ scheduler_ipi_migrate_vcpu(h, m.vcpu, m.new)
            /\ ipi' = IF Migrates(h, m.vcpu, m.new)
                        THEN [ipi EXCEPT ![m.new] = @ \cup {Resched}] ELSE ipi
  /\ move' = [move EXCEPT ![cur[h]] = None]
  /\ UNCHANGED <<state, resumed, preempt, asleep, lock, saved, relock, cpuVars, wq, lost>>

-----------------------------------------------------------------------------

\* vmm_scheduler_init() and vmm_smp_ipi_init() have kicked the idle and the IPI
\* VCPU of each host CPU; the users are created but not kicked yet.
Init ==
  /\ state = [v \in Vcpu |-> IF v \in User THEN "RESET" ELSE "READY"]
  /\ hcpu = [v \in Vcpu |->
       IF v \in User THEN Home[v]
       ELSE CHOOSE h \in Hcpu : v \in {Idle(h), IpiVcpu(h)}]
  /\ resumed = [v \in Vcpu |-> FALSE]
  /\ preempt = [v \in Vcpu |-> 0]
  /\ asleep = [v \in Vcpu |-> FALSE]
  /\ lock = [v \in Vcpu |-> None]
  /\ saved = [v \in Vcpu |-> TRUE]
  /\ relock = [v \in Vcpu |-> None]
  /\ move \in {[m \in ms |-> None] : ms \in {Movers} \cup (IF Both THEN {} ELSE {{}})}
  /\ wq = [q \in Queues |-> None]
  /\ rq = [h \in Hcpu |-> <<Idle(h), IpiVcpu(h)>>]
  /\ cur = [h \in Hcpu |-> None]
  /\ ctx = [h \in Hcpu |-> "vcpu"]
  /\ yield = [h \in Hcpu |-> FALSE]
  /\ phase = [h \in Hcpu |-> "none"]
  /\ nxt = [h \in Hcpu |-> None]
  /\ save = [h \in Hcpu |-> FALSE]
  /\ ipi = [h \in Hcpu |-> {}]
  /\ lost = {}
  /\ crash = "none"

IpiWork(h) == smp_ipi_main(h) \/ (cur[h] = IpiVcpu(h) /\ waitqueue_sleep(h))

\* What a host CPU does of its own: the scheduler, interrupts, the IPI VCPU.
Kernel(h) ==
  \/ Switch(h)
  \/ irq_enter(h, "irq") \/ Tick(h) \/ irq_exit(h)
  \/ waitqueue_awake(h) \/ preempt_orphan_return(h)
  \/ IpiWork(h)
  \/ waitqueue_wake(h, IpiVcpu(h))

\* What threads and guests ask for.
Client(h) ==
  \/ irq_enter(h, "trap")
  \/ vmm_scheduler_yield(h)
  \/ preempt_disable(h) \/ preempt_enable(h)
  \/ cur[h] \in Sleepers /\ waitqueue_sleep(h)
  \/ \E v \in Sleepers : waitqueue_wake(h, v)
  \/ \E v \in User, new \in SelfOps \cup OtherOps \cup {"READY"} : set_state(h, v, new)
  \/ \E v \in User, new \in Hcpu : vmm_scheduler_set_hcpu(h, v, new)
  \/ set_hcpu_migrate(h)

Next == crash = "none" /\ \E h \in Hcpu : Kernel(h) \/ Client(h)

Spec == Init /\ [][Next]_vars

\* Hypervisor code goes on; the timer interrupt of every time slice and the
\* interrupt of an IPI are taken; the IPI VCPU makes progress when it runs.
Fairness ==
  \A h \in Hcpu :
    /\ WF_vars(Kernel(h))
    /\ SF_vars(irq_enter(h, "irq")) /\ SF_vars(Tick(h))
    /\ SF_vars(waitqueue_wake(h, IpiVcpu(h)))
    /\ SF_vars(IpiWork(h))

FairSpec == Spec /\ Fairness

-----------------------------------------------------------------------------
(* Properties                                                              *)

TypeOK ==
  /\ state \in [Vcpu -> States]
  /\ hcpu \in [Vcpu -> Hcpu]
  /\ resumed \in [Vcpu -> BOOLEAN]
  /\ preempt \in [Vcpu -> Nat]
  /\ asleep \in [Vcpu -> BOOLEAN]
  /\ lock \in [Vcpu -> Hcpu \cup {None}]
  /\ saved \in [Vcpu -> BOOLEAN]
  /\ relock \in [Vcpu -> Vcpu \cup {None}]
  /\ movers \subseteq Movers
  /\ move \in [movers -> [vcpu : User, old : Hcpu, new : Hcpu] \cup {None}]
  /\ wq \in [Queues -> Vcpu \cup {None}]
  /\ rq \in [Hcpu -> Seq(Vcpu)]
  /\ cur \in [Hcpu -> Vcpu \cup {None}]
  /\ ctx \in [Hcpu -> {"vcpu", "trap", "done", "irq", "exit"}]
  /\ yield \in [Hcpu -> BOOLEAN]
  /\ phase \in [Hcpu -> {"none", "begin", "dequeue", "lock"}]
  /\ nxt \in [Hcpu -> Vcpu \cup {None}]
  /\ save \in [Hcpu -> BOOLEAN]
  /\ ipi \in [Hcpu -> SUBSET Calls]
  /\ lost \subseteq Vcpu
  /\ crash \in {"none", "detach", "relink", "dequeue"}

\* A VCPU is current on at most one host CPU.
OnOneHcpu == \A g, h \in Hcpu : cur[g] = cur[h] /\ cur[g] # None => g = h

\* A RUNNING VCPU is current, on the host CPU that vcpu->hcpu names and on no
\* other.
RunsOnce ==
  OnOneHcpu /\ \A v \in Vcpu : state[v] = "RUNNING" => cur[hcpu[v]] = v

\* The ready queue of a host CPU holds READY VCPUs of this host CPU, each once.
QueuedIsReady ==
  \A h \in Hcpu : \A i \in DOMAIN rq[h] :
    /\ state[rq[h][i]] = "READY"
    /\ hcpu[rq[h][i]] = h
    /\ \A j \in DOMAIN rq[h] : rq[h][i] = rq[h][j] => i = j

\* A READY VCPU is in a ready queue, or a context switch has just taken it out.
ReadyIsQueued ==
  \A v \in Vcpu : state[v] = "READY" => Linked(v) \/ \E h \in Hcpu : nxt[h] = v

\* No VCPU goes on with other registers than the ones it was stopped with (or
\* was reset to).
ContextIntact == lost = {}

\* The same for the VCPUs that are moved to another host CPU, while they run
\* and while they are READY.
MovedIntact == movers # {} => lost = {}

\* No entry is unlinked from or linked to a ready queue twice, and a switch
\* always finds a VCPU ("This should never happen !!!").
ListsIntact == crash = "none"

\* No entry is unlinked twice: the halt, pause or reset of a READY VCPU finds
\* it in the ready queue.
DetachIntact == crash # "detach"

\* A VCPU that has preemption disabled stays current; one that sleeps has
\* exactly the preemption count of the wait queue's lock.
StaysWhileDisabled ==
  [][\A h \in Hcpu : cur[h] # None /\ cur'[h] # cur[h]
                       => preempt[cur[h]] = preempt_min(cur[h])]_vars

\* Only a READY VCPU becomes RUNNING: one that was paused, halted or reset does
\* not run before it is resumed or kicked.
OnlyReadyRuns ==
  [][\A v \in Vcpu : state'[v] = "RUNNING" => state[v] \in {"READY", "RUNNING"}]_vars

\* A VCPU that is halted, by itself or by others, and stays halted is switched
\* out.
HaltTakesEffect ==
  \A v \in User, h \in Hcpu :
    cur[h] = v /\ state[v] = "HALTED"
      ~> cur[h] # v \/ state[v] # "HALTED" \/ crash # "none"

\* A VCPU of a higher priority wants the host CPU of v.
Outranked(v) ==
  \E w \in Vcpu : /\ Priority(w) > Priority(v) /\ hcpu[w] = hcpu[v]
                  /\ state[w] \in {"READY", "RUNNING"}

\* Round robin: a VCPU that is READY will run, unless from some time on there is
\* always a VCPU of a higher priority that wants its host CPU.
ReadyRuns ==
  \A v \in User \cup {IpiVcpu(h) : h \in Hcpu} :
    []<>~Outranked(v) => (state[v] = "READY" ~> state[v] # "READY" \/ crash # "none")

=============================================================================
