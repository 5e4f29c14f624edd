# Xvisor: a TLA+ model of the hypervisor core

## The system

Xvisor is a type-1 hypervisor. Its core (`src/core`) multiplexes VCPUs over host
CPUs: guest ("normal") VCPUs and hypervisor threads ("orphan" VCPUs).

| Part | State | Operations | What is hard about it |
|---|---|---|---|
| Scheduler, PRR | VCPU state, `hcpu`, `resumed`, ready queue and current VCPU per host CPU | state change, switch, interrupts, yield, preemption, migration | requests from other host CPUs in the middle of a switch |
| Wait queue | list of sleepers, `wq_lock` of a VCPU | sleep, wake, timeout, forced removal | a sleeper keeps the lock until it is switched out |
| Mutex, semaphore | owner or value, resources of VCPUs | lock/unlock, down/up, cleanup | owners and waiters destroyed, timeouts |
| Completion | `done` (u32), ordered wait list | wait, complete, once, all, reinit | signals before the waiter has run, overflow |
| FIFO | ring, two positions, count | enqueue, dequeue, clear, getelement | wrap-around, overwriting |
| SMP IPI | two FIFOs per host CPU, `ipi_avail` | sync and async calls, handler, IPI VCPU | full FIFOs, timeouts, shared FIFOs, a host CPU that boots |
| Timer events | event list and clockchip per host CPU | start, stop, clock interrupt | the handler drops the list lock for each event |
| Work queues | work list, `work_avail`, flags of a work | schedule, delay, stop, flush, worker | stop against a worker or a timer handler on its way |
| VCPU interrupts | assert state per line, `execute_pending`, `wfi` | assert, deassert, process, wait, wake | tokens and lines changed by several host CPUs |

They stack: work queues and VCPU interrupts use timer events, the IPI VCPU and the
workers use completions, completions, mutexes and semaphores use wait queues, and
everything that sleeps or runs uses the scheduler. `PROJECT.json` lists the
remaining parts with the reason each is left out, and the hazards at the lines
where they bite.

## Modules

| Module | Models |
|---|---|
| `BoundedQueue`, `Fifo` | what `fifo.h` promises; the ring of `libs/common/fifo.c` |
| `Scheduler` | `vmm_scheduler.c` with `vmm_schedalgo_prr.c` |
| `Waitqueue` | the wait queue as mutex and semaphore see it, and the destruction of threads |
| `Mutex`, `Semaphore` | `vmm_mutex.c`, `vmm_semaphore.c`, on `Waitqueue` |
| `Completion` | `vmm_completion.c` on an ordered wait list |
| `SmpIpi` | `vmm_smp.c`: submit, interrupt handler, IPI VCPU, the boot of a host CPU |
| `Timer` | `vmm_timer.c`, and which clockchip the generic timer programs |
| `Workqueue` | `vmm_workqueue.c`, composed with `Timer` |
| `VcpuIrq` | `vmm_vcpu_irq.c` for one VCPU, with the part of the scheduler that pauses, switches and calls it |
| `*Proofs` | theorems about the module of that name; `WorkqueueProofs` also those about `Timer` |
| `MC*` | model values for TLC |

Definitions keep the names of the functions they model. A step is one critical
section: what the code does under a lock is atomic, and where it drops a lock
the model has two steps (the dequeue and the lock of the next VCPU in a switch,
the decision and the migration in `vmm_scheduler_set_hcpu()`, the removal of a
resource and its cleanup, the unlinking of a work and the look at its flags, the
search for an expired event and its stop). `vmm_vcpu_irq_process()` holds no lock and has one
step per shared access, except that its search reads all lines in one step (`Choice`); the
claim of the line it found is a step of its own and fails if the line has changed. `crash` and `torn` record a list entry unlinked or linked
twice, or a freed VCPU or resource that is used, `panic` that the hypervisor
stopped itself; such a behaviour ends there.

Abstractions: priorities have the levels that the VCPUs of an instance need;
registers are a flag (`saved`, `own`); in `Scheduler` pending async IPIs are a set, so
their FIFO never fills (in `SmpIpi` it does); time accounting is left out; the host
CPUs see the same time in `Timer`; a wait with a timeout of zero, which returns at
once, is left out of `Completion`; its counter is taken modulo `Modulus`; in `SmpIpi` and
`Workqueue` a completion is its counter, since it has one waiter. In `VcpuIrq` the
ready queue is "the VCPU, or another one, is picked", and the arch hooks are those of arm32.
Its emulators pass numbers of lines that the VCPU has: `vmm_vcpu_irq.c:189` and `:218` let `irq_count`
itself through as well, and the model does not say what is then read. Lines of priority 0
(`CPU_RESET_IRQ` of arm32) can be asserted, and are never chosen by `vmm_vcpu_irq_process()`, whose search
starts from priority 0 (`:57-67`); the properties are about the others.
In `Scheduler` a thread is not reset while it sleeps (the forced removal is in `Waitqueue`).
Definitions marked "Mutant" are plausible mistakes, used to see that each
property can fail; no specification uses them.

## Runs

| Run | Instance | Distinct states | Shows |
|---|---|---|---|
| `fifo` | ring of 3, 2 values | 376 | the ring implements the queue |
| `sched_queues` | 2 host CPUs, a thread and a guest on different ones; states are changed, or the thread moves itself and the guest | 425,247 | queued exactly while READY, lists intact, one host CPU per VCPU |
| `sched_sleep` | 2 host CPUs, 2 sleeping threads of different priority on one, 1 disables preemption | 167,025 | registers kept, no switch with preemption disabled |
| `sched_one` | 1 host CPU, 2 threads of different priority (the lower one sleeps) and a guest that stop, resume and wake each other | 65,789 | READY ones run |
| `sched_halt` | 2 host CPUs, a guest halted or destroyed from the other one | 8,303 | a halted VCPU is switched out |
| `mutex` | 3 threads, 2 may be destroyed, 1 with timeout, depth 2 | 3,178 | safety and `FreeIsTaken` |
| `semaphore` | the same threads, limit 2, a releaser that holds nothing | 28,284 | safety and `FreeIsTaken` |
| `completion_one` | 1 waiter, all signals, counter modulo 8 | 324 | no lost wakeup, the wait returns |
| `smp_ipi` | 2 host CPUs, 1 boots; 2 callers, 1 moves, 1 masks interrupts; FIFOs of 1, 1 retry | 113,117 | no call is left behind, calls return |
| `work` | 2 host CPUs and queues, a work that reschedules itself, a delayed work, a periodic event; one caller schedules, one stops and flushes | 131,758 | events and works in one list, in time and run; stop holds |
| `vcpu_irq` | 3 lines (one maskable, one of priority 0), 2 devices, the trap handler, one administrator request | 292,804 | no assertion and no wakeup lost |
| `vcpu_irq_frame` | violation | | see below |

**What a passing run does not say.** `SelfOps`, `OtherOps`, `Movers`, `Ops` and the other
constants say what the rest of the hypervisor does in an instance. Several properties
are false for richer ones, as the next section shows: `ContextIntact` is checked where
no VCPU is resumed between its pause and its switch by another request than a wakeup
under the wait queue's lock, and `QueuedIsReady` where a current VCPU is not paused or reset
from elsewhere (so there nobody stops a VCPU that a switch has dequeued; `SchedAny` and the theorem
`VcpuRunsOnce` have that case for `RunsOnce`). `ReadyRuns` is checked where no sleeper has a higher
priority than a thread of its host CPU that wakes it (`SchedWake` shows it false otherwise). In
`sched_one` and `sched_halt` `Preempters` is empty, so no switch is refused because of a spinlock other
than a wait queue's. In `sched_queues` a behaviour either moves VCPUs or changes their states (`Both`
is FALSE); with both, `RunsOnce` fails (`SchedMove`). `NoLostWakeup` of `Completion` is for
one waiter, or for `vmm_completion_complete_all()`. In `work` threads do not move and a
delayed work is not delayed twice; a work reschedules itself once, so `CallsReturn` does not speak of a
stop or a flush against a work that does so for ever; `StopHolds` is about works that go to a named queue.
`NoSyncLost` and `NoAsyncLost` leave out host CPUs that took an IPI before its handler was there.

Bounds: two host CPUs give every remote request and every migration; one thread
and one guest exercise both ways to be preempted; three threads give an owner, a
waiter and a third that interferes; a modulus of 8 lets the counter overflow; FIFOs
of one entry are full at once and one retry reaches both ends of the retry loop; the
calls of each user are bounded (`MaxCalls`, `MaxOps`, `MaxAdmin`), and so is the time. The
liveness runs with two host CPUs have one user VCPU: with a thread added, the search
alone took some nine minutes.

Fairness: hypervisor code goes on, timer and IPI interrupts are taken (a time
slice always has its timer event), the IPI VCPU has the highest priority, and outside
`Scheduler` the scheduler runs READY threads and a thread that wakes another one goes on. Of the
scheduler `ReadyRuns` shows this only under a condition, and the liveness properties of the other
modules (`FreeIsTaken`, `WaitReturns`, `CallsServed`, `CallReturns`, `EventFires`, `WorkRuns`, `CallsReturn`,
`IrqHandled`) depend on it: no thread wakes a sleeper of a higher priority on its own host CPU, and no
thread with a wait queue's lock finds a VCPU of a higher priority READY there, such as an IPI VCPU that a refused
switch has left. Otherwise the waker waits for the lock it holds (`vmm_scheduler.c:522-524`, see
`SchedWake` below). Nothing is
assumed of guests, except in `VcpuIrq` that they unmask their interrupts again and again and
that host interrupts also come then; of threads outside their waits; or of who releases a
lock. `HaltTakesEffect` does not depend on the rescheduling IPI: the end of the time
slice switches a halted VCPU out as well. `FreeIsTaken` is about waiters that are
not being destroyed themselves, and like the scheduler's liveness properties it
accepts a behaviour that ends in a `crash`. In `Workqueue` the fairness is of one step among all that are
possible without a new call: between calls only finitely many are.

## Where code and description disagree

Listed as a finding:

- `vcpu_irq_frame`: `vmm_scheduler_irq_exit()` switches to another VCPU and then
  processes the interrupts of the one that was current before, in the registers of
  the next (`vmm_scheduler.c:682-697`), although `vmm_vcpu_irq.h:29` says "Process interrupts
  for current vcpu".

Further configurations, not among the runs of `PROJECT.json`, with what TLC
answers for each:

- `SchedDetach` violates `DetachIntact`: a VCPU halted between its dequeue and the lock
  is unlinked a second time, although the comment at `vmm_scheduler.c:208` says "To
  tackle the above situation, we check whether the next VCPU is in READY state".
- `SchedPause` violates `OnlyReadyRuns`: pause, resume, pause before the switch
  takes a VCPU from PAUSED to RUNNING (`vmm_scheduler.c:465`).
- `SchedWake` violates `ReadyRuns`: a thread wakes a sleeper of a higher priority on its host CPU. In
  `vmm_scheduler_state_change()` it preempts itself, which the wait queue's lock forbids, and then takes the
  lock of the queue that the woken VCPU is still on, `if (vcpu->wq_lock) vmm_spin_lock(vcpu->wq_lock)`
  (`vmm_scheduler.c:521-525`), which it holds already, with interrupts off. The lines are meant for a thread
  that has put itself to sleep. `vmm_waitqueue.h:69` and `:76` say of the wake functions "This function can be called
  from any context". For the same reason a thread that resumes another one directly, and finds it on a wait
  queue when it runs again, takes the lock of that queue and nobody releases it (`preempt_orphan_return`).
- `SchedMove` violates `OnOneHcpu`: `hcpu` of a PAUSED VCPU that is still current is
  changed at once, and a resume runs it on a second host CPU (`vmm_scheduler.c:641`).
- A VCPU that pauses itself and is resumed before the switch is READY there and is not
  saved (`vmm_scheduler.c:185`): `ContextIntact` fails in the instance of `sched_queues`.
- `MutexDestroy` violates `DeadNotWaiting`: a thread falls asleep after it was forced
  out of the wait queue and before its reset (`vmm_manager.c:707`).
- `SemaphoreDestroy` violates `FlushedStays`: a release frees the resource that the
  flush of a destroyed thread is about to clean up (`vmm_semaphore.c:155`).
- `CompletionTwo` violates `CompleteWakes`: a second `vmm_completion_complete()` wakes nobody
  although a thread sleeps, since the woken one is still first in the list
  (`vmm_waitqueue.c:244`); `vmm_completion.h:68` says "wake first sleeping Orphan VCPU".
- `CompletionOk` violates `OkIsDone`: a wait returns `VMM_OK` though another thread
  consumed the signal (`vmm_completion.c:57`).
- `SmpIpiOk` violates `OkIsDone`: a sync call returns when the FIFO is empty, which is before
  the last function taken from it has returned (`vmm_smp.c:258`).
- `SmpIpiBoot` violates `EarlyCallServed`: a host CPU is online (`vmm_scheduler.c:977`) before its
  FIFOs and IPI handler exist, although `vmm_main.c:240-243` counts on online host CPUs for IPIs.
- `WorkUnlink` violates `ListsIntact`: stop unlinks a work that the worker has just unlinked
  (`vmm_workqueue.c:132`, `:316`).
- `WorkOverlap` violates `ListsIntact`: a delayed work is delayed again, and its timer event, which
  is in a list, is initialised (`vmm_workqueue.c:292`).
- `WorkAnyQueue` violates `StopHoldsAll`: a work that goes to the queue of the host CPU runs on two
  workers, the first to end clears INPROGRESS, and stop returns while the other runs.
- `WorkLate` violates `StoppedStays`: the timer handler of a delayed work is on its way when
  `vmm_workqueue_stop_delayed_work()` returns, and schedules the work; `vmm_workqueue.h:123` says
  "Stop a scheduled or in-progress delayed work".
- `TimerMove` violates `ChipCovers`: a thread moved inside `vmm_timer_event_start()` puts the event in
  the list of one host CPU and programs the clockchip of another (`vmm_timer.c:213`, `:241`).
- `VcpuIrqRaise` violates `AssertionStays`, `VcpuIrqRestore` violates `DeassertionStays`: the stores after an
  execution overwrite what a device did meanwhile (`vmm_vcpu_irq.c:77`, `:90`).
- `VcpuIrqResume` violates `NoWakeupLostToResume`: a wakeup comes while the administrator has paused the
  VCPU, the wait sets PAUSED again after the administrator's resume.
- `SchedAny` (123,976 states, `RunsOnce` for any request) and `CompletionAll` (248,880, three waiters woken
  by complete_all) pass.

These are behaviours of the models; none was reproduced on a running hypervisor.

## Proofs

Every theorem is checked by TLAPS for all values of the constants allowed by the
named assumptions of the modules. Each rests on an inductive invariant that TLC
checked first on the instances of the runs.

- **`FifoProofs`**: the types and positions of the ring (`TypeOK`, `PositionsAgree`), and that every
  step of `Fifo` is a step of `BoundedQueue` or a stutter under the mapping of the ring to a sequence.
- **`MutexProofs`**: `Exclusion`, `NoLostWakeup`, `DeadOwnsNothing`. The invariant relates `owner`, the lock
  count and the resources of a VCPU at each point of its destruction.
- **`SemaphoreProofs`**: `Conserved`, `ResourcesCharged`, `NoLostWakeup`, `DeadHoldsNothing`. What is held is a
  sum over the threads; the proof rests on lemmas on how such a sum changes when one thread's
  share does. The invariant adds that the resource list has one entry per holder and says what a flush
  that has taken an entry out still has to give back.
- **`SchedulerProofs`**, in three parts that build on each other:
  - `RunsOnce`. The invariant `IInv` adds which host CPU a VCPU belongs to
    (`HomeInv`), what a switch in progress has taken from a queue (`SwitchInv`), who may be current
    (`RunInv`), and what a migration that was decided but not made may still assume (`MoveInv`).
    The hypothesis `Mode` leaves out behaviours that both move VCPUs and change their states,
    for which `SchedMove` shows the property false.
  - `QueuedIsReady`, `ReadyIsQueued`, `ListsIntact`, `OnlyReadyRuns`. `QInv` has a part on the
    lists (`ListInv`: queued exactly while READY, what a switch has dequeued is READY and no longer queued,
    the idle VCPU never stops) and a part on who executes (`CtxInv`: a VCPU that executes is RUNNING, one
    that is current and not RUNNING can be switched out, a preemption count belongs to a VCPU that falls
    asleep or to one that may hold a lock, `Holders`). The second part is what makes the first inductive: a request
    changes the state of its own caller, and only from RUNNING, so that `list_add_tail()` never meets a VCPU
    that is linked. The hypothesis `Requests` says that others only resume a VCPU, and that VCPUs stop
    themselves with preemption enabled: where they do, no thread disables preemption or sleeps, since
    a thread may be left with the lock of a wait queue. `SchedDetach` and `SchedPause` show that `ListsIntact` and
    `OnlyReadyRuns` are false without it.
  - `StaysWhileDisabled` for any request (`LockedInv`: the preemption count that
    the switch tested when it began is still there at its last step), `MovedIntact`, and `ContextIntact` where
    threads sleep and are woken but nobody else changes a state (`Quiet`; without it the property is false, as
    above). `SaveInv` says that the registers in memory are the newest exactly for the VCPUs that are
    not current, and that a switch in progress is going to save those of the current one; it needs `SleepInv`:
    while a sleeper is still current its wait queue's lock is taken, so no wakeup makes it READY before
    its registers are saved; and that needs `RelockInv`: a thread that is going to take the lock of a wait queue
    after its preemption does not fall asleep before.
- **`SmpIpiProofs`**: `NoSyncLost`, `NoAsyncLost` and `OkIsStarted`. `CallInv` relates the fifo
  to the destinations that a caller still waits for.
- **`VcpuIrqProofs`**: `WaitIsSeen`, `NoLostWakeup`, `Covered`. The invariant says for each place of the
  trap handler, a device and the administrator what they still owe to a waiting VCPU. For `Covered`
  it compares two sets: the lines that need a token (without the one `vmm_vcpu_irq_process()` holds the
  token of, with the one it has given back and is about to restore), and the tokens in
  `execute_pending`, with emulators between raise and count, and with the scan. That the scan finds an
  asserted line of a priority above 0 (`ChoiceEligible`) is proved by a minimal set without a first line (`FirstLine`).
- **`WorkqueueProofs`**: of `Timer` in its composition with `Workqueue`, `ActiveIsListed` and `ChipCovers`; of
  `Workqueue`, `ScheduledIsQueued`, `NoLostWork` and `StopHolds`. The lists are ordered, so `ChipCovers` needs that an event
  list is sorted (`SortInv`) and that the chip is programmed for its first entry or earlier (`CoverInv`). It is proved
  under `Reaches`: the clockchip can be programmed from everywhere, or no thread is moved while it starts
  an event (`TimerMove` shows it false otherwise). `QueueInv` says that a scheduled work is in one place, `PinInv` that a work
  which goes to one queue is only run by the worker of that queue, which has marked it, and `CallInv` who is
  still going to signal a worker. The parts on lists are claimed while no entry has been torn, as the properties are.
- **`CompletionProofs`**: `NoLostWakeup` for one waiter, or for signals that wake all (`ReachesAll`; `CompletionTwo` shows the
  difference).

Model-checked only: all liveness properties (fairness and ENABLED are beyond the prover).

## Not modelled

The PRM algorithm, the load balancer's policy, creation of guests and VCPUs, the guest request
queue, creation and destruction of work queues, address spaces, device tree, driver and emulation
frameworks, networking, block devices and start-up: registries under a lock, sequential code
or hardware access. `PROJECT.json` names each with its reason.
