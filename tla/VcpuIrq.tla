------------------------------ MODULE VcpuIrq ------------------------------
(***************************************************************************)
(* The virtual interrupts of one guest VCPU: core/vmm_vcpu_irq.c, with the *)
(* parts of core/vmm_scheduler.c that pause, resume, reset and switch the  *)
(* VCPU and that process its interrupts when its host CPU leaves the       *)
(* hypervisor.                                                             *)
(*                                                                         *)
(* Interrupts are asserted and deasserted by device emulators that run on  *)
(* other host CPUs, and by the VCPU itself while it is trapped.  Exception *)
(* handlers run with interrupts off, so on the VCPU's own host CPU a trap  *)
(* goes through to irq_exit without another switch.  The arch hooks are    *)
(* the ones of arm32: assert and deassert always succeed, execute fails    *)
(* for a line the guest has masked.  The ready queue is abstracted to "the *)
(* VCPU, or another one, is picked" (module Scheduler has the queues).     *)
(***************************************************************************)
EXTENDS Integers, FiniteSets

CONSTANTS
  Irq,       \* interrupt numbers, below irqs.irq_count
  Prio,      \* arch_vcpu_irq_priority(): 0 for the reset line of arm32
  Maskable,  \* the ones the guest can mask
  Device,    \* emulators on other host CPUs
  Self,      \* the VCPU's own trap handler
  Clock,     \* the handler of the wait-for-interrupt timeout
  Lines,     \* the interrupts each device and the trap handler asserts
  Ops,       \* what each device and the trap handler may do
  Admin,     \* what the administrator may ask: "pause", "resume" (or
             \* kick, the same), "halt", "reset"
  MaxOps,    \* bound: the number of operations of each of them
  MaxAdmin   \* bound: the number of requests of the administrator

Actor == Device \cup {Self, Clock}

ASSUME IrqAssumption ==
  /\ IsFiniteSet(Irq) /\ Irq \subseteq Nat
  /\ Prio \in [Irq -> Nat]
  /\ Maskable \subseteq Irq
  /\ Self # Clock /\ {Self, Clock} \cap Device = {}
  /\ Lines \in [Device \cup {Self} -> SUBSET Irq]
  /\ Ops \in [Device \cup {Self} -> SUBSET {"assert", "deassert", "wait", "wake"}]
  /\ Admin \subseteq {"pause", "resume", "halt", "reset"}
  /\ MaxOps \in [Device \cup {Self} -> Nat]
  /\ MaxAdmin \in Nat

VARIABLES
  state,    \* vcpu->state
  resumed,  \* vcpu->resumed
  current,  \* is the VCPU schedp->current_vcpu ?
  yield,    \* schedp->yield_on_irq_exit
  ctx,      \* what the host CPU does: "run" (a VCPU), "trap" or "irq" (a
            \* handler), "leave" (after the operation of the trap), or
            \* a step of vmm_vcpu_irq_process()
  assert,   \* irqs.irq[i].assert
  pending,  \* irqs.execute_pending
  wfi,      \* irqs.wfi.state
  timer,    \* is the timeout event of irqs.wfi.priv active ?
  irq_no,   \* the interrupt vmm_vcpu_irq_process() has chosen
  masked,   \* has the guest masked its interrupts ?
  pc,       \* where each actor is
  arg,      \* the interrupt it asserts
  ops,      \* operations begun so far
  asked,    \* requests of the administrator so far
  word,     \* the administrator's last word since the reset: "none",
            \* "pause", "resume"
  own,      \* has every interrupt been put into the VCPU's own registers ?
  lost      \* assertions overwritten, and deassertions undone

cpuVars == <<current, yield, ctx>>
stVars == <<state, resumed>>
irqVars == <<assert, pending, wfi, timer>>
procVars == <<irq_no, masked, own, lost>>
actVars == <<pc, arg, ops, asked, word>>
vars == <<cpuVars, stVars, irqVars, procVars, actVars>>

Interruptible == {"RUNNING", "READY", "PAUSED"}

NoIrq == -1

\* The asserted interrupts that vmm_vcpu_irq_process() can choose: the search
\* starts from priority 0, so a line of that priority is never executed.
Eligible == {i \in Irq : assert[i] = "ASSERTED" /\ Prio[i] > 0}

-----------------------------------------------------------------------------
(* vmm_scheduler_state_change(), called by h: "here" on the VCPU's own     *)
(* host CPU, or "there" on another one.                                    *)

\* The VCPU is asked to be READY: enqueued, or marked when it already runs.
\* On its own host CPU the mark makes irq_exit switch.
resume(h) ==
  /\ state' = IF state \in {"RESET", "PAUSED"} THEN "READY" ELSE state
  /\ resumed' = (resumed \/ state = "RUNNING")
  /\ yield' = (yield \/ (h = "here" /\ state = "RUNNING" /\ current))

\* Mutant: a mark left by an earlier resume is not looked at.
pause_unmarked(h, new) ==
  /\ state' = IF state \in {"READY", "RUNNING"} THEN new ELSE state
  /\ resumed' = FALSE
  /\ yield' = (yield \/ (h = "here" /\ state = "RUNNING" /\ current))

\* The VCPU is asked to be PAUSED or HALTED.  A marked one is not paused.
pause(h, new) ==
  LET live    == state \in {"READY", "RUNNING"}
      changes == live /\ ~(resumed /\ new = "PAUSED")
  IN  /\ state' = IF changes THEN new ELSE state
      /\ resumed' = (resumed /\ ~live)
      /\ yield' = (yield \/ (h = "here" /\ changes /\ current))

\* The VCPU is asked to be RESET, by an IPI on its own host CPU, and
\* vmm_vcpu_irq_init() clears its interrupts.
reset ==
  /\ state # "RESET"
  /\ state' = "RESET" /\ resumed' = FALSE
  /\ yield' = (yield \/ (current /\ state = "RUNNING"))
  /\ assert' = [i \in Irq |-> "DEASSERTED"]
  /\ pending' = 0
  /\ wfi' = FALSE /\ timer' = FALSE
  /\ masked' = TRUE

\* vmm_scheduler_switch(): the VCPU, if it is the current one, is put back
\* when it was RUNNING, and the host CPU picks it or another one.
Switch ==
  LET requeued == IF current /\ state = "RUNNING" THEN "READY" ELSE state
  IN  \/ /\ requeued = "READY"
         /\ state' = "RUNNING" /\ resumed' = FALSE /\ current' = TRUE
      \/ state' = requeued /\ current' = FALSE /\ UNCHANGED resumed

-----------------------------------------------------------------------------
(* The host CPU.                                                           *)

\* The host CPU leaves the guest for an exception or an interrupt.
irq_enter(kind) ==
  /\ ctx = "run" /\ current
  /\ ctx' = kind /\ yield' = FALSE
  /\ UNCHANGED <<current, stVars, irqVars, procVars, actVars>>

\* The end of the time slice switches in the handler of the interrupt.
scheduler_timer_event ==
  /\ ctx = "irq" /\ current
  /\ Switch
  /\ UNCHANGED <<yield, ctx, irqVars, procVars, actVars>>

\* vmm_scheduler_irq_exit(): switch when the current VCPU does not run or
\* has to yield, then process the interrupts of the VCPU that was current
\* before the switch.
irq_exit ==
  /\ ctx \in {"trap", "irq", "leave"} /\ pc[Self] = "idle"
  /\ IF current /\ (state # "RUNNING" \/ yield)
       THEN Switch
       ELSE UNCHANGED <<state, resumed, current>>
  /\ yield' = FALSE
  /\ ctx' = IF current THEN "process" ELSE "run"
  /\ UNCHANGED <<irqVars, procVars, actVars>>

\* The host CPU picks the VCPU after another one: at the end of the time
\* slice of that one, in a handler, whose irq_exit then processes the
\* interrupts of the VCPU; or, via = "run", when an orphan VCPU sleeps or at
\* the end of an irq_exit.
dispatch(via) ==
  /\ ctx = "run" /\ ~current /\ state = "READY"
  /\ state' = "RUNNING" /\ resumed' = FALSE /\ current' = TRUE
  /\ ctx' = via
  /\ UNCHANGED <<yield, irqVars, procVars, actVars>>

\* The guest masks or unmasks its interrupts.
guest_mask ==
  /\ ctx = "run" /\ current /\ ~masked
  /\ masked' = TRUE
  /\ UNCHANGED <<cpuVars, stVars, irqVars, irq_no, own, lost, actVars>>

guest_unmask ==
  /\ ctx = "run" /\ current /\ masked
  /\ masked' = FALSE
  /\ UNCHANGED <<cpuVars, stVars, irqVars, irq_no, own, lost, actVars>>

-----------------------------------------------------------------------------
(* vmm_vcpu_irq_process(), one step per shared access.                     *)

\* The token of one assertion is taken.
process_take ==
  /\ ctx = "process"
  /\ IF state \in Interruptible /\ pending > 0
       THEN pending' = pending - 1 /\ ctx' = "scan"
       ELSE ctx' = "run" /\ UNCHANGED pending
  /\ UNCHANGED <<current, yield, stVars, assert, wfi, timer, procVars, actVars>>

\* The first of them with the highest priority, or none.
Choice ==
  IF Eligible = {} THEN NoIrq
  ELSE CHOOSE i \in Eligible : \A j \in Eligible :
         Prio[j] < Prio[i] \/ (Prio[j] = Prio[i] /\ i <= j)

\* Without an eligible interrupt the token is gone.
process_scan ==
  /\ ctx = "scan"
  /\ irq_no' = Choice
  /\ ctx' = IF Choice = NoIrq THEN "run" ELSE "claim"
  /\ UNCHANGED <<current, yield, stVars, irqVars, masked, own, lost, actVars>>

\* The interrupt is taken from ASSERTED to PENDING unless it is gone.
process_claim ==
  /\ ctx = "claim"
  /\ IF assert[irq_no] = "ASSERTED"
       THEN assert' = [assert EXCEPT ![irq_no] = "PENDING"] /\ ctx' = "execute"
            /\ UNCHANGED irq_no
       ELSE ctx' = "run" /\ irq_no' = NoIrq /\ UNCHANGED assert
  /\ UNCHANGED <<current, yield, stVars, pending, wfi, timer, masked, own, lost,
                 actVars>>

\* arch_vcpu_irq_execute(): the registers of the host CPU are changed to
\* enter the guest's handler, unless the guest has masked the interrupt.
process_execute ==
  /\ ctx = "execute"
  /\ IF irq_no \in Maskable /\ masked
       THEN ctx' = "retry" /\ UNCHANGED <<masked, own>>
       ELSE ctx' = "settle" /\ masked' = TRUE /\ own' = (own /\ current)
  /\ UNCHANGED <<current, yield, stVars, irqVars, irq_no, lost, actVars>>

\* The interrupt was executed: whatever its line is now, it is DEASSERTED.
process_settle ==
  /\ ctx = "settle"
  /\ assert' = [assert EXCEPT ![irq_no] = "DEASSERTED"]
  /\ lost' = IF assert[irq_no] = "ASSERTED" THEN lost \cup {"assert"} ELSE lost
  /\ ctx' = "run" /\ irq_no' = NoIrq
  /\ UNCHANGED <<current, yield, stVars, pending, wfi, timer, masked, own, actVars>>

\* Mutant: the token is not given back.
process_retry_forgets ==
  /\ ctx = "retry"
  /\ ctx' = "restore"
  /\ UNCHANGED <<current, yield, stVars, irqVars, procVars, actVars>>

\* It was not executed: the token is given back, to try again later ...
process_retry ==
  /\ ctx = "retry"
  /\ pending' = pending + 1
  /\ ctx' = "restore"
  /\ UNCHANGED <<current, yield, stVars, assert, wfi, timer, procVars, actVars>>

\* Mutant: the line is left PENDING.
process_restore_forgets ==
  /\ ctx = "restore"
  /\ ctx' = "run" /\ irq_no' = NoIrq
  /\ UNCHANGED <<current, yield, stVars, irqVars, masked, own, lost, actVars>>

\* ... and whatever its line is now, it is ASSERTED.
process_restore ==
  /\ ctx = "restore"
  /\ assert' = [assert EXCEPT ![irq_no] = "ASSERTED"]
  /\ lost' = IF assert[irq_no] = "DEASSERTED" THEN lost \cup {"deassert"} ELSE lost
  /\ ctx' = "run" /\ irq_no' = NoIrq
  /\ UNCHANGED <<current, yield, stVars, pending, wfi, timer, masked, own, actVars>>

vmm_vcpu_irq_process ==
  \/ process_take \/ process_scan \/ process_claim
  \/ process_execute \/ process_settle \/ process_retry \/ process_restore

-----------------------------------------------------------------------------
(* The actors.  The trap handler does one operation per trap.              *)

Begins(d, op) ==
  /\ pc[d] = "idle"
  /\ op \in Ops[d] /\ ops[d] < MaxOps[d]
  /\ d = Self => ctx = "trap"
  /\ ctx' = IF d = Self THEN "leave" ELSE ctx
  /\ ops' = [ops EXCEPT ![d] = @ + 1]

Goes(d, where) == pc' = [pc EXCEPT ![d] = where]

\* The timeout expires in an interrupt of the VCPU's host CPU, or on the one
\* it was moved from.
Sides(d) ==
  CASE d = Self -> {"here"}
    [] d = Clock /\ ctx = "irq" -> {"here", "there"}
    [] OTHER -> {"there"}

\* vmm_vcpu_irq_assert(): nothing is done for a VCPU that is not
\* interruptible.  (The callers pass a line of the VCPU; the check of the
\* number in the code would also let irq_count itself pass.)
assert_check(d, i) ==
  /\ Begins(d, "assert")
  /\ IF state \in Interruptible
       THEN Goes(d, "raise") /\ arg' = [arg EXCEPT ![d] = i]
       ELSE UNCHANGED <<pc, arg>>
  /\ UNCHANGED <<current, yield, stVars, irqVars, procVars, asked, word>>

\* The line goes from DEASSERTED to ASSERTED unless it is already up.
assert_raise(d) ==
  /\ pc[d] = "raise"
  /\ IF assert[arg[d]] = "DEASSERTED"
       THEN assert' = [assert EXCEPT ![arg[d]] = "ASSERTED"] /\ Goes(d, "count")
       ELSE Goes(d, "wake") /\ UNCHANGED assert
  /\ arg' = [arg EXCEPT ![d] = NoIrq]
  /\ UNCHANGED <<cpuVars, stVars, pending, wfi, timer, procVars, ops, asked, word>>

\* Its token is added.
assert_count(d) ==
  /\ pc[d] = "count"
  /\ pending' = pending + 1
  /\ Goes(d, "wake")
  /\ UNCHANGED <<cpuVars, stVars, assert, wfi, timer, procVars, arg, ops, asked, word>>

\* vmm_vcpu_irq_deassert(): the line is DEASSERTED whatever it was.
vmm_vcpu_irq_deassert(d, i) ==
  /\ Begins(d, "deassert")
  /\ assert' = [assert EXCEPT ![i] = "DEASSERTED"]
  /\ UNCHANGED <<current, yield, stVars, pending, wfi, timer, procVars, pc, arg, asked, word>>

\* vmm_vcpu_irq_wait_resume(): the emulator of the interrupt controller
\* wakes the VCPU through its host CPU.
vmm_vcpu_irq_wait_resume(d) ==
  /\ Begins(d, "wake")
  /\ Goes(d, "wake_async")
  /\ UNCHANGED <<current, yield, stVars, irqVars, procVars, arg, asked, word>>

\* vcpu_irq_wfi_timeout(): the timeout event of the wait expires.
vcpu_irq_wfi_timeout ==
  /\ timer /\ pc[Clock] = "idle"
  /\ timer' = FALSE /\ Goes(Clock, "wake")
  /\ UNCHANGED <<cpuVars, stVars, assert, pending, wfi, procVars, arg, ops, asked, word>>

\* vcpu_irq_wfi_resume(), the locked part: a waiting VCPU waits no more.
wfi_clear(d) ==
  /\ pc[d] = "wake"
  /\ Goes(d, IF wfi THEN "resume" ELSE "idle")
  /\ wfi' = FALSE /\ timer' = (timer /\ ~wfi)
  /\ UNCHANGED <<cpuVars, stVars, assert, pending, procVars, arg, ops, asked, word>>

\* The same with use_async_ipi: the resume is left to the IPI VCPU of the
\* VCPU's host CPU, for a VCPU that is still interruptible.
wfi_clear_async(d) ==
  /\ pc[d] = "wake_async"
  /\ Goes(d, IF wfi /\ state \in Interruptible THEN "ipi" ELSE "idle")
  /\ wfi' = FALSE /\ timer' = (timer /\ ~wfi)
  /\ UNCHANGED <<cpuVars, stVars, assert, pending, procVars, arg, ops, asked, word>>

\* Then the VCPU is resumed.
wfi_resume(d) ==
  /\ pc[d] = "resume"
  /\ \E h \in Sides(d) : resume(h)
  /\ Goes(d, "idle")
  /\ UNCHANGED <<current, ctx, irqVars, procVars, arg, ops, asked, word>>

\* The IPI VCPU is the current one of the host CPU when it calls
\* vcpu_irq_wfi_try_resume().
wfi_try_resume(d) ==
  /\ pc[d] = "ipi" /\ ctx = "run" /\ ~current
  /\ resume("here")
  /\ Goes(d, "idle")
  /\ UNCHANGED <<current, ctx, irqVars, procVars, arg, ops, asked, word>>

\* Mutant: the wait does not look for interrupts that are already there.
Idles_always == ~wfi

Idles == ~wfi /\ pending = 0

\* vmm_vcpu_irq_wait_timeout(), the locked part: the trapped VCPU waits ...
wait_begin ==
  /\ Begins(Self, "wait")
  /\ IF Idles THEN wfi' = TRUE /\ timer' = TRUE /\ Goes(Self, "pause")
              ELSE UNCHANGED <<wfi, timer, pc>>
  /\ UNCHANGED <<current, yield, stVars, assert, pending, procVars, arg, asked, word>>

\* ... and is paused after the lock is released.
wait_pause ==
  /\ pc[Self] = "pause"
  /\ pause("here", "PAUSED")
  /\ Goes(Self, "idle")
  /\ UNCHANGED <<current, ctx, irqVars, procVars, arg, ops, asked, word>>

Continues(d) ==
  \/ assert_raise(d) \/ assert_count(d)
  \/ wfi_clear(d) \/ wfi_clear_async(d) \/ wfi_resume(d) \/ wfi_try_resume(d)

Operates(d) ==
  \/ \E i \in Lines[d] : assert_check(d, i) \/ vmm_vcpu_irq_deassert(d, i)
  \/ vmm_vcpu_irq_wait_resume(d)

-----------------------------------------------------------------------------
(* The administrator, on another host CPU: vmm_manager_vcpu_set_state().   *)

Asks(req) == req \in Admin /\ asked < MaxAdmin /\ asked' = asked + 1

admin_pause ==
  /\ Asks("pause")
  /\ pause("there", "PAUSED")
  /\ word' = "pause"
  /\ UNCHANGED <<current, ctx, irqVars, procVars, pc, arg, ops>>

admin_resume ==
  /\ Asks("resume")
  /\ resume("there")
  /\ word' = IF word = "none" THEN word ELSE "resume"
  /\ UNCHANGED <<current, ctx, irqVars, procVars, pc, arg, ops>>

admin_halt ==
  /\ Asks("halt")
  /\ pause("there", "HALTED")
  /\ UNCHANGED <<current, ctx, irqVars, procVars, pc, arg, ops, word>>

admin_reset ==
  /\ Asks("reset")
  /\ ctx = "irq" \/ (ctx = "run" /\ ~current)
  /\ reset
  /\ word' = "none"
  /\ UNCHANGED <<current, ctx, irq_no, own, lost, pc, arg, ops>>

Administers ==
  admin_pause \/ admin_resume \/ admin_halt \/ admin_reset

-----------------------------------------------------------------------------
Init ==
  /\ state = "RUNNING" /\ resumed = FALSE
  /\ current = TRUE /\ yield = FALSE /\ ctx = "run"
  /\ assert = [i \in Irq |-> "DEASSERTED"] /\ pending = 0
  /\ wfi = FALSE /\ timer = FALSE
  /\ irq_no = NoIrq /\ masked \in BOOLEAN /\ own = TRUE /\ lost = {}
  /\ pc = [d \in Actor |-> "idle"] /\ arg = [d \in Actor |-> NoIrq]
  /\ ops = [d \in Device \cup {Self} |-> 0] /\ asked = 0 /\ word = "none"

\* What the host CPU does by itself.
Host ==
  \/ irq_enter("trap") \/ irq_enter("irq") \/ scheduler_timer_event
  \/ irq_exit \/ vmm_vcpu_irq_process

Next ==
  \/ Host \/ dispatch("run") \/ dispatch("process") \/ guest_mask \/ guest_unmask
  \/ vcpu_irq_wfi_timeout \/ wait_begin \/ wait_pause
  \/ \E d \in Actor : Continues(d)
  \/ \E d \in Device \cup {Self} : Operates(d)
  \/ Administers

Spec == Init /\ [][Next]_vars

\* The host CPU goes on, interrupts come, an actor that has begun goes on,
\* and the scheduler picks a READY VCPU in the end (ReadyRuns of module
\* Scheduler).  The guest unmasks its interrupts again and again, and not
\* every interrupt of the host comes while they are masked, or at the end
\* of the VCPU's time slice.
Fairness ==
  /\ WF_vars(Host)
  /\ WF_vars(wait_pause)
  /\ \A d \in Actor : WF_vars(Continues(d))
  /\ SF_vars(dispatch("run") \/ dispatch("process"))
  /\ SF_vars(guest_unmask)
  /\ SF_vars(irq_enter("irq") /\ ~masked)
  /\ SF_vars(irq_exit /\ current /\ ~masked)

FairSpec == Spec /\ Fairness

-----------------------------------------------------------------------------
(* The variables hold values the code can give them: there are never more  *)
(* tokens than assertions begun.                                           *)
TypeOK ==
  /\ state \in {"RESET", "READY", "RUNNING", "PAUSED", "HALTED"}
  /\ {resumed, current, yield, wfi, timer, masked, own} \subseteq BOOLEAN
  /\ ctx \in {"run", "trap", "irq", "leave", "process", "scan", "claim", "execute",
              "settle", "retry", "restore"}
  /\ assert \in [Irq -> {"DEASSERTED", "ASSERTED", "PENDING"}]
  /\ pending \in Nat
  /\ irq_no \in Irq \cup {NoIrq}
  /\ (irq_no # NoIrq) = (ctx \in {"claim", "execute", "settle", "retry", "restore"})
  /\ pc \in [Actor -> {"idle", "raise", "count", "wake", "wake_async", "resume",
                       "ipi", "pause"}]
  /\ arg \in [Actor -> Irq \cup {NoIrq}]
  /\ \A d \in Actor : (arg[d] # NoIrq) = (pc[d] = "raise")
  /\ ops \in [Device \cup {Self} -> Nat] /\ asked \in Nat
  /\ word \in {"none", "pause", "resume"}
  /\ lost \subseteq {"assert", "deassert"}

\* Tokens on their way: of an emulator that has raised a line and not yet
\* counted it, and the one vmm_vcpu_irq_process() has taken and not used.
InFlight ==
  Cardinality({d \in Actor : pc[d] = "count"})
    + (IF ctx \in {"scan", "claim"} THEN 1 ELSE 0)

\* Every asserted interrupt of a priority above 0 has its token in
\* execute_pending, so the VCPU finds it at a later irq_exit: no order of
\* assertions, deassertions, a reset and the give-back of a masked interrupt
\* (vmm_vcpu_irq.c:88) leaves such a line that vmm_vcpu_irq_process() would
\* never look for.  A line of priority 0 takes no token from another one, but
\* its own may be gone while it is asserted.
Covered == Cardinality(Eligible) <= pending + InFlight

\* A VCPU that waits for an interrupt (vmm_vcpu_irq.c:265) and has one to
\* execute is about to be woken by the emulator that asserted it: the test
\* of execute_pending under wfi.lock and the assertion, which counts first
\* and takes the lock afterwards, cannot miss each other.
WaitIsSeen == wfi /\ pending > 0 => \E d \in Actor : pc[d] = "wake"

\* Somebody is on the way to resume the VCPU.
Waker == \E d \in Actor : pc[d] \in {"wake", "wake_async", "resume", "ipi"}

\* A VCPU that paused itself to wait, with an interrupt to execute, is about
\* to be resumed, also when the emulator ran between the release of wfi.lock
\* and vmm_manager_vcpu_pause() (vmm_vcpu_irq.c:275-279): it has then left
\* the resumed flag, which cancels the pause.
NoLostWakeup == state = "PAUSED" /\ word = "none" /\ pending > 0 => Waker

\* The same for a VCPU that the administrator has paused and resumed again.
NoWakeupLostToResume ==
  state = "PAUSED" /\ word # "pause" /\ pending > 0 => Waker

\* vmm_vcpu_irq.h:29 says that vmm_vcpu_irq_process() processes the
\* interrupts of the current VCPU; registers changed for an interrupt are
\* those of the VCPU it belongs to.
FrameIsOwn == own

\* An assertion made while the interrupt is executed is not overwritten.
AssertionStays == "assert" \notin lost

\* An interrupt deasserted while it is executed in vain stays deasserted.
DeassertionStays == "deassert" \notin lost

\* An asserted interrupt of a priority above 0 is executed, or deasserted, in
\* the end, unless the VCPU is halted, reset or has been paused by the
\* administrator.  The timeout of the wait is not needed for it.
IrqHandled ==
  \A i \in {j \in Irq : Prio[j] > 0} :
    assert[i] = "ASSERTED" ~>
      assert[i] = "DEASSERTED" \/ state \in {"RESET", "HALTED"}
        \/ (state = "PAUSED" /\ word # "none")

=============================================================================
