--------------------------- MODULE VcpuIrqProofs ---------------------------
(***************************************************************************)
(* A VCPU that waits for an interrupt does not miss one, and no asserted   *)
(* line of a priority above 0 is without its token, for any set of         *)
(* interrupts and devices, any priorities and any number of operations.    *)
(***************************************************************************)
EXTENDS VcpuIrq, FiniteSetTheorems, TLAPS

\* As much of the types as the argument needs.
TypeInv ==
  /\ state \in {"RESET", "READY", "RUNNING", "PAUSED", "HALTED"}
  /\ pc \in [Actor -> {"idle", "raise", "count", "wake", "wake_async", "resume",
                       "ipi", "pause"}]
  /\ pending \in Nat

\* A token that vmm_vcpu_irq_process() has in its hands may come back.
Holding == ctx \in {"scan", "claim", "execute", "retry"}

\* WaitIsSeen, with the tokens that may come back.
WaitInv ==
  wfi /\ (pending > 0 \/ Holding) => \E d \in Actor : pc[d] = "wake"

\* The trap handler works between the trap and irq_exit, for the current
\* VCPU.
TrapInv ==
  /\ pc[Self] # "idle" => ctx = "leave"
  /\ ctx \in {"trap", "leave"} => current

\* A VCPU the administrator has not paused runs, or is halted, whenever it
\* is the current one outside the handlers.
CurrentInv ==
  word = "none" /\ current /\ ctx \notin {"irq", "leave"} =>
    state \in {"RUNNING", "HALTED"}

\* The VCPU has been resumed from its wait or still will be.
Resuming == \E d \in Actor : pc[d] \in {"resume", "ipi"}

\* Between the release of wfi.lock and the pause, a VCPU that is no more
\* marked as waiting is marked as resumed, or about to be.
PauseInv ==
  word = "none" /\ pc[Self] = "pause" /\ state # "HALTED" =>
    state = "RUNNING" /\ (wfi \/ resumed \/ Resuming)

\* After the pause, it is about to be resumed.
PausedInv == word = "none" /\ state = "PAUSED" => wfi \/ Resuming

IInv == TypeInv /\ WaitInv /\ TrapInv /\ CurrentInv /\ PauseInv /\ PausedInv

\* The host CPU switches, enters and leaves handlers; the guest masks.
LEMMA HostStep ==
  ASSUME IInv,
         Host \/ dispatch("run") \/ dispatch("process") \/ guest_mask \/ guest_unmask,
         ~vmm_vcpu_irq_process
  PROVE  IInv'
<1> USE DEF IInv, TypeInv, WaitInv, Holding, TrapInv, CurrentInv, PauseInv,
            Resuming, PausedInv, Actor, cpuVars, stVars, irqVars, procVars, actVars
<1>1. CASE irq_enter("trap")
  BY <1>1 DEF irq_enter
<1>2. CASE irq_enter("irq")
  BY <1>2 DEF irq_enter
<1>3. CASE scheduler_timer_event
  BY <1>3 DEF scheduler_timer_event, Switch
<1>4. CASE irq_exit
  BY <1>4 DEF irq_exit, Switch
<1>5. CASE dispatch("run")
  BY <1>5 DEF dispatch
<1>6. CASE dispatch("process")
  BY <1>6 DEF dispatch
<1>7. CASE guest_mask
  BY <1>7 DEF guest_mask
<1>8. CASE guest_unmask
  BY <1>8, Zenon DEF guest_unmask
<1> QED
  BY <1>1, <1>2, <1>3, <1>4, <1>5, <1>6, <1>7, <1>8 DEF Host

\* vmm_vcpu_irq_process() moves tokens.
LEMMA ProcessStep ==
  ASSUME IInv, vmm_vcpu_irq_process
  PROVE  IInv'
<1> USE DEF IInv, TypeInv, WaitInv, Holding, TrapInv, CurrentInv, PauseInv,
            Resuming, PausedInv, Actor, cpuVars, stVars, irqVars, procVars, actVars
<1>1. CASE process_take
  BY <1>1 DEF process_take
<1>2. CASE process_scan
  BY <1>2 DEF process_scan
<1>3. CASE process_claim
  BY <1>3 DEF process_claim
<1>4. CASE process_execute
  BY <1>4 DEF process_execute
<1>5. CASE process_settle
  BY <1>5 DEF process_settle
<1>6. CASE process_retry
  BY <1>6 DEF process_retry
<1>7. CASE process_restore
  BY <1>7 DEF process_restore
<1> QED
  BY <1>1, <1>2, <1>3, <1>4, <1>5, <1>6, <1>7 DEF vmm_vcpu_irq_process

\* The VCPU waits and is paused; its timeout expires.
LEMMA WaitStep ==
  ASSUME IInv, vcpu_irq_wfi_timeout \/ wait_begin \/ wait_pause
  PROVE  IInv'
<1> USE DEF IInv, TypeInv, WaitInv, Holding, TrapInv, CurrentInv, PauseInv,
            Resuming, PausedInv, Actor, cpuVars, stVars, irqVars, procVars, actVars
<1>1. CASE vcpu_irq_wfi_timeout
  BY <1>1, IrqAssumption DEF vcpu_irq_wfi_timeout, Goes
<1>2. CASE wait_begin
  BY <1>2 DEF wait_begin, Begins, Idles, Goes
<1>3. CASE wait_pause
  BY <1>3, Zenon DEF wait_pause, pause, Goes
<1> QED
  BY <1>1, <1>2, <1>3

\* The administrator changes the state.
LEMMA AdminStep ==
  ASSUME IInv, Administers
  PROVE  IInv'
<1> USE DEF IInv, TypeInv, WaitInv, Holding, TrapInv, CurrentInv, PauseInv,
            Resuming, PausedInv, Actor, cpuVars, stVars, irqVars, procVars, actVars
<1>1. CASE admin_pause
  BY <1>1 DEF admin_pause, Asks, pause
<1>2. CASE admin_resume
  BY <1>2, Zenon DEF admin_resume, Asks, resume
<1>3. CASE admin_halt
  BY <1>3 DEF admin_halt, Asks, pause
<1>4. CASE admin_reset
  BY <1>4 DEF admin_reset, Asks, reset
<1> QED
  BY <1>1, <1>2, <1>3, <1>4 DEF Administers

\* Devices and the trap handler assert, deassert and wake.
LEMMA ActorStep ==
  ASSUME IInv, NEW d \in Actor, Continues(d) \/ (d # Clock /\ Operates(d))
  PROVE  IInv'
<1> USE DEF IInv, TypeInv, WaitInv, Holding, TrapInv, CurrentInv, PauseInv,
            Resuming, PausedInv, Actor, cpuVars, stVars, irqVars, procVars, actVars
<1>1. CASE \E i \in Lines[d] : assert_check(d, i)
  BY <1>1 DEF assert_check, Begins, Goes
<1>2. CASE \E i \in Lines[d] : vmm_vcpu_irq_deassert(d, i)
  BY <1>2 DEF vmm_vcpu_irq_deassert, Begins
<1>3. CASE vmm_vcpu_irq_wait_resume(d)
  BY <1>3 DEF vmm_vcpu_irq_wait_resume, Begins, Goes
<1>4. CASE assert_raise(d)
  BY <1>4 DEF assert_raise, Goes
<1>5. CASE assert_count(d)
  BY <1>5 DEF assert_count, Goes
<1>6. CASE wfi_clear(d)
  BY <1>6 DEF wfi_clear, Goes
<1>7. CASE wfi_clear_async(d)
  BY <1>7 DEF wfi_clear_async, Interruptible, Goes
<1>8. CASE wfi_resume(d)
  BY <1>8, Zenon DEF wfi_resume, resume, Goes
<1>9. CASE wfi_try_resume(d)
  BY <1>9 DEF wfi_try_resume, resume, Goes
<1> QED
  BY <1>1, <1>2, <1>3, <1>4, <1>5, <1>6, <1>7, <1>8, <1>9, Zenon DEF Continues, Operates

\* The initial state: nobody waits.
LEMMA InitInv == Init => IInv
  BY DEF Init, IInv, TypeInv, WaitInv, Holding, TrapInv, CurrentInv, PauseInv, Resuming,
         PausedInv, Actor

\* The inductive step.
LEMMA StepInv == IInv /\ [Next]_vars => IInv'
<1> SUFFICES ASSUME IInv, [Next]_vars PROVE IInv'
  OBVIOUS
<1>1. CASE UNCHANGED vars
  BY <1>1 DEF vars, cpuVars, stVars, irqVars, procVars, actVars, IInv, TypeInv, WaitInv,
              Holding, TrapInv, CurrentInv, PauseInv, Resuming, PausedInv
<1>2. CASE Host \/ dispatch("run") \/ dispatch("process") \/ guest_mask \/ guest_unmask
  BY <1>2, HostStep, ProcessStep
<1>3. CASE vcpu_irq_wfi_timeout \/ wait_begin \/ wait_pause
  BY <1>3, WaitStep
<1>4. ASSUME NEW d \in Actor, Continues(d) PROVE IInv'
  BY <1>4, ActorStep
<1>5. ASSUME NEW d \in Device \cup {Self}, Operates(d) PROVE IInv'
  <2>1. d \in Actor /\ d # Clock
    BY IrqAssumption DEF Actor
  <2> QED
    BY <1>5, <2>1, ActorStep
<1>6. CASE Administers
  BY <1>6, AdminStep
<1> QED
  BY <1>1, <1>2, <1>3, <1>4, <1>5, <1>6 DEF Next

\* vmm_vcpu_irq_wait_timeout() and vmm_vcpu_irq_assert() cannot miss each
\* other: a waiting VCPU with an interrupt to execute is being woken.
THEOREM WaitSeen == Spec => []WaitIsSeen
<1>1. IInv => WaitIsSeen
  BY DEF IInv, WaitInv, WaitIsSeen
<1> QED
  BY <1>1, InitInv, StepInv, PTL DEF Spec

\* No wakeup is lost between the release of wfi.lock and the pause of the
\* VCPU, whatever other host CPUs do there, as long as the administrator has
\* not paused it.
THEOREM WakeupKept == Spec => []NoLostWakeup
<1>1. IInv => NoLostWakeup
  BY DEF IInv, WaitInv, PausedInv, Resuming, NoLostWakeup, Waker
<1> QED
  BY <1>1, InitInv, StepInv, PTL DEF Spec

-----------------------------------------------------------------------------
(* The tokens                                                              *)

\* The emulators that have raised a line and not yet counted it.
Counting == {d \in Actor : pc[d] = "count"}

\* The lines that need a token in execute_pending or in the hands of an emulator:
\* vmm_vcpu_irq_process() has the token of the line it is about to claim, and has
\* given back that of the line it is about to put back.
Needing ==
  IF ctx = "claim" THEN Eligible \ {irq_no}
  ELSE IF ctx = "restore" THEN Eligible \cup {irq_no} ELSE Eligible

\* The token vmm_vcpu_irq_process() has taken before it knows for which line.
Spare == IF ctx = "scan" THEN 1 ELSE 0

LineInv ==
  /\ assert \in [Irq -> {"DEASSERTED", "ASSERTED", "PENDING"}]
  /\ ctx \in {"claim", "execute", "settle", "retry", "restore"} => irq_no \in Irq
  /\ \A d \in Actor : pc[d] = "raise" => arg[d] \in Irq
  /\ arg \in [Actor -> Irq \cup {NoIrq}]

CoverInv ==
  /\ IsFiniteSet(Counting)
  /\ Cardinality(Needing) <= pending + Cardinality(Counting) + Spare

\* The order of vmm_vcpu_irq_process() among the asserted lines.
Before(i, j) == Prio[j] < Prio[i] \/ (Prio[j] = Prio[i] /\ i <= j)

\* A finite set of lines that is not empty has a first one.
LEMMA FirstLine ==
  ASSUME NEW S \in SUBSET Irq, S # {}
  PROVE  \E i \in S : \A j \in S : Before(i, j)
<1> DEFINE Has(A) == \E i \in A : \A j \in A : Before(i, j)
           Bad == {A \in SUBSET Irq : A # {} /\ ~Has(A)}
<1>1. IsFiniteSet(Irq) /\ Irq \subseteq Nat /\ \A i \in Irq : Prio[i] \in Nat /\ i \in Nat
  BY IrqAssumption
<1>2. SUFFICES ASSUME Bad # {} PROVE FALSE
  OBVIOUS
<1>3. IsWellFoundedOn(StrictSubsetOrdering(Irq), SUBSET Irq)
  BY <1>1, FS_StrictSubsetOrderingWellFounded, FS_FiniteSubsetsOfFinite
<1>4. PICK A \in Bad : \A B \in Bad : <<B, A>> \notin StrictSubsetOrdering(Irq)
  <2>1. Bad \subseteq SUBSET Irq
    OBVIOUS
  <2> HIDE DEF Bad
  <2> QED BY <1>2, <1>3, <2>1, WFMin
<1>5. A \in SUBSET Irq /\ A # {} /\ ~Has(A)
  BY <1>4
<1>6. PICK x \in A : TRUE
  BY <1>5
<1>7. A \ {x} \notin Bad
  <2>1. <<A \ {x}, A>> \in StrictSubsetOrdering(Irq)
    BY <1>5, <1>6 DEF StrictSubsetOrdering
  <2> HIDE DEF Bad
  <2> QED BY <1>4, <2>1
<1>8. Before(x, x)
  BY <1>1, <1>5, <1>6 DEF Before
<1>9. CASE A \ {x} = {}
  <2>1. A = {x}
    BY <1>6, <1>9
  <2> QED BY <1>5, <1>8, <2>1
<1>10. CASE A \ {x} # {}
  <2>1. Has(A \ {x})
    BY <1>5, <1>7, <1>10
  <2>2. PICK m \in A \ {x} : \A j \in A \ {x} : Before(m, j)
    BY <2>1
  <2>3. CASE Before(m, x)
    BY <1>5, <2>2, <2>3
  <2>4. CASE ~Before(m, x)
    <3>1. \A i \in A : Prio[i] \in Nat /\ i \in Nat
      BY <1>1, <1>5
    <3>2. ASSUME NEW j \in A PROVE Before(x, j)
      <4>1. CASE j = x
        BY <1>8, <4>1
      <4>2. CASE j # x
        <5>1. Before(m, j)
          BY <2>2, <4>2
        <5> QED BY <1>6, <2>2, <2>4, <3>1, <5>1 DEF Before
      <4> QED BY <4>1, <4>2
    <3> QED BY <1>5, <1>6, <3>2
  <2> QED BY <2>3, <2>4
<1> QED BY <1>9, <1>10

\* vmm_vcpu_irq_process() finds an eligible line if there is one.
LEMMA ChoiceEligible == Eligible # {} => Choice \in Eligible
<1> SUFFICES ASSUME Eligible # {} PROVE Choice \in Eligible
  OBVIOUS
<1>1. \E i \in Eligible : \A j \in Eligible : Before(i, j)
  BY FirstLine, Zenon DEF Eligible
<1>2. Choice = CHOOSE i \in Eligible : \A j \in Eligible : Before(i, j)
  BY DEF Choice, Before
<1> QED BY <1>1, <1>2

LEMMA LineSets ==
  ASSUME LineInv
  PROVE  /\ Eligible \in SUBSET Irq /\ Needing \in SUBSET Irq
         /\ IsFiniteSet(Eligible) /\ IsFiniteSet(Needing)
         /\ Cardinality(Eligible) \in Nat /\ Cardinality(Needing) \in Nat
<1>1. Eligible \in SUBSET Irq /\ Needing \in SUBSET Irq
  BY DEF LineInv, Eligible, Needing
<1> QED BY <1>1, IrqAssumption, FS_Subset, FS_CardinalityType, Zenon

\* Adding or removing one element.
LEMMA OneMore ==
  ASSUME NEW S, NEW T, NEW x, IsFiniteSet(S), T \subseteq S \cup {x}
  PROVE  IsFiniteSet(T) /\ Cardinality(T) \in Nat /\ Cardinality(T) <= Cardinality(S) + 1
<1>1. IsFiniteSet(S \cup {x}) /\ Cardinality(S \cup {x}) <= Cardinality(S) + 1
  <2>1. Cardinality(S) \in Nat
    BY FS_CardinalityType
  <2>2. /\ IsFiniteSet(S \cup {x})
        /\ Cardinality(S \cup {x}) = IF x \in S THEN Cardinality(S) ELSE Cardinality(S) + 1
    BY FS_AddElement
  <2> QED BY <2>1, <2>2
<1>2. IsFiniteSet(T) /\ Cardinality(T) <= Cardinality(S \cup {x})
  BY <1>1, FS_Subset
<1> QED BY <1>1, <1>2, FS_CardinalityType

LEMMA OneLess ==
  ASSUME NEW S, NEW T, NEW x \in S, IsFiniteSet(S), T \subseteq S \ {x}
  PROVE  IsFiniteSet(T) /\ Cardinality(T) \in Nat /\ Cardinality(T) <= Cardinality(S) - 1
<1>1. IsFiniteSet(S \ {x}) /\ Cardinality(S \ {x}) = Cardinality(S) - 1
  BY FS_RemoveElement
<1>2. IsFiniteSet(T) /\ Cardinality(T) <= Cardinality(S \ {x})
  BY <1>1, FS_Subset
<1> QED BY <1>1, <1>2, FS_CardinalityType

\* No line needs a token more, and no token is lost.
LEMMA CoverFrame ==
  ASSUME TypeInv, LineInv, CoverInv, LineInv', pending' \in Nat,
         Counting' = Counting, Needing' \subseteq Needing,
         pending' + Spare' >= pending + Spare
  PROVE  CoverInv'
<1>1. Cardinality(Needing') <= Cardinality(Needing) /\ Cardinality(Needing') \in Nat
  BY LineSets, FS_Subset, FS_CardinalityType
<1>2. Cardinality(Counting) \in Nat /\ Cardinality(Needing) \in Nat
  BY LineSets, FS_CardinalityType DEF CoverInv
<1>3. Spare \in Nat /\ Spare' \in Nat /\ pending \in Nat
  BY DEF Spare, TypeInv
<1>4. Cardinality(Needing') <= pending' + Cardinality(Counting) + Spare'
  <2>1. Cardinality(Needing) <= pending + Cardinality(Counting) + Spare
    BY DEF CoverInv
  <2>2. \A n, m, p, q, c, s, t \in Nat :
          m <= n /\ n <= p + c + s /\ q + t >= p + s => m <= q + c + t
    OBVIOUS
  <2> QED BY <1>1, <1>2, <1>3, <2>1, <2>2, Zenon
<1>5. IsFiniteSet(Counting')
  BY DEF CoverInv
<1> QED BY <1>4, <1>5 DEF CoverInv

\* Steps that take part neither in vmm_vcpu_irq_process() nor in an assertion.
LEMMA CoverAside ==
  ASSUME TypeInv, LineInv, CoverInv, LineInv', UNCHANGED <<pending, irq_no>>,
         Eligible' \subseteq Eligible,
         \/ ctx' = ctx
         \/ ctx \notin {"scan", "claim", "restore"} /\ ctx' \notin {"scan", "claim", "restore"},
         \A d \in Actor : pc'[d] = "count" <=> pc[d] = "count"
  PROVE  CoverInv'
<1>1. Counting' = Counting
  BY DEF Counting
<1>2. Needing' \subseteq Needing /\ Spare' = Spare /\ Spare \in Nat
  BY DEF Needing, Spare
<1>3. pending \in Nat /\ pending' = pending
  BY DEF TypeInv
<1>4. pending' + Spare' >= pending + Spare
  BY <1>2, <1>3
<1> QED BY <1>1, <1>2, <1>3, <1>4, CoverFrame

LEMMA LineStep ==
  ASSUME TypeInv, LineInv, [Next]_vars
  PROVE  LineInv'
<1> USE DEF cpuVars, stVars, irqVars, procVars, actVars
<1>1. NoIrq \notin Irq
  BY IrqAssumption DEF NoIrq
<1>2. ASSUME Host \/ dispatch("run") \/ dispatch("process") \/ guest_mask \/ guest_unmask,
             ~vmm_vcpu_irq_process
      PROVE  LineInv'
  <2>1. /\ UNCHANGED <<assert, irq_no, pc, arg>>
        /\ ctx' = ctx \/ ctx' \in {"trap", "irq", "process", "run"}
    BY <1>2 DEF Host, irq_enter, scheduler_timer_event, irq_exit, dispatch, guest_mask,
                guest_unmask
  <2> QED BY <2>1, Zenon DEF LineInv
<1>3. ASSUME vmm_vcpu_irq_process PROVE LineInv'
  <2>1. UNCHANGED <<pc, arg>>
    BY <1>3 DEF vmm_vcpu_irq_process, process_take, process_scan, process_claim, process_execute,
                process_settle, process_retry, process_restore
  <2>2. CASE process_take
    BY <2>1, <2>2 DEF process_take, LineInv
  <2>3. CASE process_scan
    <3>1. Choice # NoIrq => Choice \in Irq
      BY ChoiceEligible DEF Choice, Eligible
    <3> QED BY <2>1, <2>3, <3>1 DEF process_scan, LineInv
  <2>4. CASE process_claim
    BY <2>1, <2>4 DEF process_claim, LineInv
  <2>5. CASE process_execute
    BY <2>1, <2>5 DEF process_execute, LineInv
  <2>6. CASE process_settle
    BY <2>1, <2>6 DEF process_settle, LineInv
  <2>7. CASE process_retry
    BY <2>1, <2>7 DEF process_retry, LineInv
  <2>8. CASE process_restore
    BY <2>1, <2>8 DEF process_restore, LineInv
  <2> QED BY <1>3, <2>2, <2>3, <2>4, <2>5, <2>6, <2>7, <2>8, Zenon DEF vmm_vcpu_irq_process
<1>4. ASSUME vcpu_irq_wfi_timeout \/ wait_begin \/ wait_pause PROVE LineInv'
  <2>1. /\ UNCHANGED <<assert, irq_no, arg>>
        /\ ctx' = ctx \/ ctx' = "leave"
        /\ \A d \in Actor : pc'[d] = "raise" => pc[d] = "raise"
    BY <1>4 DEF vcpu_irq_wfi_timeout, wait_begin, wait_pause, Begins, Goes, TypeInv
  <2> QED BY <2>1, Zenon DEF LineInv
<1>5. ASSUME Administers PROVE LineInv'
  <2>1. /\ UNCHANGED <<irq_no, pc, arg, ctx>>
        /\ assert' = assert \/ assert' = [i \in Irq |-> "DEASSERTED"]
    BY <1>5, Zenon DEF Administers, admin_pause, admin_resume, admin_halt, admin_reset, reset
  <2> QED BY <2>1, Zenon DEF LineInv
<1>6. ASSUME NEW d \in Actor, Continues(d) PROVE LineInv'
  <2>1. UNCHANGED <<irq_no, ctx>>
    BY <1>6, Zenon DEF Continues, assert_raise, assert_count, wfi_clear, wfi_clear_async, wfi_resume,
                wfi_try_resume
  <2>2. \A a \in Actor : pc'[a] = "raise" => pc[a] = "raise" /\ a # d
    BY <1>6, Zenon DEF Continues, assert_raise, assert_count, wfi_clear, wfi_clear_async, wfi_resume,
                wfi_try_resume, Goes, TypeInv
  <2>3. assert' \in [Irq -> {"DEASSERTED", "ASSERTED", "PENDING"}]
    BY <1>6, Zenon DEF Continues, assert_raise, assert_count, wfi_clear, wfi_clear_async, wfi_resume,
                wfi_try_resume, LineInv
  <2>4. arg' = arg \/ arg' = [arg EXCEPT ![d] = NoIrq]
    BY <1>6 DEF Continues, assert_raise, assert_count, wfi_clear, wfi_clear_async, wfi_resume,
                wfi_try_resume
  <2> QED BY <2>1, <2>2, <2>3, <2>4, Zenon DEF LineInv
<1>7. ASSUME NEW d \in Device \cup {Self}, Operates(d) PROVE LineInv'
  <2>1. d \in Actor /\ \A i \in Lines[d] : i \in Irq
    BY IrqAssumption, Zenon DEF Actor
  <2>2. irq_no' = irq_no /\ (ctx' = ctx \/ ctx' = "leave")
    BY <1>7, Zenon DEF Operates, assert_check, vmm_vcpu_irq_deassert, vmm_vcpu_irq_wait_resume, Begins
  <2>3. CASE \E i \in Lines[d] : assert_check(d, i)
    <3>1. PICK i \in Irq : assert_check(d, i)
      BY <2>1, <2>3
    <3>2. assert' = assert /\ \/ UNCHANGED <<pc, arg>>
                              \/ pc' = [pc EXCEPT ![d] = "raise"] /\ arg' = [arg EXCEPT ![d] = i]
      BY <3>1 DEF assert_check, Goes
    <3> QED BY <2>1, <2>2, <3>2 DEF LineInv, TypeInv
  <2>4. CASE \E i \in Lines[d] : vmm_vcpu_irq_deassert(d, i)
    <3>1. PICK i \in Irq : vmm_vcpu_irq_deassert(d, i)
      BY <2>1, <2>4
    <3>2. UNCHANGED <<pc, arg>> /\ assert' = [assert EXCEPT ![i] = "DEASSERTED"]
      BY <3>1, Zenon DEF vmm_vcpu_irq_deassert
    <3> QED BY <2>2, <3>2, Zenon DEF LineInv
  <2>5. CASE vmm_vcpu_irq_wait_resume(d)
    <3>1. UNCHANGED <<assert, arg>> /\ pc' = [pc EXCEPT ![d] = "wake_async"]
      BY <2>5 DEF vmm_vcpu_irq_wait_resume, Goes
    <3> QED BY <2>1, <2>2, <3>1 DEF LineInv, TypeInv
  <2> QED BY <1>7, <2>3, <2>4, <2>5 DEF Operates
<1>8. CASE UNCHANGED vars
  BY <1>8 DEF vars, LineInv
<1> QED BY <1>2, <1>3, <1>4, <1>5, <1>6, <1>7, <1>8 DEF Next

\* vmm_vcpu_irq_process() takes the token of one line, and gives it back
\* before it puts the line back.
LEMMA CoverProcess ==
  ASSUME TypeInv, LineInv, CoverInv, LineInv', vmm_vcpu_irq_process
  PROVE  CoverInv'
<1> USE DEF cpuVars, stVars, irqVars, procVars, actVars
<1>1. UNCHANGED pc /\ Counting' = Counting
  BY DEF vmm_vcpu_irq_process, process_take, process_scan, process_claim, process_execute,
         process_settle, process_retry, process_restore, Counting
<1>2. /\ pending \in Nat /\ Cardinality(Counting) \in Nat /\ Cardinality(Needing) \in Nat
      /\ IsFiniteSet(Needing)
  BY LineSets, FS_CardinalityType DEF TypeInv, CoverInv
<1>3. CASE process_take
  <2>1. /\ ctx = "process" /\ Eligible' = Eligible
        /\ \/ pending > 0 /\ pending' = pending - 1 /\ ctx' = "scan"
           \/ pending' = pending /\ ctx' = "run"
    BY <1>3 DEF process_take, Eligible
  <2>2. Needing' = Needing
    BY <2>1 DEF Needing
  <2>3. pending' \in Nat /\ pending' + Spare' >= pending + Spare
    BY <1>2, <2>1 DEF Spare
  <2> QED BY <1>1, <2>2, <2>3, CoverFrame
<1>4. CASE process_scan
  <2>1. /\ ctx = "scan" /\ Eligible' = Eligible /\ pending' = pending
        /\ irq_no' = Choice /\ ctx' = IF Choice = NoIrq THEN "run" ELSE "claim"
    BY <1>4 DEF process_scan, Eligible
  <2>2. Needing = Eligible /\ Spare = 1 /\ Spare' = 0
    BY <2>1 DEF Needing, Spare
  <2>3. CASE Eligible = {}
    <3>1. Needing' = {}
      BY <2>1, <2>3 DEF Needing, Choice
    <3>2. Cardinality(Needing') = 0
      BY <3>1, FS_EmptySet
    <3> QED BY <1>1, <1>2, <2>1, <2>2, <3>2 DEF CoverInv
  <2>4. CASE Eligible # {}
    <3>1. Choice \in Eligible /\ Choice # NoIrq
      BY <2>4, ChoiceEligible, IrqAssumption DEF Eligible, NoIrq
    <3>2. Needing' \subseteq Needing \ {Choice}
      BY <2>1, <2>2, <3>1 DEF Needing
    <3>3. Cardinality(Needing') \in Nat /\ Cardinality(Needing') <= Cardinality(Needing) - 1
      BY <1>2, <2>2, <3>1, <3>2, OneLess
    <3> QED BY <1>1, <1>2, <2>1, <2>2, <3>3 DEF CoverInv
  <2> QED BY <2>3, <2>4
<1>5. CASE process_claim
  <2>1. /\ ctx = "claim" /\ pending' = pending
        /\ \/ assert' = [assert EXCEPT ![irq_no] = "PENDING"] /\ ctx' = "execute"
           \/ assert[irq_no] # "ASSERTED" /\ assert' = assert /\ ctx' = "run"
    BY <1>5, Zenon DEF process_claim
  <2>2. Needing' \subseteq Needing
    BY <2>1 DEF Needing, Eligible, LineInv
  <2>3. pending' \in Nat /\ pending' + Spare' >= pending + Spare
    BY <1>2, <2>1 DEF Spare
  <2> QED BY <1>1, <2>2, <2>3, CoverFrame
<1>6. CASE process_execute
  <2>1. /\ UNCHANGED <<pending, irq_no, assert>> /\ ctx = "execute" /\ ctx' \in {"retry", "settle"}
    BY <1>6 DEF process_execute
  <2> QED BY <1>1, <2>1, CoverAside DEF Eligible
<1>7. CASE process_settle
  <2>1. /\ pending' = pending /\ ctx = "settle" /\ ctx' = "run"
        /\ assert' = [assert EXCEPT ![irq_no] = "DEASSERTED"]
    BY <1>7, Zenon DEF process_settle
  <2>2. Needing' \subseteq Needing
    BY <2>1 DEF Needing, Eligible, LineInv
  <2>3. pending' \in Nat /\ pending' + Spare' >= pending + Spare
    BY <1>2, <2>1 DEF Spare
  <2> QED BY <1>1, <2>2, <2>3, CoverFrame
<1>8. CASE process_retry
  <2>1. /\ ctx = "retry" /\ ctx' = "restore" /\ pending' = pending + 1
        /\ UNCHANGED <<irq_no, assert>>
    BY <1>8 DEF process_retry
  <2>2. Needing' \subseteq Needing \cup {irq_no} /\ Spare = 0 /\ Spare' = 0
    BY <2>1 DEF Needing, Eligible, Spare
  <2>3. Cardinality(Needing') \in Nat /\ Cardinality(Needing') <= Cardinality(Needing) + 1
    BY <1>2, <2>2, OneMore, Zenon
  <2> QED BY <1>1, <1>2, <2>1, <2>2, <2>3 DEF CoverInv
<1>9. CASE process_restore
  <2>1. /\ pending' = pending /\ ctx = "restore" /\ ctx' = "run"
        /\ assert' = [assert EXCEPT ![irq_no] = "ASSERTED"]
    BY <1>9 DEF process_restore
  <2>2. Needing' \subseteq Needing
    BY <2>1 DEF Needing, Eligible, LineInv
  <2>3. pending' \in Nat /\ pending' + Spare' >= pending + Spare
    BY <1>2, <2>1 DEF Spare
  <2> QED BY <1>1, <2>2, <2>3, CoverFrame
<1> QED BY <1>3, <1>4, <1>5, <1>6, <1>7, <1>8, <1>9, Zenon DEF vmm_vcpu_irq_process

\* An emulator raises a line and then counts it.
LEMMA CoverActor ==
  ASSUME TypeInv, LineInv, CoverInv, LineInv', NEW d \in Actor, Continues(d)
  PROVE  CoverInv'
<1> USE DEF cpuVars, stVars, irqVars, procVars, actVars
<1>1. /\ pending \in Nat /\ Cardinality(Counting) \in Nat /\ Cardinality(Needing) \in Nat
      /\ IsFiniteSet(Needing) /\ IsFiniteSet(Counting) /\ Spare \in Nat
  BY LineSets, FS_CardinalityType, Zenon DEF TypeInv, CoverInv, Spare
<1>2. UNCHANGED <<ctx, irq_no>> /\ Spare' = Spare
  BY DEF Continues, assert_raise, assert_count, wfi_clear, wfi_clear_async, wfi_resume,
         wfi_try_resume, Spare
<1>3. CASE assert_raise(d)
  <2>1. /\ pc[d] = "raise" /\ pending' = pending
        /\ \/ /\ assert' = [assert EXCEPT ![arg[d]] = "ASSERTED"]
              /\ pc' = [pc EXCEPT ![d] = "count"]
           \/ assert' = assert /\ pc' = [pc EXCEPT ![d] = "wake"]
    BY <1>3 DEF assert_raise, Goes
  <2>2. CASE assert' = assert /\ pc' = [pc EXCEPT ![d] = "wake"]
    <3>1. \A a \in Actor : pc'[a] = "count" <=> pc[a] = "count"
      BY <2>1, <2>2, Zenon DEF TypeInv
    <3> QED BY <1>2, <2>1, <2>2, <3>1, CoverAside DEF Eligible
  <2>3. CASE /\ assert' = [assert EXCEPT ![arg[d]] = "ASSERTED"]
             /\ pc' = [pc EXCEPT ![d] = "count"]
    <3>1. Eligible' \subseteq Eligible \cup {arg[d]}
      BY <2>3 DEF Eligible, LineInv
    <3>2. Needing' \subseteq Needing \cup {arg[d]}
      BY <1>2, <3>1, Zenon DEF Needing
    <3>3. Cardinality(Needing') \in Nat /\ Cardinality(Needing') <= Cardinality(Needing) + 1
      BY <1>1, <3>2, OneMore, Zenon
    <3>4. Counting' = Counting \cup {d} /\ d \notin Counting
      BY <2>1, <2>3 DEF Counting, TypeInv
    <3>5. IsFiniteSet(Counting') /\ Cardinality(Counting') = Cardinality(Counting) + 1
      BY <1>1, <3>4, FS_AddElement
    <3> QED BY <1>1, <1>2, <2>1, <3>3, <3>5 DEF CoverInv
  <2> QED BY <2>1, <2>2, <2>3, Zenon
<1>4. CASE assert_count(d)
  <2>1. /\ pc[d] = "count" /\ pending' = pending + 1 /\ assert' = assert
        /\ pc' = [pc EXCEPT ![d] = "wake"]
    BY <1>4 DEF assert_count, Goes
  <2>2. Counting' = Counting \ {d} /\ d \in Counting
    BY <2>1 DEF Counting, TypeInv
  <2>3. IsFiniteSet(Counting') /\ Cardinality(Counting') = Cardinality(Counting) - 1
    BY <1>1, <2>2, FS_RemoveElement
  <2>4. Needing' = Needing
    BY <1>2, <2>1, Zenon DEF Needing, Eligible
  <2> QED BY <1>1, <1>2, <2>1, <2>3, <2>4 DEF CoverInv
<1>5. CASE wfi_clear(d) \/ wfi_clear_async(d) \/ wfi_resume(d) \/ wfi_try_resume(d)
  <2>1. /\ UNCHANGED <<pending, assert>>
        /\ pc[d] # "count"
        /\ \E where \in {"idle", "resume", "ipi"} : pc' = [pc EXCEPT ![d] = where]
    BY <1>5 DEF wfi_clear, wfi_clear_async, wfi_resume, wfi_try_resume, Goes
  <2>2. \A a \in Actor : pc'[a] = "count" <=> pc[a] = "count"
    BY <2>1 DEF TypeInv
  <2> QED BY <1>2, <2>1, <2>2, CoverAside, Zenon DEF Eligible
<1> QED BY <1>3, <1>4, <1>5, Zenon DEF Continues

LEMMA CoverStep ==
  ASSUME TypeInv, LineInv, CoverInv, LineInv', [Next]_vars
  PROVE  CoverInv'
<1> USE DEF cpuVars, stVars, irqVars, procVars, actVars
<1>1. ASSUME Host \/ dispatch("run") \/ dispatch("process") \/ guest_mask \/ guest_unmask,
             ~vmm_vcpu_irq_process
      PROVE  CoverInv'
  <2>1. /\ UNCHANGED <<pending, assert, irq_no, pc>>
        /\ \/ ctx' = ctx
           \/ ctx \in {"run", "trap", "irq", "leave"} /\ ctx' \in {"trap", "irq", "process", "run"}
    BY <1>1, Zenon DEF Host, irq_enter, scheduler_timer_event, irq_exit, dispatch, guest_mask,
                guest_unmask
  <2> QED BY <2>1, CoverAside, Zenon DEF Eligible
<1>2. ASSUME vcpu_irq_wfi_timeout \/ wait_begin \/ wait_pause PROVE CoverInv'
  <2>1. /\ UNCHANGED <<pending, assert, irq_no>>
        /\ ctx' = ctx \/ (ctx = "trap" /\ ctx' = "leave")
    BY <1>2, Zenon DEF vcpu_irq_wfi_timeout, wait_begin, wait_pause, Begins
  <2>2. \A d \in Actor : pc'[d] = "count" <=> pc[d] = "count"
    BY <1>2 DEF vcpu_irq_wfi_timeout, wait_begin, wait_pause, Begins, Goes, TypeInv
  <2> QED BY <2>1, <2>2, CoverAside, Zenon DEF Eligible
<1>3. ASSUME Administers PROVE CoverInv'
  <2>1. CASE admin_reset
    <3>1. /\ UNCHANGED <<pc, ctx>> /\ ctx \in {"irq", "run"}
          /\ pending' = 0 /\ assert' = [i \in Irq |-> "DEASSERTED"]
      BY <2>1 DEF admin_reset, reset
    <3>2. Needing' = {} /\ Counting' = Counting /\ Spare' = 0
      BY <3>1 DEF Needing, Eligible, Counting, Spare
    <3>3. Cardinality(Needing') = 0 /\ IsFiniteSet(Counting) /\ Cardinality(Counting) \in Nat
      BY <3>2, FS_EmptySet, FS_CardinalityType, Zenon DEF CoverInv
    <3> QED BY <3>1, <3>2, <3>3 DEF CoverInv
  <2>2. CASE admin_pause \/ admin_resume \/ admin_halt
    <3>1. UNCHANGED <<pending, assert, irq_no, pc, ctx>>
      BY <2>2, Zenon DEF admin_pause, admin_resume, admin_halt
    <3> QED BY <3>1, CoverAside, Zenon DEF Eligible
  <2> QED BY <1>3, <2>1, <2>2 DEF Administers
<1>4. ASSUME NEW d \in Device \cup {Self}, Operates(d) PROVE CoverInv'
  <2>1. /\ UNCHANGED <<pending, irq_no>>
        /\ ctx' = ctx \/ (ctx = "trap" /\ ctx' = "leave")
        /\ pc[d] = "idle" /\ d \in Actor
    BY <1>4, Zenon DEF Operates, assert_check, vmm_vcpu_irq_deassert, vmm_vcpu_irq_wait_resume, Begins,
                Actor
  <2>2. \E where \in {"idle", "raise", "wake_async"} : pc' = [pc EXCEPT ![d] = where]
    BY <1>4, <2>1, Zenon DEF Operates, assert_check, vmm_vcpu_irq_deassert, vmm_vcpu_irq_wait_resume,
                Goes, TypeInv
  <2>3. \A a \in Actor : pc'[a] = "count" <=> pc[a] = "count"
    BY <2>1, <2>2 DEF TypeInv
  <2>4. Eligible' \subseteq Eligible
    BY <1>4, Zenon DEF Operates, assert_check, vmm_vcpu_irq_deassert, vmm_vcpu_irq_wait_resume,
                Eligible, LineInv
  <2> QED BY <2>1, <2>3, <2>4, CoverAside, Zenon
<1>5. CASE UNCHANGED vars
  <2>1. UNCHANGED <<pending, assert, irq_no, pc, ctx>>
    BY <1>5 DEF vars
  <2> QED BY <2>1, CoverAside, Zenon DEF Eligible
<1> QED BY <1>1, <1>2, <1>3, <1>4, <1>5, CoverProcess, CoverActor, Zenon DEF Next

\* No order of assertions, deassertions, a reset and the give-back of a masked
\* interrupt leaves an asserted line of a priority above 0 without a token in
\* execute_pending or on its way there, so vmm_vcpu_irq_process() finds it at a
\* later irq_exit.  Lines of priority 0, whose tokens vmm_vcpu_irq_process() may
\* drop, do not disturb the others.
THEOREM LinesCovered == Spec => []Covered
<1>1. Init => LineInv /\ CoverInv
  <2> SUFFICES ASSUME Init PROVE LineInv /\ CoverInv
    OBVIOUS
  <2>1. LineInv
    BY DEF Init, LineInv
  <2>2. Counting = {} /\ Needing = {} /\ pending = 0 /\ Spare = 0
    BY DEF Init, Counting, Needing, Eligible, Spare
  <2>3. CoverInv
    BY <2>2, FS_EmptySet DEF CoverInv
  <2> QED BY <2>1, <2>3
<1>2. TypeInv /\ LineInv /\ CoverInv => Covered
  <2> SUFFICES ASSUME TypeInv, LineInv, CoverInv PROVE Covered
    BY Zenon
  <2>1. /\ pending \in Nat /\ Cardinality(Counting) \in Nat
        /\ IsFiniteSet(Needing) /\ Cardinality(Needing) \in Nat /\ Cardinality(Eligible) \in Nat
    BY LineSets, FS_CardinalityType DEF TypeInv, CoverInv
  <2>2. CASE ctx = "claim"
    <3>1. Eligible \subseteq Needing \cup {irq_no}
      BY <2>2 DEF Needing
    <3>2. Cardinality(Eligible) <= Cardinality(Needing) + 1
      BY <2>1, <3>1, OneMore, Zenon
    <3> QED BY <2>1, <2>2, <3>2 DEF CoverInv, Covered, InFlight, Counting, Spare
  <2>3. CASE ctx # "claim"
    <3>1. Eligible \subseteq Needing
      BY <2>3 DEF Needing
    <3>2. Cardinality(Eligible) <= Cardinality(Needing)
      BY <2>1, <3>1, FS_Subset
    <3> QED BY <2>1, <2>3, <3>2 DEF CoverInv, Covered, InFlight, Counting, Spare
  <2> QED BY <2>2, <2>3
<1>3. IInv /\ LineInv /\ CoverInv /\ [Next]_vars => LineInv' /\ CoverInv'
  BY LineStep, CoverStep DEF IInv
<1>4. IInv => TypeInv
  BY DEF IInv
<1> QED BY <1>1, <1>2, <1>3, <1>4, InitInv, StepInv, PTL DEF Spec

=============================================================================
