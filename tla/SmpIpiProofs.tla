---------------------------- MODULE SmpIpiProofs ----------------------------
(***************************************************************************)
(* No call is left in a fifo that nobody looks at, and a sync call that    *)
(* returns VMM_OK has been started everywhere, for any number of host      *)
(* CPUs, callers and calls and any size of the fifos.                      *)
(***************************************************************************)
EXTENDS SmpIpi, TLAPS

\* As much of the types as the argument needs.
TypeInv ==
  /\ sync_fifo \in [Cpu -> Seq(Call)]
  /\ async_fifo \in [Cpu -> Seq(Call)]
  /\ ipi_avail \in [Cpu -> Nat]
  /\ exec \in [Cpu -> {"idle", "sync", "run", "async"}]
  /\ main \in [Cpu -> {"wait", "async", "run"}]
  /\ ecall \in [Cpu -> Call \cup {NoCall}]
  /\ pc \in [Caller -> {"idle", "scan", "submit", "trigger", "wait"}]
  /\ kind \in [Caller -> {"sync", "async"}]
  /\ num \in [Caller -> Nat]
  /\ dst \in [Caller -> Cpu]
  /\ trig_mask \in [Caller -> SUBSET Cpu]
  /\ rc \in [Caller -> {"none", "OK", "ETIMEDOUT"}]
  /\ asked \in [Caller -> SUBSET Cpu]

\* The call is in the fifo of the host CPU, or its function has been started
\* there.
Queued(call, c) == \E i \in 1..Len(sync_fifo[c]) : sync_fifo[c][i] = call

Started(call, c) == <<call, c, c>> \in ran \/ (exec[c] = "run" /\ ecall[c] = call)

\* A sync call is on its way to every destination it was submitted to, and
\* started on the ones it no longer waits for, unless it has timed out.
CallOf(t) ==
  /\ \A c \in asked[t] : Queued(ThisCall(t), c) \/ Started(ThisCall(t), c)
  /\ pc[t] = "trigger" /\ kind[t] = "sync" =>
       Queued(ThisCall(t), dst[t]) \/ Started(ThisCall(t), dst[t])
  /\ rc[t] # "ETIMEDOUT" => \A c \in asked[t] \ trig_mask[t] : Started(ThisCall(t), c)
  /\ rc[t] = "OK" \/ pc[t] = "idle" => trig_mask[t] = {}
  /\ pc[t] # "idle" => rc[t] = "none"

CallInv == \A t \in Caller : CallOf(t)

\* NoSyncLost and NoAsyncLost for one host CPU.
SyncKept(c) ==
  sync_fifo[c] # <<>> => Coming(c) \/ exec[c] \in {"sync", "run"}

AsyncKept(c) ==
  async_fifo[c] # <<>>
    => Coming(c) \/ exec[c] # "idle" \/ ipi_avail[c] > 0 \/ main[c] # "wait"

IInv == TypeInv /\ NoSyncLost /\ NoAsyncLost /\ CallInv

\* What a host CPU does for others, and what a caller does.
CpuStep(c) == Boots(c) \/ smp_ipi_handler(c) \/ Serves(c)

CallerStep(t) ==
  \/ \E k \in Kinds, dest \in SUBSET Cpu \ {{}}, mask \in BOOLEAN : Start(t, k, dest, mask)
  \/ Goes(t)
  \/ \E c \in Cpu : Move(t, c)

\* Calls neither leave a fifo without being started nor stop having been.
CallsStay ==
  /\ \A call, c : c \in Cpu /\ Queued(call, c) => Queued(call, c)' \/ Started(call, c)'
  /\ \A call, c : c \in Cpu /\ Started(call, c) => Started(call, c)'

\* The caller's own state of its call is left alone.
Same(t) ==
  /\ num'[t] = num[t] /\ pc'[t] = pc[t] /\ kind'[t] = kind[t] /\ dst'[t] = dst[t]
  /\ rc'[t] = rc[t] /\ asked'[t] = asked[t] /\ trig_mask'[t] = trig_mask[t]

\* A caller's call is a call.
LEMMA ThisCallType == ASSUME TypeInv, NEW t \in Caller PROVE ThisCall(t) \in Call
  BY DEF TypeInv, ThisCall, Call

\* Taking the first element of a fifo.
LEMMA HeadTail ==
  ASSUME NEW S, NEW q \in Seq(S), q # <<>>
  PROVE  /\ Head(q) \in S /\ Tail(q) \in Seq(S)
         /\ \A i \in 1..Len(q) : q[i] = Head(q) \/ \E j \in 1..Len(Tail(q)) : Tail(q)[j] = q[i]
<1>1. Head(q) \in S /\ Tail(q) \in Seq(S)
  OBVIOUS
<1>2. ASSUME NEW i \in 1..Len(q), q[i] # Head(q)
      PROVE  \E j \in 1..Len(Tail(q)) : Tail(q)[j] = q[i]
  <2>1. i # 1 /\ i - 1 \in 1..Len(Tail(q))
    BY <1>2
  <2>2. Tail(q)[i - 1] = q[i]
    BY <2>1
  <2> QED
    BY <2>1, <2>2
<1> QED
  BY <1>1, <1>2

\* Adding one keeps the others.
LEMMA AppendKeeps ==
  ASSUME NEW S, NEW q \in Seq(S), NEW e \in S
  PROVE  /\ Append(q, e) \in Seq(S) /\ Append(q, e) # <<>>
         /\ \A i \in 1..Len(q) : Append(q, e)[i] = q[i]
         /\ Len(Append(q, e)) = Len(q) + 1 /\ Append(q, e)[Len(q) + 1] = e
         /\ Len(q) \in Nat
<1>1. Append(q, e) \in Seq(S) /\ Len(q) \in Nat
  OBVIOUS
<1>2. Len(Append(q, e)) = Len(q) + 1 /\ Append(q, e)[Len(q) + 1] = e
  OBVIOUS
<1>3. \A i \in 1..Len(q) : Append(q, e)[i] = q[i]
  OBVIOUS
<1>4. Append(q, e) # <<>>
  BY <1>1, <1>2
<1> QED BY <1>1, <1>2, <1>3, <1>4, Zenon

\* Types are preserved by the called host CPU ...
LEMMA CpuTypes ==
  ASSUME TypeInv, NEW c \in Cpu, CpuStep(c)
  PROVE  TypeInv'
<1> USE DEF TypeInv, cpuVars, callerVars
<1>1. CASE vmm_scheduler_init(c)
  BY <1>1 DEF vmm_scheduler_init
<1>2. CASE vmm_smp_ipi_init(c)
  BY <1>2 DEF vmm_smp_ipi_init
<1>3. CASE vmm_handle_percpu_irq(c)
  BY <1>3 DEF vmm_handle_percpu_irq
<1>4. CASE smp_ipi_handler(c)
  BY <1>4 DEF smp_ipi_handler
<1>5. CASE exec_func(c)
  BY <1>5 DEF exec_func
<1>6. CASE exec_complete(c)
  BY <1>6 DEF exec_complete
<1>7. CASE main_wait(c)
  BY <1>7 DEF main_wait
<1>8. CASE main_func(c)
  BY <1>8 DEF main_func
<1>9. CASE exec_dequeue(c)
  <2>1. CASE sync_fifo[c] = <<>>
    BY <1>9, <2>1, Zenon DEF exec_dequeue
  <2>2. CASE sync_fifo[c] # <<>>
    <3>1. Head(sync_fifo[c]) \in Call /\ Tail(sync_fifo[c]) \in Seq(Call)
      BY <2>2, HeadTail
    <3> QED
      BY <1>9, <2>2, <3>1, ZenonT(60) DEF exec_dequeue
  <2> QED
    BY <2>1, <2>2, Zenon
<1>10. CASE main_dequeue(c)
  <2>1. CASE async_fifo[c] = <<>>
    BY <1>10, <2>1, Zenon DEF main_dequeue
  <2>2. CASE async_fifo[c] # <<>>
    <3>1. Tail(async_fifo[c]) \in Seq(Call)
      BY <2>2, HeadTail
    <3> QED
      BY <1>10, <2>2, <3>1, ZenonT(60) DEF main_dequeue
  <2> QED
    BY <2>1, <2>2, Zenon
<1> QED
  BY <1>1, <1>2, <1>3, <1>4, <1>5, <1>6, <1>7, <1>8, <1>9, <1>10, Zenon
  DEF CpuStep, Boots, Serves, vmm_smp_ipi_exec, smp_ipi_main

\* ... and by the caller.
LEMMA CallerTypes ==
  ASSUME TypeInv, NEW t \in Caller, CallerStep(t)
  PROVE  TypeInv'
<1> USE DEF TypeInv, cpuVars, callerVars
<1>1. CASE \E k \in Kinds, dest \in SUBSET Cpu \ {{}}, mask \in BOOLEAN : Start(t, k, dest, mask)
  <2>1. PICK k \in Kinds, dest \in SUBSET Cpu \ {{}}, mask \in BOOLEAN : Start(t, k, dest, mask)
    BY <1>1, Zenon
  <2>2. k \in {"sync", "async"}
    BY IpiAssumption
  <2>3. /\ pc' = [pc EXCEPT ![t] = "scan"] /\ kind' = [kind EXCEPT ![t] = k]
        /\ num' = [num EXCEPT ![t] = @ + 1] /\ rc' = [rc EXCEPT ![t] = "none"]
        /\ asked' = [asked EXCEPT ![t] = {}]
        /\ UNCHANGED <<cpuVars, dst, trig_mask>>
    BY <2>1 DEF Start
  <2> QED
    BY <2>2, <2>3
<1>2. CASE \E c \in Cpu : Scan(t, c)
  <2>1. PICK c \in Cpu : Scan(t, c)
    BY <1>2
  <2>2. /\ pc' = pc \/ pc' = [pc EXCEPT ![t] = "submit"]
        /\ dst' = dst \/ dst' = [dst EXCEPT ![t] = c]
        /\ UNCHANGED <<cpuVars, kind, num, trig_mask, rc, asked>>
    BY <2>1, Zenon DEF Scan
  <2> QED
    BY <2>2, ZenonT(60)
<1>3. CASE \E c \in Cpu : Poll(t, c)
  <2>1. PICK c \in Cpu : Poll(t, c)
    BY <1>3
  <2>2. /\ pc' = [pc EXCEPT ![t] = IF trig_mask[t] = {c} THEN "idle" ELSE "wait"]
        /\ rc' = [rc EXCEPT ![t] = IF trig_mask[t] = {c} THEN "OK" ELSE @]
        /\ trig_mask' = [trig_mask EXCEPT ![t] = @ \ {c}]
        /\ UNCHANGED <<cpuVars, kind, num, dst, asked>>
    BY <2>1 DEF Poll
  <2>3. pc' \in [Caller -> {"idle", "scan", "submit", "trigger", "wait"}]
    BY <2>2
  <2>4. rc' \in [Caller -> {"none", "OK", "ETIMEDOUT"}]
    BY <2>2, Zenon
  <2> QED
    BY <2>2, <2>3, <2>4, Zenon
<1>4. CASE submit_retry(t)
  BY <1>4 DEF submit_retry
<1>5. CASE submit_fail(t)
  BY <1>5 DEF submit_fail
<1>6. CASE submit_trigger(t)
  BY <1>6 DEF submit_trigger
<1>7. CASE Scanned(t)
  BY <1>7, Zenon DEF Scanned
<1>8. CASE Timeout(t)
  BY <1>8 DEF Timeout
<1>9. CASE \E c \in Cpu : Move(t, c)
  BY <1>9 DEF Move
<1>10. CASE submit_enqueue(t)
  <2>1. ThisCall(t) \in Call
    BY ThisCallType
  <2>2. /\ Append(sync_fifo[dst[t]], ThisCall(t)) \in Seq(Call)
        /\ Append(async_fifo[dst[t]], ThisCall(t)) \in Seq(Call)
    BY <2>1, AppendKeeps
  <2> QED
    BY <1>10, <2>2, ZenonT(60) DEF submit_enqueue, Enqueue
<1> QED
  BY <1>1, <1>2, <1>3, <1>4, <1>5, <1>6, <1>7, <1>8, <1>9, <1>10, Zenon
  DEF CallerStep, Goes, Submit

\* A host CPU leaves a fifo alone only when it is empty, or when it will look
\* there again.
LEMMA CpuKeeps ==
  ASSUME TypeInv, NoSyncLost, NoAsyncLost, NEW c \in Cpu, CpuStep(c)
  PROVE  NoSyncLost' /\ NoAsyncLost'
<1> SUFFICES ASSUME NEW x \in Cpu \ missed' PROVE SyncKept(x)' /\ AsyncKept(x)'
  BY DEF NoSyncLost, NoAsyncLost, SyncKept, AsyncKept
<1>0. x \in Cpu \ missed
  <2>1. missed \subseteq missed'
    BY Zenon DEF CpuStep, Boots, Serves, vmm_smp_ipi_exec, smp_ipi_main, vmm_scheduler_init,
           vmm_smp_ipi_init, vmm_handle_percpu_irq, smp_ipi_handler, exec_dequeue,
           exec_func, exec_complete, main_wait, main_dequeue, main_func
  <2> QED
    BY <2>1, Zenon
<1>k. SyncKept(x) /\ AsyncKept(x)
  BY <1>0 DEF NoSyncLost, NoAsyncLost, SyncKept, AsyncKept
<1> USE <1>0, <1>k DEF TypeInv, SyncKept, AsyncKept, Coming, callerVars
<1>1. CASE vmm_scheduler_init(c)
  BY <1>1 DEF vmm_scheduler_init
<1>2. CASE vmm_smp_ipi_init(c)
  BY <1>2 DEF vmm_smp_ipi_init
<1>3. CASE vmm_handle_percpu_irq(c)
  BY <1>3 DEF vmm_handle_percpu_irq
<1>4. CASE smp_ipi_handler(c)
  BY <1>4 DEF smp_ipi_handler
<1>5. CASE exec_func(c)
  BY <1>5 DEF exec_func
<1>6. CASE exec_complete(c)
  BY <1>6 DEF exec_complete
<1>7. CASE main_wait(c)
  BY <1>7 DEF main_wait
<1>8. CASE main_func(c)
  BY <1>8 DEF main_func
<1>9. CASE exec_dequeue(c)
  BY <1>9 DEF exec_dequeue
<1>10. CASE main_dequeue(c)
  BY <1>10 DEF main_dequeue
<1> QED
  BY <1>1, <1>2, <1>3, <1>4, <1>5, <1>6, <1>7, <1>8, <1>9, <1>10, Zenon
  DEF CpuStep, Boots, Serves, vmm_smp_ipi_exec, smp_ipi_main

\* A caller triggers the interrupt after it has enqueued its call.
LEMMA CallerKeeps ==
  ASSUME TypeInv, NoSyncLost, NoAsyncLost, NEW t \in Caller, CallerStep(t)
  PROVE  NoSyncLost' /\ NoAsyncLost'
<1>0. UNCHANGED <<missed, exec, main, ipi_avail>>
  BY Zenon DEF CallerStep, Goes, Submit, Start, Scan, Poll, submit_retry, submit_enqueue,
         submit_fail, submit_trigger, Scanned, Timeout, Move, cpuVars
<1> SUFFICES ASSUME NEW x \in Cpu \ missed PROVE SyncKept(x)' /\ AsyncKept(x)'
  BY <1>0 DEF NoSyncLost, NoAsyncLost, SyncKept, AsyncKept
<1>k. SyncKept(x) /\ AsyncKept(x)
  BY DEF NoSyncLost, NoAsyncLost, SyncKept, AsyncKept
<1>c. ASSUME Coming(x) => Coming(x)', UNCHANGED <<sync_fifo, async_fifo>>
      PROVE  SyncKept(x)' /\ AsyncKept(x)'
  BY <1>0, <1>k, <1>c DEF SyncKept, AsyncKept
<1>1. CASE submit_enqueue(t)
  <2>1. pc' = [pc EXCEPT ![t] = "trigger"] /\ UNCHANGED <<irq, dst>>
    BY <1>1 DEF submit_enqueue
  <2>2. Coming(x) => Coming(x)'
    BY <2>1 DEF Coming, TypeInv
  <2>3. CASE x = dst[t]
    <3>1. Coming(x)'
      BY <2>1, <2>3 DEF Coming, TypeInv
    <3> QED
      BY <3>1 DEF SyncKept, AsyncKept
  <2>4. CASE x # dst[t]
    <3>1. sync_fifo'[x] = sync_fifo[x] /\ async_fifo'[x] = async_fifo[x]
      BY <1>1, <2>4 DEF submit_enqueue, Enqueue, TypeInv
    <3> QED
      BY <1>0, <1>k, <2>2, <3>1 DEF SyncKept, AsyncKept
  <2> QED
    BY <2>3, <2>4
<1>2. CASE submit_trigger(t)
  <2>1. Coming(x) => Coming(x)'
    BY <1>2, Zenon DEF submit_trigger, Triggered, Coming, TypeInv
  <2> QED
    BY <1>2, <1>c, <2>1 DEF submit_trigger
<1>3. ASSUME pc[t] # "trigger", irq \subseteq irq', UNCHANGED <<sync_fifo, async_fifo>>,
             \A o \in Caller \ {t} : pc'[o] = pc[o] /\ dst'[o] = dst[o]
      PROVE  SyncKept(x)' /\ AsyncKept(x)'
  <2>1. Coming(x) => Coming(x)'
    BY <1>3 DEF Coming
  <2> QED
    BY <1>3, <1>c, <2>1, Zenon
<1> USE DEF TypeInv, cpuVars, callerVars
<1>4. CASE submit_retry(t) \/ submit_fail(t)
  BY <1>3, <1>4, ZenonT(60) DEF submit_retry, submit_fail
<1>5. CASE \E k \in Kinds, dest \in SUBSET Cpu \ {{}}, mask \in BOOLEAN : Start(t, k, dest, mask)
  BY <1>3, <1>5 DEF Start
<1>6. CASE \E c \in Cpu : Scan(t, c)
  <2>1. /\ pc[t] = "scan"
        /\ pc' = pc \/ pc' = [pc EXCEPT ![t] = "submit"]
        /\ \E c \in Cpu : dst' = dst \/ dst' = [dst EXCEPT ![t] = c]
        /\ UNCHANGED <<irq, sync_fifo, async_fifo>>
    BY <1>6 DEF Scan
  <2> QED
    BY <1>3, <2>1, ZenonT(60)
<1>7. CASE \E c \in Cpu : Poll(t, c)
  BY <1>3, <1>7, ZenonT(60) DEF Poll
<1>8. CASE Scanned(t) \/ Timeout(t)
  BY <1>3, <1>8, Zenon DEF Scanned, Timeout
<1>9. CASE \E c \in Cpu : Move(t, c)
  <2>1. Coming(x) => Coming(x)'
    BY <1>9, ZenonT(60) DEF Move, Coming
  <2> QED
    BY <1>9, <1>c, <2>1, Zenon DEF Move
<1> QED
  BY <1>1, <1>2, <1>4, <1>5, <1>6, <1>7, <1>8, <1>9, Zenon DEF CallerStep, Goes, Submit

\* Then the caller's part of the invariant stays.
LEMMA SameKeeps ==
  ASSUME TypeInv, NEW t \in Caller, CallOf(t), CallsStay, Same(t)
  PROVE  CallOf(t)'
<1>1. ThisCall(t)' = ThisCall(t)
  BY DEF Same, ThisCall
<1>2. asked[t] \subseteq Cpu /\ dst[t] \in Cpu
  BY Zenon DEF TypeInv
<1> HIDE DEF Queued, Started, ThisCall
<1>3. \A c \in asked[t] : Queued(ThisCall(t), c)' \/ Started(ThisCall(t), c)'
  BY <1>1, <1>2, ZenonT(60) DEF CallOf, CallsStay
<1>4. pc[t] = "trigger" /\ kind[t] = "sync" =>
        Queued(ThisCall(t), dst[t])' \/ Started(ThisCall(t), dst[t])'
  BY <1>1, <1>2 DEF CallOf, CallsStay, Same
<1> QED
  BY <1>1, <1>2, <1>3, <1>4 DEF CallOf, CallsStay, Same

\* A call that leaves the fifo of sync calls is started.
LEMMA CpuCalls ==
  ASSUME TypeInv, CallInv, NEW c \in Cpu, CpuStep(c)
  PROVE  CallInv'
<1>1. ASSUME UNCHANGED <<sync_fifo, exec, ecall>>, ran \subseteq ran' PROVE CallsStay
  BY <1>1 DEF CallsStay, Queued, Started
<1>2. CallsStay
  <2>1. CASE exec_dequeue(c)
    <3>1. CASE sync_fifo[c] = <<>>
      <4>1. UNCHANGED <<sync_fifo, ecall, ran>> /\ exec[c] = "sync"
            /\ exec' = [exec EXCEPT ![c] = "async"]
        BY <2>1, <3>1 DEF exec_dequeue
      <4> QED
        BY <4>1 DEF CallsStay, Queued, Started, TypeInv
    <3>2. CASE sync_fifo[c] # <<>>
      <4>1. /\ exec[c] = "sync" /\ exec' = [exec EXCEPT ![c] = "run"]
            /\ ecall' = [ecall EXCEPT ![c] = Head(sync_fifo[c])]
            /\ sync_fifo' = [sync_fifo EXCEPT ![c] = Tail(@)]
            /\ ran' = ran
        BY <2>1, <3>2 DEF exec_dequeue
      <4>2. ASSUME NEW call, NEW x \in Cpu, Queued(call, x)
            PROVE  Queued(call, x)' \/ Started(call, x)'
        <5>1. CASE x = c
          <6>1. PICK i \in 1..Len(sync_fifo[c]) : sync_fifo[c][i] = call
            BY <4>2, <5>1 DEF Queued
          <6>2. \/ call = Head(sync_fifo[c])
                \/ \E j \in 1..Len(Tail(sync_fifo[c])) : Tail(sync_fifo[c])[j] = call
            BY <3>2, <6>1, HeadTail DEF TypeInv
          <6>3. /\ sync_fifo'[c] = Tail(sync_fifo[c])
                /\ exec'[c] = "run" /\ ecall'[c] = Head(sync_fifo[c])
            BY <4>1 DEF TypeInv
          <6> QED
            BY <5>1, <6>2, <6>3 DEF Queued, Started
        <5>2. CASE x # c
          BY <4>1, <4>2, <5>2 DEF Queued, TypeInv
        <5> QED
          BY <5>1, <5>2
      <4>3. ASSUME NEW call, NEW x \in Cpu, Started(call, x) PROVE Started(call, x)'
        BY <4>1, <4>3, Zenon DEF Started, TypeInv
      <4> QED
        BY <4>2, <4>3 DEF CallsStay
    <3> QED
      BY <3>1, <3>2
  <2>2. CASE exec_func(c)
    BY <2>2 DEF exec_func, CallsStay, Queued, Started, TypeInv
  <2>3. CASE smp_ipi_handler(c)
    BY <2>3 DEF smp_ipi_handler, CallsStay, Queued, Started, TypeInv
  <2>4. CASE exec_complete(c)
    BY <2>4, Zenon DEF exec_complete, CallsStay, Queued, Started, TypeInv
  <2>5. CASE main_wait(c) \/ main_dequeue(c) \/ main_func(c)
    BY <1>1, <2>5, Zenon DEF main_wait, main_dequeue, main_func
  <2>6. CASE Boots(c)
    BY <1>1, <2>6, Zenon DEF Boots, vmm_scheduler_init, vmm_smp_ipi_init, vmm_handle_percpu_irq
  <2> QED
    BY <2>1, <2>2, <2>3, <2>4, <2>5, <2>6
    DEF CpuStep, Serves, vmm_smp_ipi_exec, smp_ipi_main
<1>3. \A t \in Caller : Same(t)
  BY Zenon DEF Same, callerVars, CpuStep, Boots, Serves, vmm_smp_ipi_exec, smp_ipi_main,
         vmm_scheduler_init, vmm_smp_ipi_init, vmm_handle_percpu_irq, smp_ipi_handler,
         exec_dequeue, exec_func, exec_complete, main_wait, main_dequeue, main_func
<1> QED
  BY <1>2, <1>3, SameKeeps DEF CallInv

\* A caller waits for the destinations it has submitted to until their fifos
\* are empty.
LEMMA CallerCalls ==
  ASSUME TypeInv, CallInv, NEW t \in Caller, CallerStep(t)
  PROVE  CallInv'
<1>t. /\ asked[t] \subseteq Cpu /\ trig_mask[t] \subseteq Cpu /\ dst[t] \in Cpu
      /\ CallOf(t)
  BY DEF TypeInv, CallInv
<1>1. ASSUME UNCHANGED <<sync_fifo, exec, ecall>>, ran \subseteq ran' PROVE CallsStay
  BY <1>1 DEF CallsStay, Queued, Started
<1>2. ASSUME CallsStay, CallOf(t)', \A o \in Caller \ {t} : Same(o) PROVE CallInv'
  <2>1. \A o \in Caller \ {t} : CallOf(o)'
    BY <1>2, SameKeeps DEF CallInv
  <2> QED
    BY <1>2, <2>1 DEF CallInv
<1>3. CASE \E k \in Kinds, dest \in SUBSET Cpu \ {{}}, mask \in BOOLEAN : Start(t, k, dest, mask)
  <2>1. /\ pc[t] = "idle" /\ pc' = [pc EXCEPT ![t] = "scan"]
        /\ rc' = [rc EXCEPT ![t] = "none"] /\ asked' = [asked EXCEPT ![t] = {}]
        /\ num' = [num EXCEPT ![t] = @ + 1]
        /\ \E k \in Kinds : kind' = [kind EXCEPT ![t] = k]
        /\ UNCHANGED <<sync_fifo, exec, ecall, ran, dst, trig_mask>>
    BY <1>3, Zenon DEF Start, cpuVars
  <2>2. \A o \in Caller \ {t} : Same(o)
    BY <2>1 DEF Same, TypeInv
  <2>3. pc'[t] = "scan" /\ rc'[t] = "none" /\ asked'[t] = {}
    BY <2>1 DEF TypeInv
  <2>4. CallOf(t)'
    BY <2>3, Zenon DEF CallOf
  <2> QED
    BY <1>1, <1>2, <2>1, <2>2, <2>4
<1>4. CASE \E c \in Cpu : Scan(t, c)
  <2>1. /\ pc[t] = "scan" /\ ran \subseteq ran'
        /\ pc' = pc \/ pc' = [pc EXCEPT ![t] = "submit"]
        /\ \E c \in Cpu : dst' = dst \/ dst' = [dst EXCEPT ![t] = c]
        /\ UNCHANGED <<sync_fifo, exec, ecall, kind, num, trig_mask, rc, asked>>
    BY <1>4, Zenon DEF Scan, cpuVars
  <2>2. \A o \in Caller \ {t} : Same(o)
    BY <2>1, Zenon DEF Same, TypeInv
  <2>3. CallsStay
    BY <1>1, <2>1
  <2>4. pc'[t] \in {"scan", "submit"} /\ ThisCall(t)' = ThisCall(t)
    BY <2>1, Zenon DEF TypeInv, ThisCall
  <2>5. \A c \in asked[t] : Queued(ThisCall(t), c)' \/ Started(ThisCall(t), c)'
    BY <1>t, <2>3, <2>4, Zenon DEF CallOf, CallsStay
  <2>6. rc[t] # "ETIMEDOUT" => \A c \in asked[t] \ trig_mask[t] : Started(ThisCall(t), c)'
    BY <1>t, <2>3, <2>4, Zenon DEF CallOf, CallsStay
  <2>7. CallOf(t)'
    BY <1>t, <2>1, <2>4, <2>5, <2>6, Zenon DEF CallOf
  <2> QED
    BY <1>2, <2>2, <2>3, <2>7, Zenon
<1>5. CASE \E c \in Cpu : Poll(t, c)
  <2>1. PICK c \in Cpu : Poll(t, c)
    BY <1>5, Zenon
  <2>2. /\ pc[t] = "wait" /\ c \in trig_mask[t] /\ sync_fifo[c] = <<>>
        /\ pc' = [pc EXCEPT ![t] = IF trig_mask[t] = {c} THEN "idle" ELSE "wait"]
        /\ rc' = [rc EXCEPT ![t] = IF trig_mask[t] = {c} THEN "OK" ELSE @]
        /\ trig_mask' = [trig_mask EXCEPT ![t] = @ \ {c}]
        /\ UNCHANGED <<sync_fifo, exec, ecall, ran, kind, num, dst, asked>>
    BY <2>1, Zenon DEF Poll, Served, cpuVars
  <2>3. \A o \in Caller \ {t} : Same(o)
    BY <2>2, ZenonT(60) DEF Same, TypeInv
  <2>4. c \in asked[t] => Started(ThisCall(t), c)
    BY <1>t, <2>2 DEF CallOf, Queued
  <2>5. rc[t] = "none"
    BY <1>t, <2>2, Zenon DEF CallOf
  <2>6. \A x \in asked[t] \ (trig_mask[t] \ {c}) : Started(ThisCall(t), x)
    BY <1>t, <2>4, <2>5, Zenon DEF CallOf
  <2>7. /\ \A call, x : Queued(call, x)' = Queued(call, x)
        /\ \A call, x : Started(call, x)' = Started(call, x)
        /\ ThisCall(t)' = ThisCall(t) /\ asked' = asked
    BY <2>2 DEF Queued, Started, ThisCall
  <2>8. trig_mask'[t] = trig_mask[t] \ {c}
    BY <2>2, Zenon DEF TypeInv
  <2>9. CASE trig_mask[t] = {c}
    <3>1. pc'[t] = "idle" /\ rc'[t] = "OK" /\ trig_mask'[t] = {}
      BY <2>2, <2>8, <2>9, Zenon DEF TypeInv
    <3> QED
      BY <1>1, <1>2, <1>t, <2>2, <2>3, <2>6, <2>7, <2>8, <3>1, Zenon DEF CallOf
  <2>10. CASE trig_mask[t] # {c}
    <3>1. pc'[t] = "wait" /\ rc'[t] = "none"
      BY <2>2, <2>5, <2>10 DEF TypeInv
    <3> QED
      BY <1>1, <1>2, <1>t, <2>2, <2>3, <2>6, <2>7, <2>8, <3>1, Zenon DEF CallOf
  <2> QED
    BY <2>9, <2>10
<1>6. CASE submit_enqueue(t)
  <2>1. /\ pc[t] = "submit" /\ pc' = [pc EXCEPT ![t] = "trigger"]
        /\ UNCHANGED <<exec, ecall, ran, kind, num, dst, trig_mask, rc, asked>>
    BY <1>6 DEF submit_enqueue
  <2>2. \A o \in Caller \ {t} : Same(o)
    BY <2>1, Zenon DEF Same, TypeInv
  <2>3. /\ \A x \in Cpu : sync_fifo'[x] = sync_fifo[x]
                          \/ sync_fifo'[x] = Append(sync_fifo[x], ThisCall(t))
        /\ kind[t] = "sync" => sync_fifo'[dst[t]] = Append(sync_fifo[dst[t]], ThisCall(t))
    BY <1>6, ZenonT(60) DEF submit_enqueue, Enqueue, TypeInv
  <2>4. ASSUME NEW x \in Cpu, sync_fifo'[x] = Append(sync_fifo[x], ThisCall(t))
        PROVE  /\ \A call : Queued(call, x) => Queued(call, x)'
               /\ Queued(ThisCall(t), x)'
    <3>1. sync_fifo[x] \in Seq(Call) /\ ThisCall(t) \in Call /\ ThisCall(t)' = ThisCall(t)
      BY <2>1, ThisCallType, Zenon DEF TypeInv, ThisCall
    <3>2. /\ \A i \in 1..Len(sync_fifo[x]) : sync_fifo'[x][i] = sync_fifo[x][i]
          /\ Len(sync_fifo'[x]) = Len(sync_fifo[x]) + 1
          /\ sync_fifo'[x][Len(sync_fifo[x]) + 1] = ThisCall(t)
          /\ Len(sync_fifo[x]) \in Nat
      <4> DEFINE q == sync_fifo[x]
                 e == ThisCall(t)
      <4>1. q \in Seq(Call) /\ e \in Call /\ sync_fifo'[x] = Append(q, e)
        BY <2>4, <3>1, Zenon
      <4> HIDE DEF q, e
      <4>2. /\ \A i \in 1..Len(q) : Append(q, e)[i] = q[i]
            /\ Len(Append(q, e)) = Len(q) + 1 /\ Append(q, e)[Len(q) + 1] = e
            /\ Len(q) \in Nat
        BY <4>1, AppendKeeps
      <4> QED BY <4>1, <4>2, Zenon DEF q, e
    <3>3. ASSUME NEW call, Queued(call, x) PROVE Queued(call, x)'
      <4>1. PICK i \in 1..Len(sync_fifo[x]) : sync_fifo[x][i] = call
        BY <3>3 DEF Queued
      <4>2. i \in 1..Len(sync_fifo'[x]) /\ sync_fifo'[x][i] = call
        BY <3>2, <4>1
      <4> QED
        BY <4>2 DEF Queued
    <3>4. Queued(ThisCall(t), x)'
      <4>1. Len(sync_fifo[x]) + 1 \in 1..Len(sync_fifo'[x])
        BY <3>2
      <4> QED
        BY <3>1, <3>2, <4>1 DEF Queued
    <3> QED
      BY <3>3, <3>4
  <2>5. CallsStay
    <3>1. ASSUME NEW call, NEW x \in Cpu, Queued(call, x) PROVE Queued(call, x)'
      <4>1. CASE sync_fifo'[x] = sync_fifo[x]
        BY <3>1, <4>1, Zenon DEF Queued
      <4> QED
        BY <2>3, <2>4, <3>1, <4>1, Zenon
    <3>2. ASSUME NEW call, NEW x \in Cpu, Started(call, x) PROVE Started(call, x)'
      BY <2>1, <3>2 DEF Started
    <3> QED
      BY <3>1, <3>2 DEF CallsStay
  <2>6. ThisCall(t)' = ThisCall(t) /\ pc'[t] = "trigger"
    BY <2>1, Zenon DEF ThisCall, TypeInv
  <2>7. \A c \in asked[t] : Queued(ThisCall(t), c)' \/ Started(ThisCall(t), c)'
    BY <1>t, <2>5, <2>6, Zenon DEF CallOf, CallsStay
  <2>8. rc[t] # "ETIMEDOUT" => \A c \in asked[t] \ trig_mask[t] : Started(ThisCall(t), c)'
    BY <1>t, <2>5, <2>6, Zenon DEF CallOf, CallsStay
  <2>9. kind[t] = "sync" => Queued(ThisCall(t), dst[t])'
    BY <1>t, <2>1, <2>3, <2>4, Zenon
  <2>10. CallOf(t)'
    BY <1>t, <2>1, <2>6, <2>7, <2>8, <2>9, Zenon DEF CallOf
  <2> QED
    BY <1>2, <2>2, <2>5, <2>10
<1>7. CASE submit_trigger(t)
  <2>1. /\ pc[t] = "trigger" /\ pc' = [pc EXCEPT ![t] = "scan"]
        /\ trig_mask' = [trig_mask EXCEPT ![t] = IF kind[t] = "sync" THEN @ \cup {dst[t]} ELSE @]
        /\ asked' = [asked EXCEPT ![t] = IF kind[t] = "sync" THEN @ \cup {dst[t]} ELSE @]
        /\ UNCHANGED <<sync_fifo, exec, ecall, ran, kind, num, dst, rc>>
    BY <1>7, Zenon DEF submit_trigger
  <2>2. \A o \in Caller \ {t} : Same(o)
    BY <2>1, Zenon DEF Same, TypeInv
  <2>3. /\ \A call, x : Queued(call, x)' = Queued(call, x)
        /\ \A call, x : Started(call, x)' = Started(call, x)
        /\ ThisCall(t)' = ThisCall(t) /\ pc'[t] = "scan" /\ rc'[t] = rc[t]
    BY <2>1, Zenon DEF Queued, Started, ThisCall, TypeInv
  <2>4. rc[t] = "none"
    BY <1>t, <2>1, Zenon DEF CallOf
  <2>5. CASE kind[t] = "sync"
    <3>1. trig_mask'[t] = trig_mask[t] \cup {dst[t]} /\ asked'[t] = asked[t] \cup {dst[t]}
      BY <2>1, <2>5, Zenon DEF TypeInv
    <3>2. CallOf(t)'
      BY <1>t, <2>1, <2>3, <2>4, <2>5, <3>1, Zenon DEF CallOf
    <3> QED
      BY <1>1, <1>2, <2>1, <2>2, <3>2, Zenon
  <2>6. CASE kind[t] # "sync"
    <3>1. trig_mask'[t] = trig_mask[t] /\ asked'[t] = asked[t]
      BY <2>1, <2>6, Zenon DEF TypeInv
    <3>2. CallOf(t)'
      BY <1>t, <2>1, <2>3, <2>4, <2>6, <3>1, Zenon DEF CallOf
    <3> QED
      BY <1>1, <1>2, <2>1, <2>2, <3>2, Zenon
  <2> QED
    BY <2>5, <2>6, Zenon
<1>8. CASE Scanned(t)
  <2>1. /\ pc[t] = "scan"
        /\ pc' = [pc EXCEPT ![t] = IF trig_mask[t] = {} THEN "idle" ELSE "wait"]
        /\ rc' = [rc EXCEPT ![t] = IF kind[t] = "sync" /\ trig_mask[t] = {} THEN "OK" ELSE @]
        /\ UNCHANGED <<sync_fifo, exec, ecall, ran, kind, num, dst, trig_mask, asked>>
    BY <1>8, Zenon DEF Scanned, cpuVars
  <2>2. \A o \in Caller \ {t} : Same(o)
    BY <2>1, Zenon DEF Same, TypeInv
  <2>3. /\ \A call, x : Queued(call, x)' = Queued(call, x)
        /\ \A call, x : Started(call, x)' = Started(call, x)
        /\ ThisCall(t)' = ThisCall(t)
    BY <2>1, Zenon DEF Queued, Started, ThisCall
  <2>4. rc[t] = "none"
    BY <1>t, <2>1, Zenon DEF CallOf
  <2>5. /\ trig_mask[t] = {} => pc'[t] = "idle" /\ rc'[t] \in {"none", "OK"}
        /\ trig_mask[t] # {} => pc'[t] = "wait" /\ rc'[t] = "none"
    BY <2>1, <2>4, Zenon DEF TypeInv
  <2>6. CallOf(t)'
    BY <1>t, <2>1, <2>3, <2>4, <2>5, Zenon DEF CallOf
  <2> QED
    BY <1>1, <1>2, <2>1, <2>2, <2>6, Zenon
<1>9. CASE Timeout(t)
  <2>1. /\ pc' = [pc EXCEPT ![t] = "idle"] /\ rc' = [rc EXCEPT ![t] = "ETIMEDOUT"]
        /\ trig_mask' = [trig_mask EXCEPT ![t] = {}]
        /\ UNCHANGED <<sync_fifo, exec, ecall, ran, kind, num, dst, asked>>
    BY <1>9, Zenon DEF Timeout, cpuVars
  <2>2. \A o \in Caller \ {t} : Same(o)
    BY <2>1, Zenon DEF Same, TypeInv
  <2>3. /\ \A call, x : Queued(call, x)' = Queued(call, x)
        /\ \A call, x : Started(call, x)' = Started(call, x)
        /\ ThisCall(t)' = ThisCall(t)
    BY <2>1, Zenon DEF Queued, Started, ThisCall
  <2>4. pc'[t] = "idle" /\ rc'[t] = "ETIMEDOUT" /\ trig_mask'[t] = {}
    BY <2>1, Zenon DEF TypeInv
  <2>5. CallOf(t)'
    BY <1>t, <2>1, <2>3, <2>4, Zenon DEF CallOf
  <2> QED
    BY <1>1, <1>2, <2>1, <2>2, <2>5, Zenon
<1>10. CASE submit_retry(t) \/ submit_fail(t) \/ \E c \in Cpu : Move(t, c)
  <2>1. /\ \A o \in Caller : Same(o)
        /\ UNCHANGED <<sync_fifo, exec, ecall, ran>>
    BY <1>10, Zenon DEF submit_retry, submit_fail, Move, Same, cpuVars, callerVars
  <2> QED
    BY <1>1, <2>1, SameKeeps, Zenon DEF CallInv
<1> QED
  BY <1>3, <1>4, <1>5, <1>6, <1>7, <1>8, <1>9, <1>10, Zenon DEF CallerStep, Goes, Submit

\* The initial state: the fifos are empty and nobody calls.
LEMMA InitInv == Init => IInv
<1> SUFFICES ASSUME Init PROVE IInv
  BY Zenon
<1>1. TypeInv
  BY IpiAssumption DEF Init, TypeInv
<1>2. NoSyncLost /\ NoAsyncLost
  BY Zenon DEF Init, NoSyncLost, NoAsyncLost
<1>3. CallInv
  BY DEF Init, CallInv, CallOf
<1> QED
  BY <1>1, <1>2, <1>3 DEF IInv

\* The inductive step.
LEMMA StepInv == IInv /\ [Next]_vars => IInv'
<1> SUFFICES ASSUME IInv, [Next]_vars PROVE IInv'
  OBVIOUS
<1>1. CASE UNCHANGED vars
  <2>1. TypeInv'
    BY <1>1, Zenon DEF IInv, TypeInv, vars, cpuVars, callerVars
  <2>2. NoSyncLost' /\ NoAsyncLost'
    BY <1>1, Zenon DEF IInv, NoSyncLost, NoAsyncLost, Coming, vars, cpuVars, callerVars
  <2>3. CallsStay /\ \A t \in Caller : Same(t)
    BY <1>1 DEF CallsStay, Queued, Started, Same, vars, cpuVars, callerVars
  <2>4. CallInv'
    BY <2>3, SameKeeps DEF IInv, CallInv
  <2> QED
    BY <2>1, <2>2, <2>4 DEF IInv
<1>2. ASSUME NEW c \in Cpu, CpuStep(c) PROVE IInv'
  BY <1>2, CpuTypes, CpuKeeps, CpuCalls DEF IInv
<1>3. ASSUME NEW t \in Caller, CallerStep(t) PROVE IInv'
  BY <1>3, CallerTypes, CallerKeeps, CallerCalls DEF IInv
<1> QED
  BY <1>1, <1>2, <1>3, Zenon DEF Next, CpuStep, CallerStep

\* No sync call stays in the fifo of a host CPU that will not look there:
\* the handler of vmm_smp.c empties the fifo after the interrupt was
\* acknowledged, and a caller triggers it after enqueueing.
THEOREM SyncCallsKept == Spec => []NoSyncLost
<1>1. IInv => NoSyncLost
  BY DEF IInv
<1> QED
  BY <1>1, InitInv, StepInv, PTL DEF Spec

\* No async call does: the handler signals ipi_avail while calls are left, and
\* the IPI VCPU waits only after it has seen the fifo empty.
THEOREM AsyncCallsKept == Spec => []NoAsyncLost
<1>1. IInv => NoAsyncLost
  BY DEF IInv
<1> QED
  BY <1>1, InitInv, StepInv, PTL DEF Spec

\* A sync call that returned VMM_OK has been started on every destination that
\* was online, although callers share the fifos whose emptiness they wait for.
THEOREM OkStarted == Spec => []OkIsStarted
<1>1. IInv => OkIsStarted
  <2> SUFFICES ASSUME IInv, NEW t \in Caller, rc[t] = "OK", NEW c \in asked[t]
               PROVE  Started(ThisCall(t), c)
    BY Zenon DEF OkIsStarted, Started
  <2>1. trig_mask[t] = {}
    BY DEF IInv, CallInv, CallOf
  <2> QED
    BY <2>1, Zenon DEF IInv, CallInv, CallOf
<1> QED
  BY <1>1, InitInv, StepInv, PTL DEF Spec

=============================================================================
