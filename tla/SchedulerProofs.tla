-------------------------- MODULE SchedulerProofs --------------------------
(***************************************************************************)
(* Safety of the scheduler for any number of host CPUs and VCPUs and any   *)
(* priorities, as long as VCPUs are not both moved and stopped:            *)
(*                                                                         *)
(*  - a VCPU is current on one host CPU only, and a RUNNING one is current *)
(*    on the host CPU vcpu->hcpu names (IInv);                             *)
(*  - the ready queues hold exactly the READY VCPUs, and only a READY VCPU *)
(*    is made RUNNING (QInv, with RelockInv);                              *)
(*  - a VCPU with preemption disabled keeps its host CPU (LockedInv);      *)
(*  - no VCPU goes on with old registers (SleepInv, SaveInv).              *)
(***************************************************************************)
EXTENDS Scheduler, TLAPS

USE ZenonT(60)

In(v, q) == \E i \in DOMAIN q : q[i] = v

Distinct(q) == \A i, j \in DOMAIN q : q[i] = q[j] => i = j

UserCalls == {Resched} \cup {MigrateCall(v, h) : v \in User, h \in Hcpu}

Moves == [vcpu : User, old : Hcpu, new : Hcpu]

\* As much of the types as the argument needs.
TypeInv ==
  /\ state \in [Vcpu -> States]
  /\ hcpu \in [Vcpu -> Hcpu]
  /\ lock \in [Vcpu -> Hcpu \cup {None}]
  /\ rq \in [Hcpu -> Seq(Vcpu)]
  /\ cur \in [Hcpu -> Vcpu \cup {None}]
  /\ phase \in [Hcpu -> {"none", "begin", "dequeue", "lock"}]
  /\ nxt \in [Hcpu -> Vcpu \cup {None}]
  /\ ipi \in [Hcpu -> SUBSET UserCalls]
  /\ move \in [movers -> Moves \cup {None}]
  /\ movers = {} => \A h \in Hcpu : ipi[h] \subseteq {Resched}

\* The two kinds of behaviour: nobody moves VCPUs, or VCPUs are moved but
\* neither sleep nor have their states changed.
Mode == movers = {} \/ (~Changed /\ Sleepers = {})

\* The host CPU that queues, has dequeued or runs a VCPU is the one vcpu->hcpu
\* names.
HomeInv ==
  \A h \in Hcpu :
    /\ Distinct(rq[h])
    /\ \A v \in Vcpu : In(v, rq[h]) => hcpu[v] = h
    /\ nxt[h] # None => hcpu[nxt[h]] = h
    /\ cur[h] # None => hcpu[cur[h]] = h

\* Inside the context switch the current VCPU is locked and not RUNNING, and the
\* dequeued one is another.
SwitchInv ==
  \A h \in Hcpu :
    /\ phase[h] = "lock" <=> nxt[h] # None
    /\ nxt[h] # None => nxt[h] # cur[h]
    /\ phase[h] \in {"dequeue", "lock"} /\ cur[h] # None
         => state[cur[h]] # "RUNNING" /\ lock[cur[h]] = h

RunInv == \A v \in Vcpu : state[v] = "RUNNING" => cur[hcpu[v]] = v

\* While VCPUs are moved, one that is not kicked yet is nowhere, and one that is
\* current is RUNNING outside the context switch.
MoveInv ==
  ~Changed =>
    /\ \A v \in User : state[v] \in {"RESET", "READY", "RUNNING"}
    /\ \A v \in User, h \in Hcpu :
         state[v] = "RESET" => ~In(v, rq[h]) /\ nxt[h] # v /\ cur[h] # v
    /\ \A h \in Hcpu :
         cur[h] \in User /\ phase[h] \in {"none", "begin"} => state[cur[h]] = "RUNNING"

IInv == TypeInv /\ Mode /\ HomeInv /\ SwitchInv /\ RunInv /\ MoveInv

-----------------------------------------------------------------------------
(* The ready queue                                                         *)

\* What list_add_tail() does to a ready queue.
LEMMA AppendFacts ==
  ASSUME NEW q \in Seq(Vcpu), NEW v \in Vcpu
  PROVE  /\ Append(q, v) \in Seq(Vcpu)
         /\ \A w : In(w, Append(q, v)) <=> In(w, q) \/ w = v
         /\ Distinct(q) /\ ~In(v, q) => Distinct(Append(q, v))
<1>1. /\ Append(q, v) \in Seq(Vcpu)
      /\ DOMAIN q = 1..Len(q)
      /\ DOMAIN Append(q, v) = 1..Len(q) + 1
      /\ \A i \in 1..Len(q) : Append(q, v)[i] = q[i]
      /\ Append(q, v)[Len(q) + 1] = v
      /\ Len(q) \in Nat
  BY SMT
<1>2. \A w : In(w, Append(q, v)) <=> In(w, q) \/ w = v
  BY <1>1, SMT DEF In
<1>3. Distinct(q) /\ ~In(v, q) => Distinct(Append(q, v))
  BY <1>1, SMT DEF In, Distinct
<1> QED BY <1>1, <1>2, <1>3

\* What list_del() of the i-th entry does.
LEMMA ListDelFacts ==
  ASSUME NEW q \in Seq(Vcpu), NEW i \in DOMAIN q
  PROVE  /\ list_del(q, i) \in Seq(Vcpu)
         /\ \A w : In(w, list_del(q, i)) => In(w, q)
         /\ Distinct(q) => Distinct(list_del(q, i)) /\ ~In(q[i], list_del(q, i))
<1> DEFINE r == list_del(q, i)
<1>1. DOMAIN q = 1..Len(q) /\ Len(q) \in Nat /\ i \in 1..Len(q)
  BY SMT
<1>4. /\ r \in Seq(Vcpu)
      /\ DOMAIN r = 1..Len(q) - 1
      /\ \A j \in 1..Len(q) - 1 : r[j] = IF j < i THEN q[j] ELSE q[j + 1]
  BY <1>1, SMT DEF list_del
<1> HIDE DEF r
<1>5. \A w : In(w, r) => In(w, q)
  BY <1>1, <1>4, SMT DEF In
<1>6. ASSUME Distinct(q) PROVE Distinct(r)
  <2> SUFFICES ASSUME NEW j \in DOMAIN r, NEW k \in DOMAIN r, r[j] = r[k] PROVE j = k
    BY DEF Distinct
  <2> DEFINE at(n) == IF n < i THEN n ELSE n + 1
  <2>1. at(j) \in DOMAIN q /\ at(k) \in DOMAIN q /\ r[j] = q[at(j)] /\ r[k] = q[at(k)]
    BY <1>1, <1>4, SMTT(30)
  <2>2. at(j) = at(k)
    BY <2>1, <1>6 DEF Distinct
  <2> QED BY <2>2, <1>1, <1>4, SMT
<1>7. Distinct(q) => ~In(q[i], r)
  BY <1>1, <1>4, SMT DEF Distinct, In
<1> QED BY <1>4, <1>5, <1>6, <1>7 DEF r

LEMMA WithoutFacts ==
  ASSUME NEW q \in Seq(Vcpu), NEW v
  PROVE  /\ Without(q, v) \in Seq(Vcpu)
         /\ \A w : In(w, Without(q, v)) => In(w, q)
         /\ Distinct(q) => Distinct(Without(q, v)) /\ ~In(v, Without(q, v))
<1>1. CASE In(v, q)
  <2>1. PICK i \in DOMAIN q : i = (CHOOSE j \in DOMAIN q : q[j] = v) /\ q[i] = v
    BY <1>1 DEF In
  <2>2. Without(q, v) = list_del(q, i)
    BY <1>1, <2>1 DEF In, Without
  <2> QED BY <2>1, <2>2, ListDelFacts
<1>2. CASE ~In(v, q)
  BY <1>2 DEF In, Without
<1> QED BY <1>1, <1>2

-----------------------------------------------------------------------------
(* The invariant                                                           *)

\* The context switch is entered or refused: the host CPU only changes its phase.
EntersOrLeaves ==
  /\ phase' \in [Hcpu -> {"none", "begin", "dequeue", "lock"}]
  /\ \A h \in Hcpu :
       phase'[h] = phase[h] \/ (phase[h] \in {"none", "begin"} /\ phase'[h] \in {"none", "begin"})

LEMMA ModeKept ==
  ASSUME Mode, movers' = movers
  PROVE  Mode' /\ Changed' = Changed
BY DEF Mode, Changed

LEMMA PhaseStep ==
  ASSUME IInv, EntersOrLeaves, UNCHANGED <<state, hcpu, lock, rq, cur, nxt, ipi, move>>
  PROVE  IInv'
<1> USE DEF IInv
<1>1. movers' = movers /\ Mode' /\ Changed' = Changed
  BY ModeKept DEF movers
<1>2. TypeInv'
  BY <1>1 DEF TypeInv, EntersOrLeaves
<1>3. HomeInv'
  BY DEF HomeInv
<1>4. SwitchInv'
  BY DEF SwitchInv, EntersOrLeaves, TypeInv
<1>5. RunInv'
  BY DEF RunInv
<1>6. MoveInv'
  BY <1>1 DEF MoveInv, EntersOrLeaves, TypeInv
<1> QED BY <1>1, <1>2, <1>3, <1>4, <1>5, <1>6

\* force_resched() and a preemption of the calling host CPU.
LEMMA PreemptFacts ==
  ASSUME TypeInv, NEW h \in Hcpu, NEW target \in Hcpu, NEW wanted, NEW held,
         phase[h] = "none", Preempt(h, target, wanted, held)
  PROVE  /\ EntersOrLeaves
         /\ ipi' \in [Hcpu -> SUBSET UserCalls]
         /\ \A g \in Hcpu : ipi'[g] \subseteq ipi[g] \cup {Resched}
<1>1. CASE UNCHANGED <<yield, phase, ipi>>
  BY <1>1 DEF EntersOrLeaves, TypeInv
<1>2. CASE ipi' = [ipi EXCEPT ![target] = @ \cup {Resched}] /\ UNCHANGED <<yield, phase>>
  BY <1>2, SMT DEF EntersOrLeaves, TypeInv, UserCalls
<1>3. CASE UNCHANGED <<phase, ipi>>
  BY <1>3 DEF EntersOrLeaves, TypeInv
<1>4. CASE phase' = [phase EXCEPT ![h] = "begin"] /\ UNCHANGED <<yield, ipi>>
  BY <1>4 DEF EntersOrLeaves, TypeInv
<1> QED BY <1>1, <1>2, <1>3, <1>4 DEF Preempt

\* What vmm_scheduler_state_change() does to the ready queues.
LEMMA QueueFacts ==
  ASSUME TypeInv, HomeInv, NEW h \in Hcpu, NEW v \in Vcpu,
         rq_enqueue(h, v) \/ rq_detach(v) \/ UNCHANGED rq
  PROVE  /\ rq' \in [Hcpu -> Seq(Vcpu)]
         /\ \A g \in Hcpu : Distinct(rq'[g])
         /\ \A g \in Hcpu, w \in Vcpu :
              In(w, rq'[g]) => In(w, rq[g]) \/ (w = v /\ g = h /\ rq_enqueue(h, v))
<1>1. CASE UNCHANGED rq
  BY <1>1 DEF TypeInv, HomeInv
<1>2. CASE rq_enqueue(h, v) /\ ~UNCHANGED rq
  <2>1. rq' = [rq EXCEPT ![h] = Append(@, v)] /\ ~In(v, rq[h])
    BY <1>2 DEF rq_enqueue, Linked, In
  <2>2. rq \in [Hcpu -> Seq(Vcpu)] /\ \A g \in Hcpu : Distinct(rq[g])
    BY DEF TypeInv, HomeInv
  <2>3. rq'[h] = Append(rq[h], v) /\ \A g \in Hcpu \ {h} : rq'[g] = rq[g]
    BY <2>1, <2>2
  <2> QED BY <1>2, <2>1, <2>2, <2>3, AppendFacts
<1>3. CASE rq_detach(v) /\ ~UNCHANGED rq
  <2>1. rq' = [g \in Hcpu |-> Without(rq[g], v)]
    BY <1>3 DEF rq_detach
  <2>2. rq \in [Hcpu -> Seq(Vcpu)] /\ \A g \in Hcpu : Distinct(rq[g])
    BY DEF TypeInv, HomeInv
  <2>3. \A g \in Hcpu : rq'[g] = Without(rq[g], v)
    BY <2>1
  <2> QED BY <2>1, <2>2, <2>3, WithoutFacts
<1> QED BY <1>1, <1>2, <1>3

\* A request for a state, made outside the context switch.
LEMMA StateStep ==
  ASSUME IInv,
         NEW h \in Hcpu, NEW v \in Vcpu, NEW new \in States \ {"RUNNING"}, NEW held,
         phase[h] = "none",
         state_change(h, v, new, held),
         UNCHANGED <<hcpu, lock, cur, nxt>>,
         movers' = movers, move' \in [movers -> Moves \cup {None}],
         ~Changed => v \notin User \/ (new = "READY" /\ state[v] \in {"RESET", "RUNNING"})
  PROVE  IInv'
<1> USE DEF IInv
<1>1. Mode' /\ Changed' = Changed
  BY ModeKept
<1>2. /\ state' \in [Vcpu -> States]
      /\ \A w \in Vcpu \ {v} : state'[w] = state[w]
      /\ state'[v] \in {state[v], new}
  BY DEF state_change, TypeInv
<1>3. \A w \in Vcpu : state'[w] = "RUNNING" => state[w] = "RUNNING"
  BY <1>2
<1>4. hcpu[v] \in Hcpu
  BY DEF TypeInv
<1>5. /\ rq' \in [Hcpu -> Seq(Vcpu)]
      /\ \A g \in Hcpu : Distinct(rq'[g])
      /\ \A g \in Hcpu, w \in Vcpu :
           In(w, rq'[g]) => In(w, rq[g]) \/ (w = v /\ g = hcpu[v] /\ state'[v] = "READY")
  <2>1. CASE Enqueues(v, new)
    <3>1. ~Detaches(v, new) /\ Changes(v, new) /\ new = "READY"
      BY <2>1 DEF Enqueues, Detaches
    <3>2. rq_enqueue(hcpu[v], v)
      BY <2>1, <3>1 DEF state_change
    <3>3. state'[v] = "READY"
      BY <3>1 DEF state_change, TypeInv
    <3> QED BY <3>2, <3>3, <1>4, QueueFacts, SMT
  <2>2. CASE ~Enqueues(v, new)
    <3>1. rq_detach(v) \/ UNCHANGED rq
      BY <2>2 DEF state_change
    <3>2. CASE rq_detach(v)
      <4>1. \A g \in Hcpu : rq'[g] = rq[g] \/ rq'[g] = Without(rq[g], v)
        BY <3>2 DEF rq_detach
      <4>2. rq' \in [Hcpu -> Seq(Vcpu)] /\ \A g \in Hcpu : Distinct(rq'[g])
        BY <3>2, <1>4, QueueFacts
      <4>3. \A g \in Hcpu : rq[g] \in Seq(Vcpu)
        BY DEF TypeInv
      <4> QED BY <4>1, <4>2, <4>3, WithoutFacts
    <3>3. CASE UNCHANGED rq
      BY <3>3, <1>4, QueueFacts
    <3> QED BY <3>1, <3>2, <3>3
  <2> QED BY <2>1, <2>2
<1>6. /\ EntersOrLeaves
      /\ ipi' \in [Hcpu -> SUBSET UserCalls]
      /\ \A g \in Hcpu : ipi'[g] \subseteq ipi[g] \cup {Resched}
  <2>1. Preempt(h, hcpu[v], WantsPreempt(v, new), held)
    BY DEF state_change
  <2> QED BY <2>1, <1>4, PreemptFacts
<1>7. TypeInv'
  <2>1. movers = {} => \A g \in Hcpu : ipi'[g] \subseteq {Resched}
    BY <1>6 DEF TypeInv
  <2> QED BY <2>1, <1>2, <1>5, <1>6 DEF TypeInv, EntersOrLeaves
<1>8. HomeInv'
  BY <1>5 DEF HomeInv
<1>9. SwitchInv'
  <2> SUFFICES ASSUME NEW g \in Hcpu
               PROVE  /\ phase'[g] = "lock" <=> nxt[g] # None
                      /\ nxt[g] # None => nxt[g] # cur[g]
                      /\ phase'[g] \in {"dequeue", "lock"} /\ cur[g] # None
                           => state'[cur[g]] # "RUNNING" /\ lock[cur[g]] = g
    BY DEF SwitchInv
  <2>1. /\ phase'[g] = "lock" <=> phase[g] = "lock"
        /\ phase'[g] \in {"dequeue", "lock"} => phase[g] \in {"dequeue", "lock"}
    BY <1>6 DEF EntersOrLeaves
  <2>2. cur[g] # None => cur[g] \in Vcpu
    BY DEF TypeInv
  <2> QED BY <2>1, <2>2, <1>3 DEF SwitchInv
<1>10. RunInv'
  BY <1>3 DEF RunInv
<1>11. MoveInv'
  <2> SUFFICES ASSUME ~Changed PROVE MoveInv'
    BY <1>1 DEF MoveInv
  <2>1. User \subseteq Vcpu
    BY DEF User, Vcpu, Orphan
  <2>2. v \in User => new = "READY" /\ state[v] \in {"RESET", "RUNNING"}
    OBVIOUS
  <2>3. v \in User /\ state[v] = "RUNNING" => UNCHANGED state
    BY <2>2 DEF state_change, Changes, Skipped, TypeInv
  <2>4. \A w \in User : state'[w] \in {"RESET", "READY", "RUNNING"}
    BY <2>1, <2>2, <1>2 DEF MoveInv
  <2>5. ASSUME NEW w \in User, NEW g \in Hcpu, state'[w] = "RESET"
        PROVE  ~In(w, rq'[g]) /\ nxt[g] # w /\ cur[g] # w
    <3>1. w \in Vcpu /\ (w = v => state[v] = "RESET")
      BY <2>1, <2>2, <2>5, <1>2
    <3>2. state[w] = "RESET"
      BY <3>1, <2>5, <1>2
    <3>3. ~In(w, rq[g]) /\ nxt[g] # w /\ cur[g] # w
      BY <3>2 DEF MoveInv
    <3> QED BY <3>1, <3>3, <2>5, <1>5
  <2>6. ASSUME NEW g \in Hcpu, cur[g] \in User, phase'[g] \in {"none", "begin"}
        PROVE  state'[cur[g]] = "RUNNING"
    <3>1. state[cur[g]] = "RUNNING"
      BY <2>6, <1>6 DEF MoveInv, EntersOrLeaves, TypeInv
    <3> QED BY <3>1, <2>1, <2>3, <2>6, <1>2
  <2> QED BY <2>4, <2>5, <2>6, <1>1 DEF MoveInv
<1> QED BY <1>1, <1>7, <1>8, <1>9, <1>10, <1>11

-----------------------------------------------------------------------------
(* Every step preserves the invariant                                      *)

\* The ready queue vmm_scheduler_init() leaves: two VCPUs.
LEMMA PairQueue ==
  ASSUME NEW S, NEW a \in S, NEW b \in S, a # b
  PROVE  /\ <<a, b>> \in Seq(S) /\ Distinct(<<a, b>>)
         /\ \A v : In(v, <<a, b>>) <=> v \in {a, b}
<1>1. /\ <<a, b>> \in Seq(S) /\ DOMAIN <<a, b>> = 1..2
      /\ <<a, b>>[1] = a /\ <<a, b>>[2] = b
  BY SMT
<1>2. \A i \in 1..2 : i = 1 \/ i = 2
  BY SMT
<1>3. Distinct(<<a, b>>)
  BY <1>1, <1>2 DEF Distinct
<1>4. \A v : In(v, <<a, b>>) <=> v \in {a, b}
  BY <1>1, <1>2, SMT DEF In
<1> QED BY <1>1, <1>3, <1>4

LEMMA UserVcpu == User \subseteq Vcpu
BY DEF User, Vcpu, Orphan

LEMMA SwitchBeginStep ==
  ASSUME IInv, NEW h \in Hcpu, SwitchBegin(h)
  PROVE  IInv'
<1> USE DEF IInv
<1>1. movers' = movers /\ Mode' /\ Changed' = Changed
  BY ModeKept DEF SwitchBegin, movers
<1>2. /\ phase[h] = "begin" /\ phase' = [phase EXCEPT ![h] = "dequeue"]
      /\ UNCHANGED <<hcpu, cur, nxt, ipi, move>>
  BY DEF SwitchBegin
<1>3. nxt[h] = None
  BY <1>2 DEF SwitchInv
<1>4. /\ state' \in [Vcpu -> States]
      /\ \A w \in Vcpu : w # cur[h] => state'[w] = state[w]
      /\ cur[h] # None => state'[cur[h]] # "RUNNING"
                            /\ state'[cur[h]] \in {state[cur[h]], "READY"}
  BY DEF SwitchBegin, Requeues, RequeuedState, TypeInv, States
<1>5. /\ lock' \in [Vcpu -> Hcpu \cup {None}]
      /\ \A w \in Vcpu : w # cur[h] => lock'[w] = lock[w]
      /\ cur[h] # None => lock'[cur[h]] = h
  BY DEF SwitchBegin, TypeInv
<1>6. /\ rq' \in [Hcpu -> Seq(Vcpu)]
      /\ \A g \in Hcpu : Distinct(rq'[g])
      /\ \A g \in Hcpu, w \in Vcpu :
           In(w, rq'[g]) => In(w, rq[g]) \/ (w = cur[h] /\ g = h /\ cur[h] # None)
  <2>1. CASE cur[h] # None
    <3>1. cur[h] \in Vcpu
      BY <2>1 DEF TypeInv
    <3>2. rq_enqueue(h, cur[h]) \/ UNCHANGED rq
      BY <2>1 DEF SwitchBegin
    <3> QED BY <2>1, <3>1, <3>2, QueueFacts
  <2>2. CASE cur[h] = None
    BY <2>2 DEF SwitchBegin, TypeInv, HomeInv
  <2> QED BY <2>1, <2>2
<1>7. TypeInv'
  BY <1>1, <1>2, <1>4, <1>5, <1>6 DEF TypeInv
<1>8. HomeInv'
  BY <1>2, <1>6 DEF HomeInv
<1>9. SwitchInv'
  <2> SUFFICES ASSUME NEW g \in Hcpu
               PROVE  /\ phase'[g] = "lock" <=> nxt[g] # None
                      /\ nxt[g] # None => nxt[g] # cur[g]
                      /\ phase'[g] \in {"dequeue", "lock"} /\ cur[g] # None
                           => state'[cur[g]] # "RUNNING" /\ lock'[cur[g]] = g
    BY <1>2 DEF SwitchInv
  <2>1. CASE g = h
    BY <2>1, <1>2, <1>3, <1>4, <1>5 DEF TypeInv
  <2>2. CASE g # h
    <3>1. phase'[g] = phase[g]
      BY <2>2, <1>2 DEF TypeInv
    <3>2. cur[g] # None => cur[g] # cur[h] /\ cur[g] \in Vcpu
      BY <2>2, SMT DEF HomeInv, TypeInv
    <3> QED BY <3>1, <3>2, <1>4, <1>5 DEF SwitchInv
  <2> QED BY <2>1, <2>2
<1>10. RunInv'
  <2>1. \A w \in Vcpu : state'[w] = "RUNNING" => state[w] = "RUNNING"
    BY <1>4, SchedAssumption
  <2> QED BY <2>1, <1>2 DEF RunInv
<1>11. MoveInv'
  <2> SUFFICES ASSUME ~Changed PROVE MoveInv'
    BY <1>1 DEF MoveInv
  <2>1. \A w \in User : state'[w] = state[w] \/ (w = cur[h] /\ state'[w] = "READY")
    BY UserVcpu, <1>4, SchedAssumption
  <2>2. \A w \in User : state'[w] \in {"RESET", "READY", "RUNNING"}
    BY <2>1 DEF MoveInv
  <2>3. ASSUME NEW w \in User, NEW g \in Hcpu, state'[w] = "RESET"
        PROVE  ~In(w, rq'[g]) /\ nxt[g] # w /\ cur[g] # w
    <3>1. state[w] = "RESET" /\ w \in Vcpu
      BY <2>1, <2>3, UserVcpu
    <3>2. ~In(w, rq[g]) /\ nxt[g] # w /\ cur[g] # w /\ cur[h] # w
      BY <3>1 DEF MoveInv
    <3> QED BY <3>1, <3>2, <1>6
  <2>4. ASSUME NEW g \in Hcpu, cur[g] \in User, phase'[g] \in {"none", "begin"}
        PROVE  state'[cur[g]] = "RUNNING"
    <3>1. g # h /\ phase[g] \in {"none", "begin"}
      BY <2>4, <1>2 DEF TypeInv
    <3>2. cur[g] # cur[h] /\ cur[g] \in Vcpu
      BY <2>4, <3>1, UserVcpu, SchedAssumption DEF HomeInv, TypeInv
    <3> QED BY <2>4, <3>1, <3>2, <1>4 DEF MoveInv
  <2> QED BY <1>1, <1>2, <2>2, <2>3, <2>4 DEF MoveInv
<1> QED BY <1>1, <1>7, <1>8, <1>9, <1>10, <1>11

LEMMA SwitchToStep ==
  ASSUME IInv, NEW h \in Hcpu, NEW n \in Vcpu, SwitchTo(h, n),
         phase[h] \in {"dequeue", "lock"},
         hcpu[n] = h,
         rq' \in [Hcpu -> Seq(Vcpu)],
         \A g \in Hcpu : Distinct(rq'[g]),
         \A g \in Hcpu, w \in Vcpu : In(w, rq'[g]) => In(w, rq[g])
  PROVE  IInv'
<1> USE DEF IInv
<1>1. movers' = movers /\ Mode' /\ Changed' = Changed
  BY ModeKept DEF SwitchTo, movers
<1>2. /\ state' = [state EXCEPT ![n] = "RUNNING"]
      /\ cur' = [cur EXCEPT ![h] = n]
      /\ nxt' = [nxt EXCEPT ![h] = None]
      /\ phase' = [phase EXCEPT ![h] = "none"]
      /\ UNCHANGED <<hcpu, ipi, move>>
  BY DEF SwitchTo, Return
<1>3. /\ lock' \in [Vcpu -> Hcpu \cup {None}]
      /\ \A w \in Vcpu : lock[w] # h => lock'[w] = lock[w]
  BY DEF SwitchTo, TypeInv
<1>4. /\ cur'[h] = n /\ nxt'[h] = None /\ phase'[h] = "none" /\ state'[n] = "RUNNING"
      /\ \A g \in Hcpu \ {h} : cur'[g] = cur[g] /\ nxt'[g] = nxt[g] /\ phase'[g] = phase[g]
      /\ \A w \in Vcpu \ {n} : state'[w] = state[w]
  BY <1>2 DEF TypeInv
<1>5. n # None /\ None \notin Vcpu
  BY SchedAssumption
<1>6. TypeInv'
  BY <1>1, <1>2, <1>3 DEF TypeInv, States
<1>7. HomeInv'
  <2> SUFFICES ASSUME NEW g \in Hcpu
               PROVE  /\ \A w \in Vcpu : In(w, rq'[g]) => hcpu[w] = g
                      /\ nxt'[g] # None => hcpu[nxt'[g]] = g
                      /\ cur'[g] # None => hcpu[cur'[g]] = g
    BY <1>2 DEF HomeInv
  <2>1. \A w \in Vcpu : In(w, rq'[g]) => hcpu[w] = g
    BY DEF HomeInv
  <2>2. (nxt'[g] = nxt[g] \/ nxt'[g] = None) /\ (cur'[g] = cur[g] \/ (cur'[g] = n /\ g = h))
    BY <1>4
  <2> QED BY <2>1, <2>2 DEF HomeInv
<1>8. SwitchInv'
  <2> SUFFICES ASSUME NEW g \in Hcpu
               PROVE  /\ phase'[g] = "lock" <=> nxt'[g] # None
                      /\ nxt'[g] # None => nxt'[g] # cur'[g]
                      /\ phase'[g] \in {"dequeue", "lock"} /\ cur'[g] # None
                           => state'[cur'[g]] # "RUNNING" /\ lock'[cur'[g]] = g
    BY DEF SwitchInv
  <2>1. CASE g = h
    BY <2>1, <1>4
  <2>2. CASE g # h
    <3>1. cur[g] # None => cur[g] # n /\ cur[g] \in Vcpu
      BY <2>2, SMTT(30) DEF HomeInv, TypeInv
    <3>2. cur'[g] = cur[g] /\ nxt'[g] = nxt[g] /\ phase'[g] = phase[g]
      BY <2>2, <1>4
    <3>3. phase[g] \in {"dequeue", "lock"} /\ cur[g] # None
            => state[cur[g]] # "RUNNING" /\ lock[cur[g]] = g
      BY DEF SwitchInv
    <3>4. phase[g] \in {"dequeue", "lock"} /\ cur[g] # None
            => state'[cur[g]] # "RUNNING" /\ lock'[cur[g]] = g
      BY <2>2, <3>1, <3>3, <1>3, <1>4
    <3> QED BY <3>2, <3>4 DEF SwitchInv
  <2> QED BY <2>1, <2>2
<1>9. RunInv'
  <2> SUFFICES ASSUME NEW w \in Vcpu, state'[w] = "RUNNING" PROVE cur'[hcpu[w]] = w
    BY <1>2 DEF RunInv
  <2>1. CASE w = n
    BY <2>1, <1>4
  <2>2. CASE w # n
    <3>1. state[w] = "RUNNING" /\ cur[hcpu[w]] = w /\ hcpu[w] \in Hcpu
      BY <2>2, <1>4 DEF RunInv, TypeInv
    <3>2. hcpu[w] # h
      BY <3>1, <1>5 DEF SwitchInv
    <3> QED BY <3>1, <3>2, <1>4
  <2> QED BY <2>1, <2>2
<1>10. MoveInv'
  <2> SUFFICES ASSUME ~Changed PROVE MoveInv'
    BY <1>1 DEF MoveInv
  <2>1. \A w \in User : state'[w] \in {"RESET", "READY", "RUNNING"}
    BY <1>4, UserVcpu DEF MoveInv
  <2>2. ASSUME NEW w \in User, NEW g \in Hcpu, state'[w] = "RESET"
        PROVE  ~In(w, rq'[g]) /\ nxt'[g] # w /\ cur'[g] # w
    <3>1. w # n /\ w \in Vcpu /\ state[w] = "RESET" /\ w # None
      BY <2>2, <1>4, <1>5, UserVcpu
    <3>2. ~In(w, rq[g]) /\ nxt[g] # w /\ cur[g] # w
      BY <3>1 DEF MoveInv
    <3> QED BY <3>1, <3>2, <1>4
  <2>3. ASSUME NEW g \in Hcpu, cur'[g] \in User, phase'[g] \in {"none", "begin"}
        PROVE  state'[cur'[g]] = "RUNNING"
    <3>1. CASE g = h
      BY <3>1, <1>4
    <3>2. CASE g # h
      <4>1. cur'[g] = cur[g] /\ phase'[g] = phase[g]
        BY <3>2, <1>4
      <4>2. cur[g] \in User /\ phase[g] \in {"none", "begin"}
        BY <2>3, <4>1
      <4>3. cur[g] \in Vcpu /\ cur[g] # None
        BY <4>2, <1>5, UserVcpu
      <4>4. hcpu[cur[g]] = g
        BY <4>3 DEF HomeInv
      <4>5. cur[g] # n
        BY <3>2, <4>4
      <4>6. state[cur[g]] = "RUNNING"
        BY <4>2 DEF MoveInv
      <4> QED BY <4>1, <4>3, <4>5, <4>6, <1>4
    <3> QED BY <3>1, <3>2
  <2> QED BY <1>1, <2>1, <2>2, <2>3 DEF MoveInv
<1> QED BY <1>1, <1>6, <1>7, <1>8, <1>9, <1>10

\* vmm_schedalgo_rq_dequeue() takes a VCPU of this host CPU out of the queue.
LEMMA DequeueFacts ==
  ASSUME IInv, NEW h \in Hcpu, NEW i \in DOMAIN rq[h],
         rq' = [rq EXCEPT ![h] = list_del(@, i)]
  PROVE  /\ rq' \in [Hcpu -> Seq(Vcpu)]
         /\ \A g \in Hcpu : Distinct(rq'[g])
         /\ \A g \in Hcpu, w \in Vcpu : In(w, rq'[g]) => In(w, rq[g])
         /\ rq[h][i] \in Vcpu
         /\ In(rq[h][i], rq[h])
         /\ hcpu[rq[h][i]] = h
<1>1. rq \in [Hcpu -> Seq(Vcpu)] /\ \A g \in Hcpu : Distinct(rq[g])
  BY DEF IInv, TypeInv, HomeInv
<1>2. rq[h] \in Seq(Vcpu)
  BY <1>1
<1>3. rq'[h] = list_del(rq[h], i) /\ \A g \in Hcpu \ {h} : rq'[g] = rq[g]
  BY <1>1
<1>4. /\ rq'[h] \in Seq(Vcpu) /\ Distinct(rq'[h])
      /\ \A w : In(w, rq'[h]) => In(w, rq[h])
  BY <1>1, <1>2, <1>3, ListDelFacts
<1>5. rq[h][i] \in Vcpu /\ In(rq[h][i], rq[h])
  BY <1>2, SMT DEF In
<1>6. rq' \in [Hcpu -> Seq(Vcpu)]
  BY <1>1, <1>4
<1> QED BY <1>1, <1>3, <1>4, <1>5, <1>6 DEF IInv, HomeInv

LEMMA SwitchSameStep ==
  ASSUME IInv, NEW h \in Hcpu, SwitchSame(h)
  PROVE  IInv'
<1>1. PICK i \in DOMAIN rq[h] :
        rq' = [rq EXCEPT ![h] = list_del(@, i)] /\ SwitchTo(h, rq[h][i])
  BY DEF SwitchSame
<1>2. phase[h] = "dequeue"
  BY DEF SwitchSame
<1> QED BY <1>1, <1>2, DequeueFacts, SwitchToStep

LEMMA SwitchFinishStep ==
  ASSUME IInv, NEW h \in Hcpu, SwitchFinish(h)
  PROVE  IInv'
<1>1. phase[h] = "lock" /\ UNCHANGED rq /\ SwitchTo(h, nxt[h])
  BY DEF SwitchFinish
<1>2. nxt[h] \in Vcpu /\ hcpu[nxt[h]] = h
  BY <1>1, SMT DEF IInv, SwitchInv, HomeInv, TypeInv
<1>3. rq \in [Hcpu -> Seq(Vcpu)] /\ \A g \in Hcpu : Distinct(rq[g])
  BY DEF IInv, TypeInv, HomeInv
<1> QED BY <1>1, <1>2, <1>3, SwitchToStep

LEMMA SwitchDequeueStep ==
  ASSUME IInv, NEW h \in Hcpu, SwitchDequeue(h)
  PROVE  IInv'
<1> USE DEF IInv
<1>1. /\ phase[h] = "dequeue"
      /\ UNCHANGED <<state, hcpu, lock, move, cur, ipi>>
  BY DEF SwitchDequeue, vcpuVars
<1>2. movers' = movers /\ Mode' /\ Changed' = Changed
  BY <1>1, ModeKept DEF movers
<1>3. CASE rq[h] = <<>>
  <2>1. UNCHANGED <<rq, phase, nxt>>
    BY <1>3 DEF SwitchDequeue
  <2>2. EntersOrLeaves
    BY <2>1 DEF EntersOrLeaves, TypeInv
  <2> QED BY <1>1, <2>1, <2>2, PhaseStep
<1>4. CASE rq[h] # <<>>
  <2>1. PICK i \in DOMAIN rq[h] :
           /\ rq[h][i] # cur[h]
           /\ rq' = [rq EXCEPT ![h] = list_del(@, i)]
           /\ nxt' = [nxt EXCEPT ![h] = rq[h][i]]
           /\ phase' = [phase EXCEPT ![h] = "lock"]
    BY <1>4 DEF SwitchDequeue
  <2> DEFINE n == rq[h][i]
  <2>2. /\ rq' \in [Hcpu -> Seq(Vcpu)]
        /\ \A g \in Hcpu : Distinct(rq'[g])
        /\ \A g \in Hcpu, w \in Vcpu : In(w, rq'[g]) => In(w, rq[g])
        /\ n \in Vcpu /\ In(n, rq[h]) /\ hcpu[n] = h
    BY <2>1, DequeueFacts
  <2>3. /\ nxt' \in [Hcpu -> Vcpu \cup {None}]
        /\ phase' \in [Hcpu -> {"none", "begin", "dequeue", "lock"}]
        /\ nxt'[h] = n /\ phase'[h] = "lock" /\ n # None /\ n # cur[h]
        /\ \A g \in Hcpu \ {h} : nxt'[g] = nxt[g] /\ phase'[g] = phase[g]
    BY <2>1, <2>2, SchedAssumption DEF TypeInv
  <2> HIDE DEF n
  <2>4. TypeInv'
    BY <1>1, <1>2, <2>2, <2>3 DEF TypeInv
  <2>5. HomeInv'
    <3> SUFFICES ASSUME NEW g \in Hcpu
                 PROVE  /\ \A w \in Vcpu : In(w, rq'[g]) => hcpu[w] = g
                        /\ nxt'[g] # None => hcpu[nxt'[g]] = g
                        /\ cur[g] # None => hcpu[cur[g]] = g
      BY <1>1, <2>2 DEF HomeInv
    <3>1. \A w \in Vcpu : In(w, rq'[g]) => hcpu[w] = g
      BY <2>2 DEF HomeInv
    <3>2. nxt'[g] # None => hcpu[nxt'[g]] = g
      <4>1. CASE g = h
        BY <2>2, <2>3, <4>1
      <4>2. CASE g # h
        BY <2>3, <4>2 DEF HomeInv
      <4> QED BY <4>1, <4>2, SMTT(30)
    <3> QED BY <3>1, <3>2 DEF HomeInv
  <2>6. SwitchInv'
    <3> SUFFICES ASSUME NEW g \in Hcpu
                 PROVE  /\ phase'[g] = "lock" <=> nxt'[g] # None
                        /\ nxt'[g] # None => nxt'[g] # cur[g]
                        /\ phase'[g] \in {"dequeue", "lock"} /\ cur[g] # None
                             => state[cur[g]] # "RUNNING" /\ lock[cur[g]] = g
      BY <1>1 DEF SwitchInv
    <3>1. CASE g = h
      BY <3>1, <1>1, <2>3 DEF SwitchInv
    <3>2. CASE g # h
      BY <3>2, <2>3 DEF SwitchInv
    <3> QED BY <3>1, <3>2
  <2>7. RunInv'
    BY <1>1 DEF RunInv
  <2>8. MoveInv'
    <3> SUFFICES ASSUME ~Changed PROVE MoveInv'
      BY <1>2 DEF MoveInv
    <3>1. ASSUME NEW w \in User, NEW g \in Hcpu, state[w] = "RESET"
          PROVE  ~In(w, rq'[g]) /\ nxt'[g] # w /\ cur[g] # w
      <4>1. w \in Vcpu /\ ~In(w, rq[g]) /\ ~In(w, rq[h]) /\ nxt[g] # w /\ cur[g] # w
        BY <3>1, UserVcpu DEF MoveInv
      <4> QED BY <4>1, <2>2, <2>3
    <3>2. ASSUME NEW g \in Hcpu, phase'[g] \in {"none", "begin"}
          PROVE  phase[g] \in {"none", "begin"}
      BY <3>2, <2>3
    <3> QED BY <1>1, <1>2, <3>1, <3>2 DEF MoveInv
  <2> QED BY <1>2, <2>4, <2>5, <2>6, <2>7, <2>8
<1> QED BY <1>3, <1>4

LEMMA SwitchRetryStep ==
  ASSUME IInv, NEW h \in Hcpu, SwitchRetry(h)
  PROVE  IInv'
<1> USE DEF IInv
<1>1. /\ phase[h] = "lock"
      /\ phase' = [phase EXCEPT ![h] = "dequeue"]
      /\ nxt' = [nxt EXCEPT ![h] = None]
      /\ UNCHANGED <<state, hcpu, lock, move, rq, cur, ipi>>
  BY DEF SwitchRetry, vcpuVars
<1>2. movers' = movers /\ Mode' /\ Changed' = Changed
  BY <1>1, ModeKept DEF movers
<1>3. /\ nxt'[h] = None /\ phase'[h] = "dequeue"
      /\ \A g \in Hcpu \ {h} : nxt'[g] = nxt[g] /\ phase'[g] = phase[g]
  BY <1>1 DEF TypeInv
<1>4. TypeInv'
  BY <1>1, <1>2 DEF TypeInv
<1>5. HomeInv'
  BY <1>1, <1>3 DEF HomeInv
<1>6. SwitchInv'
  <2> SUFFICES ASSUME NEW g \in Hcpu
               PROVE  /\ phase'[g] = "lock" <=> nxt'[g] # None
                      /\ nxt'[g] # None => nxt'[g] # cur[g]
                      /\ phase'[g] \in {"dequeue", "lock"} /\ cur[g] # None
                           => state[cur[g]] # "RUNNING" /\ lock[cur[g]] = g
    BY <1>1 DEF SwitchInv
  <2>1. CASE g = h
    <3>1. cur[h] # None => state[cur[h]] # "RUNNING" /\ lock[cur[h]] = h
      BY <1>1 DEF SwitchInv
    <3> QED BY <1>3, <2>1, <3>1
  <2>2. CASE g # h
    BY <1>3, <2>2 DEF SwitchInv
  <2> QED BY <2>1, <2>2
<1>7. RunInv'
  BY <1>1 DEF RunInv
<1>8. MoveInv'
  <2>1. \A g \in Hcpu : (nxt'[g] = nxt[g] \/ nxt'[g] = None)
                         /\ (phase'[g] \in {"none", "begin"} => phase[g] \in {"none", "begin"})
    BY <1>3
  <2>2. \A w \in User : w # None
    BY UserVcpu, SchedAssumption
  <2> QED BY <1>1, <1>2, <2>1, <2>2 DEF MoveInv
<1> QED BY <1>2, <1>4, <1>5, <1>6, <1>7, <1>8, SMTT(30)

\* The host CPU of a VCPU changes while the VCPU is neither current nor dequeued,
\* and is in the ready queue of the new host CPU only.
LEMMA MoveStep ==
  ASSUME IInv, ~Changed, NEW v \in User, NEW new \in Hcpu,
         state[v] # "RUNNING",
         \A g \in Hcpu : nxt[g] # v /\ cur[g] # v,
         hcpu' = [hcpu EXCEPT ![v] = new],
         rq' \in [Hcpu -> Seq(Vcpu)],
         \A g \in Hcpu : Distinct(rq'[g]),
         \A g \in Hcpu : In(v, rq'[g]) => g = new /\ state[v] = "READY",
         \A g \in Hcpu, w \in Vcpu \ {v} : In(w, rq'[g]) => In(w, rq[g]),
         UNCHANGED <<state, lock, cur, nxt, phase>>,
         movers' = movers, move' \in [movers -> Moves \cup {None}],
         ipi' \in [Hcpu -> SUBSET UserCalls]
  PROVE  IInv'
<1> USE DEF IInv
<1>1. Mode' /\ Changed' = Changed /\ v \in Vcpu
  BY ModeKept, UserVcpu
<1>2. movers # {}
  BY DEF Changed
<1>3. hcpu'[v] = new /\ \A w \in Vcpu \ {v} : hcpu'[w] = hcpu[w]
  BY <1>1 DEF TypeInv
<1>4. TypeInv'
  BY <1>1, <1>2 DEF TypeInv
<1>5. HomeInv'
  <2> SUFFICES ASSUME NEW g \in Hcpu
               PROVE  /\ \A w \in Vcpu : In(w, rq'[g]) => hcpu'[w] = g
                      /\ nxt[g] # None => hcpu'[nxt[g]] = g
                      /\ cur[g] # None => hcpu'[cur[g]] = g
    BY DEF HomeInv
  <2>1. \A w \in Vcpu : In(w, rq'[g]) => hcpu'[w] = g
    BY <1>3 DEF HomeInv
  <2>2. nxt[g] # None => nxt[g] \in Vcpu \ {v}
    BY DEF TypeInv
  <2>3. cur[g] # None => cur[g] \in Vcpu \ {v}
    BY SMTT(30) DEF TypeInv
  <2> QED BY <2>1, <2>2, <2>3, <1>3 DEF HomeInv
<1>6. SwitchInv'
  BY DEF SwitchInv
<1>7. RunInv'
  BY <1>3 DEF RunInv
<1>8. MoveInv'
  <2> SUFFICES ASSUME ~Changed
               PROVE  /\ \A w \in User : state[w] \in {"RESET", "READY", "RUNNING"}
                      /\ \A w \in User, g \in Hcpu :
                           state[w] = "RESET" => ~In(w, rq'[g]) /\ nxt[g] # w /\ cur[g] # w
                      /\ \A g \in Hcpu : cur[g] \in User /\ phase[g] \in {"none", "begin"}
                                            => state[cur[g]] = "RUNNING"
    BY <1>1 DEF MoveInv
  <2>1. \A w \in User, g \in Hcpu : state[w] = "RESET" => ~In(w, rq'[g])
    <3> SUFFICES ASSUME NEW w \in User, NEW g \in Hcpu, state[w] = "RESET", In(w, rq'[g])
                 PROVE  FALSE
      OBVIOUS
    <3>1. w # v /\ w \in Vcpu
      BY UserVcpu
    <3>2. In(w, rq[g])
      BY <3>1
    <3> QED BY <3>2 DEF MoveInv
  <2> QED BY <2>1 DEF MoveInv
<1> QED BY <1>1, <1>4, <1>5, <1>6, <1>7, <1>8

LEMMA MigrateStep ==
  ASSUME IInv, ~Changed, NEW h \in Hcpu, NEW v \in User, NEW new \in Hcpu,
         phase[h] = "none",
         scheduler_ipi_migrate_vcpu(h, v, new),
         UNCHANGED <<state, lock, cur, nxt, phase>>,
         movers' = movers, move' \in [movers -> Moves \cup {None}],
         ipi' \in [Hcpu -> SUBSET UserCalls]
  PROVE  IInv'
<1> USE DEF IInv
<1>1. v \in Vcpu /\ movers # {} /\ v # None
  BY UserVcpu, SchedAssumption DEF Changed
<1>2. Mode' /\ Changed' = Changed
  BY ModeKept
<1>3. CASE ~Migrates(h, v, new)
  <2>1. UNCHANGED <<hcpu, rq>>
    BY <1>3 DEF scheduler_ipi_migrate_vcpu
  <2>2. TypeInv'
    BY <1>1, <2>1 DEF TypeInv
  <2>3. HomeInv'
    BY <2>1 DEF HomeInv
  <2>4. SwitchInv' /\ RunInv'
    BY <2>1 DEF SwitchInv, RunInv
  <2>5. MoveInv'
    BY <1>2, <2>1 DEF MoveInv
  <2> QED BY <1>2, <2>2, <2>3, <2>4, <2>5
<1>4. CASE Migrates(h, v, new)
  <2>1. /\ state[v] = "READY" /\ hcpu[v] = h /\ new # h
        /\ hcpu' = [hcpu EXCEPT ![v] = new]
    BY <1>4 DEF Migrates, scheduler_ipi_migrate_vcpu
  <2>2. \A g \in Hcpu : nxt[g] # v /\ cur[g] # v
    <3>1. ASSUME NEW g \in Hcpu PROVE nxt[g] # v
      <4>1. nxt[h] = None
        BY DEF SwitchInv
      <4>2. nxt[g] = v => g = h
        BY <1>1, <2>1 DEF HomeInv
      <4> QED BY <1>1, <4>1, <4>2
    <3>2. ASSUME NEW g \in Hcpu PROVE cur[g] # v
      <4>1. cur[g] = v => g = h
        BY <1>1, <2>1 DEF HomeInv
      <4> QED BY <4>1, <2>1 DEF MoveInv
    <3> QED BY <3>1, <3>2
  <2>3. rq \in [Hcpu -> Seq(Vcpu)] /\ \A g \in Hcpu : Distinct(rq[g])
    BY DEF TypeInv, HomeInv
  <2>4. CASE Linked(v)
    <3> DEFINE w(g) == Without(rq[g], v)
    <3>1. rq' = [g \in Hcpu |-> IF g = new THEN Append(w(g), v) ELSE w(g)]
      BY <1>4, <2>4 DEF scheduler_ipi_migrate_vcpu
    <3>2. \A g \in Hcpu : /\ w(g) \in Seq(Vcpu)
                          /\ Distinct(w(g))
                          /\ ~In(v, w(g))
                          /\ \A u : In(u, w(g)) => In(u, rq[g])
      BY <2>3, WithoutFacts
    <3> HIDE DEF w
    <3>3. \A g \in Hcpu : /\ Append(w(g), v) \in Seq(Vcpu)
                          /\ Distinct(Append(w(g), v))
                          /\ \A u : In(u, Append(w(g), v)) <=> In(u, w(g)) \/ u = v
      BY <1>1, <3>2, AppendFacts
    <3>4. \A g \in Hcpu : rq'[g] = IF g = new THEN Append(w(g), v) ELSE w(g)
      BY <3>1
    <3>5. rq' \in [Hcpu -> Seq(Vcpu)]
      BY <3>1, <3>2, <3>3
    <3>6. \A g \in Hcpu : Distinct(rq'[g])
      BY <3>2, <3>3, <3>4
    <3>7. \A g \in Hcpu : In(v, rq'[g]) => g = new /\ state[v] = "READY"
      BY <2>1, <3>2, <3>4
    <3>8. \A g \in Hcpu, u \in Vcpu \ {v} : In(u, rq'[g]) => In(u, rq[g])
      BY <3>2, <3>3, <3>4
    <3> QED BY <2>1, <2>2, <3>5, <3>6, <3>7, <3>8, MoveStep
  <2>5. CASE ~Linked(v)
    <3>1. UNCHANGED rq /\ \A g \in Hcpu : ~In(v, rq[g])
      BY <1>4, <2>5 DEF scheduler_ipi_migrate_vcpu, Linked, In
    <3> QED BY <2>1, <2>2, <2>3, <3>1, MoveStep
  <2> QED BY <2>4, <2>5
<1> QED BY <1>3, <1>4

LEMMA IpiMainStep ==
  ASSUME IInv, NEW h \in Hcpu, smp_ipi_main(h)
  PROVE  IInv'
<1> USE DEF IInv
<1>1. /\ phase[h] = "none"
      /\ UNCHANGED <<state, lock, cur, nxt, phase, move>>
      /\ movers' = movers /\ move' \in [movers -> Moves \cup {None}]
  BY DEF smp_ipi_main, Executes, cpuVars, movers, TypeInv
<1>2. PICK call \in ipi[h] :
        IF call = Resched
          THEN /\ ipi' = [ipi EXCEPT ![h] = @ \ {call}]
               /\ UNCHANGED <<hcpu, rq, crash>>
          ELSE /\ scheduler_ipi_migrate_vcpu(h, call.vcpu, call.hcpu)
               /\ ipi' = [q \in Hcpu |->
                    IF q = h THEN ipi[q] \ {call}
                    ELSE IF q = call.hcpu /\ Migrates(h, call.vcpu, q)
                      THEN ipi[q] \cup {Resched} ELSE ipi[q]]
  BY DEF smp_ipi_main
<1>3. call \in UserCalls
  BY DEF TypeInv
<1>4. CASE call = Resched
  <2>1. ipi' = [ipi EXCEPT ![h] = @ \ {call}] /\ UNCHANGED <<hcpu, rq>>
    BY <1>2, <1>4
  <2>2. Mode' /\ Changed' = Changed
    BY <1>1, ModeKept
  <2>3. TypeInv'
    BY <1>1, <2>1 DEF TypeInv
  <2>4. HomeInv'
    BY <1>1, <2>1 DEF HomeInv
  <2>5. SwitchInv' /\ RunInv'
    BY <1>1, <2>1 DEF SwitchInv, RunInv
  <2>6. MoveInv'
    BY <1>1, <2>1, <2>2 DEF MoveInv
  <2> QED BY <2>2, <2>3, <2>4, <2>5, <2>6
<1>5. CASE call # Resched
  <2>1. PICK v \in User, new \in Hcpu : call = MigrateCall(v, new)
    BY <1>3, <1>5, SMTT(30) DEF UserCalls
  <2>2. call.vcpu = v /\ call.hcpu = new
    BY <2>1 DEF MigrateCall
  <2>3. ~Changed
    BY <1>5 DEF TypeInv, Mode
  <2>4. scheduler_ipi_migrate_vcpu(h, v, new)
    BY <1>2, <1>5, <2>2
  <2>5. ipi' \in [Hcpu -> SUBSET UserCalls]
    <3>1. ipi \in [Hcpu -> SUBSET UserCalls] /\ Resched \in UserCalls
      BY SMT DEF TypeInv, UserCalls
    <3>2. /\ \A q \in Hcpu : ipi'[q] \subseteq ipi[q] \cup {Resched}
          /\ ipi' = [q \in Hcpu |-> ipi'[q]]
      BY <1>2, <1>5
    <3> HIDE DEF IInv
    <3> QED BY <3>1, <3>2
  <2> QED BY <1>1, <2>3, <2>4, <2>5, MigrateStep
<1> QED BY <1>4, <1>5

LEMMA SetHcpuStep ==
  ASSUME IInv, NEW h \in Hcpu, NEW v \in User, NEW new \in Hcpu,
         vmm_scheduler_set_hcpu(h, v, new)
  PROVE  IInv'
<1> USE DEF IInv
<1>1. /\ UNCHANGED <<state, lock, rq, cur, nxt, phase, ipi>>
      /\ cur[h] \in movers /\ ~Changed /\ v \in Vcpu
      /\ hcpu[v] \in Hcpu
  BY UserVcpu DEF vmm_scheduler_set_hcpu, cpuVars, Mode, TypeInv
<1>2. ipi \in [Hcpu -> SUBSET UserCalls] /\ rq \in [Hcpu -> Seq(Vcpu)]
      /\ \A g \in Hcpu : Distinct(rq[g])
  BY DEF TypeInv, HomeInv
<1>3. CASE state[v] \notin {"READY", "RUNNING"}
  <2>1. hcpu' = [hcpu EXCEPT ![v] = new] /\ UNCHANGED move
    BY <1>3 DEF vmm_scheduler_set_hcpu
  <2>2. movers' = movers /\ move' \in [movers -> Moves \cup {None}]
    BY <2>1 DEF TypeInv, movers
  <2>3. state[v] = "RESET"
    BY <1>1, <1>3 DEF MoveInv
  <2>4. \A g \in Hcpu : ~In(v, rq[g]) /\ nxt[g] # v /\ cur[g] # v
    BY <1>1, <2>3 DEF MoveInv
  <2> QED BY <1>1, <1>2, <1>3, <2>1, <2>2, <2>4, MoveStep
<1>4. CASE state[v] \in {"READY", "RUNNING"}
  <2> DEFINE r == [vcpu |-> v, old |-> hcpu[v], new |-> new]
  <2>1. move' = [move EXCEPT ![cur[h]] = r] /\ UNCHANGED hcpu
    BY <1>4 DEF vmm_scheduler_set_hcpu
  <2>2. movers' = movers /\ move' \in [movers -> Moves \cup {None}]
    <3>1. r \in Moves
      BY <1>1 DEF Moves
    <3>2. move \in [movers -> Moves \cup {None}]
      BY DEF TypeInv
    <3> HIDE DEF r, IInv
    <3> QED BY <1>1, <2>1, <3>1, <3>2 DEF movers
  <2> HIDE DEF r
  <2>3. Mode' /\ Changed' = Changed
    BY <2>2, ModeKept
  <2>4. TypeInv'
    BY <1>1, <2>1, <2>2 DEF TypeInv
  <2>5. HomeInv'
    BY <1>1, <2>1 DEF HomeInv
  <2>6. SwitchInv' /\ RunInv'
    BY <1>1, <2>1 DEF SwitchInv, RunInv
  <2>7. MoveInv'
    BY <1>1, <2>3 DEF MoveInv
  <2> QED BY <2>3, <2>4, <2>5, <2>6, <2>7
<1> QED BY <1>3, <1>4

LEMMA SetHcpuMigrateStep ==
  ASSUME IInv, NEW h \in Hcpu, set_hcpu_migrate(h)
  PROVE  IInv'
<1> USE DEF IInv
<1> DEFINE m == move[cur[h]]
<1>1. /\ UNCHANGED <<state, lock, cur, nxt, phase>>
      /\ phase[h] = "none" /\ cur[h] \in movers /\ m # None
      /\ move' = [move EXCEPT ![cur[h]] = None]
  BY DEF set_hcpu_migrate, cpuVars, Executes, Free
<1>2. m \in Moves /\ ~Changed
  BY <1>1 DEF TypeInv, Mode
<1>3. m.vcpu \in User /\ m.old \in Hcpu /\ m.new \in Hcpu
  BY <1>2 DEF Moves
<1>4. movers' = movers /\ move' \in [movers -> Moves \cup {None}]
  BY <1>1 DEF TypeInv, movers
<1>5. CASE m.old # h
  <2>1. /\ ipi' = [ipi EXCEPT ![m.old] = @ \cup {MigrateCall(m.vcpu, m.new)}]
        /\ UNCHANGED <<hcpu, rq>>
    BY <1>5 DEF set_hcpu_migrate
  <2>2. Mode' /\ Changed' = Changed /\ movers # {}
    BY <1>1, <1>4, ModeKept
  <2>3. ipi' \in [Hcpu -> SUBSET UserCalls]
    <3>1. MigrateCall(m.vcpu, m.new) \in UserCalls
      BY <1>3, SMT DEF UserCalls
    <3> QED BY <2>1, <3>1 DEF TypeInv
  <2>4. TypeInv'
    BY <1>1, <1>4, <2>1, <2>2, <2>3 DEF TypeInv
  <2>5. HomeInv'
    BY <1>1, <2>1 DEF HomeInv
  <2>6. SwitchInv' /\ RunInv'
    BY <1>1, <2>1 DEF SwitchInv, RunInv
  <2>7. MoveInv'
    BY <1>1, <2>1, <2>2 DEF MoveInv
  <2> QED BY <2>2, <2>4, <2>5, <2>6, <2>7
<1>6. CASE m.old = h
  <2>1. /\ scheduler_ipi_migrate_vcpu(h, m.vcpu, m.new)
        /\ ipi' = IF Migrates(h, m.vcpu, m.new)
                    THEN [ipi EXCEPT ![m.new] = @ \cup {Resched}] ELSE ipi
    BY <1>6 DEF set_hcpu_migrate
  <2>2. ipi' \in [Hcpu -> SUBSET UserCalls]
    BY <1>3, <2>1, SMT DEF TypeInv, UserCalls
  <2> HIDE DEF m
  <2> QED BY <1>1, <1>2, <1>3, <1>4, <2>1, <2>2, MigrateStep
<1> QED BY <1>5, <1>6

LEMMA SwitchStep ==
  ASSUME IInv, NEW h \in Hcpu, Switch(h)
  PROVE  IInv'
<1>1. CASE SwitchRefused(h)
  <2>1. EntersOrLeaves
    BY <1>1 DEF SwitchRefused, Return, EntersOrLeaves, IInv, TypeInv
  <2> QED BY <1>1, <2>1, PhaseStep DEF SwitchRefused, vcpuVars
<1> QED BY <1>1, SwitchBeginStep, SwitchSameStep, SwitchDequeueStep, SwitchRetryStep,
           SwitchFinishStep DEF Switch

\* The four callers of vmm_scheduler_state_change().
LEMMA CallerStep ==
  ASSUME IInv, NEW h \in Hcpu,
         \/ \E v \in User, new \in SelfOps \cup OtherOps \cup {"READY"} : set_state(h, v, new)
         \/ vmm_scheduler_yield(h)
         \/ (cur[h] = IpiVcpu(h) \/ cur[h] \in Sleepers) /\ waitqueue_sleep(h)
         \/ \E v \in Sleepers \cup {IpiVcpu(h)} : waitqueue_wake(h, v)
  PROVE  IInv'
<1>1. /\ User \subseteq Vcpu /\ Sleepers \subseteq User
      /\ IpiVcpu(h) \in Vcpu \ User /\ Idle(h) \in Vcpu \ User
      /\ Thread \subseteq User
      /\ \A new \in SelfOps \cup OtherOps \cup {"READY"} : new \in States \ {"RUNNING"}
      /\ {"READY", "PAUSED"} \subseteq States
  BY SchedAssumption DEF User, Vcpu, Orphan, States
<1>2. UNCHANGED move => movers' = movers /\ move' \in [movers -> Moves \cup {None}]
  BY DEF IInv, TypeInv, movers
<1>3. ~Changed => Sleepers = {}
  BY DEF IInv, Mode, Changed
<1>4. ASSUME NEW v \in User, NEW new \in SelfOps \cup OtherOps \cup {"READY"},
             set_state(h, v, new)
      PROVE  IInv'
  <2>1. /\ phase[h] = "none" /\ state_change(h, v, new, FALSE)
        /\ UNCHANGED <<hcpu, lock, cur, nxt>>
        /\ ~Changed => new = "READY" /\ state[v] \in {"RESET", "RUNNING"}
    BY <1>4 DEF set_state, MayCall
  <2>2. move' = [m \in movers |-> IF m = v /\ new = "RESET" THEN None ELSE move[m]]
    BY <1>4 DEF set_state
  <2>3. movers' = movers /\ move' \in [movers -> Moves \cup {None}]
    <3>1. move \in [movers -> Moves \cup {None}]
      BY DEF IInv, TypeInv
    <3> QED BY <2>2, <3>1 DEF movers
  <2> QED BY <1>1, <2>1, <2>3, StateStep
<1>5. CASE vmm_scheduler_yield(h)
  <2>1. /\ phase[h] = "none" /\ state_change(h, cur[h], "READY", FALSE)
        /\ UNCHANGED <<hcpu, lock, cur, nxt, move>>
        /\ cur[h] \in Thread \cup {Idle(h)} /\ state[cur[h]] = "RUNNING"
    BY <1>5 DEF vmm_scheduler_yield, Free, Executes
  <2> QED BY <1>1, <1>2, <2>1, StateStep
<1>6. CASE (cur[h] = IpiVcpu(h) \/ cur[h] \in Sleepers) /\ waitqueue_sleep(h)
  <2>1. /\ phase[h] = "none" /\ state_change(h, cur[h], "PAUSED", FALSE)
        /\ UNCHANGED <<hcpu, lock, cur, nxt, move>>
    BY <1>6 DEF waitqueue_sleep, Free, Executes
  <2> QED BY <1>1, <1>2, <1>3, <1>6, <2>1, StateStep
<1>7. ASSUME NEW v \in Sleepers \cup {IpiVcpu(h)}, waitqueue_wake(h, v)
      PROVE  IInv'
  <2>1. /\ phase[h] = "none" /\ state_change(h, v, "READY", TRUE)
        /\ UNCHANGED <<hcpu, lock, cur, nxt, move>>
    BY <1>7 DEF waitqueue_wake, MayCall
  <2> QED BY <1>1, <1>2, <1>3, <1>7, <2>1, StateStep
<1> QED BY <1>4, <1>5, <1>6, <1>7

\* Interrupts, preempt_count and waking up: the scheduler is at most entered.
LEMMA OtherStep ==
  ASSUME IInv, NEW h \in Hcpu,
         \/ \E context \in {"irq", "trap"} : irq_enter(h, context)
         \/ Tick(h) \/ irq_exit(h)
         \/ preempt_disable(h) \/ preempt_enable(h) \/ waitqueue_awake(h) \/ preempt_orphan_return(h)
  PROVE  IInv'
<1>1. UNCHANGED <<state, hcpu, lock, rq, cur, nxt, ipi, move>>
  BY DEF irq_enter, Tick, irq_exit, preempt_disable, preempt_enable, waitqueue_awake,
         preempt_orphan_return, vcpuVars, cpuVars
<1>2. UNCHANGED phase \/ (phase[h] = "none" /\ phase' = [phase EXCEPT ![h] = "begin"])
  BY DEF irq_enter, Tick, irq_exit, preempt_disable, preempt_enable, waitqueue_awake,
         preempt_orphan_return, cpuVars
<1>3. EntersOrLeaves
  BY <1>2 DEF EntersOrLeaves, IInv, TypeInv
<1> QED BY <1>1, <1>3, PhaseStep

LEMMA NextStep == IInv /\ [Next]_vars => IInv'
<1> SUFFICES ASSUME IInv, [Next]_vars PROVE IInv'
  OBVIOUS
<1>1. CASE UNCHANGED vars
  <2>1. UNCHANGED <<state, hcpu, lock, rq, cur, phase, nxt, ipi, move>>
    BY <1>1 DEF vars, vcpuVars, cpuVars
  <2>2. EntersOrLeaves
    BY <2>1 DEF EntersOrLeaves, IInv, TypeInv
  <2> QED BY <2>1, <2>2, PhaseStep
<1>2. CASE Next
  <2>1. PICK h \in Hcpu : Kernel(h) \/ Client(h)
    BY <1>2 DEF Next
  <2>2. CASE Kernel(h)
    BY <2>2, SwitchStep, OtherStep, IpiMainStep, CallerStep DEF Kernel, IpiWork
  <2>3. CASE Client(h)
    BY <2>3, OtherStep, CallerStep, SetHcpuStep, SetHcpuMigrateStep DEF Client
  <2> QED BY <2>1, <2>2, <2>3
<1> QED BY <1>1, <1>2

LEMMA InitInv == Init /\ Mode => IInv
<1> SUFFICES ASSUME Init, Mode PROVE IInv
  OBVIOUS
<1>1. /\ User \subseteq Vcpu /\ None \notin Vcpu
      /\ \A h \in Hcpu : Idle(h) \in Vcpu \ User /\ IpiVcpu(h) \in Vcpu \ User
      /\ \A v \in Vcpu \ User : \E h \in Hcpu : v \in {Idle(h), IpiVcpu(h)}
  BY SchedAssumption DEF User, Vcpu, Orphan
<1>2. \A g, h \in Hcpu : /\ Idle(g) # IpiVcpu(h)
                         /\ Idle(g) = Idle(h) => g = h
                         /\ IpiVcpu(g) = IpiVcpu(h) => g = h
  BY DEF Idle, IpiVcpu
<1>3. hcpu \in [Vcpu -> Hcpu] /\ \A h \in Hcpu : hcpu[Idle(h)] = h /\ hcpu[IpiVcpu(h)] = h
  BY <1>1, <1>2, SchedAssumption DEF Init
<1>4. \A h \in Hcpu : rq[h] = <<Idle(h), IpiVcpu(h)>>
  BY DEF Init
<1>5. ASSUME NEW h \in Hcpu
      PROVE  /\ rq[h] \in Seq(Vcpu) /\ Distinct(rq[h])
             /\ \A v : In(v, rq[h]) <=> v \in {Idle(h), IpiVcpu(h)}
  <2>1. Idle(h) \in Vcpu /\ IpiVcpu(h) \in Vcpu /\ Idle(h) # IpiVcpu(h)
    BY <1>1, <1>2
  <2>2. rq[h] = <<Idle(h), IpiVcpu(h)>>
    BY <1>4
  <2>3. /\ <<Idle(h), IpiVcpu(h)>> \in Seq(Vcpu) /\ Distinct(<<Idle(h), IpiVcpu(h)>>)
        /\ \A v : In(v, <<Idle(h), IpiVcpu(h)>>) <=> v \in {Idle(h), IpiVcpu(h)}
    BY <2>1, PairQueue
  <2> QED BY <2>2, <2>3
<1>6. move \in [movers -> Moves \cup {None}]
  BY DEF Init, movers
<1>7. TypeInv
  <2>1. rq \in [Hcpu -> Seq(Vcpu)]
    BY <1>5 DEF Init
  <2> QED BY <1>3, <1>6, <2>1 DEF Init, TypeInv, States
<1>8. HomeInv
  <2>1. nxt = [h \in Hcpu |-> None] /\ cur = [h \in Hcpu |-> None]
    BY DEF Init
  <2> QED BY <1>3, <1>5, <2>1 DEF HomeInv
<1>9. SwitchInv
  BY DEF Init, SwitchInv
<1>10. RunInv
  BY DEF Init, RunInv
<1>11. MoveInv
  <2>1. /\ nxt = [h \in Hcpu |-> None] /\ cur = [h \in Hcpu |-> None]
        /\ state = [v \in Vcpu |-> IF v \in User THEN "RESET" ELSE "READY"]
    BY DEF Init
  <2>2. \A h \in Hcpu : nxt[h] = None /\ cur[h] = None /\ None \notin User
    BY <2>1, <1>1
  <2>3. \A v \in User : state[v] = "RESET"
    BY <2>1, <1>1
  <2>4. ASSUME NEW v \in User, NEW h \in Hcpu PROVE ~In(v, rq[h])
    <3>1. v # Idle(h) /\ v # IpiVcpu(h)
      BY <1>1
    <3> QED BY <3>1, <1>5
  <2> QED BY <2>2, <2>3, <2>4 DEF MoveInv
<1> QED BY <1>7, <1>8, <1>9, <1>10, <1>11 DEF IInv

\* The scheduler never runs a VCPU on two host CPUs, and one that it marks
\* RUNNING is current where vcpu->hcpu says: whatever states are asked for while
\* nobody moves VCPUs, and however VCPUs are moved by vmm_scheduler_set_hcpu()
\* while they only run, give way and are started.
THEOREM VcpuRunsOnce == Spec /\ Mode => []RunsOnce
<1>1. IInv => RunsOnce
  <2> SUFFICES ASSUME IInv PROVE RunsOnce
    OBVIOUS
  <2>1. OnOneHcpu
    BY DEF OnOneHcpu, IInv, HomeInv
  <2> QED BY <2>1 DEF RunsOnce, IInv, RunInv
<1> QED BY <1>1, InitInv, NextStep, PTL DEF Spec

\* VCPUs are moved, or requests for a VCPU from elsewhere only resume it and a
\* VCPU pauses or halts itself.  It does so with preemption enabled: nobody
\* disables it, and no thread is left with the lock of a wait queue by
\* preempt_orphan_return().
Requests ==
  Changed =>
    /\ OtherOps \subseteq {"READY"}
    /\ SelfOps \subseteq {"PAUSED", "HALTED"}
    /\ (Preempters = {} /\ Sleepers = {}) \/ SelfOps = {}

CountTypes ==
  /\ preempt \in [Vcpu -> Nat]
  /\ asleep \in [Vcpu -> BOOLEAN]
  /\ ctx \in [Hcpu -> {"vcpu", "trap", "done", "irq", "exit"}]

QueuedInv == \A h \in Hcpu, v \in Vcpu : In(v, rq[h]) => state[v] = "READY"

ReadyInv ==
  \A v \in Vcpu : state[v] = "READY" => In(v, rq[hcpu[v]]) \/ nxt[hcpu[v]] = v

\* What a switch has dequeued is READY and not queued.
NextInv ==
  \A h \in Hcpu : nxt[h] # None => state[nxt[h]] = "READY" /\ ~In(nxt[h], rq[h])

\* A VCPU that executes is RUNNING: one that has paused or halted itself is
\* switched out before it goes on.
CurInv ==
  \A h \in Hcpu : cur[h] # None /\ phase[h] = "none" /\ ctx[h] # "done"
                    => state[cur[h]] = "RUNNING"

\* A current VCPU that is not RUNNING may be switched out.
PreInv ==
  \A h \in Hcpu : cur[h] # None /\ state[cur[h]] # "RUNNING" => Preemptible(cur[h])

\* Who may have preemption disabled while it runs: a thread that does so itself,
\* and one that has taken the lock of a wait queue after its preemption.
Holders == Preempters \cup {t \in Thread : Sleepers # {}}

\* Of the other VCPUs only one that falls asleep has a preemption count, until it
\* is switched out.
CountInv ==
  \A v \in Vcpu \ Holders : preempt[v] # 0 =>
    preempt[v] = 1 /\ asleep[v] /\ cur[hcpu[v]] = v /\ phase[hcpu[v]] # "none"

AsleepInv == \A v \in User \ Sleepers : ~asleep[v]

\* The idle VCPU is always there to be run.
IdleInv == \A h \in Hcpu : state[Idle(h)] \in {"READY", "RUNNING"} /\ hcpu[Idle(h)] = h

\* A guest that traps does so as the current VCPU and is not switched out meanwhile.
TrapInv == \A h \in Hcpu : ctx[h] = "trap" => cur[h] \in Guest /\ phase[h] = "none"

ListInv == QueuedInv /\ ReadyInv /\ NextInv /\ IdleInv /\ crash = "none"

CtxInv == CountTypes /\ CurInv /\ PreInv /\ CountInv /\ AsleepInv /\ TrapInv

QInv == ListInv /\ CtxInv

\* Who is to take a lock after its preemption is a thread that does not sleep.
RelockInv ==
  /\ relock \in [Vcpu -> User \cup {None}]
  /\ \A c \in Vcpu : relock[c] # None => c \in Thread /\ ~asleep[c]

-----------------------------------------------------------------------------
(* The ready queue                                                         *)

LEMMA OwnVcpus ==
  /\ None \notin Vcpu
  /\ \A h \in Hcpu : Idle(h) \in Vcpu \ User /\ IpiVcpu(h) \in Vcpu \ User
BY SchedAssumption DEF User, Vcpu, Orphan

LEMMA CurFacts ==
  ASSUME IInv, NEW h \in Hcpu, cur[h] # None
  PROVE  cur[h] \in Vcpu /\ hcpu[cur[h]] = h
<1>1. cur[h] \in Vcpu
  BY DEF IInv, TypeInv
<1>2. hcpu[cur[h]] = h
  BY DEF IInv, HomeInv
<1> QED BY <1>1, <1>2

\* What the second half of a switch has dequeued belongs to its host CPU.
LEMMA FinishFacts ==
  ASSUME IInv, NEW h \in Hcpu, SwitchFinish(h)
  PROVE  /\ nxt[h] \in Vcpu /\ hcpu[nxt[h]] = h /\ SwitchTo(h, nxt[h])
         /\ nxt[h] # cur[h] /\ phase[h] = "lock" /\ phase[h] # "none"
<1>1. phase[h] = "lock" /\ SwitchTo(h, nxt[h])
  BY DEF SwitchFinish
<1>2. nxt[h] # None /\ nxt[h] # cur[h]
  BY <1>1 DEF IInv, SwitchInv
<1>3. nxt[h] \in Vcpu
  BY <1>2 DEF IInv, TypeInv
<1>4. hcpu[nxt[h]] = h
  BY <1>2 DEF IInv, HomeInv
<1> QED BY <1>1, <1>2, <1>3, <1>4

\* list_del() keeps the other entries.
LEMMA ListDelKeeps ==
  ASSUME NEW q \in Seq(Vcpu), NEW i \in DOMAIN q, NEW w, In(w, q), w # q[i]
  PROVE  In(w, list_del(q, i))
<1>1. DOMAIN q = 1..Len(q) /\ Len(q) \in Nat /\ i \in 1..Len(q)
  BY SMT
<1>2. PICK k \in 1..Len(q) : q[k] = w
  BY <1>1 DEF In
<1>3. /\ DOMAIN list_del(q, i) = 1..Len(q) - 1
      /\ \A j \in 1..Len(q) - 1 : list_del(q, i)[j] = q[IF j < i THEN j ELSE j + 1]
  BY <1>1 DEF list_del
<1>4. CASE k < i
  <2>1. k \in 1..Len(q) - 1 /\ list_del(q, i)[k] = w
    BY <1>1, <1>2, <1>3, <1>4, SMT
  <2> QED BY <2>1, <1>3 DEF In
<1>5. CASE k > i
  <2>1. k - 1 \in 1..Len(q) - 1 /\ ~(k - 1 < i) /\ (k - 1) + 1 = k
    BY <1>1, <1>5, SMT
  <2>2. list_del(q, i)[k - 1] = w
    BY <1>2, <1>3, <2>1
  <2> QED BY <2>1, <2>2, <1>3 DEF In
<1> QED BY <1>1, <1>2, <1>4, <1>5, SMT

LEMMA WithoutKeeps ==
  ASSUME NEW q \in Seq(Vcpu), NEW v, NEW w, In(w, q), w # v
  PROVE  In(w, Without(q, v))
<1>1. CASE In(v, q)
  <2>1. PICK i \in DOMAIN q : i = (CHOOSE j \in DOMAIN q : q[j] = v) /\ q[i] = v
    BY <1>1 DEF In
  <2>2. Without(q, v) = list_del(q, i)
    BY <1>1, <2>1 DEF In, Without
  <2> QED BY <2>1, <2>2, ListDelKeeps
<1>2. CASE ~In(v, q)
  BY <1>2 DEF In, Without
<1> QED BY <1>1, <1>2

\* A VCPU that is not READY is in no ready queue, so it can be enqueued.
LEMMA EnqueueFacts ==
  ASSUME IInv, ListInv, NEW h \in Hcpu, NEW v \in Vcpu, state[v] # "READY", rq_enqueue(h, v)
  PROVE  /\ crash' = "none"
         /\ In(v, rq'[h])
         /\ \A g \in Hcpu, w \in Vcpu : In(w, rq[g]) => In(w, rq'[g])
         /\ \A g \in Hcpu, w \in Vcpu : In(w, rq'[g]) => In(w, rq[g]) \/ (w = v /\ g = h)
<1>1. ~Linked(v)
  BY DEF ListInv, QueuedInv, Linked, In
<1>2. rq' = [rq EXCEPT ![h] = Append(@, v)] /\ crash' = "none"
  BY <1>1 DEF rq_enqueue, ListInv
<1>3. rq \in [Hcpu -> Seq(Vcpu)]
  BY DEF IInv, TypeInv
<1>4. rq'[h] = Append(rq[h], v) /\ \A g \in Hcpu \ {h} : rq'[g] = rq[g]
  BY <1>2, <1>3
<1>5. \A w : In(w, Append(rq[h], v)) <=> In(w, rq[h]) \/ w = v
  BY <1>3, AppendFacts
<1> QED BY <1>2, <1>4, <1>5

-----------------------------------------------------------------------------
(* ListInv                                                                 *)

\* vmm_scheduler_state_change(): a resume enqueues a VCPU that was not queued,
\* a VCPU that stops itself is not queued.
LEMMA StateList ==
  ASSUME IInv, ListInv, NEW h \in Hcpu, NEW v \in Vcpu, NEW new, NEW held,
         state_change(h, v, new, held), UNCHANGED <<hcpu, nxt>>,
         new = "READY" \/ (new \in {"PAUSED", "HALTED"} /\ state[v] = "RUNNING"
                             /\ \A g \in Hcpu : v # Idle(g))
  PROVE  ListInv'
<1>1. /\ state \in [Vcpu -> States] /\ hcpu \in [Vcpu -> Hcpu] /\ nxt \in [Hcpu -> Vcpu \cup {None}]
      /\ None \notin Vcpu /\ \A g \in Hcpu : Idle(g) \in Vcpu
  BY OwnVcpus DEF IInv, TypeInv
<1>2. /\ \A w \in Vcpu \ {v} : state'[w] = state[w]
      /\ state'[v] = IF Changes(v, new) THEN new ELSE state[v]
  BY <1>1 DEF state_change
<1>3. CASE Enqueues(v, new)
  <2>1. new = "READY" /\ state[v] \in {"RESET", "PAUSED"} /\ state'[v] = "READY"
    BY <1>1, <1>2, <1>3 DEF Enqueues, Changes, Skipped, Invalid, States
  <2>2. rq_enqueue(hcpu[v], v)
    BY <1>3, <2>1 DEF state_change, Detaches
  <2>3. /\ crash' = "none"
        /\ In(v, rq'[hcpu[v]])
        /\ \A g \in Hcpu, w \in Vcpu : In(w, rq[g]) => In(w, rq'[g])
        /\ \A g \in Hcpu, w \in Vcpu : In(w, rq'[g]) => In(w, rq[g]) \/ (w = v /\ g = hcpu[v])
    BY <1>1, <2>1, <2>2, EnqueueFacts, SMT
  <2>4. QueuedInv'
    BY <1>2, <2>1, <2>3, SMT DEF ListInv, QueuedInv
  <2>5. ReadyInv'
    BY <1>1, <1>2, <2>3 DEF ListInv, ReadyInv
  <2>6. NextInv'
    <3> SUFFICES ASSUME NEW g \in Hcpu, nxt[g] # None
                 PROVE  state'[nxt[g]] = "READY" /\ ~In(nxt[g], rq'[g])
      BY DEF NextInv
    <3>1. nxt[g] \in Vcpu /\ state[nxt[g]] = "READY" /\ ~In(nxt[g], rq[g]) /\ nxt[g] # v
      BY <1>1, <2>1 DEF ListInv, NextInv
    <3> QED BY <1>2, <2>3, <3>1
  <2>7. IdleInv'
    BY <1>1, <1>2, <2>1 DEF ListInv, IdleInv
  <2> QED BY <2>3, <2>4, <2>5, <2>6, <2>7 DEF ListInv
<1>4. CASE ~Enqueues(v, new)
  <2>1. new = "READY" => state'[v] = state[v]
    BY <1>2, <1>4 DEF Enqueues
  <2>2. UNCHANGED <<rq, crash>>
    BY <1>4 DEF state_change, Detaches
  <2>3. \A w \in Vcpu : state'[w] = state[w] \/ (state[w] = "RUNNING" /\ state'[w] # "READY"
                                                   /\ \A g \in Hcpu : w # Idle(g))
    BY <1>2, <2>1
  <2>4. QueuedInv' /\ ReadyInv'
    BY <2>2, <2>3 DEF ListInv, QueuedInv, ReadyInv
  <2>5. NextInv'
    BY <1>1, <2>2, <2>3 DEF ListInv, NextInv
  <2>6. IdleInv'
    BY <1>1, <2>3 DEF ListInv, IdleInv
  <2> QED BY <2>2, <2>4, <2>5, <2>6 DEF ListInv
<1> QED BY <1>3, <1>4

LEMMA SwitchBeginList ==
  ASSUME IInv, ListInv, NEW h \in Hcpu, SwitchBegin(h)
  PROVE  ListInv'
<1>1. /\ state \in [Vcpu -> States] /\ cur \in [Hcpu -> Vcpu \cup {None}]
      /\ nxt \in [Hcpu -> Vcpu \cup {None}]
      /\ None \notin Vcpu /\ (\A g \in Hcpu : Idle(g) \in Vcpu)
      /\ UNCHANGED <<hcpu, nxt>>
  BY OwnVcpus DEF IInv, TypeInv, SwitchBegin
<1>2. CASE cur[h] # None /\ Requeues(cur[h])
  <2> DEFINE c == cur[h]
  <2>1. /\ c \in Vcpu /\ hcpu[c] = h /\ state[c] = "RUNNING"
        /\ state' = [state EXCEPT ![c] = "READY"] /\ rq_enqueue(h, c)
    BY <1>1, <1>2 DEF SwitchBegin, Requeues, RequeuedState, IInv, HomeInv
  <2> HIDE DEF c
  <2>2. state'[c] = "READY" /\ \A w \in Vcpu \ {c} : state'[w] = state[w]
    BY <1>1, <2>1
  <2>3. /\ crash' = "none"
        /\ In(c, rq'[h])
        /\ \A g \in Hcpu, w \in Vcpu : In(w, rq[g]) => In(w, rq'[g])
        /\ \A g \in Hcpu, w \in Vcpu : In(w, rq'[g]) => In(w, rq[g]) \/ (w = c /\ g = h)
    BY <2>1, EnqueueFacts
  <2>4. QueuedInv'
    BY <2>2, <2>3 DEF ListInv, QueuedInv
  <2>7. ReadyInv'
    <3> SUFFICES ASSUME NEW w \in Vcpu, state'[w] = "READY"
                 PROVE  In(w, rq'[hcpu[w]]) \/ nxt[hcpu[w]] = w
      BY <1>1 DEF ReadyInv
    <3>1. CASE w = c
      BY <2>1, <2>3, <3>1
    <3>2. CASE w # c
      <4>1. hcpu[w] \in Hcpu /\ state[w] = "READY"
        BY <2>2, <3>2 DEF IInv, TypeInv
      <4> QED BY <2>3, <4>1 DEF ListInv, ReadyInv
    <3> QED BY <3>1, <3>2
  <2>5. NextInv'
    <3> SUFFICES ASSUME NEW g \in Hcpu, nxt[g] # None
                 PROVE  state'[nxt[g]] = "READY" /\ ~In(nxt[g], rq'[g])
      BY <1>1 DEF NextInv
    <3>1. nxt[g] \in Vcpu /\ state[nxt[g]] = "READY" /\ ~In(nxt[g], rq[g]) /\ nxt[g] # c
      BY <1>1, <2>1 DEF ListInv, NextInv
    <3> QED BY <2>2, <2>3, <3>1
  <2>6. IdleInv'
    BY <1>1, <2>1, <2>2 DEF ListInv, IdleInv
  <2> QED BY <2>3, <2>4, <2>5, <2>6, <2>7 DEF ListInv
<1>3. CASE ~(cur[h] # None /\ Requeues(cur[h]))
  <2>1. UNCHANGED <<state, rq, crash>>
    BY <1>3 DEF SwitchBegin
  <2> QED BY <1>1, <2>1 DEF ListInv, QueuedInv, ReadyInv, NextInv, IdleInv
<1> QED BY <1>2, <1>3

\* What a dequeue takes out, and that it takes nothing else.
LEMMA DequeueKeeps ==
  ASSUME IInv, NEW h \in Hcpu, NEW i \in DOMAIN rq[h],
         rq' = [rq EXCEPT ![h] = list_del(@, i)]
  PROVE  /\ \A g \in Hcpu, w \in Vcpu : In(w, rq[g]) /\ w # rq[h][i] => In(w, rq'[g])
         /\ \A g \in Hcpu : ~In(rq[h][i], rq'[g])
<1>1. rq \in [Hcpu -> Seq(Vcpu)] /\ rq[h] \in Seq(Vcpu) /\ Distinct(rq[h])
  BY DEF IInv, TypeInv, HomeInv
<1>2. rq'[h] = list_del(rq[h], i) /\ \A g \in Hcpu \ {h} : rq'[g] = rq[g]
  BY <1>1
<1>3. \A w : In(w, rq[h]) /\ w # rq[h][i] => In(w, list_del(rq[h], i))
  BY <1>1, ListDelKeeps
<1>4. ~In(rq[h][i], list_del(rq[h], i))
  BY <1>1, ListDelFacts
<1>5. \A g \in Hcpu \ {h} : ~In(rq[h][i], rq[g])
  <2>1. rq[h][i] \in Vcpu /\ In(rq[h][i], rq[h])
    BY <1>1, SMT DEF In
  <2> QED BY <2>1, SMT DEF IInv, HomeInv
<1> QED BY <1>2, <1>3, <1>4, <1>5

LEMMA SwitchToList ==
  ASSUME IInv, ListInv, NEW h \in Hcpu, NEW n \in Vcpu, SwitchTo(h, n),
         hcpu[n] = h,
         nxt[h] \in {n, None},
         \A g \in Hcpu, w \in Vcpu : In(w, rq'[g]) => In(w, rq[g]),
         \A g \in Hcpu, w \in Vcpu : In(w, rq[g]) /\ w # n => In(w, rq'[g]),
         \A g \in Hcpu : ~In(n, rq'[g])
  PROVE  ListInv'
<1>1. /\ state \in [Vcpu -> States] /\ hcpu \in [Vcpu -> Hcpu]
      /\ nxt \in [Hcpu -> Vcpu \cup {None}]
      /\ None \notin Vcpu /\ (\A g \in Hcpu : Idle(g) \in Vcpu)
      /\ UNCHANGED <<hcpu, crash>>
      /\ nxt' = [nxt EXCEPT ![h] = None] /\ state' = [state EXCEPT ![n] = "RUNNING"]
  BY OwnVcpus DEF IInv, TypeInv, SwitchTo
<1>2. /\ state'[n] = "RUNNING" /\ \A w \in Vcpu \ {n} : state'[w] = state[w]
      /\ nxt'[h] = None /\ \A g \in Hcpu \ {h} : nxt'[g] = nxt[g]
  BY <1>1
<1>3. QueuedInv'
  BY <1>2 DEF ListInv, QueuedInv
<1>4. ReadyInv'
  <2> SUFFICES ASSUME NEW v \in Vcpu, state'[v] = "READY"
               PROVE  In(v, rq'[hcpu[v]]) \/ nxt'[hcpu[v]] = v
    BY <1>1 DEF ReadyInv
  <2>1. v # n /\ state[v] = "READY" /\ hcpu[v] \in Hcpu
    BY <1>1, <1>2
  <2>2. In(v, rq[hcpu[v]]) \/ nxt[hcpu[v]] = v
    BY <2>1 DEF ListInv, ReadyInv
  <2>3. nxt[hcpu[v]] = v => nxt'[hcpu[v]] = v
    BY <1>1, <1>2, <2>1
  <2> QED BY <2>1, <2>2, <2>3
<1>5. NextInv'
  <2> SUFFICES ASSUME NEW g \in Hcpu, nxt'[g] # None
               PROVE  state'[nxt'[g]] = "READY" /\ ~In(nxt'[g], rq'[g])
    BY DEF NextInv
  <2>1. g # h /\ nxt'[g] = nxt[g] /\ nxt[g] \in Vcpu /\ nxt[g] # None
    BY <1>1, <1>2, SMT
  <2>2. hcpu[nxt[g]] = g /\ state[nxt[g]] = "READY" /\ ~In(nxt[g], rq[g])
    BY <2>1 DEF IInv, HomeInv, ListInv, NextInv
  <2> QED BY <1>2, <2>1, <2>2
<1>6. IdleInv'
  BY <1>1, <1>2 DEF ListInv, IdleInv
<1> QED BY <1>1, <1>3, <1>4, <1>5, <1>6 DEF ListInv

LEMMA SwitchSameList ==
  ASSUME IInv, ListInv, NEW h \in Hcpu, SwitchSame(h)
  PROVE  ListInv'
<1>1. PICK i \in DOMAIN rq[h] :
        rq' = [rq EXCEPT ![h] = list_del(@, i)] /\ SwitchTo(h, rq[h][i])
  BY DEF SwitchSame
<1>2. rq[h][i] \in Vcpu /\ hcpu[rq[h][i]] = h
  <2>1. rq[h][i] \in Vcpu /\ In(rq[h][i], rq[h])
    BY <1>1, SMT DEF In, IInv, TypeInv
  <2> QED BY <2>1 DEF IInv, HomeInv
<1>3. nxt[h] = None
  BY DEF SwitchSame, IInv, SwitchInv
<1>4. /\ \A g \in Hcpu, w \in Vcpu : In(w, rq[g]) /\ w # rq[h][i] => In(w, rq'[g])
      /\ \A g \in Hcpu : ~In(rq[h][i], rq'[g])
  BY <1>1, DequeueKeeps
<1>5. \A g \in Hcpu, w \in Vcpu : In(w, rq'[g]) => In(w, rq[g])
  BY <1>1, DequeueFacts
<1> QED BY <1>1, <1>2, <1>3, <1>4, <1>5, SwitchToList

LEMMA SwitchFinishList ==
  ASSUME IInv, ListInv, NEW h \in Hcpu, SwitchFinish(h)
  PROVE  ListInv'
<1>1. phase[h] = "lock" /\ UNCHANGED rq /\ SwitchTo(h, nxt[h])
  BY DEF SwitchFinish
<1>2. nxt[h] # None /\ nxt[h] \in Vcpu /\ hcpu[nxt[h]] = h
  BY <1>1, SMT DEF IInv, SwitchInv, HomeInv, TypeInv
<1>3. \A g \in Hcpu : ~In(nxt[h], rq[g])
  BY <1>2 DEF IInv, HomeInv, ListInv, NextInv
<1> QED BY <1>1, <1>2, <1>3, SwitchToList

\* The idle VCPU of a host CPU that looks for a VCPU to run is in its queue.
LEMMA QueueNotEmpty ==
  ASSUME IInv, ListInv, NEW h \in Hcpu, phase[h] = "dequeue"
  PROVE  rq[h] # <<>>
<1>1. Idle(h) \in Vcpu /\ Idle(h) # None /\ hcpu[Idle(h)] = h
  BY OwnVcpus DEF ListInv, IdleInv
<1>2. state[Idle(h)] # "RUNNING"
  BY <1>1 DEF IInv, RunInv, SwitchInv
<1>3. nxt[h] = None
  BY DEF IInv, SwitchInv
<1>4. In(Idle(h), rq[h])
  BY <1>1, <1>2, <1>3 DEF ListInv, IdleInv, ReadyInv
<1> QED BY <1>4, SMT DEF In

LEMMA SwitchDequeueList ==
  ASSUME IInv, ListInv, NEW h \in Hcpu, SwitchDequeue(h)
  PROVE  ListInv'
<1>1. phase[h] = "dequeue" /\ UNCHANGED <<state, hcpu>>
  BY DEF SwitchDequeue, vcpuVars
<1>2. rq[h] # <<>>
  BY <1>1, QueueNotEmpty
<1>3. PICK i \in DOMAIN rq[h] :
        /\ rq' = [rq EXCEPT ![h] = list_del(@, i)]
        /\ nxt' = [nxt EXCEPT ![h] = rq[h][i]]
        /\ UNCHANGED crash
  BY <1>2 DEF SwitchDequeue
<1> DEFINE n == rq[h][i]
<1>4. n \in Vcpu /\ In(n, rq[h])
  BY <1>3, SMT DEF In, IInv, TypeInv
<1>5. /\ hcpu[n] = h /\ state[n] = "READY" /\ nxt[h] = None
  BY <1>1, <1>4 DEF IInv, HomeInv, SwitchInv, ListInv, QueuedInv
<1>6. /\ \A g \in Hcpu, w \in Vcpu : In(w, rq[g]) /\ w # n => In(w, rq'[g])
      /\ \A g \in Hcpu : ~In(n, rq'[g])
  BY <1>3, DequeueKeeps
<1>7. \A g \in Hcpu, w \in Vcpu : In(w, rq'[g]) => In(w, rq[g])
  BY <1>3, DequeueFacts
<1>8. /\ nxt'[h] = n /\ \A g \in Hcpu \ {h} : nxt'[g] = nxt[g]
      /\ nxt \in [Hcpu -> Vcpu \cup {None}] /\ None \notin Vcpu
      /\ hcpu \in [Vcpu -> Hcpu]
  BY <1>3, OwnVcpus DEF IInv, TypeInv
<1> HIDE DEF n
<1>9. QueuedInv'
  BY <1>1, <1>7 DEF ListInv, QueuedInv
<1>10. ReadyInv'
  <2> SUFFICES ASSUME NEW v \in Vcpu, state[v] = "READY"
               PROVE  In(v, rq'[hcpu[v]]) \/ nxt'[hcpu[v]] = v
    BY <1>1 DEF ReadyInv
  <2>1. CASE v = n
    BY <1>5, <1>8, <2>1
  <2>2. CASE v # n
    <3>1. hcpu[v] \in Hcpu /\ (In(v, rq[hcpu[v]]) \/ nxt[hcpu[v]] = v)
      BY <1>8 DEF ListInv, ReadyInv
    <3>2. nxt[hcpu[v]] = v => nxt'[hcpu[v]] = v
      BY <1>5, <1>8, <3>1
    <3> QED BY <1>6, <2>2, <3>1, <3>2
  <2> QED BY <2>1, <2>2
<1>11. NextInv'
  <2> SUFFICES ASSUME NEW g \in Hcpu, nxt'[g] # None
               PROVE  state[nxt'[g]] = "READY" /\ ~In(nxt'[g], rq'[g])
    BY <1>1 DEF NextInv
  <2>1. CASE g = h
    BY <1>5, <1>6, <1>8, <2>1
  <2>2. CASE g # h
    <3>1. nxt'[g] = nxt[g] /\ nxt[g] \in Vcpu
      BY <1>8, <2>2
    <3> QED BY <1>7, <3>1 DEF ListInv, NextInv
  <2> QED BY <2>1, <2>2
<1>12. IdleInv'
  BY <1>1 DEF ListInv, IdleInv
<1> QED BY <1>3, <1>9, <1>10, <1>11, <1>12 DEF ListInv

\* What has been dequeued stays READY until it is run.
LEMMA NoRetry ==
  ASSUME IInv, ListInv, NEW h \in Hcpu
  PROVE  ~SwitchRetry(h)
BY DEF SwitchRetry, IInv, SwitchInv, ListInv, NextInv

LEMMA MigrateList ==
  ASSUME IInv, ListInv, NEW h \in Hcpu, NEW v \in User, NEW new \in Hcpu,
         phase[h] = "none",
         scheduler_ipi_migrate_vcpu(h, v, new),
         UNCHANGED <<state, nxt>>
  PROVE  ListInv'
<1>1. /\ v \in Vcpu /\ rq \in [Hcpu -> Seq(Vcpu)] /\ hcpu \in [Vcpu -> Hcpu]
      /\ nxt \in [Hcpu -> Vcpu \cup {None}] /\ None \notin Vcpu
      /\ \A g \in Hcpu : Idle(g) \in Vcpu \ {v}
  <2>1. \A g \in Hcpu : Idle(g) \in Vcpu \ {v}
    BY OwnVcpus
  <2> QED BY <2>1, UserVcpu, OwnVcpus DEF IInv, TypeInv
<1>2. CASE Migrates(h, v, new)
  <2>1. state[v] = "READY" /\ hcpu[v] = h /\ nxt[h] = None
    BY <1>2 DEF Migrates, IInv, SwitchInv
  <2>2. Linked(v)
    BY <1>1, <2>1 DEF ListInv, ReadyInv, Linked, In
  <2>3. /\ rq' = [q \in Hcpu |-> IF q = new THEN Append(Without(rq[q], v), v)
                                           ELSE Without(rq[q], v)]
        /\ UNCHANGED crash
        /\ hcpu' = [hcpu EXCEPT ![v] = new]
    BY <1>2, <2>2 DEF scheduler_ipi_migrate_vcpu
  <2>4. ASSUME NEW g \in Hcpu, NEW w \in Vcpu
        PROVE  /\ In(w, rq'[g]) => In(w, rq[g]) \/ w = v
               /\ w # v /\ In(w, rq[g]) => In(w, rq'[g])
               /\ g = new => In(v, rq'[g])
    <3>1. rq[g] \in Seq(Vcpu)
      BY <1>1
    <3>2. /\ Without(rq[g], v) \in Seq(Vcpu)
          /\ In(w, Without(rq[g], v)) => In(w, rq[g])
          /\ w # v /\ In(w, rq[g]) => In(w, Without(rq[g], v))
      BY <3>1, WithoutFacts, WithoutKeeps
    <3>3. \A x : In(x, Append(Without(rq[g], v), v)) <=> In(x, Without(rq[g], v)) \/ x = v
      BY <1>1, <3>2, AppendFacts
    <3> QED BY <2>3, <3>2, <3>3
  <2>5. hcpu'[v] = new /\ \A w \in Vcpu \ {v} : hcpu'[w] = hcpu[w]
    BY <1>1, <2>3
  <2>6. QueuedInv'
    BY <2>1, <2>4 DEF ListInv, QueuedInv
  <2>7. ReadyInv'
    <3> SUFFICES ASSUME NEW w \in Vcpu, state[w] = "READY"
                 PROVE  In(w, rq'[hcpu'[w]]) \/ nxt[hcpu'[w]] = w
      BY DEF ReadyInv
    <3>1. CASE w = v
      BY <2>4, <2>5, <3>1
    <3>2. CASE w # v
      <4>1. hcpu'[w] = hcpu[w] /\ hcpu[w] \in Hcpu
        BY <1>1, <2>5, <3>2
      <4> QED BY <2>4, <3>2, <4>1 DEF ListInv, ReadyInv
    <3> QED BY <3>1, <3>2
  <2>8. NextInv'
    <3> SUFFICES ASSUME NEW g \in Hcpu, nxt[g] # None
                 PROVE  state[nxt[g]] = "READY" /\ ~In(nxt[g], rq'[g])
      BY DEF NextInv
    <3>1. nxt[g] \in Vcpu /\ hcpu[nxt[g]] = g /\ nxt[g] # v
      BY <1>1, <2>1 DEF IInv, HomeInv
    <3> QED BY <2>4, <3>1 DEF ListInv, NextInv
  <2>9. IdleInv'
    BY <1>1, <2>5 DEF ListInv, IdleInv
  <2> QED BY <2>3, <2>6, <2>7, <2>8, <2>9 DEF ListInv
<1>3. CASE ~Migrates(h, v, new)
  <2>1. UNCHANGED <<hcpu, rq, crash>>
    BY <1>3 DEF scheduler_ipi_migrate_vcpu
  <2> QED BY <2>1 DEF ListInv, QueuedInv, ReadyInv, NextInv, IdleInv
<1> QED BY <1>2, <1>3

LEMMA SetHcpuList ==
  ASSUME IInv, ListInv, NEW h \in Hcpu, NEW v \in User, NEW new \in Hcpu,
         vmm_scheduler_set_hcpu(h, v, new)
  PROVE  ListInv'
<1>1. /\ v \in Vcpu /\ hcpu \in [Vcpu -> Hcpu]
      /\ \A g \in Hcpu : Idle(g) \in Vcpu \ {v}
      /\ UNCHANGED <<state, rq, nxt, crash>>
  <2>1. UNCHANGED <<state, rq, nxt, crash>>
    BY DEF vmm_scheduler_set_hcpu, cpuVars
  <2>2. \A g \in Hcpu : Idle(g) \in Vcpu \ {v}
    BY OwnVcpus
  <2> QED BY <2>1, <2>2, UserVcpu DEF IInv, TypeInv
<1>2. \A w \in Vcpu : hcpu'[w] = hcpu[w] \/ (w = v /\ state[w] # "READY")
  BY <1>1 DEF vmm_scheduler_set_hcpu
<1>3. QueuedInv' /\ NextInv'
  BY <1>1 DEF ListInv, QueuedInv, NextInv
<1>4. ReadyInv'
  BY <1>1, <1>2 DEF ListInv, ReadyInv
<1>5. IdleInv'
  BY <1>1, <1>2 DEF ListInv, IdleInv
<1> QED BY <1>1, <1>3, <1>4, <1>5 DEF ListInv

-----------------------------------------------------------------------------
(* CtxInv                                                                  *)

\* Steps that only enter or leave a handler or the context switch.
LEMMA FrameCtx ==
  ASSUME IInv, CtxInv, NEW h \in Hcpu,
         UNCHANGED <<state, hcpu, preempt, asleep, cur>>,
         ctx' \in [Hcpu -> {"vcpu", "trap", "done", "irq", "exit"}],
         \A g \in Hcpu \ {h} : phase'[g] = phase[g] /\ ctx'[g] = ctx[g],
         phase'[h] = "none" =>
           /\ phase[h] = "none" \/ (cur[h] # None => ~Preemptible(cur[h]))
           /\ ctx'[h] # "done" /\ ctx[h] = "done" /\ cur[h] # None /\ phase[h] = "none"
                => state[cur[h]] = "RUNNING",
         ctx'[h] = "trap" => cur[h] \in Guest /\ phase'[h] = "none"
  PROVE  CtxInv'
<1>1. CountTypes' /\ AsleepInv'
  BY DEF CtxInv, CountTypes, AsleepInv
<1>2. PreInv'
  BY DEF CtxInv, PreInv, Preemptible, preempt_min
<1>3. CurInv'
  <2> SUFFICES ASSUME NEW g \in Hcpu, cur[g] # None, phase'[g] = "none", ctx'[g] # "done"
               PROVE  state[cur[g]] = "RUNNING"
    BY DEF CurInv
  <2>1. CASE g # h
    BY <2>1 DEF CtxInv, CurInv
  <2>2. CASE g = h /\ phase[h] = "none"
    BY <2>2 DEF CtxInv, CurInv
  <2>3. CASE g = h /\ ~Preemptible(cur[h])
    BY <2>3 DEF CtxInv, PreInv
  <2> QED BY <2>1, <2>2, <2>3
<1>4. CountInv'
  <2> SUFFICES ASSUME NEW v \in Vcpu \ Holders, preempt[v] # 0
               PROVE  preempt[v] = 1 /\ asleep[v] /\ cur[hcpu[v]] = v /\ phase'[hcpu[v]] # "none"
    BY DEF CountInv
  <2>1. preempt[v] = 1 /\ asleep[v] /\ cur[hcpu[v]] = v /\ phase[hcpu[v]] # "none"
    BY DEF CtxInv, CountInv
  <2>2. hcpu[v] \in Hcpu /\ v # None /\ Preemptible(v)
    BY <2>1, OwnVcpus DEF IInv, TypeInv, Preemptible, preempt_min
  <2> QED BY <2>1, <2>2
<1>5. TrapInv'
  BY DEF CtxInv, TrapInv
<1> QED BY <1>1, <1>2, <1>3, <1>4, <1>5 DEF CtxInv

LEMMA CountStep ==
  ASSUME NEW h \in Hcpu, preempt_disable(h) \/ preempt_enable(h), preempt[cur[h]] \in Nat
  PROVE  \E n \in Nat : preempt' = [preempt EXCEPT ![cur[h]] = n]
<1>1. CASE preempt_disable(h)
  <2>1. preempt' = [preempt EXCEPT ![cur[h]] = preempt[cur[h]] + 1]
    BY <1>1 DEF preempt_disable
  <2>2. preempt[cur[h]] + 1 \in Nat
    BY SMT
  <2> QED BY <2>1, <2>2
<1>2. CASE preempt_enable(h)
  <2>1. /\ preempt' = [preempt EXCEPT ![cur[h]] = preempt[cur[h]] - 1]
        /\ preempt[cur[h]] > IF wq[QueueOf(cur[h])] = cur[h] THEN 1 ELSE 0
    BY <1>2 DEF preempt_enable
  <2>2. preempt[cur[h]] - 1 \in Nat
    BY <2>1, SMT
  <2> QED BY <2>1, <2>2
<1> QED BY <1>1, <1>2

\* The preemption counts, or a thread leaves the list of a wait queue.
LEMMA CountCtx ==
  ASSUME IInv, CtxInv, RelockInv, NEW h \in Hcpu,
         preempt_disable(h) \/ preempt_enable(h) \/ waitqueue_awake(h) \/ preempt_orphan_return(h)
  PROVE  CtxInv'
<1> DEFINE c == cur[h]
<1>1. /\ UNCHANGED <<state, hcpu, cur, phase, ctx>>
      /\ phase[h] = "none" /\ ctx[h] = "vcpu"
  BY DEF preempt_disable, preempt_enable, waitqueue_awake, preempt_orphan_return, cpuVars,
         Free, Executes
<1>2. c # None /\ c \in Vcpu
  BY SchedAssumption, OwnVcpus
  DEF preempt_disable, preempt_enable, waitqueue_awake, preempt_orphan_return,
      IInv, TypeInv, Vcpu, Orphan
<1>3. state[c] = "RUNNING"
  BY <1>1, <1>2 DEF CtxInv, CurInv
<1>4. /\ \A v \in Vcpu \ {c} : preempt'[v] = preempt[v] /\ asleep'[v] = asleep[v]
      /\ preempt' \in [Vcpu -> Nat] /\ asleep' \in [Vcpu -> BOOLEAN]
      /\ preempt'[c] = preempt[c] \/ c \in Holders
      /\ asleep'[c] = asleep[c] \/ ~asleep'[c]
  <2>1. preempt \in [Vcpu -> Nat] /\ asleep \in [Vcpu -> BOOLEAN]
    BY DEF CtxInv, CountTypes
  <2>2. CASE waitqueue_awake(h)
    <3>1. UNCHANGED preempt /\ asleep' = [asleep EXCEPT ![c] = FALSE]
      BY <2>2 DEF waitqueue_awake
    <3> HIDE DEF c
    <3> QED BY <1>2, <2>1, <3>1
  <2>3. CASE preempt_disable(h) \/ preempt_enable(h)
    <3>1. UNCHANGED asleep /\ c \in Preempters
      BY <2>3 DEF preempt_disable, preempt_enable
    <3>2. \E n \in Nat : preempt' = [preempt EXCEPT ![c] = n]
      BY <1>2, <2>1, <2>3, CountStep
    <3> HIDE DEF c
    <3> QED BY <1>2, <2>1, <3>1, <3>2 DEF Holders
  <2>4. CASE preempt_orphan_return(h)
    <3>1. UNCHANGED asleep /\ relock[c] # None
      BY <2>4 DEF preempt_orphan_return
    <3>2. CASE UNCHANGED preempt
      BY <2>1, <3>1, <3>2
    <3>3. CASE asleep[relock[c]] /\ LockQueue(c, relock[c])
      <4>1. c \in Thread /\ relock[c] \in User
        BY <1>2, <3>1 DEF RelockInv
      <4>2. c \in Holders
        BY <3>3, <4>1 DEF CtxInv, AsleepInv, Holders
      <4>3. preempt' = [preempt EXCEPT ![c] = preempt[c] + 1]
        BY <3>3 DEF LockQueue
      <4>4. preempt[c] + 1 \in Nat
        BY <1>2, <2>1, SMT
      <4> HIDE DEF c
      <4> QED BY <1>2, <2>1, <3>1, <4>2, <4>3, <4>4
    <3> QED BY <2>4, <3>2, <3>3 DEF preempt_orphan_return
  <2> QED BY <2>2, <2>3, <2>4
<1>5. CountTypes'
  BY <1>1, <1>4 DEF CtxInv, CountTypes
<1>6. CurInv' /\ TrapInv'
  BY <1>1 DEF CtxInv, CurInv, TrapInv
<1>7. PreInv'
  <2> SUFFICES ASSUME NEW g \in Hcpu, cur[g] # None, state[cur[g]] # "RUNNING"
               PROVE  Preemptible(cur[g])'
    BY <1>1 DEF PreInv
  <2>1. cur[g] \in Vcpu \ {c} /\ Preemptible(cur[g])
    BY <1>3 DEF CtxInv, PreInv, IInv, TypeInv
  <2> QED BY <1>1, <1>4, <2>1 DEF Preemptible, preempt_min
<1>8. CountInv'
  <2> SUFFICES ASSUME NEW v \in Vcpu \ Holders, preempt'[v] # 0
               PROVE  preempt'[v] = 1 /\ asleep'[v] /\ cur[hcpu[v]] = v /\ phase[hcpu[v]] # "none"
    BY <1>1 DEF CountInv
  <2>1. preempt[v] # 0
    BY <1>4
  <2>2. preempt[v] = 1 /\ asleep[v] /\ cur[hcpu[v]] = v /\ phase[hcpu[v]] # "none"
    BY <2>1 DEF CtxInv, CountInv
  <2>3. v # c
    BY <1>1, <1>2, <2>2 DEF IInv, HomeInv
  <2> QED BY <1>4, <2>2, <2>3
<1>9. AsleepInv'
  BY <1>4, UserVcpu DEF CtxInv, AsleepInv
<1> QED BY <1>5, <1>6, <1>7, <1>8, <1>9 DEF CtxInv

LEMMA SwitchBeginCtx ==
  ASSUME IInv, CtxInv, NEW h \in Hcpu, SwitchBegin(h)
  PROVE  CtxInv'
<1>1. /\ UNCHANGED <<hcpu, preempt, asleep, cur, ctx>>
      /\ phase[h] = "begin" /\ phase' = [phase EXCEPT ![h] = "dequeue"]
      /\ cur[h] # None => Preemptible(cur[h])
      /\ \A v \in Vcpu : state'[v] = state[v] \/ v = cur[h]
  BY DEF SwitchBegin, IInv, TypeInv
<1>2. phase'[h] = "dequeue" /\ \A g \in Hcpu \ {h} : phase'[g] = phase[g]
  BY <1>1 DEF IInv, TypeInv
<1>3. \A g \in Hcpu \ {h} : cur[g] # None => cur[g] \in Vcpu /\ cur[g] # cur[h]
  BY CurFacts
<1>4. CountTypes' /\ AsleepInv'
  BY <1>1 DEF CtxInv, CountTypes, AsleepInv
<1>5. CurInv'
  BY <1>1, <1>2, <1>3 DEF CtxInv, CurInv
<1>6. PreInv'
  <2> SUFFICES ASSUME NEW g \in Hcpu, cur[g] # None, state'[cur[g]] # "RUNNING"
               PROVE  Preemptible(cur[g])
    BY <1>1, SMTT(30) DEF PreInv, Preemptible, preempt_min
  <2> QED BY <1>1, <1>3 DEF CtxInv, PreInv
<1>7. CountInv'
  BY <1>1, <1>2 DEF CtxInv, CountInv, IInv, TypeInv
<1>8. TrapInv'
  BY <1>1, <1>2 DEF CtxInv, TrapInv
<1> QED BY <1>4, <1>5, <1>6, <1>7, <1>8 DEF CtxInv

LEMMA SwitchToCtx ==
  ASSUME IInv, CtxInv, NEW h \in Hcpu, NEW n \in Vcpu, SwitchTo(h, n), hcpu[n] = h,
         phase[h] # "none"
  PROVE  CtxInv'
<1> DEFINE c == cur[h]
<1>1. /\ UNCHANGED <<hcpu, asleep>>
      /\ cur' = [cur EXCEPT ![h] = n] /\ state' = [state EXCEPT ![n] = "RUNNING"]
      /\ phase' = [phase EXCEPT ![h] = "none"]
      /\ ctx' = [ctx EXCEPT ![h] = IF @ = "exit" THEN "vcpu" ELSE @]
      /\ preempt' = IF (c # None /\ asleep[c]) /\ preempt[c] > 0
                      THEN [preempt EXCEPT ![c] = @ - 1] ELSE preempt
  BY DEF SwitchTo, Return
<1>2. /\ state \in [Vcpu -> States] /\ cur \in [Hcpu -> Vcpu \cup {None}]
      /\ phase \in [Hcpu -> {"none", "begin", "dequeue", "lock"}]
      /\ preempt \in [Vcpu -> Nat] /\ asleep \in [Vcpu -> BOOLEAN]
      /\ ctx \in [Hcpu -> {"vcpu", "trap", "done", "irq", "exit"}]
      /\ hcpu \in [Vcpu -> Hcpu] /\ None \notin Vcpu
  BY OwnVcpus DEF IInv, TypeInv, CtxInv, CountTypes
<1>3. /\ cur'[h] = n /\ phase'[h] = "none" /\ state'[n] = "RUNNING"
      /\ \A g \in Hcpu \ {h} : cur'[g] = cur[g] /\ phase'[g] = phase[g] /\ ctx'[g] = ctx[g]
      /\ \A v \in Vcpu \ {n} : state'[v] = state[v]
      /\ ctx'[h] = "trap" => ctx[h] = "trap"
      /\ ctx' \in [Hcpu -> {"vcpu", "trap", "done", "irq", "exit"}]
  BY <1>1, <1>2
<1>4. /\ \A v \in Vcpu : v # c => preempt'[v] = preempt[v]
      /\ c \in Vcpu /\ asleep[c] /\ preempt[c] = 1 => preempt'[c] = 0
      /\ c \in Vcpu /\ preempt[c] = 0 => preempt'[c] = 0
      /\ preempt' \in [Vcpu -> Nat]
  <2> HIDE DEF c
  <2>1. CASE c # None /\ asleep[c] /\ preempt[c] > 0 /\ c \in Vcpu
    <3>1. preempt[c] \in Nat /\ preempt[c] - 1 \in Nat /\ preempt' = [preempt EXCEPT ![c] = preempt[c] - 1]
      BY <1>1, <1>2, <2>1, SMT
    <3> QED BY <1>2, <2>1, <3>1, SMT
  <2>2. CASE ~(c # None /\ asleep[c] /\ preempt[c] > 0 /\ c \in Vcpu)
    <3>1. c \in Vcpu \cup {None}
      BY <1>2 DEF c
    <3>2. preempt' = preempt
      BY <1>1, <1>2, <2>2, <3>1
    <3> QED BY <1>2, <2>2, <3>1, <3>2, SMT
  <2> QED BY <2>1, <2>2
<1>5. \A g \in Hcpu \ {h} : cur[g] # None => cur[g] \in Vcpu /\ cur[g] # n /\ cur[g] # c
  BY CurFacts
<1> HIDE DEF c
<1>6. CountTypes' /\ AsleepInv'
  <2>1. asleep' = asleep
    BY <1>1
  <2>2. CountTypes'
    BY <1>2, <1>3, <1>4, <2>1 DEF CountTypes
  <2>3. AsleepInv'
    BY <2>1 DEF CtxInv, AsleepInv
  <2> QED BY <2>2, <2>3
<1>7. CurInv'
  <2> SUFFICES ASSUME NEW g \in Hcpu, cur'[g] # None, phase'[g] = "none", ctx'[g] # "done"
               PROVE  state'[cur'[g]] = "RUNNING"
    BY DEF CurInv
  <2>1. CASE g = h
    BY <1>3, <2>1
  <2>2. CASE g # h
    <3>1. cur'[g] = cur[g] /\ phase[g] = "none" /\ ctx[g] # "done"
      BY <1>3, <2>2
    <3>2. state[cur[g]] = "RUNNING" /\ cur[g] \in Vcpu \ {n}
      BY <1>5, <2>2, <3>1 DEF CtxInv, CurInv
    <3> QED BY <1>3, <3>1, <3>2
  <2> QED BY <2>1, <2>2
<1>8. PreInv'
  <2> SUFFICES ASSUME NEW g \in Hcpu, cur'[g] # None, state'[cur'[g]] # "RUNNING"
               PROVE  preempt'[cur'[g]] = IF asleep[cur'[g]] THEN 1 ELSE 0
    BY <1>1 DEF PreInv, Preemptible, preempt_min
  <2>1. g # h /\ cur'[g] = cur[g] /\ cur[g] \in Vcpu /\ cur[g] # n /\ cur[g] # c
    BY <1>3, <1>5
  <2>2. state[cur[g]] # "RUNNING" /\ preempt'[cur[g]] = preempt[cur[g]] /\ cur[g] # None
    BY <1>3, <1>4, <2>1
  <2>3. Preemptible(cur[g])
    BY <2>2 DEF CtxInv, PreInv
  <2> QED BY <2>1, <2>2, <2>3 DEF Preemptible, preempt_min
<1>9. CountInv'
  <2> SUFFICES ASSUME NEW v \in Vcpu \ Holders, preempt'[v] # 0
               PROVE  /\ preempt'[v] = 1 /\ asleep[v]
                      /\ cur'[hcpu[v]] = v /\ phase'[hcpu[v]] # "none"
    BY <1>1 DEF CountInv
  <2>1. preempt[v] # 0 => preempt[v] = 1 /\ asleep[v] /\ cur[hcpu[v]] = v /\ phase[hcpu[v]] # "none"
    BY DEF CtxInv, CountInv
  <2>2. v # c
    BY <1>4, <2>1
  <2>3. hcpu[v] # h /\ hcpu[v] \in Hcpu
    BY <1>2, <1>4, <2>1, <2>2 DEF c
  <2> QED BY <1>3, <1>4, <2>1, <2>2, <2>3
<1>10. TrapInv'
  BY <1>3 DEF CtxInv, TrapInv
<1> QED BY <1>6, <1>7, <1>8, <1>9, <1>10 DEF CtxInv

\* Moves of a VCPU that is not current.
LEMMA MoveCtx ==
  ASSUME IInv, CtxInv, NEW v \in Vcpu,
         \A w \in Vcpu \ {v} : hcpu'[w] = hcpu[w],
         hcpu'[v] = hcpu[v] \/ cur[hcpu[v]] # v \/ phase[hcpu[v]] = "none",
         UNCHANGED <<state, preempt, asleep, cur, ctx, phase>>
  PROVE  CtxInv'
<1>1. CountTypes' /\ AsleepInv' /\ CurInv' /\ TrapInv'
  BY DEF CtxInv, CountTypes, AsleepInv, CurInv, TrapInv
<1>2. PreInv'
  BY DEF CtxInv, PreInv, Preemptible, preempt_min
<1>3. CountInv'
  BY SMT DEF CtxInv, CountInv
<1> QED BY <1>1, <1>2, <1>3 DEF CtxInv

\* What vmm_scheduler_state_change() does to the states and to the switch.
LEMMA StateFacts ==
  ASSUME IInv, NEW h \in Hcpu, NEW v \in Vcpu, NEW new, NEW held, phase[h] = "none",
         state_change(h, v, new, held)
  PROVE  /\ \A w \in Vcpu \ {v} : state'[w] = state[w]
         /\ state'[v] = IF Changes(v, new) THEN new ELSE state[v]
         /\ \A g \in Hcpu \ {h} : phase'[g] = phase[g]
         /\ cur[h] \in Guest => phase'[h] = "none"
         /\ WantsPreempt(v, new) /\ hcpu[v] = h /\ cur[h] # None /\ cur[h] \notin Guest /\ ~held
              => phase'[h] = "begin"
<1>1. state \in [Vcpu -> States] /\ phase \in [Hcpu -> {"none", "begin", "dequeue", "lock"}]
  BY DEF IInv, TypeInv
<1>2. Preempt(h, hcpu[v], WantsPreempt(v, new), held)
  BY DEF state_change
<1>3. \/ UNCHANGED phase
      \/ cur[h] \notin Guest /\ phase' = [phase EXCEPT ![h] = "begin"]
  BY <1>2 DEF Preempt
<1>4. WantsPreempt(v, new) /\ hcpu[v] = h /\ cur[h] # None /\ cur[h] \notin Guest /\ ~held
        => phase' = [phase EXCEPT ![h] = "begin"]
  BY <1>2 DEF Preempt
<1> QED BY <1>1, <1>3, <1>4 DEF state_change

\* A resume starts no VCPU and stops none.
LEMMA ResumeCtx ==
  ASSUME IInv, CtxInv, NEW h \in Hcpu, NEW v \in Vcpu, NEW held, phase[h] = "none",
         state_change(h, v, "READY", held),
         UNCHANGED <<hcpu, asleep, cur>>, preempt' \in [Vcpu -> Nat],
         \A w \in Vcpu : preempt'[w] = preempt[w] \/ (w \in Holders /\ state[w] = "RUNNING"),
         ctx' = ctx \/ ctx' = [ctx EXCEPT ![h] = IF @ = "trap" THEN "done" ELSE @]
  PROVE  CtxInv'
<1>1. /\ \A w \in Vcpu \ {v} : state'[w] = state[w]
      /\ state'[v] = IF Changes(v, "READY") THEN "READY" ELSE state[v]
      /\ \A g \in Hcpu \ {h} : phase'[g] = phase[g]
      /\ cur[h] \in Guest => phase'[h] = "none"
  BY StateFacts
<1>2. \A w \in Vcpu : state'[w] = "RUNNING" <=> state[w] = "RUNNING"
  BY <1>1 DEF Changes, Skipped
<1>3. /\ ctx' \in [Hcpu -> {"vcpu", "trap", "done", "irq", "exit"}]
      /\ \A g \in Hcpu : ctx'[g] = ctx[g] \/ (ctx[g] = "trap" /\ ctx'[g] = "done")
  BY DEF CtxInv, CountTypes
<1>4. \A g \in Hcpu : cur[g] # None => cur[g] \in Vcpu
  BY DEF IInv, TypeInv
<1>5. CountTypes' /\ AsleepInv'
  BY <1>3 DEF CtxInv, CountTypes, AsleepInv
<1>6. CurInv'
  <2> SUFFICES ASSUME NEW g \in Hcpu, cur[g] # None, phase'[g] = "none", ctx'[g] # "done"
               PROVE  state'[cur[g]] = "RUNNING"
    BY DEF CurInv
  <2>1. phase[g] = "none" /\ ctx[g] # "done"
    BY <1>1, <1>3
  <2> QED BY <1>2, <1>4, <2>1 DEF CtxInv, CurInv
<1>7. PreInv'
  BY <1>2, <1>4 DEF CtxInv, PreInv, Preemptible, preempt_min
<1>8. CountInv'
  <2> SUFFICES ASSUME NEW w \in Vcpu \ Holders, preempt[w] # 0, preempt'[w] = preempt[w]
               PROVE  /\ preempt[w] = 1 /\ asleep[w]
                      /\ cur[hcpu[w]] = w /\ phase'[hcpu[w]] # "none"
    BY DEF CountInv
  <2>1. preempt[w] = 1 /\ asleep[w] /\ cur[hcpu[w]] = w /\ phase[hcpu[w]] # "none"
    BY DEF CtxInv, CountInv
  <2>2. hcpu[w] \in Hcpu /\ hcpu[w] # h
    BY <2>1 DEF IInv, TypeInv
  <2> QED BY <1>1, <2>1, <2>2
<1>9. TrapInv'
  BY <1>1, <1>3 DEF CtxInv, TrapInv
<1> QED BY <1>5, <1>6, <1>7, <1>8, <1>9 DEF CtxInv

\* The current VCPU stops itself: a guest in the handler of its trap, which ends,
\* a thread by a switch at once, with preemption enabled or with the count of
\* the wait queue it falls asleep on.
LEMMA StopCtx ==
  ASSUME IInv, CtxInv, NEW h \in Hcpu, NEW new, phase[h] = "none", new # "RUNNING",
         cur[h] \in Vcpu,
         state_change(h, cur[h], new, FALSE),
         state'[cur[h]] # state[cur[h]] => WantsPreempt(cur[h], new),
         UNCHANGED <<hcpu, cur>>,
         ctx' = [ctx EXCEPT ![h] = IF @ = "trap" THEN "done" ELSE @],
         cur[h] \in Guest => ctx[h] = "trap",
         preempt' \in [Vcpu -> Nat], asleep' \in [Vcpu -> BOOLEAN],
         \A w \in Vcpu \ {cur[h]} : preempt'[w] = preempt[w] /\ asleep'[w] = asleep[w],
         cur[h] \in User \ Sleepers => ~asleep'[cur[h]],
         Preemptible(cur[h])',
         preempt'[cur[h]] # 0 => WantsPreempt(cur[h], new) /\ cur[h] \notin Guest
  PROVE  CtxInv'
<1> DEFINE c == cur[h]
<1>1. /\ \A w \in Vcpu \ {c} : state'[w] = state[w]
      /\ \A g \in Hcpu \ {h} : phase'[g] = phase[g]
      /\ c \in Guest => phase'[h] = "none"
      /\ WantsPreempt(c, new) /\ hcpu[c] = h /\ cur[h] # None /\ c \notin Guest => phase'[h] = "begin"
  BY StateFacts
<1>2. hcpu[c] = h /\ c \in Vcpu /\ c # None
  BY OwnVcpus DEF IInv, HomeInv
<1>3. /\ ctx' \in [Hcpu -> {"vcpu", "trap", "done", "irq", "exit"}]
      /\ \A g \in Hcpu \ {h} : ctx'[g] = ctx[g]
      /\ ctx'[h] = IF ctx[h] = "trap" THEN "done" ELSE ctx[h]
  <2>1. ctx \in [Hcpu -> {"vcpu", "trap", "done", "irq", "exit"}]
    BY DEF CtxInv, CountTypes
  <2>2. ctx' = [ctx EXCEPT ![h] = IF ctx[h] = "trap" THEN "done" ELSE ctx[h]]
    OBVIOUS
  <2> QED BY <2>1, <2>2
<1>4. \A g \in Hcpu \ {h} : cur[g] # None => cur[g] \in Vcpu \ {c}
  BY <1>2, CurFacts
<1>5. CountTypes'
  BY <1>3 DEF CountTypes
<1>6. AsleepInv'
  BY UserVcpu DEF CtxInv, AsleepInv
<1>7. CurInv'
  <2> SUFFICES ASSUME NEW g \in Hcpu, cur[g] # None, phase'[g] = "none", ctx'[g] # "done"
               PROVE  state'[cur[g]] = "RUNNING"
    BY DEF CurInv
  <2>1. CASE g # h
    BY <1>1, <1>3, <1>4, <2>1 DEF CtxInv, CurInv
  <2>2. CASE g = h
    <3>1. c \notin Guest /\ ctx[h] # "done"
      BY <1>3, <2>2
    <3>2. state'[c] = state[c]
      BY <1>1, <1>2, <2>2, <3>1
    <3> QED BY <2>2, <3>1, <3>2 DEF CtxInv, CurInv
  <2> QED BY <2>1, <2>2
<1>8. PreInv'
  <2> SUFFICES ASSUME NEW g \in Hcpu, cur[g] # None, state'[cur[g]] # "RUNNING"
               PROVE  preempt'[cur[g]] = IF asleep'[cur[g]] THEN 1 ELSE 0
    BY DEF PreInv, Preemptible, preempt_min
  <2>1. CASE g = h
    BY <2>1 DEF Preemptible, preempt_min
  <2>2. CASE g # h
    BY <1>1, <1>4, <2>2 DEF CtxInv, PreInv, Preemptible, preempt_min
  <2> QED BY <2>1, <2>2
<1>9. CountInv'
  <2> SUFFICES ASSUME NEW w \in Vcpu \ Holders, preempt'[w] # 0
               PROVE  /\ preempt'[w] = 1 /\ asleep'[w]
                      /\ cur[hcpu[w]] = w /\ phase'[hcpu[w]] # "none"
    BY DEF CountInv
  <2>1. CASE w = c
    <3>1. phase'[h] = "begin"
      BY <1>1, <1>2, <2>1
    <3>2. preempt'[c] = IF asleep'[c] THEN 1 ELSE 0
      BY DEF Preemptible, preempt_min
    <3> QED BY <1>2, <2>1, <3>1, <3>2
  <2>2. CASE w # c
    <3>1. preempt[w] = 1 /\ asleep[w] /\ cur[hcpu[w]] = w /\ phase[hcpu[w]] # "none"
      BY <2>2 DEF CtxInv, CountInv
    <3>2. hcpu[w] \in Hcpu /\ hcpu[w] # h
      BY <2>2, <3>1 DEF IInv, TypeInv
    <3> QED BY <1>1, <2>2, <3>1, <3>2
  <2> QED BY <2>1, <2>2
<1>10. TrapInv'
  BY <1>1, <1>3 DEF CtxInv, TrapInv
<1> QED BY <1>5, <1>6, <1>7, <1>8, <1>9, <1>10 DEF CtxInv

-----------------------------------------------------------------------------
(* QInv is inductive                                                       *)

LEMMA SetStateQueue ==
  ASSUME IInv, QInv, Requests, NEW h \in Hcpu, NEW v \in User, NEW new, set_state(h, v, new)
  PROVE  QInv'
<1>1. /\ phase[h] = "none" /\ state_change(h, v, new, FALSE)
      /\ ctx' = [ctx EXCEPT ![h] = IF @ = "trap" THEN "done" ELSE @]
      /\ UNCHANGED <<hcpu, preempt, asleep, cur, nxt>>
      /\ ListInv /\ CtxInv /\ v \in Vcpu
  BY UserVcpu DEF set_state, MayCall, QInv
<1>2. CASE new = "READY"
  <2>1. ListInv'
    BY <1>1, <1>2, StateList
  <2>2. CtxInv'
    <3>1. preempt' \in [Vcpu -> Nat] /\ preempt' = preempt
      BY <1>1 DEF CtxInv, CountTypes
    <3> QED BY <1>1, <1>2, <3>1, ResumeCtx
  <2> QED BY <2>1, <2>2 DEF QInv
<1>3. CASE new # "READY"
  <2>1. /\ new \in {"PAUSED", "HALTED"} /\ v = cur[h] /\ ctx[h] # "irq"
        /\ Preempters = {} /\ Sleepers = {}
    BY <1>3 DEF set_state, Requests
  <2>2. /\ ctx[h] \in {"trap", "vcpu"}
        /\ v \in Guest => ctx[h] = "trap"
        /\ ctx[h] = "vcpu" => ~asleep[v]
    BY <2>1, SchedAssumption, UserVcpu DEF set_state, MayCall, Free, Executes
  <2>3. state[v] = "RUNNING" /\ hcpu[v] = h /\ v # None
    BY <1>1, <2>1, <2>2, OwnVcpus DEF CtxInv, CurInv, IInv, HomeInv
  <2>4. ~asleep[v]
    BY <1>1, <2>1 DEF CtxInv, AsleepInv
  <2>5. preempt[v] = 0
    BY <1>1, <2>1, <2>4 DEF CtxInv, CountInv, Holders
  <2>6. ListInv'
    BY <1>1, <2>1, <2>3, OwnVcpus, StateList
  <2>7. state'[v] # state[v] => WantsPreempt(v, new)
    <3>1. state'[v] = IF Changes(v, new) THEN new ELSE state[v]
      BY <1>1, StateFacts
    <3> QED BY <2>1, <2>3, <3>1 DEF WantsPreempt, IsCurrent
  <2>8. Preemptible(v)'
    BY <1>1, <2>4, <2>5 DEF Preemptible, preempt_min
  <2>9. preempt \in [Vcpu -> Nat] /\ asleep \in [Vcpu -> BOOLEAN]
    BY <1>1 DEF CtxInv, CountTypes
  <2>10. CtxInv'
    <3>1. preempt' = preempt /\ asleep' = asleep
      BY <1>1
    <3>2. /\ cur[h] \in Vcpu /\ new # "RUNNING"
          /\ state_change(h, cur[h], new, FALSE)
          /\ state'[cur[h]] # state[cur[h]] => WantsPreempt(cur[h], new)
          /\ cur[h] \in Guest => ctx[h] = "trap"
          /\ ~asleep'[cur[h]]
          /\ Preemptible(cur[h])'
          /\ preempt'[cur[h]] = 0
      BY <1>1, <2>1, <2>2, <2>4, <2>5, <2>7, <2>8, <3>1
    <3> QED BY <1>1, <2>9, <3>1, <3>2, StopCtx
  <2> QED BY <2>6, <2>10 DEF QInv
<1> QED BY <1>2, <1>3

\* A thread that wakes one whose wakeup preempts it takes the lock of the wait
\* queue once more.
LEMMA WakeFacts ==
  ASSUME IInv, QInv, NEW h \in Hcpu, NEW v \in Sleepers \cup {IpiVcpu(h)}, waitqueue_wake(h, v)
  PROVE  \/ UNCHANGED <<wq, preempt>> /\ ~PreemptsItself(h, v, "READY")
         \/ /\ cur[h] \in Thread /\ cur[h] \in Vcpu /\ v \in Sleepers
            /\ ~asleep[cur[h]] /\ state[cur[h]] = "RUNNING"
            /\ QueueFree(v) /\ LockQueue(cur[h], v)
<1>1. CASE ~PreemptsItself(h, v, "READY")
  BY <1>1 DEF waitqueue_wake
<1>2. CASE PreemptsItself(h, v, "READY")
  <2>1. /\ ctx[h] = "vcpu" /\ cur[h] # None
        /\ QueueFree(v) /\ LockQueue(cur[h], v)
    BY <1>2 DEF waitqueue_wake, PreemptsItself
  <2>2. v \in Sleepers /\ Free(h) /\ cur[h] \in Thread
    BY <2>1 DEF waitqueue_wake, MayCall
  <2>3. ~asleep[cur[h]] /\ phase[h] = "none" /\ cur[h] \in Vcpu
    BY <2>1, <2>2, UserVcpu DEF Free, Executes, User
  <2>4. state[cur[h]] = "RUNNING"
    BY <2>1, <2>3 DEF QInv, CtxInv, CurInv
  <2> QED BY <2>1, <2>2, <2>3, <2>4
<1> QED BY <1>1, <1>2

LEMMA YieldWakeQueue ==
  ASSUME IInv, QInv, NEW h \in Hcpu,
         \/ vmm_scheduler_yield(h)
         \/ \E v \in Sleepers \cup {IpiVcpu(h)} : waitqueue_wake(h, v)
  PROVE  QInv'
<1>1. PICK v \in Vcpu, held \in BOOLEAN : state_change(h, v, "READY", held)
  <2>1. CASE vmm_scheduler_yield(h)
    <3>1. cur[h] \in Vcpu
      BY <2>1, OwnVcpus, UserVcpu DEF vmm_scheduler_yield, User
    <3> QED BY <2>1, <3>1 DEF vmm_scheduler_yield
  <2>2. CASE \E v \in Sleepers \cup {IpiVcpu(h)} : waitqueue_wake(h, v)
    <3>1. Sleepers \cup {IpiVcpu(h)} \subseteq Vcpu
      BY OwnVcpus, UserVcpu, SchedAssumption DEF User
    <3> QED BY <2>2, <3>1 DEF waitqueue_wake
  <2> QED BY <2>1, <2>2
<1>2. phase[h] = "none" /\ UNCHANGED <<hcpu, asleep, cur, nxt, ctx>>
  BY DEF vmm_scheduler_yield, waitqueue_wake, Free, Executes, MayCall
<1>3. ListInv'
  BY <1>1, <1>2, StateList DEF QInv
<1>4. /\ preempt' \in [Vcpu -> Nat]
      /\ \A w \in Vcpu : preempt'[w] = preempt[w] \/ (w \in Holders /\ state[w] = "RUNNING")
  <2>1. preempt \in [Vcpu -> Nat]
    BY DEF QInv, CtxInv, CountTypes
  <2>2. CASE UNCHANGED preempt
    BY <2>1, <2>2
  <2>3. CASE /\ cur[h] \in Thread /\ cur[h] \in Vcpu /\ Sleepers # {} /\ state[cur[h]] = "RUNNING"
             /\ \E w : LockQueue(cur[h], w)
    <3>1. cur[h] \in Holders
      BY <2>3 DEF Holders
    <3>2. preempt' = [preempt EXCEPT ![cur[h]] = preempt[cur[h]] + 1]
      BY <2>3 DEF LockQueue
    <3>3. preempt[cur[h]] + 1 \in Nat
      BY <2>1, <2>3, SMT
    <3> QED BY <2>1, <2>3, <3>1, <3>2, <3>3
  <2> QED BY <2>2, <2>3, WakeFacts DEF vmm_scheduler_yield
<1>5. CtxInv'
  BY <1>1, <1>2, <1>4, ResumeCtx DEF QInv
<1> QED BY <1>3, <1>5 DEF QInv

LEMMA SleepQueue ==
  ASSUME IInv, QInv, NEW h \in Hcpu, waitqueue_sleep(h)
  PROVE  QInv'
<1> DEFINE c == cur[h]
<1>1. /\ c \in Vcpu /\ c \notin Guest /\ c \notin User \ Sleepers
      /\ c # None /\ \A g \in Hcpu : c # Idle(g)
  <2>1. \A g \in Hcpu : Idle(g) # IpiVcpu(h)
    BY DEF Idle, IpiVcpu
  <2>2. Sleepers \subseteq User /\ Sleepers \cap Guest = {} /\ IpiVcpu(h) \notin Guest
    BY SchedAssumption, OwnVcpus DEF User
  <2> QED BY <2>1, <2>2, OwnVcpus, UserVcpu DEF waitqueue_sleep
<1>2. /\ phase[h] = "none" /\ ctx[h] = "vcpu" /\ ~asleep[c] /\ preempt[c] = 0
      /\ state_change(h, c, "PAUSED", FALSE)
      /\ UNCHANGED <<hcpu, cur, nxt, ctx>>
      /\ ListInv /\ CtxInv
  BY <1>1 DEF waitqueue_sleep, Free, Executes, QInv
<1>3. state[c] = "RUNNING" /\ hcpu[c] = h
  BY <1>1, <1>2 DEF CtxInv, CurInv, IInv, HomeInv
<1>4. ListInv'
  BY <1>1, <1>2, <1>3, StateList
<1>5. preempt \in [Vcpu -> Nat] /\ asleep \in [Vcpu -> BOOLEAN]
      /\ ctx \in [Hcpu -> {"vcpu", "trap", "done", "irq", "exit"}]
  BY <1>2 DEF CtxInv, CountTypes
<1>6. state'[c] # state[c] => WantsPreempt(c, "PAUSED")
  <2>1. state'[c] = IF Changes(c, "PAUSED") THEN "PAUSED" ELSE state[c]
    BY <1>1, <1>2, StateFacts
  <2> QED BY <1>3, <2>1 DEF WantsPreempt, IsCurrent
<1>7. /\ preempt' \in [Vcpu -> Nat] /\ asleep' \in [Vcpu -> BOOLEAN]
      /\ \A w \in Vcpu \ {c} : preempt'[w] = preempt[w] /\ asleep'[w] = asleep[w]
      /\ preempt'[c] = IF asleep'[c] THEN 1 ELSE 0
      /\ preempt'[c] # 0 => WantsPreempt(c, "PAUSED")
  <2>1. CASE WantsPreempt(c, "PAUSED")
    <3>1. preempt' = [preempt EXCEPT ![c] = 1] /\ asleep' = [asleep EXCEPT ![c] = TRUE]
      <4>1. preempt' = [preempt EXCEPT ![c] = preempt[c] + 1] /\ asleep' = [asleep EXCEPT ![c] = TRUE]
        BY <2>1 DEF waitqueue_sleep, LockQueue
      <4>2. preempt[c] + 1 = 1
        BY <1>2, SMT
      <4> QED BY <4>1, <4>2
    <3>2. c \in Vcpu
      BY <1>1
    <3> HIDE DEF c
    <3>3. preempt' \in [Vcpu -> Nat] /\ preempt'[c] = 1 /\ \A w \in Vcpu \ {c} : preempt'[w] = preempt[w]
      BY <1>5, <3>1, <3>2
    <3>4. asleep' \in [Vcpu -> BOOLEAN] /\ asleep'[c] = TRUE /\ \A w \in Vcpu \ {c} : asleep'[w] = asleep[w]
      BY <1>5, <3>1, <3>2
    <3> QED BY <2>1, <3>3, <3>4
  <2>2. CASE ~WantsPreempt(c, "PAUSED")
    <3>1. preempt' = preempt /\ asleep' = asleep
      BY <2>2 DEF waitqueue_sleep
    <3> QED BY <1>1, <1>2, <1>5, <3>1
  <2> QED BY <2>1, <2>2
<1>8. ctx' = [ctx EXCEPT ![h] = IF @ = "trap" THEN "done" ELSE @]
  BY <1>2, <1>5
<1>9. Preemptible(cur[h])'
  BY <1>2, <1>7 DEF Preemptible, preempt_min
<1>10. CtxInv'
  BY <1>1, <1>2, <1>6, <1>7, <1>8, <1>9, StopCtx
<1> QED BY <1>4, <1>10 DEF QInv

LEMMA MigrateQueue ==
  ASSUME IInv, QInv, NEW h \in Hcpu, smp_ipi_main(h) \/ set_hcpu_migrate(h)
  PROVE  QInv'
<1>1. /\ UNCHANGED <<state, preempt, asleep, cur, ctx, phase, nxt>>
      /\ phase[h] = "none"
  BY DEF smp_ipi_main, set_hcpu_migrate, cpuVars, Executes
<1>2. \/ UNCHANGED <<hcpu, rq, crash>>
      \/ \E v \in User, new \in Hcpu : scheduler_ipi_migrate_vcpu(h, v, new)
  <2>1. CASE smp_ipi_main(h)
    <3>1. PICK call \in ipi[h] :
            IF call = Resched THEN UNCHANGED <<hcpu, rq, crash>>
            ELSE scheduler_ipi_migrate_vcpu(h, call.vcpu, call.hcpu)
      BY <2>1 DEF smp_ipi_main
    <3>2. CASE call # Resched
      <4>1. PICK v \in User, new \in Hcpu : call = MigrateCall(v, new)
        <5>1. call \in UserCalls
          BY DEF IInv, TypeInv
        <5> QED BY <3>2, <5>1, SMT DEF UserCalls
      <4>2. call.vcpu = v /\ call.hcpu = new
        BY <4>1 DEF MigrateCall
      <4> QED BY <3>1, <3>2, <4>2
    <3> QED BY <3>1, <3>2
  <2>2. CASE set_hcpu_migrate(h)
    <3> DEFINE m == move[cur[h]]
    <3>1. cur[h] \in movers /\ m # None
      BY <2>2 DEF set_hcpu_migrate, Free
    <3>2. m \in Moves
      BY <3>1 DEF IInv, TypeInv
    <3>3. m.vcpu \in User /\ m.new \in Hcpu
      BY <3>2 DEF Moves
    <3> QED BY <2>2, <3>3 DEF set_hcpu_migrate
  <2> QED BY <2>1, <2>2
<1>3. CASE UNCHANGED <<hcpu, rq, crash>>
  <2>1. ListInv'
    BY <1>1, <1>3 DEF QInv, ListInv, QueuedInv, ReadyInv, NextInv, IdleInv
  <2>2. CtxInv'
    BY <1>1, <1>3, MoveCtx, OwnVcpus DEF QInv
  <2> QED BY <2>1, <2>2 DEF QInv
<1>4. CASE \E v \in User, new \in Hcpu : scheduler_ipi_migrate_vcpu(h, v, new)
  <2>1. PICK v \in User, new \in Hcpu : scheduler_ipi_migrate_vcpu(h, v, new)
    BY <1>4
  <2>2. ListInv'
    BY <1>1, <2>1, MigrateList DEF QInv
  <2>3. v \in Vcpu /\ hcpu \in [Vcpu -> Hcpu]
    BY UserVcpu DEF IInv, TypeInv
  <2>4. hcpu' = hcpu \/ (hcpu' = [hcpu EXCEPT ![v] = new] /\ hcpu[v] = h)
    BY <2>1 DEF scheduler_ipi_migrate_vcpu, Migrates
  <2>5. /\ \A w \in Vcpu \ {v} : hcpu'[w] = hcpu[w]
        /\ hcpu'[v] = hcpu[v] \/ phase[hcpu[v]] = "none"
    BY <1>1, <2>3, <2>4
  <2>6. CtxInv'
    BY <1>1, <2>3, <2>5, MoveCtx DEF QInv
  <2> QED BY <2>2, <2>6 DEF QInv
<1> QED BY <1>2, <1>3, <1>4

LEMMA SetHcpuQueue ==
  ASSUME IInv, QInv, NEW h \in Hcpu, NEW v \in User, NEW new \in Hcpu,
         vmm_scheduler_set_hcpu(h, v, new)
  PROVE  QInv'
<1>1. ListInv'
  BY SetHcpuList DEF QInv
<1>2. /\ UNCHANGED <<state, preempt, asleep, cur, ctx, phase>>
      /\ cur[h] \in movers /\ v \in Vcpu /\ hcpu \in [Vcpu -> Hcpu]
  BY UserVcpu DEF vmm_scheduler_set_hcpu, cpuVars, IInv, TypeInv
<1>3. state[v] \in {"READY", "RUNNING"} \/ \A g \in Hcpu : cur[g] # v
  BY <1>2 DEF IInv, Mode, MoveInv
<1>4. /\ \A w \in Vcpu \ {v} : hcpu'[w] = hcpu[w]
      /\ hcpu'[v] = hcpu[v] \/ cur[hcpu[v]] # v
  BY <1>2, <1>3 DEF vmm_scheduler_set_hcpu
<1>5. CtxInv'
  BY <1>2, <1>4, MoveCtx DEF QInv
<1> QED BY <1>1, <1>5 DEF QInv

LEMMA SwitchQueue ==
  ASSUME IInv, QInv, NEW h \in Hcpu, Switch(h)
  PROVE  QInv'
<1>1. /\ ListInv /\ CtxInv
      /\ ctx \in [Hcpu -> {"vcpu", "trap", "done", "irq", "exit"}]
      /\ phase \in [Hcpu -> {"none", "begin", "dequeue", "lock"}]
  BY DEF QInv, CtxInv, CountTypes, IInv, TypeInv
<1>2. CASE SwitchBegin(h)
  BY <1>1, <1>2, SwitchBeginList, SwitchBeginCtx DEF QInv
<1>3. CASE SwitchRefused(h)
  <2>1. /\ UNCHANGED <<state, hcpu, preempt, asleep, cur, rq, nxt, crash>>
        /\ phase[h] = "begin" /\ ~Preemptible(cur[h])
        /\ phase' = [phase EXCEPT ![h] = "none"]
        /\ ctx' = [ctx EXCEPT ![h] = IF @ = "exit" THEN "vcpu" ELSE @]
    BY <1>3 DEF SwitchRefused, Return, vcpuVars
  <2>2. ListInv'
    BY <1>1, <2>1 DEF ListInv, QueuedInv, ReadyInv, NextInv, IdleInv
  <2>3. /\ \A g \in Hcpu \ {h} : phase'[g] = phase[g] /\ ctx'[g] = ctx[g]
        /\ ctx' \in [Hcpu -> {"vcpu", "trap", "done", "irq", "exit"}]
        /\ ctx'[h] = "trap" => ctx[h] = "trap"
    BY <1>1, <2>1
  <2>4. ctx'[h] # "trap"
    BY <1>1, <2>1, <2>3, SMTT(30) DEF CtxInv, TrapInv
  <2>5. CtxInv'
    BY <1>1, <2>1, <2>3, <2>4, FrameCtx
  <2> QED BY <2>2, <2>5 DEF QInv
<1>4. CASE SwitchSame(h)
  <2>1. PICK i \in DOMAIN rq[h] : SwitchTo(h, rq[h][i])
    BY <1>4 DEF SwitchSame
  <2>2. rq[h][i] \in Vcpu /\ In(rq[h][i], rq[h]) /\ phase[h] # "none"
    BY <1>4, <2>1, SMT DEF In, IInv, TypeInv, SwitchSame
  <2>3. hcpu[rq[h][i]] = h
    BY <2>2 DEF IInv, HomeInv
  <2>4. CtxInv'
    BY <1>1, <2>1, <2>2, <2>3, SwitchToCtx
  <2> QED BY <1>1, <1>4, <2>4, SwitchSameList DEF QInv
<1>5. CASE SwitchDequeue(h)
  <2>1. ListInv'
    BY <1>1, <1>5, SwitchDequeueList
  <2>2. /\ UNCHANGED <<state, hcpu, preempt, asleep, cur, ctx>>
        /\ phase[h] = "dequeue"
        /\ phase' = phase \/ phase' = [phase EXCEPT ![h] = "lock"]
    BY <1>5 DEF SwitchDequeue, vcpuVars
  <2>3. /\ \A g \in Hcpu \ {h} : phase'[g] = phase[g]
        /\ phase'[h] # "none" /\ ctx[h] # "trap"
    BY <1>1, <2>2 DEF CtxInv, TrapInv
  <2>4. CtxInv'
    BY <1>1, <2>2, <2>3, FrameCtx
  <2> QED BY <2>1, <2>4 DEF QInv
<1>6. CASE SwitchFinish(h)
  <2>1. nxt[h] \in Vcpu /\ hcpu[nxt[h]] = h /\ SwitchTo(h, nxt[h]) /\ phase[h] # "none"
    BY <1>6, FinishFacts
  <2>2. CtxInv'
    BY <1>1, <2>1, SwitchToCtx
  <2> QED BY <1>1, <1>6, <2>2, SwitchFinishList DEF QInv
<1> QED BY <1>1, <1>2, <1>3, <1>4, <1>5, <1>6, NoRetry DEF Switch

LEMMA HandlerQueue ==
  ASSUME IInv, QInv, RelockInv, NEW h \in Hcpu,
         \/ \E context \in {"irq", "trap"} : irq_enter(h, context)
         \/ Tick(h) \/ irq_exit(h)
         \/ preempt_disable(h) \/ preempt_enable(h) \/ waitqueue_awake(h) \/ preempt_orphan_return(h)
  PROVE  QInv'
<1>1. UNCHANGED <<state, hcpu, rq, nxt, cur, crash>>
  BY DEF irq_enter, Tick, irq_exit, preempt_disable, preempt_enable, waitqueue_awake,
         preempt_orphan_return, vcpuVars, cpuVars
<1>2. ListInv'
  BY <1>1 DEF QInv, ListInv, QueuedInv, ReadyInv, NextInv, IdleInv
<1>3. /\ ctx \in [Hcpu -> {"vcpu", "trap", "done", "irq", "exit"}]
      /\ phase \in [Hcpu -> {"none", "begin", "dequeue", "lock"}]
      /\ CtxInv
  BY DEF QInv, CtxInv, CountTypes, IInv, TypeInv
<1>4. CASE preempt_disable(h) \/ preempt_enable(h) \/ waitqueue_awake(h) \/ preempt_orphan_return(h)
  BY <1>2, <1>3, <1>4, CountCtx DEF QInv
<1>5. CASE \E context \in {"irq", "trap"} : irq_enter(h, context)
  <2>1. PICK context \in {"irq", "trap"} : irq_enter(h, context)
    BY <1>5
  <2>2. /\ UNCHANGED <<preempt, asleep, phase>> /\ phase[h] = "none" /\ ctx[h] = "vcpu"
        /\ context = "trap" => cur[h] \in Guest
        /\ ctx' = [ctx EXCEPT ![h] = context]
    BY <2>1 DEF irq_enter, Executes, vcpuVars
  <2>3. /\ ctx' \in [Hcpu -> {"vcpu", "trap", "done", "irq", "exit"}]
        /\ ctx'[h] = context /\ \A g \in Hcpu \ {h} : ctx'[g] = ctx[g]
    BY <1>3, <2>2
  <2>4. CtxInv'
    BY <1>1, <1>3, <2>2, <2>3, FrameCtx
  <2> QED BY <1>2, <2>4 DEF QInv
<1>6. CASE Tick(h)
  <2>1. /\ UNCHANGED <<preempt, asleep>>
        /\ ctx' = [ctx EXCEPT ![h] = "done"] /\ phase' = [phase EXCEPT ![h] = "begin"]
    BY <1>6 DEF Tick, vcpuVars
  <2>2. /\ ctx' \in [Hcpu -> {"vcpu", "trap", "done", "irq", "exit"}]
        /\ ctx'[h] = "done" /\ phase'[h] = "begin"
        /\ \A g \in Hcpu \ {h} : ctx'[g] = ctx[g] /\ phase'[g] = phase[g]
    BY <1>3, <2>1
  <2>3. CtxInv'
    BY <1>1, <1>3, <2>1, <2>2, FrameCtx
  <2> QED BY <1>2, <2>3 DEF QInv
<1>7. CASE irq_exit(h)
  <2>1. /\ UNCHANGED <<preempt, asleep>> /\ phase[h] = "none"
        /\ \/ ctx' = [ctx EXCEPT ![h] = "exit"] /\ phase' = [phase EXCEPT ![h] = "begin"]
           \/ /\ ctx' = [ctx EXCEPT ![h] = "vcpu"] /\ UNCHANGED phase
              /\ cur[h] # None => state[cur[h]] = "RUNNING"
    BY <1>7 DEF irq_exit, vcpuVars
  <2>2. /\ ctx' \in [Hcpu -> {"vcpu", "trap", "done", "irq", "exit"}]
        /\ ctx'[h] \in {"exit", "vcpu"}
        /\ phase'[h] = "none" /\ cur[h] # None => state[cur[h]] = "RUNNING"
        /\ \A g \in Hcpu \ {h} : ctx'[g] = ctx[g] /\ phase'[g] = phase[g]
    BY <1>3, <2>1
  <2>3. CtxInv'
    BY <1>1, <1>3, <2>1, <2>2, FrameCtx
  <2> QED BY <1>2, <2>3 DEF QInv
<1> QED BY <1>4, <1>5, <1>6, <1>7

\* Next, as the list of its steps.
LEMMA NextCases ==
  ASSUME Next
  PROVE  \E h \in Hcpu :
           \/ Switch(h)
           \/ \E context \in {"irq", "trap"} : irq_enter(h, context)
           \/ Tick(h) \/ irq_exit(h)
           \/ preempt_disable(h) \/ preempt_enable(h) \/ waitqueue_awake(h) \/ preempt_orphan_return(h)
           \/ vmm_scheduler_yield(h)
           \/ \E v \in Sleepers \cup {IpiVcpu(h)} : waitqueue_wake(h, v)
           \/ waitqueue_sleep(h)
           \/ \E v \in User, new \in SelfOps \cup OtherOps \cup {"READY"} : set_state(h, v, new)
           \/ \E v \in User, new \in Hcpu : vmm_scheduler_set_hcpu(h, v, new)
           \/ smp_ipi_main(h) \/ set_hcpu_migrate(h)
<1>1. PICK h \in Hcpu : Kernel(h) \/ Client(h)
  BY DEF Next
<1>2. CASE Kernel(h)
  BY <1>2 DEF Kernel, IpiWork
<1>3. CASE Client(h)
  BY <1>3 DEF Client
<1> QED BY <1>1, <1>2, <1>3

LEMMA QueueStep == IInv /\ QInv /\ RelockInv /\ Requests /\ [Next]_vars => QInv'
<1> SUFFICES ASSUME IInv, QInv, RelockInv, Requests, [Next]_vars PROVE QInv'
  OBVIOUS
<1>1. CASE UNCHANGED vars
  <2>1. UNCHANGED <<state, hcpu, rq, nxt, cur, crash, preempt, asleep, ctx, phase>>
    BY <1>1 DEF vars, vcpuVars, cpuVars
  <2>2. ListInv'
    BY <2>1 DEF QInv, ListInv, QueuedInv, ReadyInv, NextInv, IdleInv
  <2>3. CtxInv'
    BY <2>1 DEF QInv, CtxInv, CountTypes, AsleepInv, CurInv, TrapInv, PreInv, CountInv,
                Preemptible, preempt_min
  <2> QED BY <2>2, <2>3 DEF QInv
<1>2. CASE Next
  BY <1>2, NextCases, SwitchQueue, HandlerQueue, YieldWakeQueue, SleepQueue, SetStateQueue,
     SetHcpuQueue, MigrateQueue
<1> QED BY <1>1, <1>2

\* Steps that make nobody sleep.
LEMMA RelockFrame ==
  ASSUME RelockInv, \A w \in Vcpu : asleep'[w] => asleep[w],
         \/ UNCHANGED relock
         \/ \E c \in Vcpu : relock' = [relock EXCEPT ![c] = None]
         \/ \E c \in Thread, v \in User : ~asleep[c] /\ relock' = [relock EXCEPT ![c] = v]
  PROVE  RelockInv'
<1>1. \A c \in Thread : c \in Vcpu
  BY UserVcpu DEF User
<1> QED BY <1>1 DEF RelockInv

LEMMA RelockStep == IInv /\ QInv /\ RelockInv /\ [Next]_vars => RelockInv'
<1> SUFFICES ASSUME IInv, QInv, RelockInv, [Next]_vars PROVE RelockInv'
  OBVIOUS
<1>1. asleep \in [Vcpu -> BOOLEAN] /\ relock \in [Vcpu -> User \cup {None}]
  BY DEF QInv, CtxInv, CountTypes, RelockInv
<1>2. ASSUME NEW h \in Hcpu, Switch(h) PROVE RelockInv'
  <2>1. UNCHANGED <<asleep, relock>>
    BY <1>2 DEF Switch, SwitchBegin, SwitchRefused, SwitchSame, SwitchDequeue, SwitchRetry,
                SwitchFinish, SwitchTo, vcpuVars
  <2> QED BY <2>1, RelockFrame
<1>3. ASSUME NEW h \in Hcpu,
             \/ \E context \in {"irq", "trap"} : irq_enter(h, context)
             \/ Tick(h) \/ irq_exit(h) \/ smp_ipi_main(h) \/ set_hcpu_migrate(h)
             \/ preempt_disable(h) \/ preempt_enable(h)
             \/ \E v \in User, new \in Hcpu : vmm_scheduler_set_hcpu(h, v, new)
      PROVE  RelockInv'
  <2>1. UNCHANGED <<asleep, relock>>
    BY <1>3 DEF irq_enter, Tick, irq_exit, smp_ipi_main, set_hcpu_migrate, preempt_disable,
                preempt_enable, vmm_scheduler_set_hcpu, vcpuVars
  <2> QED BY <2>1, RelockFrame
<1>4. ASSUME NEW h \in Hcpu, waitqueue_awake(h) PROVE RelockInv'
  <2>1. UNCHANGED relock /\ asleep' = [asleep EXCEPT ![cur[h]] = FALSE]
    BY <1>4 DEF waitqueue_awake
  <2>2. \A w \in Vcpu : asleep'[w] => asleep[w]
    BY <1>1, <2>1
  <2> QED BY <2>1, <2>2, RelockFrame
<1>5. ASSUME NEW h \in Hcpu, preempt_orphan_return(h) PROVE RelockInv'
  <2>1. UNCHANGED asleep /\ cur[h] # None /\ relock' = [relock EXCEPT ![cur[h]] = None]
    BY <1>5 DEF preempt_orphan_return
  <2>2. cur[h] \in Vcpu
    BY <2>1 DEF IInv, TypeInv
  <2> QED BY <2>1, <2>2, RelockFrame
<1>6. ASSUME NEW h \in Hcpu, waitqueue_sleep(h) PROVE RelockInv'
  <2>1. cur[h] \in Vcpu /\ cur[h] # None
    <3>1. Sleepers \subseteq User
      BY SchedAssumption DEF User
    <3> QED BY <1>6, <3>1, OwnVcpus, UserVcpu DEF waitqueue_sleep
  <2>2. UNCHANGED relock /\ relock[cur[h]] = None
    BY <1>6, <2>1 DEF waitqueue_sleep, state_change, Free, Executes
  <2>3. asleep' = asleep \/ asleep' = [asleep EXCEPT ![cur[h]] = TRUE]
    BY <1>6 DEF waitqueue_sleep
  <2>4. \A w \in Vcpu \ {cur[h]} : asleep'[w] = asleep[w]
    BY <1>1, <2>3
  <2> QED BY <2>2, <2>4 DEF RelockInv
\* A state change: a thread that preempts itself is not asleep.
<1>7. ASSUME NEW h \in Hcpu, NEW v \in Vcpu, NEW new, NEW held,
             state_change(h, v, new, held), UNCHANGED asleep,
             PreemptsItself(h, v, new) /\ v # cur[h] =>
               v \in User /\ cur[h] \in Thread /\ ~asleep[cur[h]]
      PROVE  RelockInv'
  <2>1. \/ UNCHANGED relock
        \/ relock' = [relock EXCEPT ![v] = None]
        \/ PreemptsItself(h, v, new) /\ v # cur[h] /\ relock' = [relock EXCEPT ![cur[h]] = v]
    BY <1>7 DEF state_change
  <2> QED BY <1>7, <2>1, RelockFrame
<1>8. ASSUME NEW h \in Hcpu, vmm_scheduler_yield(h) PROVE RelockInv'
  <2>1. cur[h] \in Vcpu
    BY <1>8, OwnVcpus, UserVcpu DEF vmm_scheduler_yield, User
  <2> QED BY <1>7, <1>8, <2>1 DEF vmm_scheduler_yield
<1>9. ASSUME NEW h \in Hcpu, NEW v \in User, NEW new, set_state(h, v, new) PROVE RelockInv'
  <2>1. /\ state_change(h, v, new, FALSE) /\ UNCHANGED asleep
        /\ v \in Vcpu /\ MayCall(h)
    BY <1>9, UserVcpu DEF set_state
  <2>2. ASSUME PreemptsItself(h, v, new) PROVE cur[h] \in Thread /\ ~asleep[cur[h]]
    BY <2>1, <2>2 DEF PreemptsItself, MayCall, Free, Executes
  <2> QED BY <1>7, <2>1, <2>2
<1>10. ASSUME NEW h \in Hcpu, NEW v \in Sleepers \cup {IpiVcpu(h)}, waitqueue_wake(h, v)
       PROVE  RelockInv'
  <2>1. v \in Vcpu /\ Sleepers \subseteq User
    BY OwnVcpus, UserVcpu, SchedAssumption DEF User
  <2>2. state_change(h, v, "READY", TRUE) /\ UNCHANGED asleep
    BY <1>10 DEF waitqueue_wake
  <2>3. PreemptsItself(h, v, "READY") => v \in User /\ cur[h] \in Thread /\ ~asleep[cur[h]]
    BY <1>10, <2>1, WakeFacts
  <2> QED BY <1>7, <2>1, <2>2, <2>3
<1>11. CASE Next
  BY <1>2, <1>3, <1>4, <1>5, <1>6, <1>8, <1>9, <1>10, <1>11, NextCases
<1>12. CASE UNCHANGED vars
  <2>1. UNCHANGED <<asleep, relock>>
    BY <1>12 DEF vars, vcpuVars
  <2> QED BY <2>1, RelockFrame
<1> QED BY <1>11, <1>12

LEMMA RelockInit == Init => RelockInv
<1> SUFFICES ASSUME Init PROVE RelockInv
  OBVIOUS
<1>1. relock = [v \in Vcpu |-> None]
  BY DEF Init
<1> QED BY <1>1 DEF RelockInv

LEMMA QueueInit == Init => QInv
<1> SUFFICES ASSUME Init PROVE QInv
  OBVIOUS
<1>1. \A v \in Vcpu \ User : \E h \in Hcpu : v \in {Idle(h), IpiVcpu(h)}
  BY DEF User, Vcpu, Orphan
<1>2. \A g, h \in Hcpu : /\ Idle(g) # IpiVcpu(h)
                         /\ Idle(g) = Idle(h) => g = h
                         /\ IpiVcpu(g) = IpiVcpu(h) => g = h
  BY DEF Idle, IpiVcpu
<1>3. \A h \in Hcpu : hcpu[Idle(h)] = h /\ hcpu[IpiVcpu(h)] = h
  BY <1>2, OwnVcpus DEF Init
<1>4. ASSUME NEW h \in Hcpu
      PROVE  \A v : In(v, rq[h]) <=> v \in {Idle(h), IpiVcpu(h)}
  <2>1. rq[h] = <<Idle(h), IpiVcpu(h)>>
    BY DEF Init
  <2>2. Idle(h) \in Vcpu /\ IpiVcpu(h) \in Vcpu /\ Idle(h) # IpiVcpu(h)
    BY <1>2, OwnVcpus
  <2>3. \A v : In(v, <<Idle(h), IpiVcpu(h)>>) <=> v \in {Idle(h), IpiVcpu(h)}
    BY <2>2, PairQueue
  <2> QED BY <2>1, <2>3
<1>5. /\ \A v \in User : state[v] = "RESET"
      /\ \A v \in Vcpu \ User : state[v] = "READY"
  BY UserVcpu DEF Init
<1>6. QueuedInv
  <2> SUFFICES ASSUME NEW h \in Hcpu, NEW v \in Vcpu, In(v, rq[h]) PROVE state[v] = "READY"
    BY DEF QueuedInv
  <2>1. v \in {Idle(h), IpiVcpu(h)}
    BY <1>4
  <2>2. v \in Vcpu \ User
    BY <2>1, OwnVcpus
  <2> QED BY <1>5, <2>2
<1>7. ReadyInv
  <2> SUFFICES ASSUME NEW v \in Vcpu, state[v] = "READY" PROVE In(v, rq[hcpu[v]])
    BY DEF ReadyInv
  <2>1. PICK h \in Hcpu : v \in {Idle(h), IpiVcpu(h)}
    BY <1>1, <1>5
  <2>2. hcpu[v] = h
    BY <1>3, <2>1
  <2> QED BY <1>4, <2>1, <2>2
<1>8. NextInv /\ crash = "none"
  BY DEF Init, NextInv
<1>9. IdleInv
  BY <1>3, <1>5, OwnVcpus DEF IdleInv
<1>10. CountTypes
  BY DEF Init, CountTypes
<1>11. CurInv /\ PreInv /\ CountInv /\ TrapInv
  BY DEF Init, CurInv, PreInv, CountInv, TrapInv
<1>12. AsleepInv
  BY UserVcpu DEF Init, AsleepInv
<1> QED BY <1>6, <1>7, <1>8, <1>9, <1>10, <1>11, <1>12 DEF QInv, ListInv, CtxInv

\* Who moves VCPUs is decided at the start.
LEMMA MoversKept == IInv /\ [Next]_vars => movers' = movers
<1> SUFFICES ASSUME IInv, [Next]_vars PROVE movers' = movers
  OBVIOUS
<1>1. CASE UNCHANGED move
  BY <1>1 DEF movers
<1>2. ASSUME NEW h \in Hcpu, NEW v, NEW new, set_state(h, v, new) PROVE movers' = movers
  BY <1>2 DEF set_state, movers
<1>3. ASSUME NEW h \in Hcpu, NEW v, NEW new,
             vmm_scheduler_set_hcpu(h, v, new) \/ set_hcpu_migrate(h)
      PROVE  movers' = movers
  BY <1>3 DEF vmm_scheduler_set_hcpu, set_hcpu_migrate, movers
<1>4. ASSUME NEW h \in Hcpu, Switch(h) PROVE UNCHANGED move
  BY <1>4 DEF Switch, SwitchBegin, SwitchRefused, SwitchSame, SwitchDequeue, SwitchRetry,
              SwitchFinish, SwitchTo, vcpuVars
<1>5. ASSUME NEW h \in Hcpu,
             \/ \E context \in {"irq", "trap"} : irq_enter(h, context)
             \/ Tick(h) \/ irq_exit(h)
             \/ preempt_disable(h) \/ preempt_enable(h) \/ waitqueue_awake(h) \/ preempt_orphan_return(h)
             \/ vmm_scheduler_yield(h) \/ waitqueue_sleep(h) \/ smp_ipi_main(h)
             \/ \E v \in Sleepers \cup {IpiVcpu(h)} : waitqueue_wake(h, v)
      PROVE  UNCHANGED move
  BY <1>5 DEF irq_enter, Tick, irq_exit, preempt_disable, preempt_enable, waitqueue_awake,
              preempt_orphan_return, vmm_scheduler_yield, waitqueue_sleep, smp_ipi_main, waitqueue_wake, vcpuVars
<1>6. CASE Next
  BY <1>1, <1>2, <1>3, <1>4, <1>5, <1>6, NextCases
<1>7. CASE UNCHANGED vars
  BY <1>1, <1>7 DEF vars, vcpuVars
<1> QED BY <1>6, <1>7

LEMMA QueueInvariant == Spec /\ Mode /\ Requests => [](IInv /\ QInv)
<1>1. Requests /\ movers' = movers => Requests'
  BY DEF Requests, Changed
<1>2. IInv /\ QInv /\ RelockInv /\ Requests /\ [Next]_vars
        => (IInv /\ QInv /\ RelockInv /\ Requests)'
  BY <1>1, NextStep, QueueStep, RelockStep, MoversKept
<1> QED BY <1>2, InitInv, QueueInit, RelockInit, PTL DEF Spec

-----------------------------------------------------------------------------
(* Theorems                                                                *)

\* Whoever is in the ready queue of a host CPU is READY, once, and belongs to
\* this host CPU: vmm_scheduler_state_change() and the two halves of the context
\* switch keep vcpu->state and the lists of vmm_schedalgo_rq_enqueue(), dequeue()
\* and detach() in step.
THEOREM QueuesHoldReady == Spec /\ Mode /\ Requests => []QueuedIsReady
<1>1. IInv /\ QInv => QueuedIsReady
  <2> SUFFICES ASSUME IInv, QInv, NEW h \in Hcpu, NEW i \in DOMAIN rq[h]
               PROVE  /\ state[rq[h][i]] = "READY" /\ hcpu[rq[h][i]] = h
                      /\ \A j \in DOMAIN rq[h] : rq[h][i] = rq[h][j] => i = j
    BY DEF QueuedIsReady
  <2>1. rq[h][i] \in Vcpu /\ In(rq[h][i], rq[h])
    <3>1. rq[h] \in Seq(Vcpu)
      BY DEF IInv, TypeInv
    <3>2. rq[h][i] \in Vcpu
      BY <3>1, SMT
    <3> QED BY <3>2 DEF In
  <2>2. Distinct(rq[h]) /\ hcpu[rq[h][i]] = h
    BY <2>1 DEF IInv, HomeInv
  <2> QED BY <2>1, <2>2 DEF QInv, ListInv, QueuedInv, Distinct
<1> QED BY <1>1, QueueInvariant, PTL

\* No VCPU that is READY is forgotten: it is in a ready queue, or the context
\* switch of its host CPU has just dequeued it.
THEOREM ReadyNotForgotten == Spec /\ Mode /\ Requests => []ReadyIsQueued
<1>1. IInv /\ QInv => ReadyIsQueued
  <2> SUFFICES ASSUME IInv, QInv, NEW v \in Vcpu, state[v] = "READY"
               PROVE  Linked(v) \/ \E h \in Hcpu : nxt[h] = v
    BY DEF ReadyIsQueued
  <2>1. hcpu[v] \in Hcpu
    BY DEF IInv, TypeInv
  <2>2. In(v, rq[hcpu[v]]) \/ nxt[hcpu[v]] = v
    BY DEF QInv, ListInv, ReadyInv
  <2> QED BY <2>1, <2>2 DEF Linked, In
<1> QED BY <1>1, QueueInvariant, PTL

\* No list_del() of an entry that is not linked, no list_add_tail() of one that
\* is, and the dequeue of __vmm_scheduler_next1() and next2() always finds a
\* VCPU: the vmm_panic() there ("This should never happen !!!") is not reached.
THEOREM ListsStayIntact == Spec /\ Mode /\ Requests => []ListsIntact
<1>1. QInv => ListsIntact
  BY DEF QInv, ListInv, ListsIntact
<1> QED BY <1>1, QueueInvariant, PTL

\* A step that makes a VCPU RUNNING is the end of a context switch, of a VCPU that
\* is READY.
LEMMA RunningStep ==
  ASSUME IInv, QInv, [Next]_vars, NEW v \in Vcpu, state'[v] = "RUNNING"
  PROVE  state[v] \in {"READY", "RUNNING"}
<1> SUFFICES ASSUME state'[v] # state[v] PROVE state[v] = "READY"
  OBVIOUS
<1>1. state \in [Vcpu -> States]
  BY DEF IInv, TypeInv
<1>2. ASSUME NEW h \in Hcpu, NEW n \in Vcpu, SwitchTo(h, n), state[n] = "READY"
      PROVE  state[v] = "READY"
  BY <1>1, <1>2 DEF SwitchTo
<1>3. ASSUME NEW h \in Hcpu, Switch(h) PROVE state[v] = "READY"
  <2>1. CASE SwitchBegin(h)
    <3>1. state' = state \/ state' = [state EXCEPT ![cur[h]] = "READY"]
      BY <2>1 DEF SwitchBegin, RequeuedState
    <3> QED BY <1>1, <3>1
  <2>2. CASE SwitchSame(h)
    <3>1. PICK i \in DOMAIN rq[h] : SwitchTo(h, rq[h][i])
      BY <2>2 DEF SwitchSame
    <3>2. rq[h][i] \in Vcpu /\ In(rq[h][i], rq[h])
      BY SMT DEF In, IInv, TypeInv
    <3> QED BY <1>2, <3>1, <3>2 DEF QInv, ListInv, QueuedInv
  <2>3. CASE SwitchFinish(h)
    <3>1. nxt[h] \in Vcpu /\ nxt[h] # None /\ SwitchTo(h, nxt[h])
      BY <2>3 DEF SwitchFinish, IInv, SwitchInv, TypeInv
    <3> QED BY <1>2, <3>1 DEF QInv, ListInv, NextInv
  <2>4. CASE SwitchRefused(h) \/ SwitchDequeue(h) \/ SwitchRetry(h)
    BY <2>4 DEF SwitchRefused, SwitchDequeue, SwitchRetry, vcpuVars
  <2> QED BY <1>3, <2>1, <2>2, <2>3, <2>4 DEF Switch
<1>4. ASSUME NEW h \in Hcpu, NEW w, NEW new, NEW held, state_change(h, w, new, held),
             new # "RUNNING"
      PROVE  FALSE
  BY <1>1, <1>4 DEF state_change
<1>5. ASSUME NEW h \in Hcpu,
             \/ \E w \in User, new \in SelfOps \cup OtherOps \cup {"READY"} : set_state(h, w, new)
             \/ vmm_scheduler_yield(h) \/ waitqueue_sleep(h)
             \/ \E w \in Sleepers \cup {IpiVcpu(h)} : waitqueue_wake(h, w)
      PROVE  FALSE
  <2>1. \A new \in SelfOps \cup OtherOps \cup {"READY"} : new # "RUNNING"
    BY SchedAssumption
  <2> QED BY <1>4, <1>5, <2>1 DEF set_state, vmm_scheduler_yield, waitqueue_sleep, waitqueue_wake
<1>6. ASSUME NEW h \in Hcpu,
             \/ \E context \in {"irq", "trap"} : irq_enter(h, context)
             \/ Tick(h) \/ irq_exit(h)
             \/ preempt_disable(h) \/ preempt_enable(h) \/ waitqueue_awake(h) \/ preempt_orphan_return(h)
             \/ smp_ipi_main(h) \/ set_hcpu_migrate(h)
             \/ \E w \in User, new \in Hcpu : vmm_scheduler_set_hcpu(h, w, new)
      PROVE  FALSE
  BY <1>6 DEF irq_enter, Tick, irq_exit, preempt_disable, preempt_enable, waitqueue_awake,
              preempt_orphan_return, smp_ipi_main, set_hcpu_migrate, vmm_scheduler_set_hcpu, vcpuVars
<1>7. CASE Next
  BY <1>3, <1>5, <1>6, <1>7, NextCases
<1>8. CASE UNCHANGED vars
  BY <1>8 DEF vars, vcpuVars
<1> QED BY <1>7, <1>8

\* A VCPU that was paused, halted or reset does not run before somebody has made
\* it READY: the second half of the context switch only ever runs a READY VCPU,
\* although __vmm_scheduler_next1() and the switch to the same VCPU do not check.
THEOREM StoppedStays == Spec /\ Mode /\ Requests => OnlyReadyRuns
<1>1. IInv /\ QInv /\ [Next]_vars =>
        [\A v \in Vcpu : state'[v] = "RUNNING" => state[v] \in {"READY", "RUNNING"}]_vars
  BY RunningStep
<1> QED BY <1>1, QueueInvariant, PTL DEF Spec, OnlyReadyRuns

-----------------------------------------------------------------------------
(* Preemption                                                              *)

\* Once a context switch has begun the current VCPU stays preemptible: nobody else
\* changes its preemption count.
LockedInv ==
  /\ preempt \in [Vcpu -> Nat]
  /\ asleep \in [Vcpu -> BOOLEAN]
  /\ \A h \in Hcpu : phase[h] \in {"dequeue", "lock"} /\ cur[h] # None => Preemptible(cur[h])

LEMMA LockedFrame ==
  ASSUME IInv, LockedInv, NEW h \in Hcpu,
         preempt' \in [Vcpu -> Nat], asleep' \in [Vcpu -> BOOLEAN],
         \A g \in Hcpu \ {h} : cur'[g] = cur[g] /\ phase'[g] = phase[g],
         \A w \in Vcpu : w # cur[h] => preempt'[w] = preempt[w] /\ asleep'[w] = asleep[w],
         phase'[h] \in {"dequeue", "lock"} /\ cur'[h] # None =>
           preempt'[cur'[h]] = IF asleep'[cur'[h]] THEN 1 ELSE 0
  PROVE  LockedInv'
<1> SUFFICES ASSUME NEW g \in Hcpu, phase'[g] \in {"dequeue", "lock"}, cur'[g] # None, g # h
             PROVE  preempt'[cur'[g]] = IF asleep'[cur'[g]] THEN 1 ELSE 0
  BY DEF LockedInv, Preemptible, preempt_min
<1>1. cur'[g] = cur[g] /\ cur[g] \in Vcpu /\ cur[g] # cur[h] /\ phase'[g] = phase[g]
  BY SMT DEF IInv, TypeInv, HomeInv
<1> QED BY <1>1 DEF LockedInv, Preemptible, preempt_min

LEMMA LockedStep == IInv /\ LockedInv /\ [Next]_vars => LockedInv'
<1> SUFFICES ASSUME IInv, LockedInv, [Next]_vars PROVE LockedInv'
  OBVIOUS
<1>1. /\ preempt \in [Vcpu -> Nat] /\ asleep \in [Vcpu -> BOOLEAN]
      /\ phase \in [Hcpu -> {"none", "begin", "dequeue", "lock"}]
      /\ cur \in [Hcpu -> Vcpu \cup {None}] /\ None \notin Vcpu
  BY OwnVcpus DEF LockedInv, IInv, TypeInv
<1>2. ASSUME NEW h \in Hcpu, UNCHANGED <<preempt, asleep, cur>>,
             \A g \in Hcpu \ {h} : phase'[g] = phase[g],
             phase'[h] \in {"dequeue", "lock"} /\ cur[h] # None =>
               phase[h] \in {"dequeue", "lock"} \/ Preemptible(cur[h])
      PROVE  LockedInv'
  <2>1. phase'[h] \in {"dequeue", "lock"} /\ cur[h] # None => Preemptible(cur[h])
    BY <1>2 DEF LockedInv
  <2> QED BY <1>1, <1>2, <2>1, LockedFrame DEF Preemptible, preempt_min
<1>3. ASSUME NEW h \in Hcpu, NEW n \in Vcpu, SwitchTo(h, n) PROVE LockedInv'
  <2> DEFINE c == cur[h]
  <2>1. /\ cur' = [cur EXCEPT ![h] = n] /\ phase' = [phase EXCEPT ![h] = "none"]
        /\ UNCHANGED asleep
        /\ \/ UNCHANGED preempt
           \/ c # None /\ preempt[c] > 0 /\ preempt' = [preempt EXCEPT ![c] = @ - 1]
    BY <1>3 DEF SwitchTo, Return
  <2>2. /\ phase'[h] = "none"
        /\ \A g \in Hcpu \ {h} : cur'[g] = cur[g] /\ phase'[g] = phase[g]
    BY <1>1, <2>1
  <2>3. preempt' \in [Vcpu -> Nat] /\ \A w \in Vcpu : w # c => preempt'[w] = preempt[w]
    <3>1. CASE UNCHANGED preempt
      BY <1>1, <3>1
    <3>2. CASE c # None /\ preempt[c] > 0 /\ preempt' = [preempt EXCEPT ![c] = @ - 1]
      <4>1. c \in Vcpu
        BY <1>1, <3>2
      <4>2. preempt[c] - 1 \in Nat /\ preempt' = [preempt EXCEPT ![c] = preempt[c] - 1]
        BY <1>1, <3>2, <4>1, SMT
      <4> HIDE DEF c
      <4> QED BY <1>1, <4>1, <4>2
    <3> QED BY <2>1, <3>1, <3>2
  <2> QED BY <1>1, <2>1, <2>2, <2>3, LockedFrame
<1>4. ASSUME NEW h \in Hcpu, Switch(h) PROVE LockedInv'
  <2>1. CASE SwitchBegin(h)
    <3>1. /\ UNCHANGED <<preempt, asleep, cur>> /\ phase' = [phase EXCEPT ![h] = "dequeue"]
          /\ cur[h] # None => Preemptible(cur[h])
      BY <2>1 DEF SwitchBegin
    <3> QED BY <1>1, <1>2, <3>1
  <2>2. CASE SwitchRefused(h) \/ SwitchRetry(h) \/ SwitchDequeue(h)
    <3>1. /\ UNCHANGED <<preempt, asleep, cur>>
          /\ \/ phase' = [phase EXCEPT ![h] = "none"]
             \/ phase' = phase
             \/ phase[h] \in {"dequeue", "lock"} /\ \E p \in {"dequeue", "lock"} : phase' = [phase EXCEPT ![h] = p]
      BY <2>2 DEF SwitchRefused, SwitchRetry, SwitchDequeue, Return, vcpuVars
    <3>2. /\ \A g \in Hcpu \ {h} : phase'[g] = phase[g]
          /\ phase'[h] \in {"dequeue", "lock"} => phase[h] \in {"dequeue", "lock"}
      BY <1>1, <3>1
    <3> QED BY <1>2, <3>1, <3>2
  <2>3. CASE SwitchSame(h) \/ SwitchFinish(h)
    <3>1. CASE SwitchSame(h)
      <4>1. PICK i \in DOMAIN rq[h] : SwitchTo(h, rq[h][i])
        BY <3>1 DEF SwitchSame
      <4>2. rq[h][i] \in Vcpu
        BY SMT DEF IInv, TypeInv
      <4> QED BY <1>3, <4>1, <4>2
    <3>2. CASE SwitchFinish(h)
      <4>1. nxt[h] \in Vcpu /\ SwitchTo(h, nxt[h])
        BY <3>2, SMT DEF SwitchFinish, IInv, TypeInv, SwitchInv
      <4> QED BY <1>3, <4>1
    <3> QED BY <2>3, <3>1, <3>2
  <2> QED BY <1>4, <2>1, <2>2, <2>3 DEF Switch
<1>5. ASSUME NEW h \in Hcpu,
             \/ \E context \in {"irq", "trap"} : irq_enter(h, context)
             \/ Tick(h) \/ irq_exit(h) \/ smp_ipi_main(h) \/ set_hcpu_migrate(h)
             \/ \E v \in User, new \in Hcpu : vmm_scheduler_set_hcpu(h, v, new)
      PROVE  LockedInv'
  <2>1. /\ UNCHANGED <<preempt, asleep, cur>>
        /\ phase' = phase \/ phase' = [phase EXCEPT ![h] = "begin"]
    BY <1>5 DEF irq_enter, Tick, irq_exit, smp_ipi_main, set_hcpu_migrate, vmm_scheduler_set_hcpu,
                vcpuVars, cpuVars
  <2>2. /\ \A g \in Hcpu \ {h} : phase'[g] = phase[g]
        /\ phase'[h] \in {"dequeue", "lock"} => phase[h] \in {"dequeue", "lock"}
    BY <1>1, <2>1
  <2> QED BY <1>2, <2>1, <2>2
\* The current VCPU changes its own count or its place in a wait queue, outside
\* of the context switch.
<1>6. ASSUME NEW h \in Hcpu, phase[h] = "none", UNCHANGED cur,
             phase' = phase \/ phase' = [phase EXCEPT ![h] = "begin"],
             preempt' = preempt \/ \E n \in Nat : preempt' = [preempt EXCEPT ![cur[h]] = n],
             asleep' = asleep \/ \E b \in BOOLEAN : asleep' = [asleep EXCEPT ![cur[h]] = b]
      PROVE  LockedInv'
  <2>1. /\ preempt' \in [Vcpu -> Nat]
        /\ \A w \in Vcpu : w # cur[h] => preempt'[w] = preempt[w]
    BY <1>1, <1>6, SMT
  <2>2. /\ asleep' \in [Vcpu -> BOOLEAN]
        /\ \A w \in Vcpu : w # cur[h] => asleep'[w] = asleep[w]
    BY <1>1, <1>6
  <2>3. /\ \A g \in Hcpu \ {h} : phase'[g] = phase[g]
        /\ phase'[h] \notin {"dequeue", "lock"}
    BY <1>1, <1>6
  <2>4. /\ \A g \in Hcpu \ {h} : cur'[g] = cur[g] /\ phase'[g] = phase[g]
        /\ \A w \in Vcpu : w # cur[h] => preempt'[w] = preempt[w] /\ asleep'[w] = asleep[w]
        /\ phase'[h] \in {"dequeue", "lock"} /\ cur'[h] # None =>
             preempt'[cur'[h]] = IF asleep'[cur'[h]] THEN 1 ELSE 0
    BY <1>6, <2>1, <2>2, <2>3
  <2> HIDE <1>6
  <2> QED BY <2>1, <2>2, <2>4, LockedFrame
<1>7. ASSUME NEW h \in Hcpu,
             \/ \E v \in User, new \in SelfOps \cup OtherOps \cup {"READY"} : set_state(h, v, new)
             \/ vmm_scheduler_yield(h) \/ waitqueue_sleep(h)
             \/ \E v \in Sleepers \cup {IpiVcpu(h)} : waitqueue_wake(h, v)
      PROVE  LockedInv'
  <2>1. phase[h] = "none" /\ UNCHANGED cur
    BY <1>7 DEF set_state, vmm_scheduler_yield, waitqueue_sleep, waitqueue_wake, MayCall, Free, Executes
  <2>2. phase' = phase \/ phase' = [phase EXCEPT ![h] = "begin"]
    <3>1. \E v, new, held : state_change(h, v, new, held)
      BY <1>7 DEF set_state, vmm_scheduler_yield, waitqueue_sleep, waitqueue_wake
    <3> QED BY <3>1 DEF state_change, Preempt
  <2>3. CASE waitqueue_sleep(h)
    <3>1. /\ preempt' = preempt \/ (preempt[cur[h]] = 0 /\ preempt' = [preempt EXCEPT ![cur[h]] = @ + 1])
          /\ asleep' = asleep \/ asleep' = [asleep EXCEPT ![cur[h]] = TRUE]
      BY <2>3 DEF waitqueue_sleep, LockQueue
    <3>2. preempt' = preempt \/ preempt' = [preempt EXCEPT ![cur[h]] = 1]
      BY <1>1, <3>1, SMT
    <3> QED BY <1>6, <2>1, <2>2, <3>1, <3>2
  <2>4. CASE UNCHANGED <<preempt, asleep>>
    BY <1>6, <2>1, <2>2, <2>4
  <2>5. CASE UNCHANGED asleep /\ \E v : PreemptsItself(h, v, "READY") /\ LockQueue(cur[h], v)
    <3>1. cur[h] # None /\ preempt' = [preempt EXCEPT ![cur[h]] = preempt[cur[h]] + 1]
      BY <2>5 DEF PreemptsItself, LockQueue
    <3>2. preempt[cur[h]] + 1 \in Nat
      BY <1>1, <3>1, SMT
    <3> QED BY <1>6, <2>1, <2>2, <2>5, <3>1, <3>2
  <2> QED BY <1>7, <2>3, <2>4, <2>5 DEF set_state, vmm_scheduler_yield, waitqueue_wake
<1>8. ASSUME NEW h \in Hcpu,
             preempt_disable(h) \/ preempt_enable(h) \/ waitqueue_awake(h) \/ preempt_orphan_return(h)
      PROVE  LockedInv'
  <2>1. phase[h] = "none" /\ UNCHANGED <<cur, phase>>
    BY <1>8 DEF preempt_disable, preempt_enable, waitqueue_awake, preempt_orphan_return,
                Free, Executes, cpuVars
  <2>2. CASE waitqueue_awake(h)
    <3>1. preempt' = preempt /\ asleep' = [asleep EXCEPT ![cur[h]] = FALSE]
      BY <2>2 DEF waitqueue_awake
    <3> QED BY <1>6, <2>1, <3>1
  <2>3. CASE preempt_disable(h) \/ preempt_enable(h)
    <3>1. cur[h] \in Preempters /\ Preempters \subseteq Vcpu
      BY <2>3, SchedAssumption DEF preempt_disable, preempt_enable, Vcpu, Orphan
    <3>2. preempt[cur[h]] \in Nat
      BY <1>1, <3>1
    <3>3. asleep' = asleep /\ \E n \in Nat : preempt' = [preempt EXCEPT ![cur[h]] = n]
      BY <2>3, <3>2, CountStep DEF preempt_disable, preempt_enable
    <3> QED BY <1>6, <2>1, <3>3
  <2>4. CASE preempt_orphan_return(h)
    <3>1. /\ asleep' = asleep /\ cur[h] # None
          /\ preempt' = preempt \/ preempt' = [preempt EXCEPT ![cur[h]] = preempt[cur[h]] + 1]
      BY <2>4 DEF preempt_orphan_return, LockQueue
    <3>2. preempt[cur[h]] + 1 \in Nat
      BY <1>1, <3>1, SMT
    <3> QED BY <1>6, <2>1, <3>1, <3>2
  <2> QED BY <1>8, <2>2, <2>3, <2>4
<1>9. CASE Next
  BY <1>4, <1>5, <1>7, <1>8, <1>9, NextCases
<1>10. CASE UNCHANGED vars
  BY <1>10 DEF vars, vcpuVars, cpuVars, LockedInv, Preemptible, preempt_min
<1> QED BY <1>9, <1>10

\* vmm_scheduler_switch() never takes the host CPU from a VCPU that holds a
\* spinlock; the one it takes it from while it sleeps on a wait queue has exactly
\* the count of that queue's lock.  The count is read when the switch begins and
\* the VCPU is replaced two locks later: nobody has changed it in between.
THEOREM HoldersStay == Spec /\ Mode => StaysWhileDisabled
<1>1. Init => LockedInv
  BY SMT DEF Init, LockedInv
<1>2. ASSUME IInv, LockedInv, [Next]_vars, NEW h \in Hcpu, cur[h] # None, cur'[h] # cur[h]
      PROVE  preempt[cur[h]] = preempt_min(cur[h])
  <2>1. cur \in [Hcpu -> Vcpu \cup {None}]
    BY <1>2 DEF IInv, TypeInv
  <2>2. ASSUME NEW g \in Hcpu, Switch(g) PROVE g = h /\ phase[g] \in {"dequeue", "lock"}
    <3>1. CASE SwitchSame(g) \/ SwitchFinish(g)
      <4>1. phase[g] \in {"dequeue", "lock"} /\ \E n : cur' = [cur EXCEPT ![g] = n]
        BY <3>1 DEF SwitchSame, SwitchFinish, SwitchTo
      <4> QED BY <1>2, <2>1, <4>1
    <3>2. CASE SwitchBegin(g) \/ SwitchRefused(g) \/ SwitchDequeue(g) \/ SwitchRetry(g)
      BY <1>2, <3>2 DEF SwitchBegin, SwitchRefused, SwitchDequeue, SwitchRetry
    <3> QED BY <2>2, <3>1, <3>2 DEF Switch
  <2>3. ASSUME NEW g \in Hcpu,
               \/ \E context \in {"irq", "trap"} : irq_enter(g, context)
               \/ Tick(g) \/ irq_exit(g)
               \/ preempt_disable(g) \/ preempt_enable(g) \/ waitqueue_awake(g) \/ preempt_orphan_return(g)
               \/ vmm_scheduler_yield(g)
               \/ \E v \in Sleepers \cup {IpiVcpu(g)} : waitqueue_wake(g, v)
               \/ waitqueue_sleep(g)
               \/ \E v \in User, new \in SelfOps \cup OtherOps \cup {"READY"} : set_state(g, v, new)
               \/ \E v \in User, new \in Hcpu : vmm_scheduler_set_hcpu(g, v, new)
               \/ smp_ipi_main(g) \/ set_hcpu_migrate(g)
        PROVE  UNCHANGED cur
    BY <2>3 DEF irq_enter, Tick, irq_exit, preempt_disable, preempt_enable, waitqueue_awake,
                preempt_orphan_return, vmm_scheduler_yield, waitqueue_wake, waitqueue_sleep, set_state,
                vmm_scheduler_set_hcpu, smp_ipi_main, set_hcpu_migrate, cpuVars
  <2>4. CASE UNCHANGED vars
    BY <1>2, <2>4 DEF vars, cpuVars
  <2>5. CASE Next
    <3>1. phase[h] \in {"dequeue", "lock"}
      BY <1>2, <2>2, <2>3, <2>5, NextCases
    <3> QED BY <1>2, <3>1 DEF LockedInv, Preemptible
  <2> QED BY <1>2, <2>4, <2>5
<1>3. IInv /\ LockedInv /\ [Next]_vars =>
        [\A h \in Hcpu : cur[h] # None /\ cur'[h] # cur[h] => preempt[cur[h]] = preempt_min(cur[h])]_vars
  BY <1>2
<1> QED BY <1>1, <1>3, InitInv, NextStep, LockedStep, PTL DEF Spec, StaysWhileDisabled

-----------------------------------------------------------------------------
(* Sleeping                                                                *)

\* VCPUs are moved, or they are only started, run, give way, sleep and are woken.
Quiet == Changed => SelfOps = {} /\ OtherOps = {}

\* A thread that falls asleep holds the lock of its wait queue until it is switched
\* out, and who is not kicked yet does not run.
SleepInv ==
  /\ wq \in [Queues -> Vcpu \cup {None}]
  /\ \A v \in Vcpu : asleep[v] /\ preempt[v] # 0 => wq[QueueOf(v)] = v
  /\ \A v \in Vcpu : state[v] = "PAUSED" => asleep[v]
  /\ \A v \in User, h \in Hcpu : state[v] = "RESET" => cur[h] # v

LEMMA QueueOfType == \A v \in Vcpu : QueueOf(v) \in Queues
BY DEF QueueOf, Queues

LEMMA SleepFrame ==
  ASSUME SleepInv, UNCHANGED <<wq, asleep, cur>>,
         \A v \in Vcpu : asleep[v] /\ preempt'[v] # 0 => preempt[v] # 0,
         \A v \in Vcpu : state'[v] = state[v] \/ state'[v] \notin {"PAUSED", "RESET"}
  PROVE  SleepInv'
<1>1. \A v \in User : v \in Vcpu
  BY UserVcpu
<1> QED BY <1>1 DEF SleepInv

\* A thread that does not sleep takes the lock of a wait queue.
LEMMA SleepLock ==
  ASSUME SleepInv, UNCHANGED <<asleep, cur>>, NEW c \in Vcpu, NEW v, ~asleep[c],
         preempt \in [Vcpu -> Nat], QueueFree(v), LockQueue(c, v),
         \A w \in Vcpu : state'[w] = state[w] \/ state'[w] \notin {"PAUSED", "RESET"}
  PROVE  SleepInv'
<1>1. /\ wq' = [wq EXCEPT ![QueueOf(v)] = c] /\ wq[QueueOf(v)] = None
      /\ preempt' = [preempt EXCEPT ![c] = @ + 1]
      /\ QueueOf(v) \in Queues /\ None \notin Vcpu
  BY OwnVcpus DEF LockQueue, QueueFree, QueueOf, Queues
<1>2. wq' \in [Queues -> Vcpu \cup {None}]
  BY <1>1 DEF SleepInv
<1>3. ASSUME NEW w \in Vcpu, asleep[w], preempt'[w] # 0 PROVE wq'[QueueOf(w)] = w
  <2>1. preempt[w] # 0
    BY <1>1, <1>3
  <2>2. wq[QueueOf(w)] = w /\ QueueOf(w) \in Queues
    BY <1>3, <2>1, QueueOfType DEF SleepInv
  <2> QED BY <1>1, <2>2 DEF SleepInv
<1>4. \A w \in User : w \in Vcpu
  BY UserVcpu
<1> QED BY <1>2, <1>3, <1>4 DEF SleepInv

LEMMA SleepSwitchTo ==
  ASSUME IInv, QInv, SleepInv, NEW h \in Hcpu, NEW n \in Vcpu, SwitchTo(h, n),
         phase[h] \in {"dequeue", "lock"}
  PROVE  SleepInv'
<1> DEFINE c == cur[h]
<1>1. /\ UNCHANGED asleep
      /\ cur' = [cur EXCEPT ![h] = n] /\ state' = [state EXCEPT ![n] = "RUNNING"]
      /\ wq' = IF c # None /\ asleep[c] THEN [wq EXCEPT ![QueueOf(c)] = None] ELSE wq
      /\ preempt' = IF (c # None /\ asleep[c]) /\ preempt[c] > 0
                      THEN [preempt EXCEPT ![c] = @ - 1] ELSE preempt
  BY DEF SwitchTo
<1>2. /\ state \in [Vcpu -> States] /\ cur \in [Hcpu -> Vcpu \cup {None}]
      /\ preempt \in [Vcpu -> Nat] /\ wq \in [Queues -> Vcpu \cup {None}]
      /\ None \notin Vcpu
  BY OwnVcpus DEF IInv, TypeInv, QInv, CtxInv, CountTypes, SleepInv
<1>3. /\ \A v \in User, g \in Hcpu : state'[v] = "RESET" => cur'[g] # v
      /\ \A v \in Vcpu : state'[v] = "PAUSED" => asleep[v]
  <2>1. \A v \in Vcpu : state'[v] = IF v = n THEN "RUNNING" ELSE state[v]
    BY <1>1, <1>2
  <2>2. \A g \in Hcpu : cur'[g] = IF g = h THEN n ELSE cur[g]
    BY <1>1, <1>2
  <2> QED BY <2>1, <2>2, UserVcpu DEF SleepInv
<1>4. CASE c # None /\ asleep[c]
  <2>1. c \in Vcpu /\ QueueOf(c) \in Queues
    BY <1>2, <1>4, QueueOfType
  <2>2. preempt[c] = 1
    <3>1. state[c] # "RUNNING"
      BY <1>4 DEF IInv, SwitchInv
    <3> QED BY <1>4, <3>1 DEF QInv, CtxInv, PreInv, Preemptible, preempt_min
  <2>3. wq[QueueOf(c)] = c
    BY <1>4, <2>1, <2>2, SMT DEF SleepInv
  <2>4. wq' = [wq EXCEPT ![QueueOf(c)] = None] /\ preempt' = [preempt EXCEPT ![c] = 0]
    BY <1>1, <1>4, <2>2, SMT
  <2> HIDE DEF c
  <2>5. wq' \in [Queues -> Vcpu \cup {None}]
    BY <1>2, <2>1, <2>4
  <2>6. ASSUME NEW v \in Vcpu, asleep[v], preempt'[v] # 0 PROVE wq'[QueueOf(v)] = v
    <3>1. v # c /\ preempt[v] # 0
      BY <1>2, <2>1, <2>4, <2>6
    <3>2. wq[QueueOf(v)] = v /\ QueueOf(v) \in Queues
      BY <2>6, <3>1, QueueOfType DEF SleepInv
    <3> QED BY <1>2, <2>3, <2>4, <3>1, <3>2
  <2> QED BY <1>1, <1>3, <2>5, <2>6 DEF SleepInv
<1>5. CASE ~(c # None /\ asleep[c])
  <2>1. UNCHANGED <<wq, preempt>>
    BY <1>1, <1>5
  <2> QED BY <1>1, <1>3, <2>1 DEF SleepInv
<1> QED BY <1>4, <1>5

\* vmm_scheduler_state_change() without requests to stop.
LEMMA SleepState ==
  ASSUME IInv, NEW h \in Hcpu, NEW v \in Vcpu, NEW new, NEW held, state_change(h, v, new, held)
  PROVE  /\ \A w \in Vcpu \ {v} : state'[w] = state[w]
         /\ state'[v] \in {state[v], new}
BY DEF state_change, IInv, TypeInv

LEMMA SleepSleep ==
  ASSUME IInv, QInv, SleepInv, NEW h \in Hcpu, waitqueue_sleep(h)
  PROVE  SleepInv'
<1> DEFINE c == cur[h]
<1>1. c \in Vcpu /\ QueueOf(c) \in Queues
  <2>1. Sleepers \subseteq User
    BY SchedAssumption DEF User
  <2> QED BY <2>1, OwnVcpus, UserVcpu, QueueOfType DEF waitqueue_sleep
<1>2. /\ phase[h] = "none" /\ ctx[h] = "vcpu" /\ preempt[c] = 0
      /\ state_change(h, c, "PAUSED", FALSE) /\ wq[QueueOf(c)] = None
      /\ UNCHANGED cur
  BY DEF waitqueue_sleep, Free, Executes, QueueFree
<1>3. state[c] = "RUNNING" /\ hcpu[c] = h /\ c # None
  BY <1>1, <1>2, OwnVcpus DEF QInv, CtxInv, CurInv, IInv, HomeInv
<1>4. /\ \A w \in Vcpu \ {c} : state'[w] = state[w]
      /\ state'[c] = IF Changes(c, "PAUSED") THEN "PAUSED" ELSE state[c]
  BY <1>1, <1>2, StateFacts
<1>5. /\ preempt \in [Vcpu -> Nat] /\ asleep \in [Vcpu -> BOOLEAN]
      /\ wq \in [Queues -> Vcpu \cup {None}] /\ None \notin Vcpu
  BY OwnVcpus DEF QInv, CtxInv, CountTypes, SleepInv
<1>6. \A v \in User, g \in Hcpu : state'[v] = "RESET" => cur[g] # v
  BY <1>3, <1>4, UserVcpu DEF SleepInv
<1>7. CASE WantsPreempt(c, "PAUSED")
  <2>1. /\ wq' = [wq EXCEPT ![QueueOf(c)] = c]
        /\ asleep' = [asleep EXCEPT ![c] = TRUE]
        /\ preempt' = [preempt EXCEPT ![c] = @ + 1]
    BY <1>7 DEF waitqueue_sleep, LockQueue
  <2> HIDE DEF c
  <2>2. wq' \in [Queues -> Vcpu \cup {None}] /\ wq'[QueueOf(c)] = c
    BY <1>1, <1>5, <2>1
  <2>3. asleep'[c] /\ \A w \in Vcpu \ {c} : asleep'[w] = asleep[w] /\ preempt'[w] = preempt[w]
    BY <1>1, <1>5, <2>1
  <2>4. ASSUME NEW v \in Vcpu, asleep'[v], preempt'[v] # 0 PROVE wq'[QueueOf(v)] = v
    <3>1. CASE v = c
      BY <2>2, <3>1
    <3>2. CASE v # c
      <4>1. wq[QueueOf(v)] = v /\ QueueOf(v) \in Queues
        BY <2>3, <2>4, <3>2, QueueOfType DEF SleepInv
      <4> QED BY <1>2, <1>5, <2>1, <4>1 DEF c
    <3> QED BY <3>1, <3>2
  <2>5. \A v \in Vcpu : state'[v] = "PAUSED" => asleep'[v]
    BY <1>4, <2>3 DEF SleepInv
  <2> QED BY <1>2, <1>6, <2>2, <2>4, <2>5 DEF SleepInv
<1>8. CASE ~WantsPreempt(c, "PAUSED")
  <2>1. UNCHANGED <<wq, asleep, preempt>>
    BY <1>8 DEF waitqueue_sleep
  <2>2. ~Changes(c, "PAUSED")
    BY <1>3, <1>8 DEF WantsPreempt, IsCurrent
  <2> QED BY <1>2, <1>4, <2>1, <2>2, SleepFrame
<1> QED BY <1>7, <1>8

LEMMA SleepStep == IInv /\ QInv /\ RelockInv /\ SleepInv /\ Quiet /\ [Next]_vars => SleepInv'
<1> SUFFICES ASSUME IInv, QInv, RelockInv, SleepInv, Quiet, [Next]_vars PROVE SleepInv'
  OBVIOUS
<1>1. /\ preempt \in [Vcpu -> Nat] /\ asleep \in [Vcpu -> BOOLEAN]
      /\ state \in [Vcpu -> States] /\ cur \in [Hcpu -> Vcpu \cup {None}]
  BY DEF QInv, CtxInv, CountTypes, IInv, TypeInv
<1>2. ASSUME NEW h \in Hcpu, Switch(h) PROVE SleepInv'
  <2>1. CASE SwitchBegin(h)
    <3>1. /\ UNCHANGED <<wq, asleep, cur, preempt>>
          /\ state' = state \/ state' = [state EXCEPT ![cur[h]] = "READY"]
      BY <2>1 DEF SwitchBegin, RequeuedState
    <3>2. \A v \in Vcpu : state'[v] = state[v] \/ state'[v] = "READY"
      BY <1>1, <3>1
    <3> QED BY <3>1, <3>2, SleepFrame
  <2>2. CASE SwitchRefused(h) \/ SwitchDequeue(h)
    <3>1. UNCHANGED <<state, wq, asleep, cur, preempt>>
      BY <2>2 DEF SwitchRefused, SwitchDequeue, vcpuVars
    <3> QED BY <3>1, SleepFrame
  <2>3. CASE SwitchSame(h)
    <3>1. PICK i \in DOMAIN rq[h] : SwitchTo(h, rq[h][i])
      BY <2>3 DEF SwitchSame
    <3>2. rq[h][i] \in Vcpu /\ phase[h] = "dequeue"
      BY <2>3, SMT DEF IInv, TypeInv, SwitchSame
    <3> QED BY <3>1, <3>2, SleepSwitchTo
  <2>4. CASE SwitchFinish(h)
    <3>1. nxt[h] \in Vcpu /\ SwitchTo(h, nxt[h]) /\ phase[h] = "lock"
      BY <2>4, SMT DEF SwitchFinish, IInv, TypeInv, SwitchInv
    <3> QED BY <3>1, SleepSwitchTo
  <2> QED BY <1>2, <2>1, <2>2, <2>3, <2>4, NoRetry DEF Switch, QInv
<1>3. ASSUME NEW h \in Hcpu,
             \/ \E context \in {"irq", "trap"} : irq_enter(h, context)
             \/ Tick(h) \/ irq_exit(h) \/ smp_ipi_main(h) \/ set_hcpu_migrate(h)
             \/ \E v \in User, new \in Hcpu : vmm_scheduler_set_hcpu(h, v, new)
      PROVE  SleepInv'
  <2>1. UNCHANGED <<state, wq, asleep, cur, preempt>>
    BY <1>3 DEF irq_enter, Tick, irq_exit, smp_ipi_main, set_hcpu_migrate,
                vmm_scheduler_set_hcpu, vcpuVars, cpuVars
  <2> QED BY <2>1, SleepFrame
<1>4. ASSUME NEW h \in Hcpu, preempt_disable(h) \/ preempt_enable(h) PROVE SleepInv'
  <2>1. cur[h] \in Preempters /\ Preempters \subseteq Vcpu
    BY <1>4, SchedAssumption DEF preempt_disable, preempt_enable, Vcpu, Orphan
  <2>2. /\ UNCHANGED <<state, wq, asleep, cur>>
        /\ ~asleep[cur[h]]
        /\ \E k : preempt' = [preempt EXCEPT ![cur[h]] = k]
    BY <1>4, <2>1, OwnVcpus DEF preempt_disable, preempt_enable, Free, Executes, cpuVars
  <2>3. \A v \in Vcpu : v # cur[h] => preempt'[v] = preempt[v]
    BY <1>1, <2>2
  <2> QED BY <2>2, <2>3, SleepFrame
<1>5. ASSUME NEW h \in Hcpu, waitqueue_awake(h) PROVE SleepInv'
  <2>1. /\ UNCHANGED <<state, wq, cur, preempt>>
        /\ asleep' = [asleep EXCEPT ![cur[h]] = FALSE]
        /\ cur[h] # None /\ phase[h] = "none" /\ ctx[h] = "vcpu"
    BY <1>5 DEF waitqueue_awake, cpuVars
  <2>2. state[cur[h]] = "RUNNING"
    BY <2>1 DEF QInv, CtxInv, CurInv
  <2>3. \A v \in Vcpu : /\ asleep'[v] => asleep[v]
                        /\ v # cur[h] => asleep'[v] = asleep[v]
    BY <1>1, <2>1
  <2> QED BY <2>1, <2>2, <2>3 DEF SleepInv
<1>6. ASSUME NEW h \in Hcpu,
             \/ \E v \in User, new \in SelfOps \cup OtherOps \cup {"READY"} : set_state(h, v, new)
             \/ vmm_scheduler_yield(h)
             \/ \E v \in Sleepers \cup {IpiVcpu(h)} : waitqueue_wake(h, v)
      PROVE  SleepInv'
  <2>1. UNCHANGED <<asleep, cur>>
    BY <1>6 DEF set_state, vmm_scheduler_yield, waitqueue_wake
  <2>2. \E v \in Vcpu, held \in BOOLEAN : state_change(h, v, "READY", held)
    <3>1. CASE \E v \in User, new \in SelfOps \cup OtherOps \cup {"READY"} : set_state(h, v, new)
      <4>1. PICK v \in User, new \in SelfOps \cup OtherOps \cup {"READY"} : set_state(h, v, new)
        BY <3>1
      <4>2. new = "READY"
        BY <4>1 DEF set_state, Quiet
      <4> QED BY <4>1, <4>2, UserVcpu DEF set_state
    <3>2. CASE vmm_scheduler_yield(h)
      <4>1. cur[h] \in Vcpu
        BY <3>2, OwnVcpus, UserVcpu DEF vmm_scheduler_yield, User
      <4> QED BY <3>2, <4>1 DEF vmm_scheduler_yield
    <3>3. CASE \E v \in Sleepers \cup {IpiVcpu(h)} : waitqueue_wake(h, v)
      <4>1. Sleepers \cup {IpiVcpu(h)} \subseteq Vcpu
        BY OwnVcpus, UserVcpu, SchedAssumption DEF User
      <4> QED BY <3>3, <4>1 DEF waitqueue_wake
    <3> QED BY <1>6, <3>1, <3>2, <3>3
  <2>3. \A v \in Vcpu : state'[v] = state[v] \/ state'[v] = "READY"
    BY <2>2, SleepState
  <2>4. CASE UNCHANGED <<wq, preempt>>
    BY <2>1, <2>3, <2>4, SleepFrame
  <2>5. CASE /\ cur[h] \in Vcpu /\ ~asleep[cur[h]]
             /\ \E v : QueueFree(v) /\ LockQueue(cur[h], v)
    BY <1>1, <2>1, <2>3, <2>5, SleepLock
  <2> QED BY <1>6, <2>4, <2>5, WakeFacts DEF set_state, vmm_scheduler_yield
<1>7. ASSUME NEW h \in Hcpu, preempt_orphan_return(h) PROVE SleepInv'
  <2>1. UNCHANGED <<state, asleep, cur>> /\ cur[h] # None /\ relock[cur[h]] # None
    BY <1>7 DEF preempt_orphan_return, cpuVars
  <2>2. cur[h] \in Vcpu /\ ~asleep[cur[h]]
    BY <1>1, <2>1 DEF RelockInv
  <2>3. CASE UNCHANGED <<wq, preempt>>
    BY <2>1, <2>3, SleepFrame
  <2>4. CASE QueueFree(relock[cur[h]]) /\ LockQueue(cur[h], relock[cur[h]])
    BY <1>1, <2>1, <2>2, <2>4, SleepLock
  <2> QED BY <1>7, <2>3, <2>4 DEF preempt_orphan_return
<1>8. CASE Next
  BY <1>2, <1>3, <1>4, <1>5, <1>6, <1>7, <1>8, NextCases, SleepSleep
<1>9. CASE UNCHANGED vars
  <2>1. UNCHANGED <<state, wq, asleep, cur, preempt>>
    BY <1>9 DEF vars, vcpuVars, cpuVars
  <2> QED BY <2>1, SleepFrame
<1> QED BY <1>8, <1>9

-----------------------------------------------------------------------------
(* Registers                                                               *)

\* The registers in memory are the newest exactly for the VCPUs that are not
\* current, and those of the current one are going to be saved when it is switched
\* out.
SaveInv ==
  /\ saved \in [Vcpu -> BOOLEAN]
  /\ save \in [Hcpu -> BOOLEAN]
  /\ \A v \in Vcpu : saved[v] <=> \A h \in Hcpu : cur[h] # v
  /\ \A h \in Hcpu : cur[h] # None =>
       IF phase[h] \in {"dequeue", "lock"} THEN save[h] ELSE state[cur[h]] \in Saveable
  /\ lost = {}

\* Steps that keep the registers and make no current VCPU READY.
LEMMA SaveFrame ==
  ASSUME SaveInv, UNCHANGED <<saved, save, cur, lost>>,
         \A h \in Hcpu : phase'[h] \in {"dequeue", "lock"} <=> phase[h] \in {"dequeue", "lock"},
         \A h \in Hcpu : cur[h] # None /\ phase[h] \notin {"dequeue", "lock"}
                           => state'[cur[h]] \in {state[cur[h]], "PAUSED"}
  PROVE  SaveInv'
BY SMT DEF SaveInv, Saveable

\* A VCPU that is resumed is either still RUNNING or not current: the lock of the
\* wait queue keeps a thread from being woken before it is switched out.
LEMMA SaveCall ==
  ASSUME IInv, QInv, SleepInv, SaveInv, Quiet, NEW h \in Hcpu,
         \/ \E v \in User, new \in SelfOps \cup OtherOps \cup {"READY"} : set_state(h, v, new)
         \/ vmm_scheduler_yield(h) \/ waitqueue_sleep(h)
         \/ \E v \in Sleepers \cup {IpiVcpu(h)} : waitqueue_wake(h, v)
  PROVE  SaveInv'
<1>1. /\ phase[h] = "none" /\ UNCHANGED <<save, cur, lost>>
      /\ \E v, new, held : state_change(h, v, new, held)
  BY DEF set_state, vmm_scheduler_yield, waitqueue_sleep, waitqueue_wake, MayCall, Free, Executes
<1>2. /\ state \in [Vcpu -> States] /\ cur \in [Hcpu -> Vcpu \cup {None}]
      /\ phase \in [Hcpu -> {"none", "begin", "dequeue", "lock"}]
      /\ saved \in [Vcpu -> BOOLEAN] /\ None \notin Vcpu
  BY OwnVcpus DEF IInv, TypeInv, SaveInv
<1>3. \A g \in Hcpu : phase'[g] \in {"dequeue", "lock"} <=> phase[g] \in {"dequeue", "lock"}
  <2>1. phase' = phase \/ phase' = [phase EXCEPT ![h] = "begin"]
    BY <1>1 DEF state_change, Preempt
  <2> QED BY <1>1, <1>2, <2>1
<1>4. ASSUME NEW v \in Vcpu, NEW new \in {"READY", "PAUSED"}, NEW held, state_change(h, v, new, held)
      PROVE  /\ UNCHANGED saved
             /\ \A w \in Vcpu \ {v} : state'[w] = state[w]
             /\ state'[v] = IF Changes(v, new) THEN new ELSE state[v]
  <2>1. saved' = [saved EXCEPT ![v] = saved[v]]
    BY <1>2, <1>4 DEF state_change
  <2>2. saved' = saved
    BY <1>2, <2>1
  <2> QED BY <1>2, <1>4, <2>2 DEF state_change
<1>5. CASE waitqueue_sleep(h)
  <2>1. cur[h] \in Vcpu
    <3>1. Sleepers \subseteq User
      BY SchedAssumption DEF User
    <3> QED BY <1>5, <3>1, UserVcpu, OwnVcpus DEF waitqueue_sleep
  <2>2. state_change(h, cur[h], "PAUSED", FALSE)
    BY <1>5 DEF waitqueue_sleep
  <2>3. UNCHANGED saved /\ \A w \in Vcpu : state'[w] \in {state[w], "PAUSED"}
    BY <1>4, <2>1, <2>2
  <2> QED BY <1>1, <1>2, <1>3, <2>3, SaveFrame
<1>6. ASSUME NEW v \in Vcpu, NEW held, state_change(h, v, "READY", held),
             \A g \in Hcpu : cur[g] = v /\ phase[g] \notin {"dequeue", "lock"}
                               => state[v] \notin {"PAUSED", "RESET"}
      PROVE  SaveInv'
  <2>1. /\ UNCHANGED saved
        /\ \A w \in Vcpu \ {v} : state'[w] = state[w]
        /\ state'[v] = IF Changes(v, "READY") THEN "READY" ELSE state[v]
    BY <1>4, <1>6
  <2>2. state[v] \notin {"PAUSED", "RESET"} => state'[v] = state[v]
    BY <1>2, <2>1 DEF Changes, Skipped, Invalid, States
  <2>3. \A g \in Hcpu : cur[g] # None /\ phase[g] \notin {"dequeue", "lock"}
                          => state'[cur[g]] = state[cur[g]]
    BY <1>2, <1>6, <2>1, <2>2
  <2> QED BY <1>1, <1>3, <2>1, <2>3, SaveFrame
<1>7. CASE vmm_scheduler_yield(h)
  <2>1. cur[h] \in Vcpu
    BY <1>7, OwnVcpus, UserVcpu DEF vmm_scheduler_yield, User
  <2>2. state_change(h, cur[h], "READY", FALSE) /\ state[cur[h]] = "RUNNING"
    BY <1>7 DEF vmm_scheduler_yield
  <2> QED BY <1>6, <2>1, <2>2
<1>8. CASE \E v \in User, new \in SelfOps \cup OtherOps \cup {"READY"} : set_state(h, v, new)
  <2>1. PICK v \in User : state_change(h, v, "READY", FALSE) /\ state[v] = "RESET"
    BY <1>8 DEF set_state, Quiet
  <2>2. v \in Vcpu /\ \A g \in Hcpu : cur[g] # v
    BY <2>1, UserVcpu DEF SleepInv
  <2> QED BY <1>6, <2>1, <2>2
<1>9. CASE \E v \in Sleepers \cup {IpiVcpu(h)} : waitqueue_wake(h, v)
  <2>1. PICK v \in Vcpu : waitqueue_wake(h, v)
    <3>1. Sleepers \cup {IpiVcpu(h)} \subseteq Vcpu
      BY OwnVcpus, UserVcpu, SchedAssumption DEF User
    <3> QED BY <1>9, <3>1
  <2>2. state_change(h, v, "READY", TRUE) /\ asleep[v] /\ wq[QueueOf(v)] # v
    BY <1>2, <2>1 DEF waitqueue_wake, QueueFree
  <2>3. preempt[v] = 0
    BY <2>2 DEF SleepInv
  <2>4. ASSUME NEW g \in Hcpu, cur[g] = v, phase[g] \notin {"dequeue", "lock"}
        PROVE  state[v] \notin {"PAUSED", "RESET"}
    <3>1. state[v] = "RUNNING"
      <4>1. v # None /\ ~Preemptible(v)
        BY <1>2, <2>2, <2>3, SMT DEF Preemptible, preempt_min
      <4> QED BY <2>4, <4>1 DEF QInv, CtxInv, PreInv
    <3> QED BY <3>1
  <2> QED BY <1>6, <2>1, <2>2, <2>4
<1> QED BY <1>5, <1>7, <1>8, <1>9

LEMMA SaveBegin ==
  ASSUME IInv, SaveInv, NEW h \in Hcpu, SwitchBegin(h)
  PROVE  SaveInv'
<1>1. /\ UNCHANGED <<saved, cur, lost>>
      /\ phase[h] = "begin" /\ phase' = [phase EXCEPT ![h] = "dequeue"]
      /\ \E b \in BOOLEAN : /\ save' = [save EXCEPT ![h] = b]
                            /\ cur[h] # None => (b <=> state[cur[h]] \in Saveable)
      /\ \A v \in Vcpu : state'[v] = state[v] \/ v = cur[h]
  <2>1. \E b \in BOOLEAN : /\ save' = [save EXCEPT ![h] = b]
                           /\ cur[h] # None => (b <=> state[cur[h]] \in Saveable)
    <3>1. CASE cur[h] = None
      BY <3>1 DEF SwitchBegin
    <3>2. CASE cur[h] # None
      <4>1. save' = [save EXCEPT ![h] = state[cur[h]] \in Saveable]
        BY <3>2 DEF SwitchBegin
      <4>2. CASE state[cur[h]] \in Saveable
        <5>1. (state[cur[h]] \in Saveable) = TRUE
          BY <4>2
        <5>2. save' = [save EXCEPT ![h] = TRUE]
          BY <4>1, <5>1
        <5> QED BY <4>2, <5>2
      <4>3. CASE state[cur[h]] \notin Saveable
        <5>1. (state[cur[h]] \in Saveable) = FALSE
          BY <4>3, SMT
        <5>2. save' = [save EXCEPT ![h] = FALSE]
          BY <4>1, <5>1
        <5> QED BY <4>3, <5>2
      <4> QED BY <4>2, <4>3
    <3> QED BY <3>1, <3>2
  <2>2. \A v \in Vcpu : state'[v] = state[v] \/ v = cur[h]
    BY DEF SwitchBegin, IInv, TypeInv
  <2> QED BY <2>1, <2>2 DEF SwitchBegin
<1>2. /\ saved \in [Vcpu -> BOOLEAN] /\ save \in [Hcpu -> BOOLEAN]
      /\ phase \in [Hcpu -> {"none", "begin", "dequeue", "lock"}]
  BY DEF SaveInv, IInv, TypeInv
<1>3. /\ phase'[h] = "dequeue" /\ (cur[h] # None => (save'[h] <=> state[cur[h]] \in Saveable))
      /\ \A g \in Hcpu \ {h} : phase'[g] = phase[g] /\ save'[g] = save[g]
      /\ save' \in [Hcpu -> BOOLEAN]
  BY <1>1, <1>2
<1>4. \A g \in Hcpu \ {h} : cur[g] # None => state'[cur[g]] = state[cur[g]]
  <2>1. \A g \in Hcpu \ {h} : cur[g] # None => cur[g] \in Vcpu /\ cur[g] # cur[h]
    BY CurFacts
  <2> QED BY <1>1, <2>1
<1>5. ASSUME NEW g \in Hcpu, cur[g] # None
      PROVE  IF phase'[g] \in {"dequeue", "lock"} THEN save'[g] ELSE state'[cur[g]] \in Saveable
  <2>1. IF phase[g] \in {"dequeue", "lock"} THEN save[g] ELSE state[cur[g]] \in Saveable
    BY <1>5 DEF SaveInv
  <2>2. CASE g = h
    BY <1>1, <1>3, <1>4, <1>5, <2>1, <2>2
  <2>3. CASE g # h
    BY <1>1, <1>3, <1>4, <1>5, <2>1, <2>3
  <2> QED BY <2>2, <2>3
<1> QED BY <1>1, <1>2, <1>3, <1>5, SMT DEF SaveInv

LEMMA SaveSwitchTo ==
  ASSUME IInv, SaveInv, NEW h \in Hcpu, NEW n \in Vcpu, SwitchTo(h, n), hcpu[n] = h,
         saved' \in [Vcpu -> BOOLEAN], lost' = {}, ~saved'[n],
         \A v \in Vcpu \ {n} : saved'[v] <=> saved[v] \/ v = cur[h]
  PROVE  SaveInv'
<1>1. /\ UNCHANGED save
      /\ cur' = [cur EXCEPT ![h] = n] /\ state' = [state EXCEPT ![n] = "RUNNING"]
      /\ phase' = [phase EXCEPT ![h] = "none"]
  BY DEF SwitchTo, Return
<1>2. /\ state \in [Vcpu -> States] /\ cur \in [Hcpu -> Vcpu \cup {None}]
      /\ phase \in [Hcpu -> {"none", "begin", "dequeue", "lock"}]
      /\ save \in [Hcpu -> BOOLEAN]
  BY DEF IInv, TypeInv, SaveInv
<1>3. /\ cur'[h] = n /\ phase'[h] = "none" /\ state'[n] = "RUNNING"
      /\ \A g \in Hcpu \ {h} : cur'[g] = cur[g] /\ phase'[g] = phase[g]
      /\ \A v \in Vcpu \ {n} : state'[v] = state[v]
  BY <1>1, <1>2
<1>4. \A g \in Hcpu \ {h} : cur[g] # None => cur[g] \in Vcpu \ {n} /\ cur[g] # cur[h]
  BY CurFacts
<1>5. ASSUME NEW v \in Vcpu PROVE saved'[v] <=> \A g \in Hcpu : cur'[g] # v
  <2>1. CASE v = n
    BY <1>3, <2>1
  <2>2. CASE v # n
    <3>1. saved[v] <=> \A g \in Hcpu : cur[g] # v
      BY DEF SaveInv
    <3>2. v = cur[h] => \A g \in Hcpu \ {h} : cur[g] # v
      BY <1>4, OwnVcpus
    <3> QED BY <1>3, <2>2, <3>1, <3>2
  <2> QED BY <2>1, <2>2
<1>6. ASSUME NEW g \in Hcpu, cur'[g] # None
      PROVE  IF phase'[g] \in {"dequeue", "lock"} THEN save[g] ELSE state'[cur'[g]] \in Saveable
  <2>1. CASE g = h
    BY <1>3, <2>1 DEF Saveable
  <2>2. CASE g # h
    <3>1. cur'[g] = cur[g] /\ phase'[g] = phase[g] /\ state'[cur[g]] = state[cur[g]]
      BY <1>3, <1>4, <1>6, <2>2
    <3> QED BY <1>6, <3>1 DEF SaveInv
  <2> QED BY <2>1, <2>2
<1> QED BY <1>1, <1>2, <1>5, <1>6 DEF SaveInv

LEMMA SaveSwitch ==
  ASSUME IInv, QInv, SaveInv, NEW h \in Hcpu, Switch(h)
  PROVE  SaveInv'
<1>1. /\ saved \in [Vcpu -> BOOLEAN] /\ lost = {}
      /\ phase \in [Hcpu -> {"none", "begin", "dequeue", "lock"}]
      /\ cur \in [Hcpu -> Vcpu \cup {None}] /\ None \notin Vcpu
  BY OwnVcpus DEF SaveInv, IInv, TypeInv
<1>2. CASE SwitchBegin(h)
  BY <1>2, SaveBegin
<1>3. CASE SwitchRefused(h) \/ SwitchDequeue(h)
  <2>1. /\ UNCHANGED <<state, saved, save, cur, lost>>
        /\ \/ phase' = phase
           \/ phase[h] = "begin" /\ phase' = [phase EXCEPT ![h] = "none"]
           \/ phase[h] = "dequeue" /\ phase' = [phase EXCEPT ![h] = "lock"]
    BY <1>3 DEF SwitchRefused, SwitchDequeue, Return, vcpuVars
  <2>2. \A g \in Hcpu : phase'[g] \in {"dequeue", "lock"} <=> phase[g] \in {"dequeue", "lock"}
    BY <1>1, <2>1
  <2> QED BY <2>1, <2>2, SaveFrame
<1>4. CASE SwitchSame(h)
  <2>1. PICK i \in DOMAIN rq[h] :
          LET n == rq[h][i] IN
          /\ n = cur[h]
          /\ lost' = IF saved[n] THEN lost \cup {n} ELSE lost
          /\ saved' = [saved EXCEPT ![n] = FALSE]
          /\ SwitchTo(h, n)
    BY <1>4 DEF SwitchSame
  <2> DEFINE n == rq[h][i]
  <2>2. n \in Vcpu /\ n = cur[h] /\ SwitchTo(h, n)
    BY <2>1, SMT DEF IInv, TypeInv
  <2>3. hcpu[n] = h /\ ~saved[n]
    <3>1. hcpu[n] = h
      BY <2>2, OwnVcpus DEF IInv, HomeInv
    <3>2. ~saved[n]
      BY <2>2 DEF SaveInv
    <3> QED BY <3>1, <3>2
  <2>4. lost' = {} /\ saved' = [saved EXCEPT ![n] = FALSE]
    BY <1>1, <2>1, <2>3
  <2> HIDE DEF n
  <2>5. /\ saved' \in [Vcpu -> BOOLEAN] /\ ~saved'[n]
        /\ \A v \in Vcpu \ {n} : saved'[v] <=> saved[v] \/ v = cur[h]
    BY <1>1, <2>2, <2>4
  <2> QED BY <2>2, <2>3, <2>4, <2>5, SaveSwitchTo
<1>5. CASE SwitchFinish(h)
  <2> DEFINE n == nxt[h]
  <2>1. /\ n \in Vcpu /\ hcpu[n] = h /\ SwitchTo(h, n) /\ n # cur[h] /\ phase[h] = "lock"
    BY <1>5, FinishFacts
  <2>2. saved[n]
    <3>1. \A g \in Hcpu : cur[g] # n
      BY <1>1, <2>1 DEF IInv, HomeInv
    <3> QED BY <2>1, <3>1 DEF SaveInv
  <2>3. lost' = {}
    BY <1>1, <1>5, <2>2 DEF SwitchFinish
  <2>4. cur[h] # None => save[h]
    BY <2>1 DEF SaveInv
  <2>5. saved' = [v \in Vcpu |-> IF v = n THEN FALSE ELSE (v = cur[h] /\ save[h]) \/ saved[v]]
    BY <1>5 DEF SwitchFinish
  <2> HIDE DEF n
  <2>6. saved' \in [Vcpu -> BOOLEAN]
    <3>1. save[h] \in BOOLEAN
      BY DEF SaveInv
    <3> QED BY <1>1, <2>5, <3>1
  <2>7. ~saved'[n] /\ \A v \in Vcpu \ {n} : saved'[v] <=> saved[v] \/ v = cur[h]
    BY <1>1, <2>1, <2>4, <2>5
  <2> QED BY <2>1, <2>3, <2>6, <2>7, SaveSwitchTo
<1> QED BY <1>2, <1>3, <1>4, <1>5, NoRetry DEF Switch, QInv

LEMMA SaveStep == IInv /\ QInv /\ SleepInv /\ SaveInv /\ Quiet /\ [Next]_vars => SaveInv'
<1> SUFFICES ASSUME IInv, QInv, SleepInv, SaveInv, Quiet, [Next]_vars PROVE SaveInv'
  OBVIOUS
<1>1. ASSUME NEW h \in Hcpu,
             \/ \E context \in {"irq", "trap"} : irq_enter(h, context)
             \/ Tick(h) \/ irq_exit(h)
             \/ preempt_disable(h) \/ preempt_enable(h) \/ waitqueue_awake(h) \/ preempt_orphan_return(h)
             \/ smp_ipi_main(h) \/ set_hcpu_migrate(h)
             \/ \E v \in User, new \in Hcpu : vmm_scheduler_set_hcpu(h, v, new)
      PROVE  SaveInv'
  <2>1. /\ UNCHANGED <<state, saved, save, cur, lost>>
        /\ phase' = phase \/ (phase[h] = "none" /\ phase' = [phase EXCEPT ![h] = "begin"])
    BY <1>1 DEF irq_enter, Tick, irq_exit, preempt_disable, preempt_enable, waitqueue_awake,
                preempt_orphan_return, smp_ipi_main, set_hcpu_migrate, vmm_scheduler_set_hcpu, vcpuVars, cpuVars
  <2>2. \A g \in Hcpu : phase'[g] \in {"dequeue", "lock"} <=> phase[g] \in {"dequeue", "lock"}
    BY <2>1 DEF IInv, TypeInv
  <2> QED BY <2>1, <2>2, SaveFrame
<1>2. CASE Next
  BY <1>1, <1>2, NextCases, SaveSwitch, SaveCall
<1>3. CASE UNCHANGED vars
  <2>1. UNCHANGED <<state, saved, save, cur, lost, phase>>
    BY <1>3 DEF vars, vcpuVars, cpuVars
  <2> QED BY <2>1, SaveFrame
<1> QED BY <1>2, <1>3

LEMMA RegisterInvariant ==
  Spec /\ Mode => [](IInv /\ (Quiet => QInv /\ RelockInv /\ SleepInv /\ SaveInv))
<1> DEFINE J == Quiet => QInv /\ RelockInv /\ SleepInv /\ SaveInv
<1>1. Init => J
  <2> SUFFICES ASSUME Init PROVE SleepInv /\ SaveInv
    BY QueueInit, RelockInit DEF J
  <2>1. SleepInv
    <3>1. None \notin User
      BY UserVcpu, OwnVcpus
    <3> QED BY <3>1, UserVcpu DEF Init, SleepInv
  <2>2. SaveInv
    BY OwnVcpus DEF Init, SaveInv
  <2> QED BY <2>1, <2>2
<1>2. IInv /\ J /\ [Next]_vars => J'
  <2> SUFFICES ASSUME IInv, J, [Next]_vars, Quiet'
               PROVE  QInv' /\ RelockInv' /\ SleepInv' /\ SaveInv'
    BY DEF J
  <2>1. Quiet
    BY MoversKept DEF Quiet, Changed
  <2>2. Requests
    BY <2>1 DEF Requests, Quiet
  <2> QED BY <2>1, <2>2, QueueStep, RelockStep, SleepStep, SaveStep DEF J
<1> HIDE DEF J
<1>3. Spec /\ Mode => [](IInv /\ J)
  BY <1>1, <1>2, InitInv, NextStep, PTL DEF Spec
<1> QED BY <1>3 DEF J

\* However vmm_scheduler_set_hcpu() moves VCPUs while they run, give way and are
\* started, none goes on with other registers than the ones it was switched out
\* with: arch_vcpu_switch() on the old host CPU has saved them before the new one
\* can dequeue the VCPU.  Nothing is assumed of what threads ask for.
THEOREM MovedRegistersKept == Spec /\ Mode => []MovedIntact
<1>1. IInv /\ (Quiet => QInv /\ RelockInv /\ SleepInv /\ SaveInv) => MovedIntact
  BY DEF IInv, Mode, Quiet, SaveInv, MovedIntact
<1> QED BY <1>1, RegisterInvariant, PTL

\* The same when threads sleep on wait queues and are woken by others while they
\* are being switched out: the lock of the wait queue, which the sleeper holds
\* until the switch is over, orders the wakeup after arch_vcpu_switch().
THEOREM SleepersKeepRegisters == Spec /\ Mode /\ Quiet => []ContextIntact
<1>1. Quiet /\ movers' = movers => Quiet'
  BY DEF Quiet, Changed
<1>2. Spec /\ Mode /\ Quiet => []Quiet
  BY <1>1, InitInv, NextStep, MoversKept, PTL DEF Spec
<1>3. IInv /\ (Quiet => QInv /\ RelockInv /\ SleepInv /\ SaveInv) /\ Quiet => ContextIntact
  BY DEF SaveInv, ContextIntact
<1> QED BY <1>2, <1>3, RegisterInvariant, PTL

=============================================================================
