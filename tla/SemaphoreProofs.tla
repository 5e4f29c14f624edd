-------------------------- MODULE SemaphoreProofs --------------------------
(***************************************************************************)
(* Units are neither lost nor invented, no wakeup is lost, and destroyed   *)
(* threads hold nothing, for any set of threads, any limit and initial     *)
(* value, and whoever releases.                                            *)
(***************************************************************************)
EXTENDS Semaphore, FiniteSetTheorems, TLAPS

TypeInv ==
  /\ WqTypeOK
  /\ value \in 0 .. Limit
  /\ resList \in Seq(Thread)
  /\ count \in [Thread -> Nat]

\* A thread that was reset never runs again, so it acquires nothing.
ResetInv ==
  \A t \in Thread : stage[t] \in {"reset", "popped", "dead"} => st[t] = "RESET"

\* The units that are held are finitely many, and none has a number above the
\* limit; this also when a crash has stopped everything.
HeldInv == IsFiniteSet(Held) /\ \A t \in Thread : count[t] <= Limit

IInv ==
  /\ TypeInv
  /\ ResourcesCharged
  /\ HeldInv
  /\ Conserved
  /\ NoLostWakeup
  /\ DeadHoldsNothing
  /\ ResetInv

-----------------------------------------------------------------------------
(* The list of resources                                                   *)

\* list_del() takes out the one entry of the thread and keeps the others.
LEMMA DelEntries ==
  ASSUME TypeInv, ResourcesCharged, NEW t \in Thread, HasResource(t)
  PROVE  /\ list_del(t) \in Seq(Thread)
         /\ \A i, j \in DOMAIN list_del(t) : list_del(t)[i] = list_del(t)[j] => i = j
         /\ \A u \in Thread : (\E i \in DOMAIN list_del(t) : list_del(t)[i] = u)
                                <=> HasResource(u) /\ u # t
<1> DEFINE n == CHOOSE i \in DOMAIN resList : resList[i] = t
           q == [j \in 1 .. Len(resList) - 1 |-> resList[IF j < n THEN j ELSE j + 1]]
<1>1. list_del(t) = q
  BY DEF list_del
<1>2. n \in DOMAIN resList /\ resList[n] = t
  BY DEF HasResource
<1>3. /\ Len(resList) \in Nat /\ DOMAIN resList = 1 .. Len(resList)
      /\ \A i \in 1 .. Len(resList) : resList[i] \in Thread
      /\ \A i, j \in 1 .. Len(resList) : resList[i] = resList[j] => i = j
  BY DEF TypeInv, ResourcesCharged
<1> HIDE DEF n
<1>4. n \in 1 .. Len(resList)
  BY <1>2, <1>3
<1>5. DOMAIN q = 1 .. Len(resList) - 1 /\ Len(resList) - 1 \in Nat
  BY <1>3, <1>4
<1>6. \A j \in 1 .. Len(resList) - 1 :
         q[j] = resList[IF j < n THEN j ELSE j + 1] /\ q[j] \in Thread
  BY <1>3, <1>4
<1>7. q \in Seq(Thread)
  BY <1>5, <1>6
<1>8. \A i, j \in DOMAIN q : q[i] = q[j] => i = j
  BY <1>3, <1>4, <1>5, <1>6
<1>9. ASSUME NEW u \in Thread
      PROVE  (\E i \in DOMAIN q : q[i] = u) <=> HasResource(u) /\ u # t
  <2>1. ASSUME NEW i \in DOMAIN q, q[i] = u
        PROVE  HasResource(u) /\ u # t
    <3>1. (IF i < n THEN i ELSE i + 1) \in 1 .. Len(resList) /\ (IF i < n THEN i ELSE i + 1) # n
      BY <1>4, <1>5
    <3> QED
      BY <1>2, <1>3, <1>4, <1>5, <1>6, <2>1, <3>1 DEF HasResource
  <2>2. ASSUME NEW k \in DOMAIN resList, resList[k] = u, u # t
        PROVE  \E i \in DOMAIN q : q[i] = u
    <3>1. k # n /\ k \in 1 .. Len(resList)
      BY <1>2, <1>3, <2>2
    <3>2. CASE k < n
      <4>1. k \in DOMAIN q /\ q[k] = resList[k]
        BY <1>3, <1>4, <1>5, <1>6, <3>1, <3>2
      <4> QED
        BY <2>2, <4>1
    <3>3. CASE k > n
      <4>1. k - 1 \in 1 .. Len(resList) - 1 /\ ~(k - 1 < n) /\ (k - 1) + 1 = k
        BY <1>3, <1>4, <3>1, <3>3
      <4>2. k - 1 \in DOMAIN q /\ q[k - 1] = resList[k]
        BY <1>5, <1>6, <4>1
      <4> QED
        BY <2>2, <4>2
    <3> QED
      BY <1>3, <1>4, <3>1, <3>2, <3>3
  <2> QED
    BY <2>1, <2>2 DEF HasResource
<1> HIDE DEF q
<1> QED
  BY <1>1, <1>7, <1>8, <1>9

\* list_add_tail() of a thread that has no resource yet.
LEMMA AddEntry ==
  ASSUME TypeInv, ResourcesCharged, NEW t \in Thread, ~HasResource(t)
  PROVE  LET q == Append(resList, t) IN
         /\ q \in Seq(Thread)
         /\ \A i, j \in DOMAIN q : q[i] = q[j] => i = j
         /\ \A u \in Thread : (\E i \in DOMAIN q : q[i] = u) <=> HasResource(u) \/ u = t
<1> DEFINE q == Append(resList, t)
<1>1. /\ q \in Seq(Thread) /\ Len(resList) \in Nat
      /\ DOMAIN resList = 1 .. Len(resList) /\ DOMAIN q = 1 .. Len(resList) + 1
  BY DEF TypeInv
<1>2. q[Len(resList) + 1] = t /\ \A i \in 1 .. Len(resList) : q[i] = resList[i]
  BY <1>1 DEF TypeInv
<1>3. \A i \in DOMAIN q : i \in 1 .. Len(resList) \/ i = Len(resList) + 1
  BY <1>1
<1>4. \A i \in 1 .. Len(resList) : i \in DOMAIN q
  BY <1>1
<1>5. Len(resList) + 1 \in DOMAIN q
  BY <1>1
<1> HIDE DEF q
<1>6. \A i, j \in DOMAIN q : q[i] = q[j] => i = j
  BY <1>1, <1>2, <1>3 DEF HasResource, ResourcesCharged
<1>7. \A u \in Thread : (\E i \in DOMAIN q : q[i] = u) <=> HasResource(u) \/ u = t
  BY <1>1, <1>2, <1>3, <1>4, <1>5 DEF HasResource
<1> QED
  BY <1>1, <1>6, <1>7 DEF q

-----------------------------------------------------------------------------
(* Counting units                                                          *)

\* What is in Held.
LEMMA InHeld ==
  ASSUME NEW t, NEW k
  PROVE  <<t, k>> \in Held <=> t \in Thread /\ k \in 1 .. count[t]
  BY DEF Held

\* Held has only such pairs.
LEMMA HeldPairs ==
  ASSUME NEW x \in Held
  PROVE  \E t \in Thread : \E k \in 1 .. count[t] : x = <<t, k>>
  BY DEF Held

\* The same, after a step.
LEMMA HeldPairsNext ==
  ASSUME NEW x \in Held'
  PROVE  \E t \in Thread : \E k \in 1 .. count'[t] : x = <<t, k>>
  BY DEF Held

LEMMA InHeldNext ==
  ASSUME NEW t, NEW k
  PROVE  <<t, k>> \in Held' <=> t \in Thread /\ k \in 1 .. count'[t]
  BY DEF Held

\* The end of semaphore_down_common() adds one unit.
LEMMA HeldTake ==
  ASSUME TypeInv, IsFiniteSet(Held), NEW t \in Thread,
         count' = [count EXCEPT ![t] = @ + 1]
  PROVE  IsFiniteSet(Held') /\ Cardinality(Held') = Cardinality(Held) + 1
<1> DEFINE x == <<t, count[t] + 1>>
<1>1. /\ count[t] \in Nat /\ count'[t] = count[t] + 1
      /\ \A u \in Thread : u # t => count'[u] = count[u]
      /\ \A u \in Thread : count[u] \in Nat
  BY DEF TypeInv
<1>2. x \notin Held
  BY <1>1, InHeld
<1>3. Held' \subseteq Held \cup {x}
  <2> SUFFICES ASSUME NEW y \in Held' PROVE y \in Held \cup {x}
    OBVIOUS
  <2>1. PICK u \in Thread : \E k \in 1 .. count'[u] : y = <<u, k>>
    BY HeldPairsNext
  <2>2. PICK k \in 1 .. count'[u] : y = <<u, k>>
    BY <2>1
  <2>3. CASE u = t /\ k = count[t] + 1
    BY <2>2, <2>3
  <2>4. CASE ~(u = t /\ k = count[t] + 1)
    <3>1. k \in 1 .. count[u]
      BY <1>1, <2>4
    <3> QED
      BY <2>2, <3>1, InHeld
  <2> QED
    BY <2>3, <2>4
<1>4. Held \cup {x} \subseteq Held'
  <2>1. x \in Held'
    BY <1>1, InHeldNext
  <2>2. ASSUME NEW y \in Held PROVE y \in Held'
    <3>1. PICK u \in Thread : \E k \in 1 .. count[u] : y = <<u, k>>
      BY HeldPairs
    <3>2. PICK k \in 1 .. count[u] : y = <<u, k>>
      BY <3>1
    <3>3. k \in 1 .. count'[u]
      BY <1>1
    <3> QED
      BY <3>2, <3>3, InHeldNext
  <2> QED
    BY <2>1, <2>2
<1>5. Held' = Held \cup {x}
  BY <1>3, <1>4
<1> HIDE DEF x
<1> QED
  BY <1>2, <1>5, FS_AddElement

\* The units of a thread with numbers above m and up to n.
LEMMA Units ==
  ASSUME NEW t, NEW m \in Nat, NEW n \in Nat, m <= n
  PROVE  IsFiniteSet({t} \X (m + 1 .. n)) /\ Cardinality({t} \X (m + 1 .. n)) = n - m
<1>1. m + 1 \in Int /\ n \in Int
  OBVIOUS
<1>2. /\ IsFiniteSet(m + 1 .. n)
      /\ Cardinality(m + 1 .. n) = IF m + 1 > n THEN 0 ELSE n - (m + 1) + 1
  BY <1>1, FS_Interval, Zenon
<1>3. Cardinality(m + 1 .. n) = n - m
  BY <1>2
<1>4. IsFiniteSet({t}) /\ Cardinality({t}) = 1
  BY FS_Singleton, Zenon
<1>5. IsFiniteSet({t} \X (m + 1 .. n))
      /\ Cardinality({t} \X (m + 1 .. n)) = Cardinality({t}) * Cardinality(m + 1 .. n)
  BY <1>2, <1>4, FS_Product, Zenon
<1>6. 1 * (n - m) = n - m
  OBVIOUS
<1> QED
  BY <1>3, <1>4, <1>5, <1>6, Zenon

\* A thread has no more units than there are.
LEMMA HeldBound ==
  ASSUME TypeInv, IsFiniteSet(Held), NEW t \in Thread
  PROVE  count[t] <= Cardinality(Held)
<1>1. count[t] \in Nat /\ 0 \in Nat /\ 0 <= count[t]
  BY DEF TypeInv
<1>2. {t} \X (0 + 1 .. count[t]) \in SUBSET Held
  <2>1. 0 + 1 .. count[t] = 1 .. count[t]
    BY <1>1
  <2>2. {t} \X (1 .. count[t]) \subseteq Held
    BY DEF Held
  <2> QED
    BY <2>1, <2>2
<1>3. Cardinality({t} \X (0 + 1 .. count[t])) <= Cardinality(Held)
  BY <1>2, FS_Subset
<1>4. Cardinality({t} \X (0 + 1 .. count[t])) = count[t] - 0
  BY <1>1, Units, Zenon
<1> QED
  BY <1>1, <1>3, <1>4

\* Taking n units from a thread takes n from all of them: one in
\* vmm_semaphore_up(), all of them in the cleanup.
LEMMA HeldDrop ==
  ASSUME TypeInv, IsFiniteSet(Held), NEW t \in Thread, NEW m \in 0 .. count[t],
         count' = [count EXCEPT ![t] = m]
  PROVE  IsFiniteSet(Held') /\ Cardinality(Held') = Cardinality(Held) - (count[t] - m)
<1> DEFINE S == {t} \X (m + 1 .. count[t])
<1>1. /\ count[t] \in Nat /\ m \in Nat /\ m <= count[t] /\ count'[t] = m
      /\ \A u \in Thread : u # t => count'[u] = count[u]
      /\ \A u \in Thread : count[u] \in Nat
  BY DEF TypeInv
<1>2. IsFiniteSet(S) /\ Cardinality(S) = count[t] - m
  BY <1>1, Units, ZenonT(60)
<1>3. S \subseteq Held
  <2> SUFFICES ASSUME NEW y \in S PROVE y \in Held
    OBVIOUS
  <2>1. PICK k \in m + 1 .. count[t] : y = <<t, k>>
    OBVIOUS
  <2>2. k \in 1 .. count[t]
    BY <1>1
  <2> QED
    BY <2>1, <2>2, InHeld
<1>4. \A u, k : <<u, k>> \in S <=> u = t /\ k \in m + 1 .. count[t]
  OBVIOUS
<1> HIDE DEF S
<1>5. Held' \subseteq Held \ S
  <2> SUFFICES ASSUME NEW y \in Held' PROVE y \in Held /\ y \notin S
    OBVIOUS
  <2>1. PICK u \in Thread : \E k \in 1 .. count'[u] : y = <<u, k>>
    BY HeldPairsNext
  <2>2. PICK k \in 1 .. count'[u] : y = <<u, k>>
    BY <2>1
  <2>3. k \in 1 .. count[u] /\ ~(u = t /\ k \in m + 1 .. count[t])
    BY <1>1
  <2> QED
    BY <1>4, <2>2, <2>3, InHeld
<1>6. Held \ S \subseteq Held'
  <2> SUFFICES ASSUME NEW y \in Held, y \notin S PROVE y \in Held'
    OBVIOUS
  <2>1. PICK u \in Thread : \E k \in 1 .. count[u] : y = <<u, k>>
    BY HeldPairs
  <2>2. PICK k \in 1 .. count[u] : y = <<u, k>>
    BY <2>1
  <2>3. ~(u = t /\ k \in m + 1 .. count[t])
    BY <1>4, <2>2
  <2>4. k \in 1 .. count'[u]
    BY <1>1, <2>3
  <2> QED
    BY <2>2, <2>4, InHeldNext
<1>7. Held' = Held \ S
  BY <1>5, <1>6
<1>8. Held \cap S = S
  BY <1>3
<1>9. IsFiniteSet(Held \ S) /\ Cardinality(Held \ S) = Cardinality(Held) - Cardinality(Held \cap S)
  BY FS_Difference, Zenon
<1> QED
  BY <1>2, <1>7, <1>8, <1>9

-----------------------------------------------------------------------------
(* The invariant                                                           *)

\* Initially nobody holds anything.
LEMMA InitInv == Init => IInv
<1> SUFFICES ASSUME Init PROVE IInv
  OBVIOUS
<1>1. Limit \in Nat /\ Initial \in 0 .. Limit
  BY LimitAssumption
<1>2. TypeInv
  BY <1>1 DEF Init, WqInit, TypeInv, WqTypeOK
<1>3. ResourcesCharged
  BY DEF Init, ResourcesCharged, HasResource
<1>4. Held = {}
  <2> SUFFICES ASSUME NEW x \in Held PROVE FALSE
    OBVIOUS
  <2>1. PICK t \in Thread : \E k \in 1 .. count[t] : x = <<t, k>>
    BY HeldPairs
  <2>2. count[t] = 0
    BY DEF Init
  <2> QED
    BY <2>1, <2>2
<1>5. IsFiniteSet(Held) /\ Cardinality(Held) = 0
  BY <1>4, FS_EmptySet
<1>6. HeldInv
  BY <1>1, <1>5 DEF HeldInv, Init
<1>7. Conserved
  BY <1>1, <1>5 DEF Conserved, Init
<1>8. NoLostWakeup /\ DeadHoldsNothing /\ ResetInv
  BY DEF Init, WqInit, NoLostWakeup, Paused, DeadHoldsNothing, ResetInv
<1> QED
  BY <1>2, <1>3, <1>6, <1>7, <1>8 DEF IInv

\* A step that leaves the semaphore alone leaves its units and resources.
LEMMA SemFrame ==
  ASSUME ResourcesCharged, HeldInv, Conserved, crash = "none", UNCHANGED semVars
  PROVE  ResourcesCharged' /\ HeldInv' /\ Conserved'
<1>1. Held' = Held
  BY DEF Held, semVars
<1> QED
  BY <1>1 DEF semVars, ResourcesCharged, HasResource, HeldInv, Conserved

\* The wait queue's own steps only wake threads, take them off the list, or
\* stop them for good.
LEMMA WqStepInv ==
  ASSUME IInv, crash = "none", NEW u \in Thread, WqStep(u), UNCHANGED semVars
  PROVE  IInv'
<1> USE DEF TypeInv, WqTypeOK
<1>0. TypeInv
  BY DEF IInv
<1>1. ResourcesCharged' /\ HeldInv' /\ Conserved'
  BY SemFrame DEF IInv
<1>2. NoLostWakeup'
  <2>1. waiters' \subseteq waiters
    BY DEF WqStep, Dispatch, waitqueue_timeout, vmm_threads_wakeup,
           vmm_waitqueue_forced_remove, Reset, ResumeRemoved
  <2>2. \A t \in Thread : st'[t] = "PAUSED" => st[t] = "PAUSED"
    BY <1>0 DEF WqStep, Dispatch, waitqueue_timeout, vmm_threads_wakeup,
           vmm_waitqueue_forced_remove, Reset, ResumeRemoved
  <2> QED
    BY <1>0, <2>1, <2>2 DEF IInv, NoLostWakeup, Paused, semVars
<1>3. CASE Dispatch(u)
  BY <1>0, <1>1, <1>2, <1>3, Zenon DEF Dispatch, IInv, DeadHoldsNothing, ResetInv, semVars
<1>4. CASE waitqueue_timeout(u)
  BY <1>0, <1>1, <1>2, <1>4, Zenon DEF waitqueue_timeout, IInv, DeadHoldsNothing, ResetInv, semVars
<1>5. CASE vmm_threads_wakeup(u)
  BY <1>0, <1>1, <1>2, <1>5, Zenon DEF vmm_threads_wakeup, IInv, DeadHoldsNothing, ResetInv, semVars
<1>6. CASE vmm_waitqueue_forced_remove(u)
  BY <1>0, <1>1, <1>2, <1>6
  DEF vmm_waitqueue_forced_remove, IInv, DeadHoldsNothing, ResetInv, semVars
<1>7. CASE Reset(u)
  BY <1>0, <1>1, <1>2, <1>7 DEF Reset, IInv, DeadHoldsNothing, ResetInv, semVars
<1>8. CASE ResumeRemoved(u)
  BY <1>0, <1>1, <1>2, <1>8 DEF ResumeRemoved, IInv, DeadHoldsNothing, ResetInv, semVars
<1> QED
  BY <1>3, <1>4, <1>5, <1>6, <1>7, <1>8 DEF WqStep

\* A thread that acquires runs, so it is neither reset nor dead, and the value
\* is above zero: what it holds stays within the limit.
LEMMA TakeInv ==
  ASSUME IInv, crash = "none", NEW u \in Thread, st[u] = "RUNNING", value > 0, Take(u),
         UNCHANGED <<st, stage, crash>>, WqTypeOK', waiters' \subseteq waiters
  PROVE  IInv'
<1> USE DEF IInv, TypeInv, WqTypeOK
<1>0. Limit \in Nat /\ Initial \in Nat /\ Initial <= Limit
  BY LimitAssumption
<1>1. count' = [count EXCEPT ![u] = @ + 1] /\ value' = value - 1
  BY DEF Take
<1>2. IsFiniteSet(Held') /\ Cardinality(Held') = Cardinality(Held) + 1
  BY <1>1, HeldTake, Zenon DEF HeldInv
<1>3. Cardinality(Held) \in Nat /\ count[u] <= Cardinality(Held)
  BY HeldBound, FS_CardinalityType DEF HeldInv
<1>4. value + Cardinality(Held) \in Initial .. Limit
  BY DEF Conserved
<1>5. Conserved'
  BY <1>0, <1>1, <1>2, <1>3, <1>4 DEF Conserved
<1>6. HeldInv'
  BY <1>0, <1>1, <1>2, <1>3, <1>4 DEF HeldInv
<1>7. resList' \in Seq(Thread) /\ ResourcesCharged'
  <2>1. CASE HasResource(u)
    <3>1. resList' = resList
      BY <2>1 DEF Take
    <3> QED
      BY <1>1, <2>1, <3>1 DEF ResourcesCharged, HasResource
  <2>2. CASE ~HasResource(u)
    <3>1. resList' = Append(resList, u)
      BY <2>2 DEF Take
    <3>2. /\ resList' \in Seq(Thread)
          /\ \A i, j \in DOMAIN resList' : resList'[i] = resList'[j] => i = j
          /\ \A t \in Thread : (\E i \in DOMAIN resList' : resList'[i] = t) <=> HasResource(t) \/ t = u
      BY <2>2, <3>1, AddEntry, Zenon
    <3>3. \A t \in Thread : count'[t] > 0 <=> count[t] > 0 \/ t = u
      BY <1>1
    <3> QED
      BY <3>2, <3>3, Zenon DEF ResourcesCharged, HasResource
  <2> QED
    BY <2>1, <2>2
<1>8. TypeInv'
  BY <1>0, <1>1, <1>7
<1>9. NoLostWakeup'
  BY <1>0, <1>1 DEF NoLostWakeup, Paused
<1>10. DeadHoldsNothing' /\ ResetInv'
  BY <1>1 DEF DeadHoldsNothing, ResetInv
<1> QED
  BY <1>5, <1>6, <1>7, <1>8, <1>9, <1>10 DEF IInv

\* A thread goes to sleep only when there is nothing to acquire.
LEMMA SleepInv ==
  ASSUME IInv, crash = "none", NEW u \in Thread, st[u] = "RUNNING", ~(value > 0), Sleep(u),
         UNCHANGED <<stage, crash, semVars>>
  PROVE  IInv'
<1>1. ResourcesCharged' /\ HeldInv' /\ Conserved'
  BY SemFrame DEF IInv
<1>2. TypeInv'
  BY DEF IInv, TypeInv, WqTypeOK, Sleep, semVars
<1>3. NoLostWakeup'
  BY DEF NoLostWakeup, semVars
<1>4. DeadHoldsNothing' /\ ResetInv'
  BY DEF IInv, TypeInv, WqTypeOK, Sleep, semVars, DeadHoldsNothing, ResetInv
<1> QED
  BY <1>1, <1>2, <1>3, <1>4 DEF IInv

\* The steps of semaphore_down_common().
LEMMA DownInv ==
  ASSUME IInv, crash = "none", NEW u \in Thread,
         vmm_semaphore_down(u) \/ semaphore_down_retry(u) \/ semaphore_down_timeout(u)
  PROVE  IInv'
<1>0. WqTypeOK
  BY DEF IInv, TypeInv
<1>1. CASE vmm_semaphore_down(u)
  <2>1. st[u] = "RUNNING"
    BY <1>1 DEF vmm_semaphore_down, Calls
  <2>2. CASE value > 0
    <3>1. Take(u) /\ UNCHANGED wqVars
      BY <1>1, <2>2 DEF vmm_semaphore_down
    <3>2. UNCHANGED <<st, stage, crash>> /\ WqTypeOK' /\ waiters' \subseteq waiters
      BY <1>0, <3>1 DEF wqVars, WqTypeOK
    <3> QED
      BY <2>1, <2>2, <3>1, <3>2, TakeInv, Zenon
  <2>3. CASE ~(value > 0)
    BY <1>1, <2>1, <2>3, SleepInv DEF vmm_semaphore_down
  <2> QED
    BY <2>2, <2>3
<1>2. CASE semaphore_down_retry(u)
  <2>1. st[u] = "RUNNING"
    BY <1>2 DEF semaphore_down_retry, Resumes
  <2>2. CASE value > 0
    <3>1. Take(u) /\ Leave(u) /\ UNCHANGED <<st, stage, crash>>
      BY <1>2, <2>2 DEF semaphore_down_retry
    <3>2. WqTypeOK' /\ waiters' \subseteq waiters
      BY <1>0, <3>1 DEF Leave, WqTypeOK
    <3> QED
      BY <2>1, <2>2, <3>1, <3>2, TakeInv
  <2>3. CASE ~(value > 0)
    BY <1>2, <2>1, <2>3, SleepInv DEF semaphore_down_retry
  <2> QED
    BY <2>2, <2>3
<1>3. CASE semaphore_down_timeout(u)
  <2>1. Leave(u) /\ UNCHANGED <<st, stage, crash, semVars>>
    BY <1>3 DEF semaphore_down_timeout
  <2>2. ResourcesCharged' /\ HeldInv' /\ Conserved'
    BY <2>1, SemFrame DEF IInv
  <2>3. TypeInv'
    BY <2>1 DEF IInv, TypeInv, WqTypeOK, Leave, semVars
  <2>4. NoLostWakeup' /\ DeadHoldsNothing' /\ ResetInv'
    BY <2>1 DEF IInv, Leave, semVars, NoLostWakeup, Paused, DeadHoldsNothing, ResetInv
  <2> QED
    BY <2>2, <2>3, <2>4 DEF IInv
<1> QED
  BY <1>1, <1>2, <1>3

\* __vmm_waitqueue_wakeall() leaves nobody asleep and nobody that was reset runs.
LEMMA WakeAllWakes ==
  ASSUME WqTypeOK, WakeAll
  PROVE  /\ st' \in [Thread -> {"RUNNING", "READY", "PAUSED", "RESET"}]
         /\ crash' \in {"none", "list_del", "stale"}
         /\ \A t \in waiters : st'[t] # "PAUSED"
         /\ \A t \in Thread : st[t] = "RESET" => st'[t] = "RESET"
<1>1. st' = [t \in Thread |-> IF t \in Paused(waiters) THEN "READY" ELSE st[t]]
  BY DEF WakeAll
<1> QED
  BY <1>1 DEF WqTypeOK, WakeAll, Paused

\* A resource that a release is charged to is there, and what it counts is
\* above zero.
LEMMA ChargedCounts ==
  ASSUME TypeInv, ResourcesCharged, NEW u \in Thread, resList # <<>>
  PROVE  Charged(u) \in Thread /\ HasResource(Charged(u)) /\ count[Charged(u)] > 0
<1>1. CASE HasResource(u)
  BY <1>1 DEF Charged, ResourcesCharged
<1>2. CASE ~HasResource(u)
  <2>1. Charged(u) = resList[1] /\ 1 \in DOMAIN resList /\ resList[1] \in Thread
    BY <1>2 DEF Charged, TypeInv
  <2> QED
    BY <2>1 DEF HasResource, ResourcesCharged
<1> QED
  BY <1>1, <1>2

\* vmm_semaphore_up() moves a unit from the one it is charged to back to the
\* value; only when nobody holds anything it makes a new one, up to the limit.
LEMMA UpInv ==
  ASSUME IInv, crash = "none", NEW u \in Thread, vmm_semaphore_up(u)
  PROVE  IInv'
<1>0. /\ TypeInv /\ WqTypeOK /\ Limit \in Nat /\ Initial \in Nat /\ Initial <= Limit
      /\ value \in 0 .. Limit /\ value < Limit /\ value' = value + 1
      /\ UNCHANGED <<waiters, pc, expired, stage>>
  BY LimitAssumption DEF IInv, TypeInv, vmm_semaphore_up
<1>1. /\ st' \in [Thread -> {"RUNNING", "READY", "PAUSED", "RESET"}]
      /\ crash' \in {"none", "list_del", "stale"}
      /\ crash' = "none" => \A t \in waiters : st'[t] # "PAUSED"
      /\ \A t \in Thread : st[t] = "RESET" => st'[t] = "RESET"
  <2>1. CASE Flushed(u)
    BY <1>0, <2>1 DEF vmm_semaphore_up, WqTypeOK
  <2>2. CASE ~Flushed(u)
    BY <1>0, <2>2, WakeAllWakes DEF vmm_semaphore_up
  <2> QED
    BY <2>1, <2>2
<1>2. WqTypeOK'
  BY <1>0, <1>1 DEF WqTypeOK
<1>3. NoLostWakeup'
  BY <1>0, <1>1 DEF NoLostWakeup, Paused
<1>4. ResetInv'
  BY <1>0, <1>1 DEF IInv, ResetInv
<1>5. value + Cardinality(Held) \in Initial .. Limit /\ Cardinality(Held) \in Nat
  BY FS_CardinalityType DEF IInv, Conserved, HeldInv
<1>6. CASE resList = <<>>
  <2>1. UNCHANGED <<count, resList>>
    BY <1>6 DEF vmm_semaphore_up
  <2>2. \A t \in Thread : count[t] = 0
    BY <1>0, <1>6 DEF IInv, ResourcesCharged, HasResource, TypeInv
  <2>3. Held' = Held
    BY <2>1 DEF Held
  <2>4. Held = {}
    <3> SUFFICES ASSUME NEW x \in Held PROVE FALSE
      OBVIOUS
    <3>1. PICK t \in Thread : \E k \in 1 .. count[t] : x = <<t, k>>
      BY HeldPairs
    <3> QED
      BY <2>2, <3>1
  <2>5. Cardinality(Held') = 0
    BY <2>3, <2>4, FS_EmptySet
  <2>6. Conserved'
    BY <1>0, <1>5, <2>3, <2>5 DEF Conserved
  <2>7. HeldInv' /\ ResourcesCharged' /\ DeadHoldsNothing'
    BY <1>0, <2>1, <2>3, Zenon DEF IInv, HeldInv, ResourcesCharged, HasResource, DeadHoldsNothing
  <2>8. TypeInv'
    BY <1>0, <1>2, <2>1 DEF TypeInv
  <2> QED
    BY <1>3, <1>4, <2>6, <2>7, <2>8 DEF IInv
<1>7. CASE resList # <<>>
  <2> DEFINE c == Charged(u)
  <2>1. c \in Thread /\ HasResource(c) /\ count[c] \in Nat /\ count[c] > 0
    BY <1>0, <1>7, ChargedCounts DEF IInv, TypeInv
  <2>2. Uncharge(c)
    BY <1>7 DEF vmm_semaphore_up
  <2> HIDE DEF c
  <2>3. count' = [count EXCEPT ![c] = count[c] - 1]
    BY <2>2 DEF Uncharge
  <2>4. \A t \in Thread : count[t] \in Nat /\ count'[t] = IF t = c THEN count[c] - 1 ELSE count[t]
    BY <1>0, <2>1, <2>3 DEF TypeInv
  <2>5. IsFiniteSet(Held') /\ Cardinality(Held') = Cardinality(Held) - 1
    <3>1. count[c] - 1 \in 0 .. count[c] /\ count[c] - (count[c] - 1) = 1
      BY <2>1
    <3> QED
      BY <1>0, <2>1, <2>3, <3>1, HeldDrop, Zenon DEF IInv, HeldInv
  <2>6. Conserved'
    BY <1>0, <1>5, <2>5 DEF Conserved
  <2>7. HeldInv' /\ DeadHoldsNothing'
    BY <1>0, <2>1, <2>4, <2>5 DEF IInv, HeldInv, DeadHoldsNothing
  <2>8. resList' \in Seq(Thread) /\ ResourcesCharged'
    <3>1. CASE count[c] = 1
      <4>1. resList' = list_del(c)
        BY <2>2, <3>1, Zenon DEF Uncharge
      <4>2. /\ resList' \in Seq(Thread)
            /\ \A i, j \in DOMAIN resList' : resList'[i] = resList'[j] => i = j
            /\ \A t \in Thread : (\E i \in DOMAIN resList' : resList'[i] = t) <=> HasResource(t) /\ t # c
        BY <1>0, <2>1, <4>1, DelEntries, ZenonT(60) DEF IInv
      <4>3. \A t \in Thread : count'[t] > 0 <=> count[t] > 0 /\ t # c
        BY <2>4, <3>1
      <4> QED
        BY <4>2, <4>3 DEF IInv, ResourcesCharged, HasResource
    <3>2. CASE count[c] # 1
      <4>1. resList' = resList
        BY <2>2, <3>2, Zenon DEF Uncharge
      <4>2. \A t \in Thread : count'[t] > 0 <=> count[t] > 0
        BY <2>1, <2>4, <3>2
      <4> QED
        BY <1>0, <4>1, <4>2 DEF IInv, TypeInv, ResourcesCharged, HasResource
    <3> QED
      BY <3>1, <3>2
  <2>9. TypeInv'
    <3>1. count' \in [Thread -> Nat]
      BY <1>0, <2>1, <2>3 DEF TypeInv
    <3> QED
      BY <1>0, <1>2, <2>8, <3>1 DEF TypeInv
  <2> QED
    BY <1>3, <1>4, <2>6, <2>7, <2>8, <2>9, Zenon DEF IInv
<1> QED
  BY <1>6, <1>7

\* The flush finds the resource if the thread holds something.
LEMMA FlushInv ==
  ASSUME IInv, crash = "none", NEW u \in Thread, vmm_manager_vcpu_resource_flush(u)
  PROVE  IInv'
<1> USE DEF vmm_manager_vcpu_resource_flush
<1>1. ResourcesCharged' /\ HeldInv' /\ Conserved'
  BY SemFrame DEF IInv
<1>2. TypeInv' /\ NoLostWakeup'
  BY DEF IInv, TypeInv, WqTypeOK, NoLostWakeup, Paused, semVars
<1>3. DeadHoldsNothing'
  <2>1. ~HasResource(u) => count[u] = 0
    BY DEF IInv, ResourcesCharged, TypeInv
  <2> QED
    BY <2>1 DEF IInv, TypeInv, WqTypeOK, DeadHoldsNothing, semVars
<1>4. ResetInv'
  BY DEF IInv, TypeInv, WqTypeOK, ResetInv
<1> QED
  BY <1>1, <1>2, <1>3, <1>4 DEF IInv

\* The cleanup gives back all that the destroyed thread held, which fits
\* below the limit, and wakes who waits for it.
LEMMA CleanupInv ==
  ASSUME IInv, crash = "none", NEW u \in Thread, semaphore_cleanup(u)
  PROVE  IInv'
<1>0. /\ TypeInv /\ WqTypeOK /\ Limit \in Nat /\ Initial \in Nat /\ Initial <= Limit
      /\ value \in 0 .. Limit /\ count[u] \in Nat
      /\ UNCHANGED <<waiters, pc, expired>>
      /\ stage[u] = "popped" /\ stage' = [stage EXCEPT ![u] = "dead"]
  BY LimitAssumption DEF IInv, TypeInv, semaphore_cleanup
<1>1. count' = [count EXCEPT ![u] = 0]
  BY DEF semaphore_cleanup
<1>2. \A t \in Thread : count[t] \in Nat /\ count'[t] = IF t = u THEN 0 ELSE count[t]
  BY <1>0, <1>1 DEF TypeInv
<1>3. IsFiniteSet(Held') /\ Cardinality(Held') = Cardinality(Held) - count[u]
  <2>1. 0 \in 0 .. count[u] /\ count[u] - 0 = count[u]
    BY <1>0
  <2> QED
    BY <1>0, <1>1, <2>1, HeldDrop, Zenon DEF IInv, HeldInv
<1>4. /\ value + Cardinality(Held) \in Initial .. Limit
      /\ Cardinality(Held) \in Nat /\ count[u] <= Cardinality(Held)
  BY <1>0, HeldBound, FS_CardinalityType DEF IInv, Conserved, HeldInv
<1>5. value' = value + count[u]
  BY <1>0, <1>4 DEF semaphore_cleanup, Clamped
<1>6. Conserved'
  BY <1>0, <1>3, <1>4, <1>5 DEF Conserved
<1>7. HeldInv' /\ DeadHoldsNothing'
  <2>1. \A t \in Thread : count'[t] <= Limit
    BY <1>0, <1>2 DEF IInv, HeldInv
  <2>2. \A t \in Thread : stage'[t] = "dead" => t = u \/ stage[t] = "dead"
    BY <1>0 DEF WqTypeOK
  <2>3. DeadHoldsNothing'
    BY <1>2, <2>2 DEF IInv, DeadHoldsNothing
  <2> QED
    BY <1>3, <2>1, <2>3 DEF HeldInv
<1>8. resList' \in Seq(Thread) /\ ResourcesCharged'
  <2>1. \A t \in Thread : count'[t] > 0 <=> count[t] > 0 /\ t # u
    BY <1>2
  <2>2. CASE HasResource(u)
    <3>1. resList' = list_del(u)
      BY <2>2, Zenon DEF semaphore_cleanup
    <3>2. /\ resList' \in Seq(Thread)
          /\ \A i, j \in DOMAIN resList' : resList'[i] = resList'[j] => i = j
          /\ \A t \in Thread : (\E i \in DOMAIN resList' : resList'[i] = t) <=> HasResource(t) /\ t # u
      BY <1>0, <2>2, <3>1, DelEntries DEF IInv
    <3> QED
      BY <2>1, <3>2 DEF IInv, ResourcesCharged, HasResource
  <2>3. CASE ~HasResource(u)
    <3>1. resList' = resList
      BY <2>3 DEF semaphore_cleanup
    <3> QED
      BY <1>0, <2>1, <2>3, <3>1, Zenon DEF IInv, TypeInv, ResourcesCharged, HasResource
  <2> QED
    BY <2>2, <2>3
<1>9. CASE count[u] > 0
  <2>1. /\ st' \in [Thread -> {"RUNNING", "READY", "PAUSED", "RESET"}]
        /\ crash' \in {"none", "list_del", "stale"}
        /\ \A t \in waiters : st'[t] # "PAUSED"
        /\ \A t \in Thread : st[t] = "RESET" => st'[t] = "RESET"
    BY <1>0, <1>9, WakeAllWakes, Zenon DEF semaphore_cleanup
  <2>2. NoLostWakeup'
    BY <1>0, <2>1, Zenon DEF NoLostWakeup, Paused
  <2>3. ResetInv'
    BY <1>0, <2>1 DEF IInv, ResetInv, WqTypeOK
  <2>4. TypeInv'
    <3>1. value' \in 0 .. Limit
      BY <1>0, <1>4, <1>5
    <3>2. count' \in [Thread -> Nat]
      BY <1>0, <1>1 DEF TypeInv
    <3>3. WqTypeOK'
      BY <1>0, <2>1, Zenon DEF WqTypeOK
    <3> QED
      BY <1>8, <3>1, <3>2, <3>3, Zenon DEF TypeInv
  <2> QED
    BY <1>6, <1>7, <1>8, <2>2, <2>3, <2>4, Zenon DEF IInv
<1>10. CASE ~(count[u] > 0)
  <2>1. UNCHANGED <<st, crash, value>>
    BY <1>0, <1>5, <1>10 DEF semaphore_cleanup
  <2>2. NoLostWakeup' /\ ResetInv'
    BY <1>0, <2>1 DEF IInv, NoLostWakeup, Paused, ResetInv, WqTypeOK
  <2>3. TypeInv'
    BY <1>0, <1>1, <1>8, <2>1 DEF TypeInv, WqTypeOK
  <2> QED
    BY <1>6, <1>7, <1>8, <2>2, <2>3 DEF IInv
<1> QED
  BY <1>0, <1>9, <1>10

\* The inductive step, action by action.
LEMMA StepInv == IInv /\ [Next]_vars => IInv'
<1> SUFFICES ASSUME IInv, [Next]_vars PROVE IInv'
  BY Zenon
<1>1. CASE UNCHANGED vars
  <2>1. Held' = Held
    BY <1>1 DEF Held, vars, semVars
  <2> QED
    BY <1>1, <2>1 DEF vars, wqVars, semVars, IInv, TypeInv, WqTypeOK, ResourcesCharged,
       HasResource, HeldInv, Conserved, NoLostWakeup, Paused, DeadHoldsNothing, ResetInv
<1>2. CASE Next
  <2>1. crash = "none"
    BY <1>2 DEF Next
  <2>2. PICK u \in Thread : (WqStep(u) /\ UNCHANGED semVars) \/ SemaphoreStep(u)
    BY <1>2 DEF Next
  <2>3. CASE WqStep(u) /\ UNCHANGED semVars
    BY <2>1, <2>3, WqStepInv
  <2>4. CASE SemaphoreStep(u)
    BY <2>1, <2>4, DownInv, UpInv, FlushInv, CleanupInv DEF SemaphoreStep
  <2> QED
    BY <2>2, <2>3, <2>4
<1> QED
  BY <1>1, <1>2

-----------------------------------------------------------------------------
(* Theorems                                                                *)

\* The value stays between zero and sem->limit, and so does what a thread
\* has acquired.
THEOREM TypeSafe == Spec => []TypeOK
<1>1. IInv => TypeOK
  BY LimitAssumption DEF IInv, TypeInv, HeldInv, TypeOK
<1> QED
  BY <1>1, InitInv, StepInv, PTL DEF Spec

\* Acquiring, releasing on behalf of others, timeouts and the cleanup for
\* destroyed threads neither lose units nor make them beyond the limit.
THEOREM UnitsConserved == Spec => []Conserved
<1>1. IInv => Conserved
  BY DEF IInv
<1> QED
  BY <1>1, InitInv, StepInv, PTL DEF Spec

\* sem->res_list has one resource for each thread that holds something.
THEOREM ResourcesKept == Spec => []ResourcesCharged
<1>1. IInv => ResourcesCharged
  BY DEF IInv
<1> QED
  BY <1>1, InitInv, StepInv, PTL DEF Spec

\* Nobody sleeps in semaphore_down_common() while the value is above zero.
THEOREM WakeupsKept == Spec => []NoLostWakeup
<1>1. IInv => NoLostWakeup
  BY DEF IInv
<1> QED
  BY <1>1, InitInv, StepInv, PTL DEF Spec

\* What a destroyed thread had acquired is given back by its cleanup, at
\* whatever point it was stopped.
THEOREM DeadReleased == Spec => []DeadHoldsNothing
<1>1. IInv => DeadHoldsNothing
  BY DEF IInv
<1> QED
  BY <1>1, InitInv, StepInv, PTL DEF Spec

=============================================================================
