--------------------------- MODULE WorkqueueProofs --------------------------
(***************************************************************************)
(* Timer events stay in the lists of their host CPUs in the order of their *)
(* expiry, and the clockchips are programmed for them; scheduled works     *)
(* stay in the lists of their queues, and their workers are signalled; for *)
(* any number of host CPUs, events, works, queues and threads.             *)
(***************************************************************************)
EXTENDS Workqueue, TLAPS

USE Zenon

In(x, s) == \E i \in DOMAIN s : s[i] = x

Distinct(s) == \A i, j \in DOMAIN s : s[i] = s[j] => i = j

\* In the order of the expiry times.
Sorted(s, exp) == \A i, j \in DOMAIN s : i < j => exp[s[i]] <= exp[s[j]]

-----------------------------------------------------------------------------
(* Lists                                                                   *)

\* An entry of a list.
LEMMA EntryFacts ==
  ASSUME NEW S, NEW s \in Seq(S), NEW i \in DOMAIN s
  PROVE  s[i] \in S
BY SMT

\* The places in the lists of the owners in Q where there is an x.
Places(Q, list, x) == {p \in UNION {{q} \X DOMAIN list[q] : q \in Q} : list[p[1]][p[2]] = x}

LEMMA PlacesFacts ==
  ASSUME NEW Q, NEW list, NEW x, NEW p
  PROVE  p \in Places(Q, list, x)
           <=> \E q \in Q : \E i \in DOMAIN list[q] : p = <<q, i>> /\ list[q][i] = x
BY SMT DEF Places

\* What taking the first entry does.
LEMMA TailFacts ==
  ASSUME NEW S, NEW s \in Seq(S), s # <<>>
  PROVE  /\ Head(s) \in S /\ In(Head(s), s) /\ Tail(s) \in Seq(S)
         /\ \A y : In(y, Tail(s)) => In(y, s)
         /\ \A y : In(y, s) => In(y, Tail(s)) \/ y = Head(s)
         /\ Distinct(s) => Distinct(Tail(s)) /\ ~In(Head(s), Tail(s))
<1>1. /\ Head(s) \in S /\ Head(s) = s[1] /\ Tail(s) \in Seq(S)
      /\ Len(s) \in Nat \ {0} /\ DOMAIN s = 1..Len(s) /\ DOMAIN Tail(s) = 1..Len(s) - 1
      /\ \A i \in 1..Len(s) - 1 : Tail(s)[i] = s[i + 1]
  BY SMT
<1>2. In(Head(s), s) /\ \A y : In(y, Tail(s)) => In(y, s)
  BY <1>1, SMT DEF In
<1>3. ASSUME NEW y, In(y, s), y # Head(s) PROVE In(y, Tail(s))
  <2>1. PICK i \in 1..Len(s) : s[i] = y
    BY <1>1, <1>3 DEF In
  <2>2. i - 1 \in 1..Len(s) - 1 /\ Tail(s)[i - 1] = y
    BY <1>1, <1>3, <2>1, SMT
  <2> QED BY <1>1, <2>2 DEF In
<1>4. ASSUME Distinct(s) PROVE Distinct(Tail(s)) /\ ~In(Head(s), Tail(s))
  BY <1>1, <1>4, SMT DEF Distinct, In
<1> QED BY <1>1, <1>2, <1>3, <1>4

\* What list_del() does to a list.
LEMMA ListDelFacts ==
  ASSUME NEW S, NEW s \in Seq(S), NEW x
  PROVE  /\ list_del(s, x) \in Seq(S)
         /\ \A y : In(y, list_del(s, x)) => In(y, s)
         /\ \A y : In(y, s) /\ y # x => In(y, list_del(s, x))
         /\ Distinct(s) => Distinct(list_del(s, x)) /\ ~In(x, list_del(s, x))
         /\ \A exp : Sorted(s, exp) => Sorted(list_del(s, x), exp)
<1>1. CASE In(x, s)
  <2>1. PICK i \in DOMAIN s : i = (CHOOSE j \in DOMAIN s : s[j] = x) /\ s[i] = x
    BY <1>1 DEF In
  <2> DEFINE r == [k \in 1..Len(s) - 1 |-> s[IF k < i THEN k ELSE k + 1]]
             at(k) == IF k < i THEN k ELSE k + 1
  <2>2. list_del(s, x) = r
    BY <1>1, <2>1 DEF In, list_del
  <2>3. DOMAIN s = 1..Len(s) /\ Len(s) \in Nat /\ i \in 1..Len(s)
    BY SMT
  <2>4. /\ r \in Seq(S) /\ DOMAIN r = 1..Len(s) - 1
        /\ \A k \in 1..Len(s) - 1 : r[k] = IF k < i THEN s[k] ELSE s[k + 1]
    BY <2>3, SMT
  <2> HIDE DEF r
  <2>5. DOMAIN r = 1..Len(s) - 1
    BY <2>4
  <2>6. \A k \in DOMAIN r : at(k) \in DOMAIN s /\ at(k) # i /\ r[k] = s[at(k)]
    BY <2>3, <2>4, <2>5, SMT
  <2>7. \A k, l \in DOMAIN r : (k < l <=> at(k) < at(l)) /\ (at(k) = at(l) => k = l)
    BY <2>3, <2>5, SMT
  <2>8. \A j \in DOMAIN s : j # i => \E k \in DOMAIN r : at(k) = j
    <3> TAKE j \in DOMAIN s
    <3> HAVE j # i
    <3>1. CASE j < i
      <4>1. j \in DOMAIN r /\ at(j) = j
        BY <2>3, <2>5, <3>1, SMT
      <4> QED BY <4>1
    <3>2. CASE j > i
      <4>1. j - 1 \in DOMAIN r /\ at(j - 1) = j
        BY <2>3, <2>5, <3>2, SMT
      <4> QED BY <4>1
    <3> QED BY <2>3, <3>1, <3>2, SMT
  <2> HIDE DEF at
  <2>9. \A y : In(y, r) => In(y, s)
    BY <2>6 DEF In
  <2>10. \A y : In(y, s) /\ y # x => In(y, r)
    BY <2>1, <2>6, <2>8 DEF In
  <2>11. Distinct(s) => Distinct(r) /\ ~In(x, r)
    BY <2>1, <2>6, <2>7 DEF Distinct, In
  <2>12. \A exp : Sorted(s, exp) => Sorted(r, exp)
    BY <2>6, <2>7 DEF Sorted
  <2> QED BY <2>2, <2>4, <2>9, <2>10, <2>11, <2>12
<1>2. CASE ~In(x, s)
  <2>1. list_del(s, x) = s
    BY <1>2 DEF In, list_del
  <2> QED BY <1>2, <2>1
<1> QED BY <1>1, <1>2

\* r is s with e added before the p-th entry, ...
Put(s, p, e, r) ==
  /\ p \in 1..Len(s) + 1
  /\ r \in Seq(Event) /\ Len(r) = Len(s) + 1
  /\ \A k \in 1..Len(s) + 1 : r[k] = IF k < p THEN s[k] ELSE IF k = p THEN e ELSE s[k - 1]

\* ... which is the first that expires later than at x.
Sits(s, exp, x, p) ==
  /\ \A j \in 1..Len(s) : j < p => exp[s[j]] <= x
  /\ p <= Len(s) => exp[s[p]] > x

\* The places of a list with an entry added at p.
Moved(k, p) == IF k < p THEN k ELSE k + 1
Came(k, p) == IF k < p THEN k ELSE k - 1

\* Where the entries of r come from and those of s go to.
Moves(s, p, e, r) ==
  /\ p \in DOMAIN r /\ r[p] = e /\ r # <<>>
  /\ \A j \in DOMAIN s : Moved(j, p) \in DOMAIN r /\ r[Moved(j, p)] = s[j]
  /\ \A k \in DOMAIN r : k # p => Came(k, p) \in DOMAIN s /\ r[k] = s[Came(k, p)]
  /\ \A k, l \in DOMAIN r : k # p /\ l # p /\ k < l => Came(k, p) < Came(l, p)
  /\ \A k, l \in DOMAIN r : k # p /\ l # p /\ Came(k, p) = Came(l, p) => k = l
  /\ \A k \in DOMAIN r : (k < p => Came(k, p) < p) /\ (k > p => Came(k, p) >= p)

\* The list has the event once, and the others as before.
Added(s, e, r) ==
  /\ r \in Seq(Event) /\ r # <<>>
  /\ \A y : In(y, r) <=> In(y, s) \/ y = e
  /\ Distinct(s) => Distinct(r)

\* The expiry times are the same but for e.
Restarted(exp, new, e, x) == new[e] = x /\ \A y \in Event : y # e => new[y] = exp[y]

-----------------------------------------------------------------------------
(* Timer events                                                            *)

TimerTypes ==
  /\ now \in Nat
  /\ started \in [Cpu -> {"new", "on", "off"}]
  /\ inprocess \in [Cpu -> BOOLEAN]
  /\ event_list \in [Cpu -> Seq(Event)]
  /\ chip \in [Cpu -> SUBSET Nat]
  /\ active_state \in [Event -> BOOLEAN] /\ active_hcpu \in [Event -> Cpu]
  /\ expiry \in [Event -> Nat] /\ duration \in [Event -> Nat]

\* Handlers work on an event, ...
HandlerInv ==
  /\ hp \in [Cpu -> {"idle", "scan", "stop", "call", "complete"}]
  /\ he \in [Cpu -> Event \cup {AnEvent}]
  /\ \A c \in Cpu : hp[c] \in {"stop", "call"} => he[c] \in Event

\* ... and threads, which are where they began to start it unless they are moved.
UserInv ==
  /\ pc \in [User -> {"idle", "start", "complete", "stop", "flush"}]
  /\ ev \in [User -> Event \cup {AnEvent}]
  /\ on \in [User -> Cpu] /\ hcpu \in [User -> Cpu]
  /\ tstamp \in [User -> Nat] /\ dur \in [User -> Nat]
  /\ \A t \in User : pc[t] = "start" => ev[t] \in Event /\ (Movers = {} => hcpu[t] = on[t])

\* The active events, and no others, are in the lists, each once.
ListInv ==
  /\ \A c \in Cpu : Distinct(event_list[c])
  /\ \A e \in Event, c \in Cpu : In(e, event_list[c]) <=> active_state[e] /\ active_hcpu[e] = c

SortInv == \A c \in Cpu : Sorted(event_list[c], expiry)

\* Every start of an event reaches the clockchip of the list it is put in: a
\* clockchip can be programmed from everywhere, or no thread is moved on the way.
Reaches == ~LocalChip \/ Movers = {}

CoverInv ==
  \A c \in Cpu : started[c] = "on" /\ ~inprocess[c] =>
    \A e \in Event : In(e, event_list[c]) => \E d \in chip[c] : d <= Later(expiry[e], now)

OrderInv == ListInv /\ SortInv /\ (Reaches => CoverInv)

TimerInv == TimerTypes /\ HandlerInv /\ UserInv /\ (torn = {} => OrderInv)

\* The timer does not see the other steps, ...
LEMMA OrderFrame ==
  ASSUME TimerTypes, OrderInv,
         UNCHANGED <<now, started, inprocess, event_list, chip, active_state, active_hcpu, expiry, duration>>
  PROVE  TimerTypes' /\ OrderInv'
<1>1. /\ now' = now /\ started' = started /\ inprocess' = inprocess /\ event_list' = event_list
      /\ chip' = chip /\ active_state' = active_state /\ active_hcpu' = active_hcpu
      /\ expiry' = expiry /\ duration' = duration
  OBVIOUS
<1>2. TimerTypes'
  BY <1>1 DEF TimerTypes
<1>3. ListInv'
  BY <1>1, SMT DEF OrderInv, ListInv
<1>5. SortInv'
  BY <1>1 DEF OrderInv, SortInv
<1>4. Reaches => CoverInv'
  BY <1>1 DEF OrderInv, CoverInv
<1> QED BY <1>2, <1>3, <1>4, <1>5 DEF OrderInv, Reaches

\* ... a handler not those of threads ...
LEMMA HandlerFrame ==
  ASSUME HandlerInv, UNCHANGED <<hp, he>>
  PROVE  HandlerInv'
BY DEF HandlerInv

\* ... and a thread not those of handlers.
LEMMA UserFrame ==
  ASSUME UserInv, UNCHANGED <<on, pc, ev, hcpu, tstamp, dur>>
  PROVE  UserInv'
BY DEF UserInv

\* ... or nothing of the timer.
LEMMA TimerFrame ==
  ASSUME TimerInv, UNCHANGED timerVars
  PROVE  TimerInv'
<1>1. /\ UNCHANGED <<now, started, inprocess, event_list, chip, active_state, active_hcpu, expiry, duration>>
      /\ UNCHANGED <<hp, he>> /\ UNCHANGED <<on, pc, ev, hcpu, tstamp, dur>> /\ torn' = torn
  BY DEF timerVars, ctrlVars, eventVars, userVars
<1>2. TimerTypes'
  BY <1>1 DEF TimerInv, TimerTypes
<1>3. torn = {} => OrderInv'
  BY <1>1, OrderFrame DEF TimerInv
<1>4. HandlerInv' /\ UserInv'
  BY <1>1, HandlerFrame, UserFrame DEF TimerInv
<1> QED BY <1>1, <1>2, <1>3, <1>4 DEF TimerInv

LEMMA TimerStep == TimerInv /\ Next => TimerInv'
\* The order of a list only depends on the events in it.
<1>SortedSame.
    ASSUME NEW s, NEW exp, NEW new, Sorted(s, exp), \A x : In(x, s) => new[x] = exp[x]
    PROVE  Sorted(s, new)
  <2> USE <1>SortedSame
  <2> SUFFICES ASSUME NEW i \in DOMAIN s, NEW j \in DOMAIN s, i < j PROVE new[s[i]] <= new[s[j]]
    BY DEF Sorted
  <2>1. new[s[i]] = exp[s[i]] /\ new[s[j]] = exp[s[j]]
    BY DEF In
  <2>2. exp[s[i]] <= exp[s[j]]
    BY DEF Sorted
  <2> QED BY <2>1, <2>2
\* The first event of a list is the first to expire.
<1>HeadFirst.
    ASSUME NEW s \in Seq(Event), NEW exp \in [Event -> Nat], Sorted(s, exp), NEW e, In(e, s)
    PROVE  s # <<>> /\ Head(s) \in Event /\ e \in Event /\ exp[Head(s)] <= exp[e]
  <2> USE <1>HeadFirst
  <2>1. PICK i \in DOMAIN s : s[i] = e
    BY DEF In
  <2>2. /\ Len(s) \in Nat /\ DOMAIN s = 1..Len(s) /\ i \in 1..Len(s) /\ 1 \in DOMAIN s
        /\ s # <<>> /\ s[1] \in Event /\ s[i] \in Event /\ Head(s) = s[1]
    BY SMT
  <2>3. CASE i = 1
    BY <2>1, <2>2, <2>3, SMT
  <2>4. CASE i # 1
    <3>1. 1 < i
      BY <2>2, <2>4, SMT
    <3>2. exp[s[1]] <= exp[s[i]]
      BY <2>2, <3>1 DEF Sorted
    <3> QED BY <2>1, <2>2, <3>2
  <2> QED BY <2>3, <2>4
\* The lists without the event that __timer_event_stop() unlinks.
<1>UnlinkedFacts.
    ASSUME TimerTypes, ListInv, SortInv, NEW e \in Event
    PROVE  /\ Unlinked(e) \in [Cpu -> Seq(Event)]
           /\ \A c \in Cpu : Distinct(Unlinked(e)[c]) /\ Sorted(Unlinked(e)[c], expiry)
           /\ \A c \in Cpu : \A x : In(x, Unlinked(e)[c]) <=> x # e /\ In(x, event_list[c])
  <2> USE <1>UnlinkedFacts
  <2> DEFINE L == Unlinked(e)
  <2>1. /\ event_list \in [Cpu -> Seq(Event)] /\ active_hcpu[e] \in Cpu
        /\ \A c \in Cpu : Distinct(event_list[c]) /\ Sorted(event_list[c], expiry)
        /\ \A c \in Cpu : In(e, event_list[c]) <=> active_state[e] /\ active_hcpu[e] = c
    BY DEF TimerTypes, ListInv, SortInv
  <2>2. CASE active_state[e]
    <3> DEFINE h == active_hcpu[e]
               s == list_del(event_list[h], e)
    <3>1. L = [event_list EXCEPT ![h] = s]
      BY <2>2 DEF Unlinked
    <3>2. /\ s \in Seq(Event) /\ Distinct(s) /\ ~In(e, s) /\ Sorted(s, expiry)
          /\ \A y : In(y, s) => In(y, event_list[h])
          /\ \A y : In(y, event_list[h]) /\ y # e => In(y, s)
      BY <2>1, ListDelFacts
    <3>3. h \in Cpu /\ \A c \in Cpu : c # h => ~In(e, event_list[c])
      BY <2>1
    <3> HIDE DEF h, s, L
    <3>4. L \in [Cpu -> Seq(Event)] /\ L[h] = s /\ \A c \in Cpu : c # h => L[c] = event_list[c]
      BY <2>1, <3>1, <3>2, <3>3
    <3>5. \A c \in Cpu : Distinct(L[c]) /\ Sorted(L[c], expiry)
      BY <2>1, <3>2, <3>3, <3>4
    <3>6. ASSUME NEW c \in Cpu, NEW x PROVE In(x, L[c]) <=> x # e /\ In(x, event_list[c])
      <4>1. CASE c = h
        BY <3>2, <3>4, <4>1
      <4>2. CASE c # h
        BY <3>3, <3>4, <4>2
      <4> QED BY <4>1, <4>2
    <3> QED BY <3>4, <3>5, <3>6 DEF L
  <2>3. CASE ~active_state[e]
    <3>1. L = event_list
      BY <2>3 DEF Unlinked
    <3>2. \A c \in Cpu : ~In(e, event_list[c])
      BY <2>1, <2>3
    <3> HIDE DEF L
    <3>3. \A c \in Cpu : \A x : In(x, L[c]) <=> x # e /\ In(x, event_list[c])
      BY <3>1, <3>2
    <3> QED BY <2>1, <3>1, <3>3 DEF L
  <2> QED BY <2>2, <2>3
\* __timer_event_stop() keeps the lists, and no event is late that was not.
<1>StopStep.
    ASSUME TimerTypes, OrderInv, NEW e \in Event, EventStop(e),
           UNCHANGED <<now, started, inprocess, chip, active_hcpu, duration>>
    PROVE  TimerTypes' /\ OrderInv'
  <2> USE <1>StopStep
  <2> DEFINE L == Unlinked(e)
  <2>1. /\ L \in [Cpu -> Seq(Event)]
        /\ \A c \in Cpu : Distinct(L[c]) /\ Sorted(L[c], expiry)
        /\ \A c \in Cpu : \A x : In(x, L[c]) <=> x # e /\ In(x, event_list[c])
    BY <1>UnlinkedFacts DEF OrderInv
  <2> HIDE DEF L
  <2>2. /\ event_list' = L
        /\ active_state' = [active_state EXCEPT ![e] = FALSE]
        /\ expiry' = [expiry EXCEPT ![e] = IF active_state[e] THEN 0 ELSE @]
    BY DEF EventStop, L
  <2>3. /\ active_state' \in [Event -> BOOLEAN] /\ ~active_state'[e]
        /\ \A x \in Event : x # e => active_state'[x] = active_state[x]
    BY <2>2 DEF TimerTypes
  <2>4. /\ expiry' \in [Event -> Nat]
        /\ \A x \in Event : x # e => expiry'[x] = expiry[x]
    BY <2>2 DEF TimerTypes
  <2>5. TimerTypes'
    BY <2>1, <2>2, <2>3, <2>4 DEF TimerTypes
  <2>6. ListInv'
    <3>1. \A c \in Cpu : Distinct(event_list'[c])
      BY <2>1, <2>2
    <3>2. ASSUME NEW x \in Event, NEW c \in Cpu
          PROVE  In(x, event_list'[c]) <=> active_state'[x] /\ active_hcpu'[x] = c
      <4>1. In(x, event_list'[c]) <=> x # e /\ In(x, event_list[c])
        BY <2>1, <2>2
      <4>2. In(x, event_list[c]) <=> active_state[x] /\ active_hcpu[x] = c
        BY DEF OrderInv, ListInv
      <4> QED BY <2>3, <4>1, <4>2
    <3> QED BY <3>1, <3>2 DEF ListInv
  <2>7. SortInv'
    <3> SUFFICES ASSUME NEW c \in Cpu PROVE Sorted(event_list'[c], expiry')
      BY DEF SortInv
    <3>1. Sorted(L[c], expiry)
      BY <2>1
    <3>2. \A x : In(x, L[c]) => expiry'[x] = expiry[x]
      <4>1. \A x : In(x, L[c]) => x \in Event
        BY <2>1, SMT DEF In
      <4> QED BY <2>1, <2>4, <4>1
    <3>3. Sorted(L[c], expiry')
      BY <3>1, <3>2, <1>SortedSame
    <3> QED BY <2>2, <3>3
  <2>8. ASSUME Reaches PROVE CoverInv'
    <3> SUFFICES ASSUME NEW c \in Cpu, started'[c] = "on", ~inprocess'[c], NEW x \in Event, In(x, event_list'[c])
                 PROVE  \E d \in chip'[c] : d <= Later(expiry'[x], now')
      BY DEF CoverInv
    <3>1. x # e /\ In(x, event_list[c])
      BY <2>1, <2>2
    <3>2. PICK d \in chip[c] : d <= Later(expiry[x], now)
      BY <2>8, <3>1 DEF OrderInv, CoverInv
    <3>3. expiry'[x] = expiry[x]
      BY <2>4, <3>1
    <3>4. chip'[c] = chip[c] /\ Later(expiry'[x], now') = Later(expiry[x], now)
      BY <3>3
    <3> QED BY <3>2, <3>4
  <2> QED BY <2>5, <2>6, <2>7, <2>8 DEF OrderInv, Reaches
\* __timer_schedule_next_event() programs the clockchip for the first event, and
\* with it for all.
<1>ScheduleCovers.
    ASSUME NEW s \in Seq(Event), NEW exp \in [Event -> Nat], Sorted(s, exp), now \in Nat,
           NEW e, In(e, s)
    PROVE  Later(exp[Head(s)], now) <= Later(exp[e], now)
  <2> USE <1>ScheduleCovers
  <2>1. Head(s) \in Event /\ e \in Event /\ exp[Head(s)] <= exp[e]
    BY <1>HeadFirst
  <2>2. exp[Head(s)] \in Nat /\ exp[e] \in Nat
    BY <2>1
  <2> QED BY <2>1, <2>2, SMT DEF Later
<1>ProgramFacts.
    ASSUME TimerTypes, NEW c \in Cpu, NEW here \in Cpu, NEW s \in Seq(Event), s # <<>>,
           NEW exp \in [Event -> Nat]
    PROVE  LET l == Later(exp[Head(s)], now)
               new == [chip EXCEPT ![Device(c, here)] = {l}]
           IN  /\ new \in [Cpu -> SUBSET Nat]
               /\ Device(c, here) = c => new[c] = {l} /\ \A g \in Cpu \ {c} : new[g] = chip[g]
  <2> USE <1>ProgramFacts
  <2> DEFINE l == Later(exp[Head(s)], now)
             d == Device(c, here)
  <2>1. chip \in [Cpu -> SUBSET Nat] /\ now \in Nat
    BY DEF TimerTypes
  <2>2. d \in Cpu
    BY DEF Device
  <2>3. Head(s) \in Event
    BY TailFacts
  <2>4. l \in Nat
    BY <2>1, <2>3 DEF Later
  <2> HIDE DEF l, d
  <2>5. [chip EXCEPT ![d] = {l}] \in [Cpu -> SUBSET Nat]
    BY <2>1, <2>2, <2>4
  <2>6. \A g \in Cpu : [chip EXCEPT ![d] = {l}][g] = IF g = d THEN {l} ELSE chip[g]
    BY <2>1, <2>2
  <2> QED BY <2>5, <2>6 DEF l, d
\* vmm_timer_event_start() keeps the lists and their order, and programs the
\* clockchip of the list for what is first now.
<1>StartStep.
    ASSUME TimerTypes, OrderInv, NEW e \in Event, NEW d \in Nat, NEW c \in Cpu, NEW time \in Nat,
           NEW here \in Cpu, EventStart(e, d, c, time, here), Reaches => Device(c, here) = c,
           UNCHANGED <<now, started, inprocess>>
    PROVE  TimerTypes' /\ OrderInv'
  \* vmm_timer_event_start() puts an event before the first that expires later.
  <2>InsertPlace.
      ASSUME NEW s \in Seq(Event), NEW exp \in [Event -> Nat], NEW x \in Nat, NEW a \in Event,
             NEW p \in 1..Len(s) + 1, Position(s, exp, x, p)
      PROVE  Put(s, p, a, list_add_tail(s, p, a)) /\ Sits(s, exp, x, p)
    \* A list to which an event is added is longer by one.
    <3>AddFacts.
        ASSUME NEW q \in Seq(Event), NEW n \in 1..Len(q) + 1, NEW y \in Event
        PROVE  /\ list_add_tail(q, n, y) \in Seq(Event)
               /\ Len(list_add_tail(q, n, y)) = Len(q) + 1
      <4> USE <3>AddFacts
      <4> DEFINE r == list_add_tail(q, n, y)
      <4>1. Len(q) \in Nat /\ n \in Nat /\ \A k \in 1..Len(q) : q[k] \in Event
        BY SMT
      <4>2. r = [k \in 1..Len(q) + 1 |-> IF k < n THEN q[k] ELSE IF k = n THEN y ELSE q[k - 1]]
        BY DEF list_add_tail
      <4>3. \A k \in 1..Len(q) + 1 : (IF k < n THEN q[k] ELSE IF k = n THEN y ELSE q[k - 1]) \in Event
        BY <4>1, SMT
      <4> HIDE DEF r
      <4>4. r \in Seq(Event)
        BY <4>1, <4>2, <4>3, SMT
      <4>5. Len(r) = Len(q) + 1
        BY <4>1, <4>2, <4>4, SMT
      <4> QED BY <4>4, <4>5 DEF r
    <3> USE <2>InsertPlace
    <3>1. Put(s, p, a, list_add_tail(s, p, a))
      <4>1. list_add_tail(s, p, a) \in Seq(Event) /\ Len(list_add_tail(s, p, a)) = Len(s) + 1
        BY <3>AddFacts
      <4>2. ASSUME NEW k \in 1..Len(s) + 1
            PROVE  list_add_tail(s, p, a)[k] = IF k < p THEN s[k] ELSE IF k = p THEN a ELSE s[k - 1]
        BY DEF list_add_tail
      <4> QED BY <4>1, <4>2 DEF Put
    <3>2. Len(s) \in Nat /\ p \in Nat
      BY SMT
    <3>3. Sits(s, exp, x, p)
      BY <3>2, SMT DEF Sits, Position
    <3> QED BY <3>1, <3>3
  <2>InsertMoves.
      ASSUME NEW s \in Seq(Event), NEW p, NEW a, NEW r, Put(s, p, a, r)
      PROVE  Moves(s, p, a, r)
    <3> USE <2>InsertMoves
    <3>0. /\ p \in 1..Len(s) + 1 /\ r \in Seq(Event) /\ Len(r) = Len(s) + 1
          /\ \A k \in 1..Len(s) + 1 : r[k] = IF k < p THEN s[k] ELSE IF k = p THEN a ELSE s[k - 1]
      BY DEF Put
    <3>1. Len(s) \in Nat /\ DOMAIN s = 1..Len(s) /\ DOMAIN r = 1..Len(s) + 1
      BY <3>0, SMT
    <3>2. p \in DOMAIN r /\ r[p] = a /\ r # <<>> /\ p \in Nat /\ DOMAIN r \subseteq Nat
      BY <3>0, <3>1, SMT
    <3>3. ASSUME NEW j \in DOMAIN s PROVE Moved(j, p) \in DOMAIN r /\ r[Moved(j, p)] = s[j]
      <4>1. CASE j < p
        BY <3>0, <3>1, <4>1, SMT DEF Moved
      <4>2. CASE j >= p
        BY <3>0, <3>1, <4>2, SMT DEF Moved
      <4> QED BY <3>0, <3>1, <4>1, <4>2, SMT
    <3>4. ASSUME NEW k \in DOMAIN r, k # p PROVE Came(k, p) \in DOMAIN s /\ r[k] = s[Came(k, p)]
      <4>1. CASE k < p
        BY <3>0, <3>1, <4>1, SMT DEF Came
      <4>2. CASE k > p
        BY <3>0, <3>1, <4>2, SMT DEF Came
      <4> QED BY <3>0, <3>2, <3>4, <4>1, <4>2, SMT
    <3> DEFINE N == DOMAIN r
    <3>5. N \subseteq Nat /\ p \in Nat
      BY <3>2
    <3> HIDE DEF N
    <3>6. /\ \A k, l \in N : k # p /\ l # p /\ k < l => Came(k, p) < Came(l, p)
          /\ \A k, l \in N : k # p /\ l # p /\ Came(k, p) = Came(l, p) => k = l
      <4>1. /\ \A k, l, n \in Nat : k # n /\ l # n /\ k < l => Came(k, n) < Came(l, n)
            /\ \A k, l, n \in Nat : k # n /\ l # n /\ Came(k, n) = Came(l, n) => k = l
        BY SMT DEF Came
      <4> QED BY <3>5, <4>1
    <3>7. \A k \in N : (k < p => Came(k, p) < p) /\ (k > p => Came(k, p) >= p)
      <4>1. \A k, n \in Nat : (k < n => Came(k, n) < n) /\ (k > n => Came(k, n) >= n)
        BY SMT DEF Came
      <4> QED BY <3>5, <4>1
    <3> QED BY <3>2, <3>3, <3>4, <3>6, <3>7 DEF N, Moves
  <2>InsertFacts.
      ASSUME NEW s \in Seq(Event), NEW exp \in [Event -> Nat], NEW x \in Nat, NEW a \in Event,
             ~In(a, s), NEW p \in 1..Len(s) + 1, Position(s, exp, x, p)
      PROVE  Added(s, a, list_add_tail(s, p, a))
    <3> USE <2>InsertFacts
    <3> DEFINE r == list_add_tail(s, p, a)
    <3>1. Put(s, p, a, r)
      BY <2>InsertPlace
    <3> HIDE DEF r
    <3>2. r \in Seq(Event)
      BY <3>1 DEF Put
    <3>3. /\ p \in DOMAIN r /\ r[p] = a /\ r # <<>>
          /\ \A j \in DOMAIN s : Moved(j, p) \in DOMAIN r /\ r[Moved(j, p)] = s[j]
          /\ \A k \in DOMAIN r : k # p => Came(k, p) \in DOMAIN s /\ r[k] = s[Came(k, p)]
          /\ \A k, l \in DOMAIN r : k # p /\ l # p /\ Came(k, p) = Came(l, p) => k = l
      <4>1. Moves(s, p, a, r)
        BY <3>1, <2>InsertMoves
      <4> QED BY <4>1 DEF Moves
    <3>4. \A y : In(y, r) <=> In(y, s) \/ y = a
      BY <3>3 DEF In
    <3>5. ASSUME Distinct(s) PROVE Distinct(r)
      <4> SUFFICES ASSUME NEW k \in DOMAIN r, NEW l \in DOMAIN r, r[k] = r[l] PROVE k = l
        BY DEF Distinct
      <4>1. CASE k = p \/ l = p
        BY <3>3, <4>1 DEF In
      <4>2. CASE k # p /\ l # p
        BY <3>3, <3>5, <4>2 DEF Distinct
      <4> QED BY <4>1, <4>2
    <3>6. Added(s, a, r)
      BY <3>2, <3>3, <3>4, <3>5 DEF Added
    <3> QED BY <3>6 DEF r
  \* The list is still in the order of the expiry times.
  <2>InsertSorted.
      ASSUME NEW s \in Seq(Event), NEW exp \in [Event -> Nat], NEW x \in Nat, NEW a \in Event,
             ~In(a, s), Sorted(s, exp), NEW p \in 1..Len(s) + 1, Position(s, exp, x, p),
             NEW new, Restarted(exp, new, a, x)
      PROVE  Sorted(list_add_tail(s, p, a), new)
    <3> USE <2>InsertSorted
    <3> DEFINE r == list_add_tail(s, p, a)
    <3>1. Put(s, p, a, r) /\ Sits(s, exp, x, p)
      BY <2>InsertPlace
    <3> HIDE DEF r
    <3>2. /\ p \in 1..Len(s) + 1 /\ r \in Seq(Event) /\ Len(r) = Len(s) + 1
          /\ \A j \in 1..Len(s) : j < p => exp[s[j]] <= x
          /\ p <= Len(s) => exp[s[p]] > x
      BY <3>1 DEF Put, Sits
    <3>3. /\ p \in DOMAIN r /\ r[p] = a
          /\ \A k \in DOMAIN r : k # p => Came(k, p) \in DOMAIN s /\ r[k] = s[Came(k, p)]
          /\ \A k, l \in DOMAIN r : k # p /\ l # p /\ k < l => Came(k, p) < Came(l, p)
          /\ \A k \in DOMAIN r : (k < p => Came(k, p) < p) /\ (k > p => Came(k, p) >= p)
      <4>1. Moves(s, p, a, r)
        BY <3>1, <2>InsertMoves
      <4> QED BY <4>1 DEF Moves
    <3>4. /\ Len(s) \in Nat /\ DOMAIN s = 1..Len(s) /\ DOMAIN r = 1..Len(s) + 1
          /\ \A j \in DOMAIN s : s[j] \in Event /\ exp[s[j]] \in Nat
      BY <3>2, SMT
    <3>5. \A j \in DOMAIN s : new[s[j]] = exp[s[j]]
      BY <3>4 DEF In, Restarted
    <3>0. new[a] = x
      BY DEF Restarted
    <3> SUFFICES ASSUME NEW k \in DOMAIN r, NEW l \in DOMAIN r, k < l PROVE new[r[k]] <= new[r[l]]
      BY DEF Sorted, r
    <3>6. CASE k # p /\ l # p
      <4>1. Came(k, p) \in DOMAIN s /\ Came(l, p) \in DOMAIN s /\ Came(k, p) < Came(l, p)
        BY <3>3, <3>6
      <4>2. new[r[k]] = exp[s[Came(k, p)]] /\ new[r[l]] = exp[s[Came(l, p)]]
        BY <3>3, <3>5, <3>6, <4>1
      <4>3. exp[s[Came(k, p)]] <= exp[s[Came(l, p)]]
        BY <4>1 DEF Sorted
      <4> QED BY <4>2, <4>3
    <3>7. CASE l = p
      <4>1. k # p /\ k < p
        BY <3>4, <3>7, SMT
      <4>2. Came(k, p) \in DOMAIN s /\ Came(k, p) < p /\ r[k] = s[Came(k, p)]
        BY <3>3, <4>1
      <4>3. exp[s[Came(k, p)]] <= x
        BY <3>2, <3>4, <4>2
      <4>4. new[s[Came(k, p)]] = exp[s[Came(k, p)]] /\ r[l] = a
        BY <3>3, <3>5, <3>7, <4>2
      <4> QED BY <3>0, <3>7, <4>2, <4>3, <4>4
    <3>8. CASE k = p
      <4>1. l # p /\ l > p
        BY <3>4, <3>8, SMT
      <4>2. Came(l, p) \in DOMAIN s /\ Came(l, p) >= p /\ r[l] = s[Came(l, p)]
        BY <3>3, <4>1
      <4>3. p \in DOMAIN s /\ exp[s[p]] > x
        <5>1. \A n \in 1..Len(s) : n >= p => p \in 1..Len(s) /\ p <= Len(s)
          BY <3>2, <3>4, SMT
        <5>2. p \in 1..Len(s) /\ p <= Len(s)
          BY <3>4, <4>2, <5>1
        <5> QED BY <3>2, <3>4, <5>2
      <4>4. exp[s[p]] <= exp[s[Came(l, p)]]
        <5>1. p = Came(l, p) \/ p < Came(l, p)
          BY <3>4, <4>2, <4>3, SMT
        <5>2. CASE p = Came(l, p)
          BY <3>4, <4>3, <5>2, SMT
        <5>3. CASE p < Came(l, p)
          BY <4>2, <4>3, <5>3 DEF Sorted
        <5> QED BY <5>1, <5>2, <5>3
      <4>5. exp[s[p]] \in Nat /\ exp[s[Came(l, p)]] \in Nat
        BY <3>4, <4>2, <4>3
      <4>6. x <= exp[s[Came(l, p)]]
        BY <4>3, <4>4, <4>5, SMT
      <4>7. new[s[Came(l, p)]] = exp[s[Came(l, p)]] /\ r[k] = a
        BY <3>3, <3>5, <3>8, <4>2
      <4> QED BY <3>0, <3>8, <4>2, <4>6, <4>7
    <3> QED BY <3>6, <3>7, <3>8
  <2> USE <1>StartStep
  <2> DEFINE L == Unlinked(e)
             x == time + d
  <2>1. /\ L \in [Cpu -> Seq(Event)]
        /\ \A g \in Cpu : Distinct(L[g]) /\ Sorted(L[g], expiry)
        /\ \A g \in Cpu : \A y : In(y, L[g]) <=> y # e /\ In(y, event_list[g])
    BY <1>UnlinkedFacts DEF OrderInv
  <2>2a. PICK p \in 1..Len(L[c]) + 1 :
           /\ Position(L[c], expiry, x, p)
           /\ event_list' = [L EXCEPT ![c] = list_add_tail(L[c], p, e)]
           /\ chip' = ScheduleNext(c, here, list_add_tail(L[c], p, e), expiry', inprocess[c])
    BY DEF EventStart
  <2> DEFINE s == list_add_tail(L[c], p, e)
  <2>2. /\ expiry' = [expiry EXCEPT ![e] = x]
        /\ duration' = [duration EXCEPT ![e] = d]
        /\ active_state' = [active_state EXCEPT ![e] = TRUE]
        /\ active_hcpu' = [active_hcpu EXCEPT ![e] = c]
        /\ event_list' = [L EXCEPT ![c] = s]
        /\ chip' = ScheduleNext(c, here, s, expiry', inprocess[c])
    BY <2>2a DEF EventStart
  <2>3. x \in Nat /\ expiry \in [Event -> Nat]
    BY SMT DEF TimerTypes
  <2> HIDE DEF L, x
  <2>6. /\ expiry' \in [Event -> Nat] /\ expiry'[e] = x
        /\ \A y \in Event : y # e => expiry'[y] = expiry[y]
    BY <2>2, <2>3
  <2>4. /\ s \in Seq(Event) /\ s # <<>>
        /\ \A y : In(y, s) <=> In(y, L[c]) \/ y = e
        /\ Distinct(s) /\ Sorted(s, expiry')
    <3>1. L[c] \in Seq(Event) /\ ~In(e, L[c]) /\ Distinct(L[c]) /\ Sorted(L[c], expiry)
      BY <2>1
    <3> DEFINE q == L[c]
    <3>2. s = list_add_tail(q, p, e)
      OBVIOUS
    <3> HIDE DEF s, q
    <3>3. /\ q \in Seq(Event) /\ ~In(e, q) /\ Distinct(q) /\ Sorted(q, expiry)
          /\ p \in 1..Len(q) + 1 /\ Position(q, expiry, x, p)
      BY <2>2a, <3>1 DEF q
    <3> DEFINE r == list_add_tail(q, p, e)
    <3>4. Added(q, e, r)
      BY <2>3, <3>3, <2>InsertFacts
    <3>5. Sorted(r, expiry')
      <4>1. Restarted(expiry, expiry', e, x)
        BY <2>6 DEF Restarted
      <4> QED BY <2>3, <3>3, <4>1, <2>InsertSorted
    <3>6. s = r
      BY <3>2
    <3> HIDE DEF r
    <3> QED BY <3>3, <3>4, <3>5, <3>6 DEF q, Added
  <2> HIDE DEF s
  <2>5. /\ event_list' \in [Cpu -> Seq(Event)] /\ event_list'[c] = s
        /\ \A g \in Cpu \ {c} : event_list'[g] = L[g]
    BY <2>1, <2>2, <2>4
  <2>7. /\ active_state' \in [Event -> BOOLEAN] /\ active_state'[e]
        /\ \A y \in Event : y # e => active_state'[y] = active_state[y]
    BY <2>2 DEF TimerTypes
  <2>8. /\ active_hcpu' \in [Event -> Cpu] /\ active_hcpu'[e] = c
        /\ \A y \in Event : y # e => active_hcpu'[y] = active_hcpu[y]
    BY <2>2 DEF TimerTypes
  <2>9. /\ chip' \in [Cpu -> SUBSET Nat]
        /\ Reaches => \A g \in Cpu \ {c} : chip'[g] = chip[g]
        /\ Reaches /\ started[c] = "on" /\ ~inprocess[c] => chip'[c] = {Later(expiry'[Head(s)], now)}
    <3> DEFINE l == Later(expiry'[Head(s)], now)
               new == [chip EXCEPT ![Device(c, here)] = {l}]
    <3>1. /\ new \in [Cpu -> SUBSET Nat]
          /\ Device(c, here) = c => new[c] = {l} /\ \A g \in Cpu \ {c} : new[g] = chip[g]
      BY <2>4, <2>6, <1>ProgramFacts
    <3>2. chip \in [Cpu -> SUBSET Nat]
      BY DEF TimerTypes
    <3>3. chip' = IF started[c] # "on" \/ inprocess[c] \/ s = <<>> THEN chip ELSE new
      BY <2>2 DEF ScheduleNext
    <3> HIDE DEF l, new
    <3> QED BY <2>4, <3>1, <3>2, <3>3 DEF l
  <2>10. duration' \in [Event -> Nat]
    BY <2>2 DEF TimerTypes
  <2>11. TimerTypes'
    BY <2>5, <2>6, <2>7, <2>8, <2>9, <2>10 DEF TimerTypes
  <2>12. ListInv'
    <3>1. \A g \in Cpu : Distinct(event_list'[g])
      BY <2>1, <2>4, <2>5
    <3>2. ASSUME NEW y \in Event, NEW g \in Cpu
          PROVE  In(y, event_list'[g]) <=> active_state'[y] /\ active_hcpu'[y] = g
      <4>1. In(y, event_list[g]) <=> active_state[y] /\ active_hcpu[y] = g
        BY DEF OrderInv, ListInv
      <4>2. In(y, L[g]) <=> y # e /\ In(y, event_list[g])
        BY <2>1
      <4>3. CASE y = e
        BY <2>4, <2>5, <2>7, <2>8, <4>2, <4>3
      <4>4. CASE y # e
        <5>1. In(y, event_list'[g]) <=> In(y, L[g])
          BY <2>4, <2>5, <4>4
        <5> QED BY <2>7, <2>8, <4>1, <4>2, <4>4, <5>1
      <4> QED BY <4>3, <4>4
    <3> QED BY <3>1, <3>2 DEF ListInv
  <2>13. SortInv'
    <3> SUFFICES ASSUME NEW g \in Cpu PROVE Sorted(event_list'[g], expiry')
      BY DEF SortInv
    <3>1. CASE g = c
      BY <2>4, <2>5, <3>1
    <3>2. CASE g # c
      <4>1. Sorted(L[g], expiry) /\ event_list'[g] = L[g] /\ L[g] \in Seq(Event)
        BY <2>1, <2>5, <3>2
      <4>2. \A y : In(y, L[g]) => y \in Event
        BY <4>1, SMT DEF In
      <4>3. \A y : In(y, L[g]) => expiry'[y] = expiry[y]
        BY <2>1, <2>6, <4>2
      <4> QED BY <4>1, <4>3, <1>SortedSame
    <3> QED BY <3>1, <3>2
  <2>14. ASSUME Reaches PROVE CoverInv'
    <3>1. now' = now /\ now \in Nat /\ started' = started /\ inprocess' = inprocess
      BY DEF TimerTypes
    <3> SUFFICES ASSUME NEW g \in Cpu, started'[g] = "on", ~inprocess'[g], NEW y \in Event, In(y, event_list'[g])
                 PROVE  \E n \in chip'[g] : n <= Later(expiry'[y], now)
      BY <3>1 DEF CoverInv
    <3>2. CASE g = c
      <4>1. Later(expiry'[Head(s)], now) <= Later(expiry'[y], now)
        BY <2>4, <2>5, <2>6, <3>1, <3>2, <1>ScheduleCovers
      <4>2. chip'[g] = {Later(expiry'[Head(s)], now)}
        BY <2>9, <2>14, <3>1, <3>2
      <4> QED BY <4>1, <4>2
    <3>3. CASE g # c
      <4>1. y # e /\ In(y, event_list[g])
        BY <2>1, <2>5, <3>3
      <4>2. PICK n \in chip[g] : n <= Later(expiry[y], now)
        BY <2>14, <3>1, <4>1 DEF OrderInv, CoverInv
      <4>3. expiry'[y] = expiry[y] /\ chip'[g] = chip[g]
        BY <2>6, <2>9, <2>14, <3>3, <4>1
      <4> QED BY <4>2, <4>3
    <3> QED BY <3>2, <3>3
  <2> QED BY <2>11, <2>12, <2>13, <2>14 DEF OrderInv, Reaches
<1>HandlerMoves.
    ASSUME HandlerInv, NEW c \in Cpu, NEW p \in {"idle", "scan", "stop", "call", "complete"},
           hp' = [hp EXCEPT ![c] = p],
           \/ he' = he /\ (p \in {"stop", "call"} => he[c] \in Event)
           \/ he' = [he EXCEPT ![c] = AnEvent] /\ p \notin {"stop", "call"}
    PROVE  HandlerInv'
    BY <1>HandlerMoves DEF HandlerInv
<1>UserMoves.
    ASSUME UserInv, NEW t \in User, NEW p \in {"idle", "complete", "stop", "flush"},
           pc' = [pc EXCEPT ![t] = p], UNCHANGED <<on, ev, hcpu, tstamp, dur>>
    PROVE  UserInv'
    BY <1>UserMoves DEF UserInv
<1>UserStarts.
    ASSUME UserInv, NEW t \in User, NEW e \in Event, NEW d \in Nat, now \in Nat,
           pc' = [pc EXCEPT ![t] = "start"], ev' = [ev EXCEPT ![t] = e],
           hcpu' = [hcpu EXCEPT ![t] = on[t]], tstamp' = [tstamp EXCEPT ![t] = now],
           dur' = [dur EXCEPT ![t] = d], on' = on
    PROVE  UserInv'
    BY <1>UserStarts DEF UserInv
\* Each step of the timer keeps TimerInv.
<1>TickStep.
    ASSUME TimerInv, torn = {}, Tick
    PROVE  TimerInv'
  <2> USE <1>TickStep
  <2>1. /\ started' = started /\ inprocess' = inprocess /\ event_list' = event_list /\ chip' = chip
        /\ active_state' = active_state /\ active_hcpu' = active_hcpu
        /\ expiry' = expiry /\ duration' = duration
        /\ UNCHANGED <<hp, he>> /\ UNCHANGED <<on, pc, ev, hcpu, tstamp, dur>>
    BY DEF Tick, eventVars, userVars
  <2>2. now \in Nat /\ now' \in Nat /\ now <= now'
    BY SMT DEF TimerInv, TimerTypes, Tick
  <2>3. TimerTypes'
    BY <2>1, <2>2 DEF TimerInv, TimerTypes
  <2>4. ListInv'
    BY <2>1 DEF TimerInv, OrderInv, ListInv
  <2>5. SortInv'
    BY <2>1 DEF TimerInv, OrderInv, SortInv
  <2>6. ASSUME Reaches PROVE CoverInv'
    <3> SUFFICES ASSUME NEW c \in Cpu, started'[c] = "on", ~inprocess'[c], NEW x \in Event, In(x, event_list'[c])
                 PROVE  \E d \in chip'[c] : d <= Later(expiry'[x], now')
      BY DEF CoverInv
    <3>1. PICK d \in chip[c] : d <= Later(expiry[x], now)
      BY <2>1, <2>6 DEF TimerInv, OrderInv, CoverInv
    <3>2. d \in Nat /\ expiry[x] \in Nat
      BY DEF TimerInv, TimerTypes
    <3>3. d <= Later(expiry[x], now')
      BY <2>2, <3>1, <3>2, SMT DEF Later
    <3> QED BY <2>1, <3>3
  <2>7. HandlerInv' /\ UserInv'
    BY <2>1, HandlerFrame, UserFrame DEF TimerInv
  <2> QED BY <2>3, <2>4, <2>5, <2>6, <2>7 DEF TimerInv, OrderInv, Reaches
<1>TimerStartStep.
    ASSUME TimerInv, torn = {}, NEW c \in Cpu, vmm_timer_start(c)
    PROVE  TimerInv'
  <2> USE <1>TimerStartStep
  <2>1. /\ now' = now /\ inprocess' = inprocess /\ event_list' = event_list
        /\ active_state' = active_state /\ active_hcpu' = active_hcpu
        /\ expiry' = expiry /\ duration' = duration
        /\ UNCHANGED <<hp, he>> /\ UNCHANGED <<on, pc, ev, hcpu, tstamp, dur>>
    BY DEF vmm_timer_start, eventVars, userVars
  <2>2. /\ started' \in [Cpu -> {"new", "on", "off"}] /\ chip' \in [Cpu -> SUBSET Nat]
        /\ chip'[c] = {now}
        /\ \A g \in Cpu \ {c} : started'[g] = started[g] /\ chip'[g] = chip[g]
    BY DEF TimerInv, TimerTypes, vmm_timer_start
  <2>3. TimerTypes'
    BY <2>1, <2>2 DEF TimerInv, TimerTypes
  <2>4. ListInv'
    BY <2>1 DEF TimerInv, OrderInv, ListInv
  <2>5. SortInv'
    BY <2>1 DEF TimerInv, OrderInv, SortInv
  <2>6. ASSUME Reaches PROVE CoverInv'
    <3> SUFFICES ASSUME NEW g \in Cpu, started'[g] = "on", ~inprocess'[g], NEW x \in Event, In(x, event_list'[g])
                 PROVE  \E d \in chip'[g] : d <= Later(expiry'[x], now')
      BY DEF CoverInv
    <3>1. CASE g = c
      <4>1. now \in Nat /\ expiry[x] \in Nat
        BY DEF TimerInv, TimerTypes
      <4>2. now <= Later(expiry[x], now)
        BY <4>1, SMT DEF Later
      <4> QED BY <2>1, <2>2, <3>1, <4>2
    <3>2. CASE g # c
      <4>1. \E d \in chip[g] : d <= Later(expiry[x], now)
        BY <2>1, <2>2, <2>6, <3>2 DEF TimerInv, OrderInv, CoverInv
      <4> QED BY <2>1, <2>2, <3>2, <4>1
    <3> QED BY <3>1, <3>2
  <2>7. HandlerInv' /\ UserInv'
    BY <2>1, HandlerFrame, UserFrame DEF TimerInv
  <2> QED BY <2>3, <2>4, <2>5, <2>6, <2>7 DEF TimerInv, OrderInv, Reaches
\* A host CPU that has no clockchip to be programmed for its events.
<1>Excused.
    ASSUME TimerInv, torn = {}, NEW c \in Cpu, started' \in [Cpu -> {"new", "on", "off"}],
           inprocess' \in [Cpu -> BOOLEAN], chip' = [chip EXCEPT ![c] = {}],
           started'[c] # "on" \/ inprocess'[c],
           \A g \in Cpu \ {c} : started'[g] = started[g] /\ inprocess'[g] = inprocess[g],
           UNCHANGED <<now, event_list, active_state, active_hcpu, expiry, duration>>
    PROVE  TimerTypes' /\ OrderInv'
  <2> USE <1>Excused
  <2>1. /\ now' = now /\ event_list' = event_list
        /\ active_state' = active_state /\ active_hcpu' = active_hcpu
        /\ expiry' = expiry /\ duration' = duration
    OBVIOUS
  <2>2. chip' \in [Cpu -> SUBSET Nat] /\ \A g \in Cpu \ {c} : chip'[g] = chip[g]
    BY DEF TimerInv, TimerTypes
  <2>3. TimerTypes'
    BY <2>1, <2>2 DEF TimerInv, TimerTypes
  <2>4. ListInv'
    BY <2>1, SMT DEF TimerInv, OrderInv, ListInv
  <2>5. SortInv'
    BY <2>1 DEF TimerInv, OrderInv, SortInv
  <2>6. ASSUME Reaches PROVE CoverInv'
    <3> SUFFICES ASSUME NEW g \in Cpu, started'[g] = "on", ~inprocess'[g], NEW x \in Event, In(x, event_list'[g])
                 PROVE  \E d \in chip'[g] : d <= Later(expiry'[x], now')
      BY DEF CoverInv
    <3>1. g # c
      OBVIOUS
    <3>2. \E d \in chip[g] : d <= Later(expiry[x], now)
      BY <2>1, <2>6, <3>1 DEF TimerInv, OrderInv, CoverInv
    <3> QED BY <2>1, <2>2, <3>1, <3>2
  <2> QED BY <2>3, <2>4, <2>5, <2>6 DEF OrderInv, Reaches
<1>TimerStopStep.
    ASSUME TimerInv, torn = {}, NEW c \in Cpu, vmm_timer_stop(c)
    PROVE  TimerInv'
  <2> USE <1>TimerStopStep
  <2>1. /\ UNCHANGED <<now, event_list, active_state, active_hcpu, expiry, duration>>
        /\ inprocess' = inprocess /\ chip' = [chip EXCEPT ![c] = {}]
        /\ UNCHANGED <<hp, he>> /\ UNCHANGED <<on, pc, ev, hcpu, tstamp, dur>>
    BY DEF vmm_timer_stop, eventVars, userVars
  <2>2. /\ started' \in [Cpu -> {"new", "on", "off"}] /\ inprocess' \in [Cpu -> BOOLEAN]
        /\ started'[c] # "on" /\ \A g \in Cpu \ {c} : started'[g] = started[g]
    BY <2>1, SMT DEF TimerInv, TimerTypes, vmm_timer_stop
  <2>3. TimerTypes' /\ OrderInv'
    BY <2>1, <2>2, <1>Excused
  <2>4. HandlerInv' /\ UserInv'
    BY <2>1, HandlerFrame, UserFrame DEF TimerInv
  <2> QED BY <2>3, <2>4 DEF TimerInv
<1>InterruptStep.
    ASSUME TimerInv, torn = {}, NEW c \in Cpu, clock_interrupt(c)
    PROVE  TimerInv'
  <2> USE <1>InterruptStep
  <2>1. /\ UNCHANGED <<now, event_list, active_state, active_hcpu, expiry, duration>>
        /\ started' = started /\ chip' = [chip EXCEPT ![c] = {}]
        /\ hp' = [hp EXCEPT ![c] = "scan"] /\ he' = he /\ UNCHANGED <<on, pc, ev, hcpu, tstamp, dur>>
    BY DEF clock_interrupt, eventVars, userVars
  <2>2. /\ started' \in [Cpu -> {"new", "on", "off"}] /\ inprocess' \in [Cpu -> BOOLEAN]
        /\ inprocess'[c] /\ \A g \in Cpu \ {c} : inprocess'[g] = inprocess[g]
    BY <2>1, SMT DEF TimerInv, TimerTypes, clock_interrupt
  <2>3. TimerTypes' /\ OrderInv'
    BY <2>1, <2>2, <1>Excused
  <2>4. UserInv'
    BY <2>1, UserFrame DEF TimerInv
  <2>5. HandlerInv'
    BY <2>1, <1>HandlerMoves DEF TimerInv
  <2> QED BY <2>3, <2>4, <2>5 DEF TimerInv
\* At the end timer_clockchip_event_handler() programs the clockchip for what is
\* in the list by then.
<1>ScanStep.
    ASSUME TimerInv, torn = {}, NEW c \in Cpu, handler_scan(c)
    PROVE  TimerInv'
  <2> USE <1>ScanStep
  <2>1. /\ now' = now /\ started' = started /\ event_list' = event_list
        /\ active_state' = active_state /\ active_hcpu' = active_hcpu
        /\ expiry' = expiry /\ duration' = duration
        /\ UNCHANGED <<on, pc, ev, hcpu, tstamp, dur>>
    BY DEF handler_scan, eventVars, userVars
  <2>2. UserInv'
    BY <2>1, UserFrame DEF TimerInv
  <2>3. CASE event_list[c] # <<>> /\ expiry[Head(event_list[c])] <= now
    <3>1. /\ hp' = [hp EXCEPT ![c] = "stop"] /\ he' = [he EXCEPT ![c] = Head(event_list[c])]
          /\ inprocess' = inprocess /\ chip' = chip
      BY <2>3 DEF handler_scan
    <3>2. Head(event_list[c]) \in Event
      <4>1. event_list[c] \in Seq(Event)
        BY DEF TimerInv, TimerTypes
      <4> QED BY <2>3, <4>1, TailFacts
    <3>3. HandlerInv'
      BY <3>1, <3>2 DEF TimerInv, HandlerInv
    <3>4. TimerTypes' /\ OrderInv'
      BY <2>1, <3>1, OrderFrame DEF TimerInv
    <3> QED BY <2>2, <3>3, <3>4 DEF TimerInv
  <2>4. CASE ~(event_list[c] # <<>> /\ expiry[Head(event_list[c])] <= now)
    <3> DEFINE s == event_list[c]
    <3>1. /\ hp' = [hp EXCEPT ![c] = "idle"] /\ he' = he
          /\ inprocess' = [inprocess EXCEPT ![c] = FALSE]
          /\ chip' = ScheduleNext(c, c, s, expiry, FALSE)
      BY <2>4 DEF handler_scan
    <3>2. HandlerInv'
      BY <3>1, <1>HandlerMoves DEF TimerInv
    <3>3. TimerTypes /\ OrderInv /\ s \in Seq(Event) /\ now \in Nat /\ expiry \in [Event -> Nat]
      BY DEF TimerInv, TimerTypes
    <3>4. inprocess' \in [Cpu -> BOOLEAN] /\ \A g \in Cpu \ {c} : inprocess'[g] = inprocess[g]
      BY <3>1 DEF TimerInv, TimerTypes
    <3>5. Sorted(s, expiry)
      BY DEF TimerInv, OrderInv, SortInv
    <3>6. event_list'[c] = s
      BY <2>1
    <3> HIDE DEF s
    <3>7. /\ chip' \in [Cpu -> SUBSET Nat]
          /\ \A g \in Cpu \ {c} : chip'[g] = chip[g]
          /\ started[c] = "on" /\ s # <<>> => chip'[c] = {Later(expiry[Head(s)], now)}
      <4> DEFINE l == Later(expiry[Head(s)], now)
                 new == [chip EXCEPT ![Device(c, c)] = {l}]
      <4>1. Device(c, c) = c
        BY DEF Device
      <4>2. s # <<>> => /\ new \in [Cpu -> SUBSET Nat]
                        /\ Device(c, c) = c => new[c] = {l} /\ \A g \in Cpu \ {c} : new[g] = chip[g]
        BY <3>3, <1>ProgramFacts
      <4>3. chip \in [Cpu -> SUBSET Nat]
        BY DEF TimerInv, TimerTypes
      <4>4. chip' = IF started[c] # "on" \/ FALSE \/ s = <<>> THEN chip ELSE new
        BY <3>1 DEF ScheduleNext
      <4> HIDE DEF l, new
      <4> QED BY <4>1, <4>2, <4>3, <4>4 DEF l
    <3>8. TimerTypes'
      BY <2>1, <3>4, <3>7 DEF TimerInv, TimerTypes
    <3>9. ListInv'
      BY <2>1 DEF TimerInv, OrderInv, ListInv
    <3>10. SortInv'
      BY <2>1 DEF TimerInv, OrderInv, SortInv
    <3>11. ASSUME Reaches PROVE CoverInv'
      <4> SUFFICES ASSUME NEW g \in Cpu, started'[g] = "on", ~inprocess'[g], NEW x \in Event, In(x, event_list'[g])
                   PROVE  \E d \in chip'[g] : d <= Later(expiry'[x], now')
        BY DEF CoverInv
      <4>1. CASE g = c
        <5>1. In(x, s)
          BY <3>6, <4>1
        <5>2. s # <<>> /\ Later(expiry[Head(s)], now) <= Later(expiry[x], now)
          BY <3>3, <3>5, <5>1, <1>HeadFirst, <1>ScheduleCovers
        <5> QED BY <2>1, <3>7, <4>1, <5>2
      <4>2. CASE g # c
        <5>1. \E d \in chip[g] : d <= Later(expiry[x], now)
          BY <2>1, <3>4, <3>11, <4>2 DEF TimerInv, OrderInv, CoverInv
        <5> QED BY <2>1, <3>7, <4>2, <5>1
      <4> QED BY <4>1, <4>2
    <3> QED BY <2>2, <3>2, <3>8, <3>9, <3>10, <3>11 DEF TimerInv, OrderInv, Reaches
  <2> QED BY <2>3, <2>4
<1>HandlerStopStep.
    ASSUME TimerInv, torn = {}, NEW c \in Cpu, handler_stop(c)
    PROVE  TimerInv'
  <2> USE <1>HandlerStopStep
  <2>1. /\ UNCHANGED <<now, started, inprocess, chip, active_hcpu, duration>> /\ EventStop(he[c])
        /\ hp' = [hp EXCEPT ![c] = "call"] /\ he' = he /\ UNCHANGED <<on, pc, ev, hcpu, tstamp, dur>>
    BY DEF handler_stop, userVars
  <2>2. he[c] \in Event
    BY DEF TimerInv, HandlerInv, handler_stop
  <2>3. TimerTypes' /\ OrderInv'
    BY <2>1, <2>2, <1>StopStep DEF TimerInv
  <2>4. UserInv'
    BY <2>1, UserFrame DEF TimerInv
  <2>5. HandlerInv'
    BY <2>1, <2>2, <1>HandlerMoves DEF TimerInv
  <2> QED BY <2>3, <2>4, <2>5 DEF TimerInv
<1>HandlerCallStep.
    ASSUME TimerInv, torn = {}, NEW c \in Cpu, handler_call(c)
    PROVE  TimerInv'
  <2> USE <1>HandlerCallStep
  <2>1. /\ now' = now /\ started' = started /\ inprocess' = inprocess
        /\ hp' = [hp EXCEPT ![c] = "scan"] /\ he' = [he EXCEPT ![c] = AnEvent]
        /\ UNCHANGED <<on, pc, ev, hcpu, tstamp, dur>>
    BY DEF handler_call, userVars
  <2>2. he[c] \in Event
    BY TimerAssumption DEF handler_call
  <2>3. TimerTypes' /\ OrderInv'
    <3>1. CASE EventStart(he[c], duration[he[c]], c, now, c)
      <4>1. now \in Nat /\ duration[he[c]] \in Nat
        BY <2>2 DEF TimerInv, TimerTypes
      <4>2. Device(c, c) = c
        BY DEF Device
      <4> QED BY <2>1, <2>2, <3>1, <4>1, <4>2, <1>StartStep DEF TimerInv
    <3>2. CASE UNCHANGED <<event_list, chip, eventVars, torn>>
      <4>1. /\ event_list' = event_list /\ chip' = chip
            /\ active_state' = active_state /\ active_hcpu' = active_hcpu
            /\ expiry' = expiry /\ duration' = duration
        BY <3>2 DEF eventVars
      <4> QED BY <2>1, <4>1, OrderFrame DEF TimerInv
    <3> QED BY <3>1, <3>2 DEF handler_call
  <2>4. UserInv'
    BY <2>1, UserFrame DEF TimerInv
  <2>5. HandlerInv'
    BY <2>1, <1>HandlerMoves DEF TimerInv
  <2> QED BY <2>3, <2>4, <2>5 DEF TimerInv
<1>EventStartBegins.
    ASSUME TimerInv, torn = {}, NEW t \in User, NEW e \in Plain, NEW d \in Durations, event_start(t, e, d)
    PROVE  TimerInv'
  <2> USE <1>EventStartBegins
  <2>1. /\ UNCHANGED <<now, started, inprocess, event_list, chip, active_state, active_hcpu, expiry, duration>>
        /\ UNCHANGED <<hp, he>> /\ on' = on
    BY DEF event_start, ctrlVars, eventVars
  <2>2. e \in Event /\ d \in Nat /\ now \in Nat
    BY TimerAssumption DEF TimerInv, TimerTypes
  <2>3. TimerTypes' /\ OrderInv' /\ HandlerInv'
    BY <2>1, OrderFrame, HandlerFrame DEF TimerInv
  <2>4. UserInv'
    BY <2>1, <2>2, <1>UserStarts DEF TimerInv, event_start
  <2> QED BY <2>3, <2>4 DEF TimerInv
\* A thread that is not moved starts the event in the list of the host CPU whose
\* clockchip it can program.
<1>EventStartEnds.
    ASSUME TimerInv, torn = {}, NEW t \in User, NEW here \in Cpu, vmm_timer_event_start(t, here)
    PROVE  TimerInv'
  <2> USE <1>EventStartEnds
  <2>1. /\ now' = now /\ started' = started /\ inprocess' = inprocess
        /\ UNCHANGED <<hp, he>> /\ pc[t] = "start" /\ (here = on[t] \/ t \in Movers)
        /\ EventStart(ev[t], dur[t], hcpu[t], tstamp[t], here)
    BY DEF vmm_timer_event_start
  <2>2. /\ ev[t] \in Event /\ hcpu[t] \in Cpu /\ dur[t] \in Nat /\ tstamp[t] \in Nat
        /\ Movers = {} => hcpu[t] = on[t]
    BY <2>1 DEF TimerInv, UserInv
  <2>3. Reaches => Device(hcpu[t], here) = hcpu[t]
    BY <2>1, <2>2 DEF Reaches, Device
  <2>4. TimerTypes' /\ OrderInv'
    BY <2>1, <2>2, <2>3, <1>StartStep DEF TimerInv
  <2>5. HandlerInv'
    BY <2>1, HandlerFrame DEF TimerInv
  <2>6. UserInv'
    <3>1. /\ on' = [on EXCEPT ![t] = here] /\ pc' = [pc EXCEPT ![t] = "idle"]
          /\ ev' = [ev EXCEPT ![t] = AnEvent] /\ hcpu' = [hcpu EXCEPT ![t] = Home[t]]
          /\ tstamp' = [tstamp EXCEPT ![t] = 0] /\ dur' = [dur EXCEPT ![t] = 0]
      BY DEF vmm_timer_event_start
    <3>2. Home[t] \in Cpu
      BY TimerAssumption
    <3> QED BY <3>1, <3>2 DEF TimerInv, UserInv
  <2> QED BY <2>4, <2>5, <2>6 DEF TimerInv
<1>EventStopStep.
    ASSUME TimerInv, torn = {}, NEW t \in User, NEW e \in Plain, vmm_timer_event_stop(t, e)
    PROVE  TimerInv'
  <2> USE <1>EventStopStep
  <2>1. /\ UNCHANGED <<now, started, inprocess, chip, active_hcpu, duration>> /\ EventStop(e)
        /\ UNCHANGED <<hp, he>> /\ UNCHANGED <<on, pc, ev, hcpu, tstamp, dur>>
    BY DEF vmm_timer_event_stop
  <2>2. e \in Event
    BY TimerAssumption
  <2>3. TimerTypes' /\ OrderInv'
    BY <2>1, <2>2, <1>StopStep DEF TimerInv
  <2>4. HandlerInv' /\ UserInv'
    BY <2>1, HandlerFrame, UserFrame DEF TimerInv
  <2> QED BY <2>3, <2>4 DEF TimerInv
\* vmm_workqueue_schedule_delayed_work() initialises an event that is in no list,
\* or tears the list it is in.
<1>DelayStep.
    ASSUME TimerInv, torn = {}, NEW t \in User, NEW w \in Delayed, NEW q, NEW d \in Durations,
           vmm_workqueue_schedule_delayed_work(t, w, q, d)
    PROVE  TimerInv'
  <2> USE <1>DelayStep
  <2>1. /\ now' = now /\ started' = started /\ inprocess' = inprocess /\ event_list' = event_list
        /\ chip' = chip /\ UNCHANGED <<hp, he>> /\ on' = on
    BY DEF vmm_workqueue_schedule_delayed_work, ctrlVars
  <2>2. w \in Event /\ 0 \in Cpu /\ d \in Nat /\ now \in Nat
    BY TimerAssumption, WorkAssumption DEF TimerInv, TimerTypes
  <2>3. /\ active_state' = [active_state EXCEPT ![w] = FALSE]
        /\ active_hcpu' = [active_hcpu EXCEPT ![w] = 0]
        /\ expiry' = [expiry EXCEPT ![w] = 0]
        /\ duration' = [duration EXCEPT ![w] = 0]
        /\ torn' = IF active_state[w] THEN torn \cup {w} ELSE torn
    BY DEF vmm_workqueue_schedule_delayed_work
  <2>4. /\ active_state' \in [Event -> BOOLEAN] /\ active_hcpu' \in [Event -> Cpu]
        /\ expiry' \in [Event -> Nat] /\ duration' \in [Event -> Nat] /\ ~active_state'[w]
        /\ \A x \in Event : x # w => /\ active_state'[x] = active_state[x]
                                     /\ active_hcpu'[x] = active_hcpu[x] /\ expiry'[x] = expiry[x]
    BY <2>2, <2>3 DEF TimerInv, TimerTypes
  <2>5. TimerTypes'
    BY <2>1, <2>4 DEF TimerInv, TimerTypes
  <2>6. HandlerInv'
    BY <2>1, HandlerFrame DEF TimerInv
  <2>7. UserInv'
    BY <2>1, <2>2, <1>UserStarts DEF TimerInv, vmm_workqueue_schedule_delayed_work
  <2>8. ASSUME torn' = {} PROVE OrderInv'
    <3>1. ~active_state[w]
      BY <2>3, <2>8
    <3>2. \A c \in Cpu : ~In(w, event_list[c])
      BY <2>2, <3>1 DEF TimerInv, OrderInv, ListInv
    <3>3. \A c \in Cpu : \A x : In(x, event_list[c]) => x \in Event /\ x # w
      BY <3>2, SMT DEF TimerInv, TimerTypes, In
    <3>4. ListInv'
      <4>1. \A c \in Cpu : Distinct(event_list'[c])
        BY <2>1 DEF TimerInv, OrderInv, ListInv
      <4>2. ASSUME NEW x \in Event, NEW c \in Cpu
            PROVE  In(x, event_list'[c]) <=> active_state'[x] /\ active_hcpu'[x] = c
        <5>1. In(x, event_list[c]) <=> active_state[x] /\ active_hcpu[x] = c
          BY DEF TimerInv, OrderInv, ListInv
        <5> QED BY <2>1, <2>4, <3>2, <5>1
      <4> QED BY <4>1, <4>2 DEF ListInv
    <3>5. SortInv'
      <4> SUFFICES ASSUME NEW c \in Cpu PROVE Sorted(event_list'[c], expiry')
        BY DEF SortInv
      <4>1. Sorted(event_list[c], expiry)
        BY DEF TimerInv, OrderInv, SortInv
      <4>2. \A x : In(x, event_list[c]) => expiry'[x] = expiry[x]
        BY <2>4, <3>3
      <4>3. Sorted(event_list[c], expiry')
        BY <4>1, <4>2, <1>SortedSame
      <4> QED BY <2>1, <4>3
    <3>6. ASSUME Reaches PROVE CoverInv'
      <4> SUFFICES ASSUME NEW c \in Cpu, started'[c] = "on", ~inprocess'[c], NEW x \in Event, In(x, event_list'[c])
                   PROVE  \E n \in chip'[c] : n <= Later(expiry'[x], now')
        BY DEF CoverInv
      <4>1. In(x, event_list[c])
        BY <2>1
      <4>2. expiry'[x] = expiry[x]
        BY <2>4, <3>3, <4>1
      <4>3. \E n \in chip[c] : n <= Later(expiry[x], now)
        BY <2>1, <3>6, <4>1 DEF TimerInv, OrderInv, CoverInv
      <4> QED BY <2>1, <4>2, <4>3
    <3> QED BY <3>4, <3>5, <3>6 DEF OrderInv, Reaches
  <2> QED BY <2>5, <2>6, <2>7, <2>8 DEF TimerInv
\* A step of the work queues that only moves a thread ...
<1>CallerStep.
    ASSUME TimerInv, torn = {}, NEW t \in User, NEW p \in {"idle", "complete", "stop", "flush"},
           UNCHANGED <<ctrlVars, eventVars, on, ev, hcpu, tstamp, dur>>,
           pc' = [pc EXCEPT ![t] = p] \/ pc' = pc
    PROVE  TimerInv'
  <2> USE <1>CallerStep
  <2>1. /\ UNCHANGED <<now, started, inprocess, event_list, chip, active_state, active_hcpu, expiry, duration>>
        /\ UNCHANGED <<hp, he>> /\ UNCHANGED <<on, ev, hcpu, tstamp, dur>>
    BY DEF ctrlVars, eventVars
  <2>2. TimerTypes' /\ OrderInv' /\ HandlerInv'
    BY <2>1, OrderFrame, HandlerFrame DEF TimerInv
  <2>3. UserInv'
    <3>1. CASE pc' = [pc EXCEPT ![t] = p]
      BY <2>1, <3>1, <1>UserMoves DEF TimerInv
    <3>2. CASE pc' = pc
      BY <2>1, <3>2, UserFrame DEF TimerInv
    <3> QED BY <3>1, <3>2
  <2> QED BY <2>2, <2>3 DEF TimerInv
\* ... or a handler, ...
<1>DelayedStep.
    ASSUME TimerInv, torn = {}, NEW c \in Cpu, delayed_work_timer_event(c) \/ delayed_complete(c)
    PROVE  TimerInv'
  <2> USE <1>DelayedStep
  <2>1. /\ UNCHANGED <<now, started, inprocess, event_list, chip, active_state, active_hcpu, expiry, duration>>
        /\ UNCHANGED <<on, pc, ev, hcpu, tstamp, dur>>
    BY DEF delayed_work_timer_event, delayed_complete, eventVars, userVars
  <2>2. TimerTypes' /\ OrderInv' /\ UserInv'
    BY <2>1, OrderFrame, UserFrame DEF TimerInv
  <2>3. HandlerInv'
    <3>1. CASE delayed_work_timer_event(c)
      <4>1. he' = [he EXCEPT ![c] = AnEvent] /\ \E p \in {"scan", "complete"} : hp' = [hp EXCEPT ![c] = p]
        BY <3>1 DEF delayed_work_timer_event
      <4> QED BY <4>1, <1>HandlerMoves DEF TimerInv
    <3>2. CASE delayed_complete(c)
      <4>1. he' = he /\ hp' = [hp EXCEPT ![c] = "scan"]
        BY <3>2 DEF delayed_complete
      <4> QED BY <4>1, <1>HandlerMoves DEF TimerInv
    <3> QED BY <3>1, <3>2
  <2> QED BY <2>2, <2>3 DEF TimerInv
<1>StopBegins.
    ASSUME TimerInv, torn = {}, NEW t \in User, NEW w \in Work, stop_begin(t, w)
    PROVE  TimerInv'
  <2> USE <1>StopBegins
  <2>1. /\ UNCHANGED <<now, started, inprocess, chip, active_hcpu, duration>>
        /\ UNCHANGED <<hp, he>> /\ UNCHANGED <<on, ev, hcpu, tstamp, dur>>
        /\ pc' = [pc EXCEPT ![t] = "stop"]
    BY DEF stop_begin
  <2>2. TimerTypes' /\ OrderInv'
    <3>1. CASE UNCHANGED <<event_list, active_state, expiry, torn>>
      BY <2>1, <3>1, OrderFrame DEF TimerInv
    <3>2. CASE w \in Delayed /\ EventStop(w)
      <4>1. w \in Event
        BY <3>2, WorkAssumption
      <4> QED BY <2>1, <3>2, <4>1, <1>StopStep DEF TimerInv
    <3> QED BY <3>1, <3>2 DEF stop_begin
  <2>3. HandlerInv'
    BY <2>1, HandlerFrame DEF TimerInv
  <2>4. UserInv'
    BY <2>1, <1>UserMoves DEF TimerInv
  <2> QED BY <2>2, <2>3, <2>4 DEF TimerInv
<1> SUFFICES ASSUME TimerInv, Next PROVE TimerInv'
  OBVIOUS
<1>1. torn = {}
  BY DEF Next
<1>2. ASSUME NEW q \in Queue, workqueue_main(q) PROVE TimerInv'
  <2>1. UNCHANGED timerVars
    BY <1>2 DEF workqueue_main, worker_wait, worker_unlink, worker_begin, work_func, worker_end
  <2> QED BY <2>1, TimerFrame
<1>3. ASSUME NEW t \in User, schedule_complete(t) \/ vmm_workqueue_stop_work(t) \/ vmm_workqueue_flush(t)
      PROVE  TimerInv'
  <2>1. UNCHANGED <<ctrlVars, eventVars, on, ev, hcpu, tstamp, dur>>
    BY <1>3 DEF schedule_complete, vmm_workqueue_stop_work, vmm_workqueue_flush
  <2>2. pc' = [pc EXCEPT ![t] = "idle"] \/ pc' = pc
    BY <1>3 DEF schedule_complete, vmm_workqueue_stop_work, vmm_workqueue_flush
  <2> QED BY <1>1, <2>1, <2>2, <1>CallerStep
<1>4. ASSUME NEW c \in Cpu, vmm_timer_start(c) \/ clock_interrupt(c) \/ Handles(c) PROVE TimerInv'
  BY <1>1, <1>4, <1>TimerStartStep, <1>InterruptStep, <1>ScanStep, <1>HandlerStopStep, <1>HandlerCallStep DEF Handles
<1>5. ASSUME Continues PROVE TimerInv'
  BY <1>1, <1>2, <1>3, <1>4, <1>5, <1>TickStep, <1>DelayedStep, <1>EventStartEnds DEF Continues
<1>6. ASSUME NEW t \in User, Begins(t) PROVE TimerInv'
  <2>1. ASSUME NEW w \in Work, NEW q, vmm_workqueue_schedule_work(t, w, q) PROVE TimerInv'
    <3>1. /\ UNCHANGED <<ctrlVars, eventVars, on, ev, hcpu, tstamp, dur>>
          /\ pc' = [pc EXCEPT ![t] = "complete"]
      BY <2>1 DEF vmm_workqueue_schedule_work
    <3> QED BY <1>1, <3>1, <1>CallerStep
  <2>2. ASSUME NEW q, flush_begin(t, q) PROVE TimerInv'
    <3>1. /\ UNCHANGED <<ctrlVars, eventVars, on, ev, hcpu, tstamp, dur>>
          /\ pc' = [pc EXCEPT ![t] = "flush"]
      BY <2>2 DEF flush_begin
    <3> QED BY <1>1, <3>1, <1>CallerStep
  <2> QED BY <1>1, <1>6, <2>1, <2>2, <1>StopBegins, <1>DelayStep DEF Begins
<1>7. ASSUME TimerCalls PROVE TimerInv'
  BY <1>1, <1>7, <1>TimerStopStep, <1>EventStopStep, <1>EventStartBegins DEF TimerCalls
<1> QED BY <1>5, <1>6, <1>7 DEF Next

LEMMA TimerBegins ==
  ASSUME Init
  PROVE  TimerInv
<1> USE TimerAssumption
<1>1. AnEvent \in Event \cup {AnEvent}
  OBVIOUS
<1>2. TimerTypes
  BY SMT DEF Init, TimerInit, TimerTypes
<1>3. HandlerInv
  BY <1>1 DEF Init, TimerInit, HandlerInv
<1>4. UserInv
  BY <1>1 DEF Init, TimerInit, UserInv
<1>5. \A c \in Cpu : event_list[c] = <<>>
  BY DEF Init, TimerInit
<1>6. \A c \in Cpu : \A x : ~In(x, event_list[c])
  BY <1>5, SMT DEF In
<1>7. \A c \in Cpu : Distinct(event_list[c]) /\ Sorted(event_list[c], expiry)
  BY <1>5, SMT DEF Distinct, Sorted
<1>8. \A e \in Event : ~active_state[e]
  BY DEF Init, TimerInit
<1>9. OrderInv
  BY <1>6, <1>7, <1>8 DEF OrderInv, ListInv, SortInv, CoverInv
<1> QED BY <1>2, <1>3, <1>4, <1>9 DEF TimerInv

-----------------------------------------------------------------------------
(* Works in the lists of their queues                                      *)

WorkTypes ==
  /\ flags \in [Work -> SUBSET {"CREATED", "SCHEDULED", "INPROGRESS"}]
  /\ wq \in [Work -> Queue \cup {None}]
  /\ work_list \in [Queue -> Seq(Work)]
  /\ wp \in [Queue -> {"wait", "loop", "held", "run"}]
  /\ held \in [Queue -> Work \cup {None}]
  /\ \A q \in Queue : wp[q] \in {"held", "run"} => held[q] \in Work
  /\ stopped \subseteq Work

\* The worker has unlinked the work and not yet looked whether to run it.
Taken(w, q) == wp[q] = "held" /\ held[q] = w

Has(w, q) == In(w, work_list[q]) \/ Taken(w, q)

\* The scheduled works, and no others, are in a queue, each in one place.
QueueInv ==
  /\ \A q \in Queue : Distinct(work_list[q])
  /\ \A w \in Work, q \in Queue : Has(w, q) => Scheduled(w)
  /\ \A w \in Work, q \in Queue : ~(In(w, work_list[q]) /\ Taken(w, q))
  /\ \A w \in Work, p, q \in Queue : Has(w, p) /\ Has(w, q) => p = q
  /\ \A w \in Work : Scheduled(w) => \E q \in Queue : Has(w, q)

\* vmm_workqueue_stop_work() finds the queue of a scheduled work, and leaves it
\* not scheduled.
FlagInv ==
  /\ \A w \in Work : Scheduled(w) => wq[w] # None
  /\ \A w \in stopped : ~Scheduled(w)

\* The worker has the work, before or while it runs it.
Works(w, q) == wp[q] \in {"held", "run"} /\ held[q] = w

\* A work that only goes to one queue ...
Pins(w, p) == w \notin Delayed /\ Targets[w] = {p}

\* ... is only run by its worker, which marks it.
PinInv ==
  /\ \A w \in Work, p, q \in Queue : Pins(w, p) /\ (In(w, work_list[q]) \/ Works(w, q)) => q = p
  /\ \A w \in Work, p, q \in Queue :
       Pins(w, p) /\ wp[q] = "run" /\ held[q] = w => InProgress(w) /\ w \notin stopped

FlowInv == WorkTypes /\ (torn = {} => QueueInv) /\ FlagInv /\ PinInv

\* NULL is replaced by a system work queue.
LEMMA QueueForFacts ==
  ASSUME NEW w \in Work, NEW q \in Targets[w], NEW here \in Cpu
  PROVE  QueueFor(q, here) \in Queue /\ \A p \in Queue : Pins(w, p) => QueueFor(q, here) = p
<1>1. q \in Queue \cup {None} /\ syswq[here] \in Queue /\ None \notin Queue
  BY WorkAssumption
<1> QED BY <1>1 DEF QueueFor, Pins

-----------------------------------------------------------------------------
(* Signals to the workers                                                  *)

\* Callers and handlers work on a queue or a work.
ArgInv ==
  /\ work_avail \in [Queue -> Nat]
  /\ arg \in [User -> Work \cup Queue \cup {None}]
  /\ \A t \in User : pc[t] \in {"complete", "flush"} => arg[t] \in Queue
  /\ \A t \in User : pc[t] = "stop" => arg[t] \in Work
  /\ hq \in [Cpu -> Queue \cup {None}]
  /\ \A c \in Cpu : hp[c] = "complete" => hq[c] \in Queue

\* Who has added a work is about to signal the worker.
Pending(q) ==
  \/ \E t \in User : pc[t] = "complete" /\ arg[t] = q
  \/ \E c \in Cpu : hp[c] = "complete" /\ hq[c] = q

Signalled(q) == wp[q] # "wait" \/ work_avail[q] > 0 \/ Pending(q)

CallInv == ArgInv /\ \A q \in Queue : work_list[q] # <<>> => Signalled(q)

WorkInv == TimerInv /\ FlowInv /\ CallInv

LEMMA FlowStep == WorkInv /\ Next => FlowInv'
\* Steps that do not see the works.
<1>FlowFrame.
    ASSUME FlowInv, torn = {}, UNCHANGED <<flags, wq, work_list, wp, held, stopped>>
    PROVE  FlowInv'
  <2> USE <1>FlowFrame
  <2>1. /\ flags' = flags /\ wq' = wq /\ work_list' = work_list /\ wp' = wp /\ held' = held
        /\ stopped' = stopped
    OBVIOUS
  <2>2. WorkTypes'
    BY <2>1 DEF FlowInv, WorkTypes
  <2>3. QueueInv'
    BY <2>1 DEF FlowInv, QueueInv, Has, Taken, Scheduled
  <2>4. FlagInv'
    BY <2>1 DEF FlowInv, FlagInv, Scheduled
  <2>5. PinInv'
    BY <2>1 DEF FlowInv, PinInv, Works, InProgress
  <2> QED BY <2>2, <2>3, <2>4, <2>5 DEF FlowInv
\* The worker goes around its loop, or to sleep.
<1>IdleStep.
    ASSUME FlowInv, torn = {}, NEW q \in Queue, wp[q] \in {"wait", "loop"},
           NEW p \in {"wait", "loop"}, wp' = [wp EXCEPT ![q] = p],
           UNCHANGED <<flags, wq, work_list, held, stopped>>
    PROVE  FlowInv'
  <2> USE <1>IdleStep
  <2>1. /\ flags' = flags /\ wq' = wq /\ work_list' = work_list /\ held' = held
        /\ stopped' = stopped
    OBVIOUS
  <2>2. /\ wp' \in [Queue -> {"wait", "loop", "held", "run"}]
        /\ \A r \in Queue : wp'[r] = "held" <=> wp[r] = "held"
        /\ \A r \in Queue : wp'[r] = "run" <=> wp[r] = "run"
        /\ \A r \in Queue : wp'[r] \in {"held", "run"} <=> wp[r] \in {"held", "run"}
    BY DEF FlowInv, WorkTypes
  <2>3. WorkTypes'
    BY <2>1, <2>2 DEF FlowInv, WorkTypes
  <2>4. \A x \in Work, r \in Queue : /\ Has(x, r)' <=> Has(x, r)
                                     /\ Taken(x, r)' <=> Taken(x, r)
                                     /\ Works(x, r)' <=> Works(x, r)
    BY <2>1, <2>2 DEF Has, Taken, Works
  <2>5. \A x \in Work : (Scheduled(x)' <=> Scheduled(x)) /\ (InProgress(x)' <=> InProgress(x))
    BY <2>1 DEF Scheduled, InProgress
  <2>6. QueueInv'
    BY <2>1, <2>4, <2>5 DEF FlowInv, QueueInv
  <2>7. FlagInv'
    BY <2>1 DEF FlowInv, FlagInv, Scheduled
  <2>8. PinInv'
    BY <2>1, <2>2, <2>4, <2>5 DEF FlowInv, PinInv
  <2> QED BY <2>3, <2>6, <2>7, <2>8 DEF FlowInv
\* vmm_workqueue_schedule_work() adds a work that is in no queue.
<1>AddStep.
    ASSUME FlowInv, torn = {}, NEW w \in Work, NEW q \in Queue, ~Scheduled(w), Add(w, q),
           w \in Delayed \/ \A p \in Queue : Pins(w, p) => q = p,
           wp' = wp, held' = held
    PROVE  FlowInv'
  \* What list_add_tail() does to a list.
  <2>AppendFacts.
      ASSUME NEW S, NEW s \in Seq(S), NEW x \in S
      PROVE  /\ Append(s, x) \in Seq(S) /\ Append(s, x) # <<>>
             /\ \A y : In(y, Append(s, x)) <=> In(y, s) \/ y = x
             /\ Distinct(s) /\ ~In(x, s) => Distinct(Append(s, x))
    <3> USE <2>AppendFacts
    <3>1. /\ Append(s, x) \in Seq(S) /\ Append(s, x) # <<>>
          /\ DOMAIN s = 1..Len(s) /\ DOMAIN Append(s, x) = 1..Len(s) + 1
          /\ \A i \in 1..Len(s) : Append(s, x)[i] = s[i]
          /\ Append(s, x)[Len(s) + 1] = x
          /\ Len(s) \in Nat
      BY SMT
    <3>2. \A y : In(y, Append(s, x)) <=> In(y, s) \/ y = x
      BY <3>1, SMT DEF In
    <3>3. Distinct(s) /\ ~In(x, s) => Distinct(Append(s, x))
      BY <3>1, SMT DEF In, Distinct
    <3> QED BY <3>1, <3>2, <3>3
  <2> USE <1>AddStep
  <2> DEFINE s == Append(work_list[q], w)
  <2>1. work_list[q] \in Seq(Work) /\ work_list' = [work_list EXCEPT ![q] = s]
    BY DEF FlowInv, WorkTypes, Add
  <2>2. /\ s \in Seq(Work)
        /\ \A y : In(y, s) <=> In(y, work_list[q]) \/ y = w
        /\ Distinct(work_list[q]) /\ ~In(w, work_list[q]) => Distinct(s)
    BY <2>1, <2>AppendFacts
  <2> HIDE DEF s
  <2>3. /\ work_list' \in [Queue -> Seq(Work)] /\ work_list'[q] = s
        /\ \A p \in Queue \ {q} : work_list'[p] = work_list[p]
    BY <2>1, <2>2 DEF FlowInv, WorkTypes
  <2>4. \A x \in Work, p \in Queue : In(x, work_list'[p]) <=> In(x, work_list[p]) \/ (x = w /\ p = q)
    BY <2>2, <2>3
  <2>5. /\ flags' \in [Work -> SUBSET {"CREATED", "SCHEDULED", "INPROGRESS"}]
        /\ wq' \in [Work -> Queue \cup {None}] /\ wq'[w] = q /\ \A x \in Work \ {w} : wq'[x] = wq[x]
        /\ stopped' = stopped \ {w}
    BY DEF FlowInv, WorkTypes, Add
  <2>6. \A x \in Work : /\ Scheduled(x)' <=> Scheduled(x) \/ x = w
                        /\ InProgress(x)' <=> InProgress(x)
    BY DEF FlowInv, WorkTypes, Add, Scheduled, InProgress
  <2>7. WorkTypes'
    BY <2>3, <2>5 DEF FlowInv, WorkTypes
  <2>8. \A x \in Work, p \in Queue : /\ Taken(x, p)' <=> Taken(x, p)
                                     /\ Works(x, p)' <=> Works(x, p)
                                     /\ Has(x, p)' <=> Has(x, p) \/ (x = w /\ p = q)
    BY <2>4 DEF Taken, Works, Has
  <2>9. \A p \in Queue : ~Has(w, p)
    BY DEF FlowInv, QueueInv
  <2>10. \A p \in Queue : ~In(w, work_list[p]) /\ ~Taken(w, p)
    BY <2>9 DEF Has
  <2>11. QueueInv'
    <3>1. \A p \in Queue : Distinct(work_list'[p])
      BY <2>2, <2>3, <2>10 DEF FlowInv, QueueInv
    <3>2. \A x \in Work, p \in Queue : Has(x, p)' => Scheduled(x)'
      BY <2>6, <2>8 DEF FlowInv, QueueInv
    <3>3. \A x \in Work, p \in Queue : ~(In(x, work_list'[p]) /\ Taken(x, p)')
      BY <2>4, <2>8, <2>10 DEF FlowInv, QueueInv
    <3>4. ASSUME NEW x \in Work, NEW p \in Queue, NEW r \in Queue, Has(x, p)', Has(x, r)' PROVE p = r
      <4>1. CASE x = w
        BY <2>8, <2>9, <3>4, <4>1
      <4>2. CASE x # w
        <5>1. Has(x, p) /\ Has(x, r)
          BY <2>8, <3>4, <4>2
        <5> QED BY <5>1 DEF FlowInv, QueueInv
      <4> QED BY <4>1, <4>2
    <3>5. \A x \in Work : Scheduled(x)' => \E p \in Queue : Has(x, p)'
      BY <2>6, <2>8 DEF FlowInv, QueueInv
    <3> QED BY <3>1, <3>2, <3>3, <3>4, <3>5 DEF QueueInv
  <2>12. FlagInv'
    <3>1. None \notin Queue
      BY WorkAssumption
    <3>2. stopped \subseteq Work
      BY DEF FlowInv, WorkTypes
    <3> QED BY <2>5, <2>6, <3>1, <3>2 DEF FlowInv, FlagInv
  <2>13. PinInv'
    <3>1. \A x \in Work, p, r \in Queue : Pins(x, p) /\ (In(x, work_list'[r]) \/ Works(x, r)') => r = p
      BY <2>4, <2>8 DEF FlowInv, PinInv, Pins
    <3>2. \A x \in Work, p, r \in Queue :
            Pins(x, p) /\ wp'[r] = "run" /\ held'[r] = x => InProgress(x)' /\ x \notin stopped'
      BY <2>5, <2>6 DEF FlowInv, PinInv
    <3> QED BY <3>1, <3>2 DEF PinInv
  <2> QED BY <2>7, <2>11, <2>12, <2>13 DEF FlowInv
\* vmm_workqueue_schedule_delayed_work() sets the queue of the work.
<1>TargetStep.
    ASSUME FlowInv, torn = {}, NEW w \in Work, NEW q \in Queue, wq' = [wq EXCEPT ![w] = q],
           stopped' = stopped \ {w}, UNCHANGED <<flags, work_list, wp, held>>
    PROVE  FlowInv'
  <2> USE <1>TargetStep
  <2>1. flags' = flags /\ work_list' = work_list /\ wp' = wp /\ held' = held
    OBVIOUS
  <2>2. None \notin Queue
    BY WorkAssumption
  <2>3. wq' \in [Work -> Queue \cup {None}] /\ \A x \in Work : wq[x] # None => wq'[x] # None
    BY <2>2 DEF FlowInv, WorkTypes
  <2>4. WorkTypes'
    BY <2>1, <2>3 DEF FlowInv, WorkTypes
  <2>5. QueueInv'
    BY <2>1, SMT DEF FlowInv, QueueInv, Has, Taken, Scheduled
  <2>6. FlagInv'
    BY <2>1, <2>3 DEF FlowInv, FlagInv, Scheduled
  <2>7. PinInv'
    BY <2>1 DEF FlowInv, PinInv, Works, InProgress
  <2> QED BY <2>4, <2>5, <2>6, <2>7 DEF FlowInv
\* vmm_workqueue_stop_work() takes a scheduled work out of its list, or tears the
\* list if the worker has it.
<1>StopWorkStep.
    ASSUME FlowInv, torn = {}, NEW t \in User, NEW w \in Work, arg[t] = w, vmm_workqueue_stop_work(t)
    PROVE  FlowInv'
  <2> USE <1>StopWorkStep
  <2> DEFINE q == wq[w]
  <2>1. /\ wp' = wp /\ held' = held /\ stopped' = stopped \cup {w} /\ ~InProgress(w)
        /\ flags' = [flags EXCEPT ![w] = {}] /\ wq' = [wq EXCEPT ![w] = None]
        /\ work_list' = IF q # None /\ Scheduled(w) THEN [work_list EXCEPT ![q] = list_del(@, w)] ELSE work_list
        /\ torn' = IF (q # None /\ Scheduled(w)) /\ ~InList(w, q) THEN torn \cup {w} ELSE torn
    BY DEF vmm_workqueue_stop_work, StopMay
  <2>2. q \in Queue \cup {None}
    BY DEF FlowInv, WorkTypes
  <2> HIDE DEF q
  <2>3. /\ flags' \in [Work -> SUBSET {"CREATED", "SCHEDULED", "INPROGRESS"}]
        /\ wq' \in [Work -> Queue \cup {None}] /\ \A x \in Work \ {w} : wq'[x] = wq[x]
        /\ \A x \in Work \ {w} : flags'[x] = flags[x]
        /\ flags'[w] = {}
    BY <2>1, <2>2 DEF FlowInv, WorkTypes
  <2>4. \A x \in Work : /\ Scheduled(x)' <=> Scheduled(x) /\ x # w
                        /\ x # w => (InProgress(x)' <=> InProgress(x))
    BY <2>3 DEF Scheduled, InProgress
  <2>5. /\ work_list' \in [Queue -> Seq(Work)]
        /\ \A p \in Queue : \A x : In(x, work_list'[p]) => In(x, work_list[p])
        /\ \A p \in Queue : \A x : In(x, work_list[p]) /\ x # w => In(x, work_list'[p])
        /\ QueueInv => \A p \in Queue : Distinct(work_list'[p])
        /\ QueueInv /\ q # None /\ Scheduled(w) => ~In(w, work_list'[q])
    <3>1. CASE q # None /\ Scheduled(w)
      <4> DEFINE s == work_list[q]
                 r == list_del(s, w)
      <4>1. q \in Queue /\ work_list' = [work_list EXCEPT ![q] = r] /\ s \in Seq(Work)
        BY <2>1, <2>2, <3>1 DEF FlowInv, WorkTypes
      <4>2. /\ r \in Seq(Work) /\ (\A y : In(y, r) => In(y, s)) /\ (\A y : In(y, s) /\ y # w => In(y, r))
            /\ Distinct(s) => Distinct(r) /\ ~In(w, r)
        BY <4>1, ListDelFacts
      <4> HIDE DEF r
      <4>3. /\ work_list' \in [Queue -> Seq(Work)] /\ work_list'[q] = r
            /\ \A p \in Queue \ {q} : work_list'[p] = work_list[p]
        BY <4>1, <4>2 DEF FlowInv, WorkTypes
      <4>4. QueueInv => \A p \in Queue : Distinct(work_list[p])
        BY DEF QueueInv
      <4>5. ASSUME NEW p \in Queue
            PROVE  /\ \A x : In(x, work_list'[p]) => In(x, work_list[p])
                   /\ \A x : In(x, work_list[p]) /\ x # w => In(x, work_list'[p])
                   /\ QueueInv => Distinct(work_list'[p])
        <5>1. CASE p = q
          BY <4>1, <4>2, <4>3, <4>4, <5>1
        <5>2. CASE p # q
          BY <4>3, <4>4, <5>2
        <5> QED BY <5>1, <5>2
      <4> QED BY <4>1, <4>2, <4>3, <4>4, <4>5
    <3>2. CASE ~(q # None /\ Scheduled(w))
      <4>1. work_list' = work_list /\ work_list \in [Queue -> Seq(Work)]
        BY <2>1, <3>2 DEF FlowInv, WorkTypes
      <4> QED BY <3>2, <4>1 DEF QueueInv
    <3> QED BY <3>1, <3>2
  <2>6. WorkTypes'
    BY <2>1, <2>2, <2>3, <2>5, SMT DEF FlowInv, WorkTypes
  <2>7. \A x \in Work, p \in Queue : (Taken(x, p)' <=> Taken(x, p)) /\ (Works(x, p)' <=> Works(x, p))
    BY <2>1 DEF Taken, Works
  <2>8. FlagInv'
    <3>1. \A x \in Work : Scheduled(x)' => wq'[x] # None
      BY <2>3, <2>4 DEF FlowInv, FlagInv
    <3>2. \A x \in stopped' : ~Scheduled(x)'
      <4>1. stopped \subseteq Work
        BY DEF FlowInv, WorkTypes
      <4> QED BY <2>1, <2>4, <4>1 DEF FlowInv, FlagInv
    <3> QED BY <3>1, <3>2 DEF FlagInv
  <2>9. PinInv'
    <3>1. \A x \in Work, p, r \in Queue : Pins(x, p) /\ (In(x, work_list'[r]) \/ Works(x, r)') => r = p
      BY <2>5, <2>7 DEF FlowInv, PinInv
    <3>2. ASSUME NEW x \in Work, NEW p \in Queue, NEW r \in Queue,
                 Pins(x, p), wp'[r] = "run", held'[r] = x
          PROVE  InProgress(x)' /\ x \notin stopped'
      <4>1. InProgress(x) /\ x \notin stopped
        BY <2>1, <3>2 DEF FlowInv, PinInv
      <4> QED BY <2>1, <2>4, <4>1
    <3> QED BY <3>1, <3>2 DEF PinInv
  <2>10. ASSUME torn' = {} PROVE QueueInv'
    <3>1. QueueInv
      BY DEF FlowInv
    <3>2. q # None /\ Scheduled(w) => In(w, work_list[q])
      <4>1. q # None /\ Scheduled(w) => InList(w, q)
        BY <2>1, <2>10
      <4> QED BY <4>1 DEF InList, In
    <3>3. \A p \in Queue : ~Has(w, p)'
      <4>1. CASE q # None /\ Scheduled(w)
        <5>1. q \in Queue /\ In(w, work_list[q]) /\ ~Taken(w, q) /\ Has(w, q)
          BY <2>2, <3>1, <3>2, <4>1 DEF QueueInv, Has
        <5>2. \A p \in Queue : p # q => ~Has(w, p)
          BY <2>2, <3>1, <5>1 DEF QueueInv
        <5>3. \A p \in Queue : p # q => ~In(w, work_list[p]) /\ ~Taken(w, p)
          BY <5>2 DEF Has
        <5>4. \A p \in Queue : ~In(w, work_list'[p]) /\ ~Taken(w, p)'
          BY <2>2, <2>5, <2>7, <3>1, <4>1, <5>1, <5>3
        <5> QED BY <5>4 DEF Has
      <4>2. CASE ~(q # None /\ Scheduled(w))
        <5>1. ~Scheduled(w)
          BY <2>2, <4>2 DEF FlowInv, FlagInv, q
        <5>2. \A p \in Queue : ~Has(w, p)
          BY <2>2, <3>1, <5>1 DEF QueueInv
        <5>3. \A p \in Queue : ~In(w, work_list'[p]) /\ ~Taken(w, p)'
          BY <2>2, <2>5, <2>7, <5>2 DEF Has
        <5> QED BY <5>3 DEF Has
      <4> QED BY <4>1, <4>2
    <3>4. \A x \in Work, p \in Queue : Has(x, p)' => Has(x, p) /\ x # w
      BY <2>5, <2>7, <3>3 DEF Has
    <3>5. \A x \in Work, p \in Queue : Has(x, p) /\ x # w => Has(x, p)'
      BY <2>5, <2>7 DEF Has
    <3>6. \A p \in Queue : Distinct(work_list'[p])
      BY <2>5, <3>1
    <3>7. \A x \in Work, p \in Queue : Has(x, p)' => Scheduled(x)'
      BY <2>4, <3>1, <3>4 DEF QueueInv
    <3>8. \A x \in Work, p \in Queue : ~(In(x, work_list'[p]) /\ Taken(x, p)')
      BY <2>5, <2>7, <3>1 DEF QueueInv
    <3>9. \A x \in Work, p, r \in Queue : Has(x, p)' /\ Has(x, r)' => p = r
      BY <3>1, <3>4 DEF QueueInv
    <3>10. \A x \in Work : Scheduled(x)' => \E p \in Queue : Has(x, p)'
      BY <2>4, <3>1, <3>5 DEF QueueInv
    <3> QED BY <3>6, <3>7, <3>8, <3>9, <3>10 DEF QueueInv
  <2> QED BY <2>6, <2>8, <2>9, <2>10 DEF FlowInv
\* The worker unlinks the first work: it still has it.
<1>UnlinkStep.
    ASSUME FlowInv, torn = {}, NEW q \in Queue, worker_unlink(q)
    PROVE  FlowInv'
  <2> USE <1>UnlinkStep
  <2>1. flags' = flags /\ wq' = wq /\ stopped' = stopped /\ wp[q] = "loop"
    BY DEF worker_unlink
  <2>2. CASE work_list[q] = <<>>
    <3>1. wp' = [wp EXCEPT ![q] = "wait"] /\ work_list' = work_list /\ held' = held
      BY <2>2 DEF worker_unlink
    <3> QED BY <2>1, <3>1, <1>IdleStep
  <2>3. CASE work_list[q] # <<>>
    <3>1. work_list[q] \in Seq(Work)
      BY DEF FlowInv, WorkTypes
    <3>2. PICK w \in Work : w = Head(work_list[q])
      BY <2>3, <3>1, TailFacts
    <3> DEFINE s == Tail(work_list[q])
    <3>3. /\ wp' = [wp EXCEPT ![q] = "held"] /\ held' = [held EXCEPT ![q] = w]
          /\ work_list' = [work_list EXCEPT ![q] = s]
      BY <2>3, <3>2 DEF worker_unlink
    <3>4. /\ In(w, work_list[q]) /\ s \in Seq(Work)
          /\ \A y : In(y, s) => In(y, work_list[q])
          /\ \A y : In(y, work_list[q]) => In(y, s) \/ y = w
          /\ Distinct(work_list[q]) => Distinct(s) /\ ~In(w, s)
      BY <2>3, <3>1, <3>2, TailFacts
    <3> HIDE DEF s
    <3>5. /\ work_list' \in [Queue -> Seq(Work)] /\ work_list'[q] = s
          /\ \A p \in Queue \ {q} : work_list'[p] = work_list[p]
      BY <3>3, <3>4 DEF FlowInv, WorkTypes
    <3>6. /\ wp' \in [Queue -> {"wait", "loop", "held", "run"}] /\ held' \in [Queue -> Work \cup {None}]
          /\ wp'[q] = "held" /\ held'[q] = w
          /\ \A p \in Queue \ {q} : wp'[p] = wp[p] /\ held'[p] = held[p]
      BY <3>3 DEF FlowInv, WorkTypes
    <3>7. WorkTypes'
      BY <2>1, <3>5, <3>6 DEF FlowInv, WorkTypes
    <3>8. QueueInv /\ ~In(w, s) /\ Distinct(s)
      BY <3>4 DEF FlowInv, QueueInv
    <3>9. \A x \in Work : Taken(x, q)' <=> x = w
      BY <3>6 DEF Taken
    <3>10. \A x \in Work, p \in Queue \ {q} : (Taken(x, p)' <=> Taken(x, p)) /\ (Works(x, p)' <=> Works(x, p))
      BY <3>6 DEF Taken, Works
    <3>11. \A x \in Work : ~Taken(x, q) /\ ~Works(x, q)
      BY <2>1 DEF Taken, Works
    <3>12. ASSUME NEW x \in Work, NEW p \in Queue PROVE Has(x, p)' <=> Has(x, p)
      <4>1. CASE p = q
        BY <3>4, <3>5, <3>9, <3>11, <4>1 DEF Has
      <4>2. CASE p # q
        BY <3>5, <3>10, <4>2 DEF Has
      <4> QED BY <4>1, <4>2
    <3>13. \A x \in Work : (Scheduled(x)' <=> Scheduled(x)) /\ (InProgress(x)' <=> InProgress(x))
      BY <2>1 DEF Scheduled, InProgress
    <3>14. QueueInv'
      <4>1. \A p \in Queue : Distinct(work_list'[p])
        BY <3>5, <3>8 DEF QueueInv
      <4>2. ASSUME NEW x \in Work, NEW p \in Queue PROVE ~(In(x, work_list'[p]) /\ Taken(x, p)')
        <5>1. CASE p = q
          BY <3>5, <3>8, <3>9, <5>1
        <5>2. CASE p # q
          BY <3>5, <3>8, <3>10, <5>2 DEF QueueInv
        <5> QED BY <5>1, <5>2
      <4> QED BY <3>8, <3>12, <3>13, <4>1, <4>2 DEF QueueInv
    <3>15. FlagInv'
      BY <2>1 DEF FlowInv, FlagInv, Scheduled
    <3>16. PinInv'
      <4>1. ASSUME NEW x \in Work, NEW p \in Queue, NEW r \in Queue,
                   Pins(x, p), In(x, work_list'[r]) \/ Works(x, r)'
            PROVE  r = p
        <5>1. CASE r = q
          <6>1. In(x, work_list[q])
            BY <3>4, <3>5, <3>6, <4>1, <5>1 DEF Works
          <6> QED BY <4>1, <5>1, <6>1 DEF FlowInv, PinInv
        <5>2. CASE r # q
          <6>1. In(x, work_list[r]) \/ Works(x, r)
            BY <3>5, <3>10, <4>1, <5>2
          <6> QED BY <4>1, <6>1 DEF FlowInv, PinInv
        <5> QED BY <5>1, <5>2
      <4>2. ASSUME NEW x \in Work, NEW p \in Queue, NEW r \in Queue,
                   Pins(x, p), wp'[r] = "run", held'[r] = x
            PROVE  InProgress(x)' /\ x \notin stopped'
        <5>1. r # q
          BY <3>6, <4>2
        <5>2. wp[r] = "run" /\ held[r] = x
          BY <3>6, <4>2, <5>1
        <5> QED BY <2>1, <3>13, <4>2, <5>2 DEF FlowInv, PinInv
      <4> QED BY <4>1, <4>2 DEF PinInv
    <3> QED BY <3>7, <3>14, <3>15, <3>16 DEF FlowInv
  <2> QED BY <2>2, <2>3
\* The worker begins a work it has unlinked: no one has stopped it.
<1>BeginStep.
    ASSUME FlowInv, torn = {}, NEW q \in Queue, worker_begin(q)
    PROVE  FlowInv'
  <2> USE <1>BeginStep
  <2>1. wq' = wq /\ work_list' = work_list /\ stopped' = stopped /\ wp[q] = "held"
    BY DEF worker_begin
  <2>2. PICK w \in Work : w = held[q]
    BY <2>1 DEF FlowInv, WorkTypes
  <2>3. Taken(w, q) /\ Has(w, q) /\ QueueInv
    BY <2>1, <2>2 DEF Taken, Has, FlowInv
  <2>4. Scheduled(w) /\ ~In(w, work_list[q]) /\ \A p \in Queue : Has(w, p) => p = q
    BY <2>3 DEF QueueInv
  <2>5. /\ flags' = [flags EXCEPT ![w] = (@ \ {"SCHEDULED"}) \cup {"INPROGRESS"}]
        /\ wp' = [wp EXCEPT ![q] = "run"] /\ held' = held
    BY <2>2, <2>4 DEF worker_begin
  <2>6. /\ wp' \in [Queue -> {"wait", "loop", "held", "run"}] /\ wp'[q] = "run"
        /\ \A p \in Queue \ {q} : wp'[p] = wp[p]
        /\ flags' \in [Work -> SUBSET {"CREATED", "SCHEDULED", "INPROGRESS"}]
    BY <2>5 DEF FlowInv, WorkTypes
  <2>7. \A x \in Work : /\ Scheduled(x)' <=> Scheduled(x) /\ x # w
                        /\ InProgress(x)' <=> InProgress(x) \/ x = w
    BY <2>5 DEF FlowInv, WorkTypes, Scheduled, InProgress
  <2>8. WorkTypes'
    <3>1. \A p \in Queue : wp'[p] \in {"held", "run"} => held[p] \in Work
      BY <2>1, <2>2, <2>6 DEF FlowInv, WorkTypes
    <3> QED BY <2>1, <2>5, <2>6, <3>1 DEF FlowInv, WorkTypes
  <2>9. \A x \in Work, p \in Queue : Works(x, p)' <=> Works(x, p)
    BY <2>1, <2>5, <2>6 DEF Works
  <2>10. \A x \in Work, p \in Queue : Taken(x, p)' <=> Taken(x, p) /\ p # q
    BY <2>5, <2>6 DEF Taken
  <2>11. ASSUME NEW x \in Work, NEW p \in Queue PROVE Has(x, p)' <=> Has(x, p) /\ x # w
    <3>1. Has(x, p)' <=> In(x, work_list[p]) \/ (Taken(x, p) /\ p # q)
      BY <2>1, <2>10 DEF Has
    <3>2. CASE x = w
      BY <2>4, <3>1, <3>2 DEF Has
    <3>3. CASE x # w
      <4>1. ~Taken(x, q)
        BY <2>2, <3>3 DEF Taken
      <4> QED BY <3>1, <3>3, <4>1 DEF Has
    <3> QED BY <3>2, <3>3
  <2>12. QueueInv'
    <3>1. \A p \in Queue : Distinct(work_list'[p])
      BY <2>1, <2>3 DEF QueueInv
    <3>2. \A x \in Work, p \in Queue : Has(x, p)' => Scheduled(x)'
      BY <2>3, <2>7, <2>11 DEF QueueInv
    <3>3. \A x \in Work, p \in Queue : ~(In(x, work_list'[p]) /\ Taken(x, p)')
      BY <2>1, <2>3, <2>10 DEF QueueInv
    <3>4. \A x \in Work, p, r \in Queue : Has(x, p)' /\ Has(x, r)' => p = r
      BY <2>3, <2>11 DEF QueueInv
    <3>5. \A x \in Work : Scheduled(x)' => \E p \in Queue : Has(x, p)'
      BY <2>3, <2>7, <2>11 DEF QueueInv
    <3> QED BY <3>1, <3>2, <3>3, <3>4, <3>5 DEF QueueInv
  <2>13. FlagInv'
    <3>1. stopped \subseteq Work
      BY DEF FlowInv, WorkTypes
    <3> QED BY <2>1, <2>7, <3>1 DEF FlowInv, FlagInv
  <2>14. PinInv'
    <3>1. \A x \in Work, p, r \in Queue : Pins(x, p) /\ (In(x, work_list'[r]) \/ Works(x, r)') => r = p
      BY <2>1, <2>9 DEF FlowInv, PinInv
    <3>2. ASSUME NEW x \in Work, NEW p \in Queue, NEW r \in Queue,
                 Pins(x, p), wp'[r] = "run", held'[r] = x
          PROVE  InProgress(x)' /\ x \notin stopped'
      <4>1. CASE r = q
        <5>1. x = w
          BY <2>2, <2>5, <3>2, <4>1
        <5>2. w \notin stopped
          BY <2>4 DEF FlowInv, FlagInv
        <5> QED BY <2>1, <2>7, <5>1, <5>2
      <4>2. CASE r # q
        <5>1. wp[r] = "run" /\ held[r] = x
          BY <2>5, <2>6, <3>2, <4>2
        <5> QED BY <2>1, <2>7, <3>2, <5>1 DEF FlowInv, PinInv
      <4> QED BY <4>1, <4>2
    <3> QED BY <3>1, <3>2 DEF PinInv
  <2> QED BY <2>8, <2>12, <2>13, <2>14 DEF FlowInv
\* The worker ends a work: no other worker runs it if it only goes to one queue.
<1>EndStep.
    ASSUME FlowInv, torn = {}, NEW q \in Queue, worker_end(q)
    PROVE  FlowInv'
  <2> USE <1>EndStep
  <2>1. /\ wq' = wq /\ work_list' = work_list /\ stopped' = stopped /\ wp[q] = "run"
        /\ wp' = [wp EXCEPT ![q] = "loop"] /\ held' = [held EXCEPT ![q] = None]
    BY DEF worker_end
  <2>2. PICK w \in Work : w = held[q]
    BY <2>1 DEF FlowInv, WorkTypes
  <2>3. flags' = [flags EXCEPT ![w] = @ \ {"INPROGRESS"}]
    BY <2>2 DEF worker_end, Finished
  <2>4. /\ wp' \in [Queue -> {"wait", "loop", "held", "run"}] /\ wp'[q] = "loop"
        /\ held' \in [Queue -> Work \cup {None}]
        /\ \A p \in Queue \ {q} : wp'[p] = wp[p] /\ held'[p] = held[p]
        /\ flags' \in [Work -> SUBSET {"CREATED", "SCHEDULED", "INPROGRESS"}]
    BY <2>1, <2>3 DEF FlowInv, WorkTypes
  <2>5. \A x \in Work : /\ Scheduled(x)' <=> Scheduled(x)
                        /\ x # w => (InProgress(x)' <=> InProgress(x))
    BY <2>3 DEF FlowInv, WorkTypes, Scheduled, InProgress
  <2>6. WorkTypes'
    <3>1. \A p \in Queue : wp'[p] \in {"held", "run"} => held'[p] \in Work
      BY <2>4 DEF FlowInv, WorkTypes
    <3> QED BY <2>1, <2>4, <3>1 DEF FlowInv, WorkTypes
  <2>7. \A x \in Work, p \in Queue : Taken(x, p)' <=> Taken(x, p)
    BY <2>1, <2>4 DEF Taken
  <2>8. \A x \in Work, p \in Queue : Works(x, p)' => Works(x, p)
    BY <2>4 DEF Works
  <2>9. \A x \in Work, p \in Queue : Has(x, p)' <=> Has(x, p)
    BY <2>1, <2>7 DEF Has
  <2>10. QueueInv'
    BY <2>1, <2>5, <2>7, <2>9 DEF FlowInv, QueueInv
  <2>11. FlagInv'
    <3>1. stopped \subseteq Work
      BY DEF FlowInv, WorkTypes
    <3> QED BY <2>1, <2>5, <3>1 DEF FlowInv, FlagInv
  <2>12. PinInv'
    <3>1. \A x \in Work, p, r \in Queue : Pins(x, p) /\ (In(x, work_list'[r]) \/ Works(x, r)') => r = p
      BY <2>1, <2>8 DEF FlowInv, PinInv
    <3>2. ASSUME NEW x \in Work, NEW p \in Queue, NEW r \in Queue,
                 Pins(x, p), wp'[r] = "run", held'[r] = x
          PROVE  InProgress(x)' /\ x \notin stopped'
      <4>1. r # q
        BY <2>4, <3>2
      <4>2. wp[r] = "run" /\ held[r] = x
        BY <2>4, <3>2, <4>1
      <4>3. InProgress(x) /\ x \notin stopped /\ r = p
        BY <3>2, <4>2 DEF FlowInv, PinInv, Works
      <4>4. x # w
        <5>1. ASSUME x = w PROVE FALSE
          <6>1. Works(x, q)
            BY <2>1, <2>2, <5>1 DEF Works
          <6>2. q = p
            BY <3>2, <6>1 DEF FlowInv, PinInv
          <6> QED BY <4>1, <4>3, <6>2
        <5> QED BY <5>1
      <4> QED BY <2>1, <2>5, <4>3, <4>4
    <3> QED BY <3>1, <3>2 DEF PinInv
  <2> QED BY <2>6, <2>10, <2>11, <2>12 DEF FlowInv
<1> SUFFICES ASSUME WorkInv, Next PROVE FlowInv'
  OBVIOUS
<1>1. torn = {} /\ FlowInv
  BY DEF Next, WorkInv
<1>2. Delayed \subseteq Work /\ None \notin Queue
  BY WorkAssumption
<1>3. on \in [User -> Cpu]
  BY DEF WorkInv, TimerInv, UserInv
<1>4. ASSUME NEW q \in Queue, workqueue_main(q) PROVE FlowInv'
  <2>1. CASE worker_wait(q)
    <3>1. /\ wp[q] = "wait" /\ wp' = [wp EXCEPT ![q] = "loop"]
          /\ UNCHANGED <<flags, wq, work_list, held, stopped>>
      BY <2>1 DEF worker_wait
    <3> QED BY <1>1, <3>1, <1>IdleStep
  <2>2. CASE work_func(q)
    <3>1. wp' = wp /\ held' = held /\ ~Scheduled(held[q]) /\ wp[q] = "run"
      BY <2>2 DEF work_func
    <3>2. PICK r \in Targets[held[q]] : Add(held[q], QueueFor(r, Where[q]))
      BY <2>2 DEF work_func
    <3>3. held[q] \in Work /\ Where[q] \in Cpu
      BY <1>1, <3>1, WorkAssumption DEF FlowInv, WorkTypes
    <3>4. /\ QueueFor(r, Where[q]) \in Queue
          /\ \A p \in Queue : Pins(held[q], p) => QueueFor(r, Where[q]) = p
      BY <3>2, <3>3, QueueForFacts
    <3>5. PICK w \in Work, p \in Queue : w = held[q] /\ p = QueueFor(r, Where[q])
      BY <3>3, <3>4
    <3>6. ~Scheduled(w) /\ Add(w, p) /\ \A g \in Queue : Pins(w, g) => p = g
      BY <3>1, <3>2, <3>4, <3>5
    <3> QED BY <1>1, <3>1, <3>6, <1>AddStep
  <2> QED BY <1>1, <1>4, <2>1, <2>2, <1>UnlinkStep, <1>BeginStep, <1>EndStep DEF workqueue_main
<1>5. ASSUME NEW c \in Cpu, delayed_work_timer_event(c) \/ delayed_complete(c) PROVE FlowInv'
  <2>1. CASE delayed_work_timer_event(c)
    <3>1. wp' = wp /\ held' = held /\ he[c] \in Delayed
      BY <2>1 DEF delayed_work_timer_event
    <3>2. PICK w \in Work : w = he[c] /\ w \in Delayed
      BY <1>2, <3>1
    <3>3. CASE Scheduled(w)
      <4>1. UNCHANGED <<flags, wq, work_list, hq, stopped>>
        BY <2>1, <3>2, <3>3 DEF delayed_work_timer_event
      <4>2. UNCHANGED <<flags, wq, work_list, wp, held, stopped>>
        BY <3>1, <4>1
      <4> QED BY <1>1, <4>2, <1>FlowFrame
    <3>4. CASE ~Scheduled(w)
      <4>1. Add(w, QueueFor(wq[w], c))
        BY <2>1, <3>2, <3>4 DEF delayed_work_timer_event
      <4>2. wq[w] \in Queue \cup {None} /\ syswq[c] \in Queue
        BY <1>1, WorkAssumption DEF FlowInv, WorkTypes
      <4>3. PICK q \in Queue : q = QueueFor(wq[w], c)
        BY <4>2 DEF QueueFor
      <4>4. Add(w, q)
        BY <4>1, <4>3
      <4> QED BY <1>1, <3>1, <3>2, <3>4, <4>4, <1>AddStep
    <3> QED BY <3>3, <3>4
  <2>2. CASE delayed_complete(c)
    <3>1. UNCHANGED <<flags, wq, work_list, wp, held, stopped>>
      BY <2>2 DEF delayed_complete
    <3> QED BY <1>1, <3>1, <1>FlowFrame
  <2> QED BY <1>5, <2>1, <2>2
<1>6. ASSUME NEW t \in User, vmm_workqueue_stop_work(t) PROVE FlowInv'
  <2>1. PICK w \in Work : arg[t] = w
    BY <1>6 DEF WorkInv, CallInv, ArgInv, vmm_workqueue_stop_work
  <2> QED BY <1>1, <1>6, <2>1, <1>StopWorkStep
<1>7. ASSUME NEW t \in User, vmm_workqueue_flush(t) PROVE FlowInv'
  <2>1. UNCHANGED <<flags, wq, work_list, held, stopped>>
    BY <1>7 DEF vmm_workqueue_flush
  <2>2. CASE UNCHANGED <<wp, work_avail>>
    <3>1. UNCHANGED <<flags, wq, work_list, wp, held, stopped>>
      BY <2>1, <2>2
    <3> QED BY <1>1, <3>1, <1>FlowFrame
  <2>3. CASE wp[arg[t]] = "wait" /\ wp' = [wp EXCEPT ![arg[t]] = "loop"]
    <3>1. PICK q \in Queue : q = arg[t]
      BY <1>7 DEF WorkInv, CallInv, ArgInv, vmm_workqueue_flush
    <3>2. wp[q] = "wait" /\ wp' = [wp EXCEPT ![q] = "loop"]
      BY <2>3, <3>1
    <3> QED BY <1>1, <2>1, <3>2, <1>IdleStep
  <2> QED BY <1>7, <2>2, <2>3 DEF vmm_workqueue_flush
<1>8. ASSUME UNCHANGED <<workVars, arg>> PROVE FlowInv'
  <2>1. UNCHANGED <<flags, wq, work_list, wp, held, stopped>>
    BY <1>8 DEF workVars
  <2> QED BY <1>1, <2>1, <1>FlowFrame
<1>9. ASSUME NEW t \in User, schedule_complete(t) PROVE FlowInv'
  <2>1. UNCHANGED <<flags, wq, work_list, wp, held, stopped>>
    BY <1>9 DEF schedule_complete
  <2> QED BY <1>1, <2>1, <1>FlowFrame
<1>10. ASSUME Continues PROVE FlowInv'
  BY <1>4, <1>5, <1>6, <1>7, <1>8, <1>9, <1>10 DEF Continues
<1>11. ASSUME NEW t \in User, Begins(t) PROVE FlowInv'
  <2>1. ASSUME NEW w \in Work, NEW q \in Targets[w], vmm_workqueue_schedule_work(t, w, q) PROVE FlowInv'
    <3>1. wp' = wp /\ held' = held /\ ~Scheduled(w) /\ Add(w, QueueFor(q, on[t]))
      BY <2>1 DEF vmm_workqueue_schedule_work
    <3>2. on[t] \in Cpu
      BY <1>3
    <3>3. PICK p \in Queue : p = QueueFor(q, on[t]) /\ \A g \in Queue : Pins(w, g) => p = g
      BY <3>2, QueueForFacts
    <3>4. Add(w, p)
      BY <3>1, <3>3
    <3> QED BY <1>1, <3>1, <3>3, <3>4, <1>AddStep
  <2>2. ASSUME NEW w \in Work, stop_begin(t, w) PROVE FlowInv'
    <3>1. UNCHANGED <<flags, wq, work_list, wp, held, stopped>>
      BY <2>2 DEF stop_begin, workVars
    <3> QED BY <1>1, <3>1, <1>FlowFrame
  <2>3. ASSUME NEW w \in Delayed, NEW d \in Durations, NEW q \in Targets[w],
               vmm_workqueue_schedule_delayed_work(t, w, q, d)
        PROVE  FlowInv'
    <3>1. /\ wq' = [wq EXCEPT ![w] = QueueFor(q, on[t])] /\ stopped' = stopped \ {w}
          /\ UNCHANGED <<flags, work_list, wp, held>>
      BY <2>3 DEF vmm_workqueue_schedule_delayed_work
    <3>2. w \in Work /\ on[t] \in Cpu
      BY <1>2, <1>3
    <3>3. QueueFor(q, on[t]) \in Queue
      BY <3>2, QueueForFacts
    <3> QED BY <1>1, <3>1, <3>2, <3>3, <1>TargetStep
  <2>4. ASSUME NEW q \in Queue, flush_begin(t, q) PROVE FlowInv'
    <3>1. UNCHANGED <<flags, wq, work_list, wp, held, stopped>>
      BY <2>4 DEF flush_begin, workVars
    <3> QED BY <1>1, <3>1, <1>FlowFrame
  <2> QED BY <1>11, <2>1, <2>2, <2>3, <2>4 DEF Begins
<1> QED BY <1>8, <1>10, <1>11 DEF Next

\* Threads and handlers that are about to signal still are, and no others.
Waits ==
  /\ \A t \in User : pc'[t] = pc[t] \/ (pc[t] \in {"idle", "start"} /\ pc'[t] \in {"idle", "start"})
  /\ \A c \in Cpu : hp'[c] = hp[c] \/ (hp[c] # "complete" /\ hp'[c] # "complete")

\* Steps of the timer, and of the worker while it does not sleep.
LEMMA CallFrame ==
  ASSUME CallInv, Waits, UNCHANGED <<arg, hq>>, work_avail' = work_avail,
         \A q \in Queue : wp[q] # "wait" => wp'[q] # "wait" \/ work_list'[q] = <<>>,
         \A q \in Queue : work_list'[q] # <<>> => work_list[q] # <<>>
  PROVE  CallInv'
<1>1. arg' = arg /\ hq' = hq
  OBVIOUS
<1>2. ArgInv'
  <2>1. \A t \in User : pc'[t] \in {"complete", "flush"} => arg[t] \in Queue
    BY DEF Waits, CallInv, ArgInv
  <2>2. \A t \in User : pc'[t] = "stop" => arg[t] \in Work
    BY DEF Waits, CallInv, ArgInv
  <2>3. \A c \in Cpu : hp'[c] = "complete" => hq[c] \in Queue
    BY DEF Waits, CallInv, ArgInv
  <2> QED BY <1>1, <2>1, <2>2, <2>3 DEF CallInv, ArgInv
<1>3. ASSUME NEW q \in Queue, work_list'[q] # <<>> PROVE Signalled(q)'
  <2>1. Signalled(q)
    BY <1>3 DEF CallInv
  <2>2. Pending(q) => Pending(q)'
    BY <1>1 DEF Waits, Pending
  <2> QED BY <1>3, <2>1, <2>2 DEF Signalled
<1> QED BY <1>2, <1>3 DEF CallInv

LEMMA CallStep == WorkInv /\ Next => CallInv'
\* Setting the signals of one queue.
<1>CountFacts.
    ASSUME NEW a \in [Queue -> Nat], NEW q \in Queue, NEW n \in Nat
    PROVE  /\ [a EXCEPT ![q] = n] \in [Queue -> Nat] /\ [a EXCEPT ![q] = n][q] = n
           /\ \A p \in Queue \ {q} : [a EXCEPT ![q] = n][p] = a[p]
    BY <1>CountFacts
\* A thread begins or ends a call.
<1>ArgStep.
    ASSUME UserInv, ArgInv, NEW t \in User, NEW p \in {"idle", "complete", "stop", "flush"}, NEW a,
           pc' = [pc EXCEPT ![t] = p], arg' = [arg EXCEPT ![t] = a],
           a \in Work \cup Queue \cup {None},
           p \in {"complete", "flush"} => a \in Queue, p = "stop" => a \in Work,
           work_avail' \in [Queue -> Nat], UNCHANGED <<hp, hq>>
    PROVE  ArgInv' /\ pc'[t] = p /\ arg'[t] = a
                   /\ \A u \in User \ {t} : pc'[u] = pc[u] /\ arg'[u] = arg[u]
  <2> USE <1>ArgStep
  <2>1. hp' = hp /\ hq' = hq
    OBVIOUS
  <2>2. /\ pc'[t] = p /\ \A u \in User \ {t} : pc'[u] = pc[u]
    BY DEF UserInv
  <2>3. /\ arg' \in [User -> Work \cup Queue \cup {None}] /\ arg'[t] = a
        /\ \A u \in User \ {t} : arg'[u] = arg[u]
    BY DEF ArgInv
  <2>4. /\ \A u \in User : pc'[u] \in {"complete", "flush"} => arg'[u] \in Queue
        /\ \A u \in User : pc'[u] = "stop" => arg'[u] \in Work
    BY <2>2, <2>3 DEF ArgInv
  <2> QED BY <2>1, <2>2, <2>3, <2>4 DEF ArgInv
\* One that has nothing to signal before ...
<1>SilentStep.
    ASSUME TimerInv, CallInv, NEW t \in User, NEW p \in {"idle", "complete", "stop", "flush"}, NEW a,
           pc[t] # "complete", pc' = [pc EXCEPT ![t] = p], arg' = [arg EXCEPT ![t] = a],
           a \in Work \cup Queue \cup {None},
           p \in {"complete", "flush"} => a \in Queue, p = "stop" => a \in Work,
           UNCHANGED <<work_avail, hp, hq, wp>>,
           \A q \in Queue : work_list'[q] # <<>> => work_list[q] # <<>> \/ (p = "complete" /\ q = a)
    PROVE  CallInv'
  <2> USE <1>SilentStep
  <2>1. work_avail' = work_avail /\ hp' = hp /\ hq' = hq /\ wp' = wp /\ work_avail \in [Queue -> Nat]
    BY DEF CallInv, ArgInv
  <2>2. /\ ArgInv' /\ pc'[t] = p /\ arg'[t] = a
        /\ \A u \in User \ {t} : pc'[u] = pc[u] /\ arg'[u] = arg[u]
    BY <2>1, <1>ArgStep DEF TimerInv, CallInv
  <2>3. ASSUME NEW q \in Queue, work_list'[q] # <<>> PROVE Signalled(q)'
    <3>1. CASE p = "complete" /\ q = a
      BY <2>2, <3>1 DEF Signalled, Pending
    <3>2. CASE work_list[q] # <<>>
      <4>1. Signalled(q)
        BY <3>2 DEF CallInv
      <4>2. Pending(q) => Pending(q)'
        BY <2>1, <2>2 DEF Pending
      <4> QED BY <2>1, <4>1, <4>2 DEF Signalled
    <3> QED BY <2>3, <3>1, <3>2
  <2> QED BY <2>2, <2>3 DEF CallInv
\* ... and schedule_complete(), which signals.
<1>CompleteStep.
    ASSUME TimerInv, CallInv, NEW t \in User, schedule_complete(t)
    PROVE  CallInv'
  <2> USE <1>CompleteStep
  <2>1. /\ pc[t] = "complete" /\ pc' = [pc EXCEPT ![t] = "idle"] /\ arg' = [arg EXCEPT ![t] = None]
        /\ hp' = hp /\ hq' = hq /\ wp' = wp /\ work_list' = work_list
        /\ work_avail' = [work_avail EXCEPT ![arg[t]] = @ + 1]
    BY DEF schedule_complete, Complete, ctrlVars
  <2>2. PICK p \in Queue : p = arg[t]
    BY <2>1 DEF CallInv, ArgInv
  <2>3. work_avail' \in [Queue -> Nat] /\ work_avail'[p] > 0 /\ \A q \in Queue \ {p} : work_avail'[q] = work_avail[q]
    BY <2>1, <2>2, SMT DEF CallInv, ArgInv
  <2>4. ArgInv' /\ \A u \in User \ {t} : pc'[u] = pc[u] /\ arg'[u] = arg[u]
    BY <2>1, <2>3, <1>ArgStep DEF TimerInv, CallInv
  <2>5. ASSUME NEW q \in Queue, work_list'[q] # <<>> PROVE Signalled(q)'
    <3>1. CASE q = p
      BY <2>3, <3>1 DEF Signalled
    <3>2. CASE q # p
      <4>1. Signalled(q)
        BY <2>1, <2>5 DEF CallInv
      <4>2. Pending(q) => Pending(q)'
        BY <2>1, <2>2, <2>4, <3>2 DEF Pending
      <4> QED BY <2>1, <2>3, <3>2, <4>1, <4>2 DEF Signalled
    <3> QED BY <3>1, <3>2
  <2> QED BY <2>4, <2>5 DEF CallInv
<1>AddLists.
    ASSUME WorkTypes, NEW w \in Work, NEW q \in Queue, Add(w, q)
    PROVE  \A p \in Queue : work_list'[p] # <<>> => work_list[p] # <<>> \/ p = q
    BY <1>AddLists DEF WorkTypes, Add
\* The handler of a delayed work adds it, ...
<1>DelayedAddStep.
    ASSUME WorkInv, NEW c \in Cpu, delayed_work_timer_event(c)
    PROVE  CallInv'
  <2> USE <1>DelayedAddStep
  <2>1. /\ hp[c] = "call" /\ he[c] \in Delayed /\ work_avail' = work_avail /\ wp' = wp
        /\ pc' = pc /\ arg' = arg
    BY DEF delayed_work_timer_event, userVars
  <2>2. PICK w \in Work : w = he[c]
    BY <2>1, WorkAssumption
  <2>3. CallInv /\ ArgInv /\ WorkTypes /\ HandlerInv
    BY DEF WorkInv, CallInv, FlowInv, TimerInv
  <2>4. CASE Scheduled(w)
    <3>1. hp' = [hp EXCEPT ![c] = "scan"] /\ UNCHANGED <<flags, wq, work_list, hq, stopped>>
      BY <2>2, <2>4 DEF delayed_work_timer_event
    <3>2. work_list' = work_list /\ hq' = hq
      BY <3>1
    <3>3. Waits
      BY <2>1, <2>3, <3>1 DEF Waits, HandlerInv
    <3> QED BY <2>1, <2>3, <3>2, <3>3, CallFrame
  <2>5. CASE ~Scheduled(w)
    <3>1. wq[w] \in Queue \cup {None} /\ syswq[c] \in Queue
      BY <2>3, WorkAssumption DEF WorkTypes
    <3>2. PICK p \in Queue : p = QueueFor(wq[w], c)
      BY <3>1 DEF QueueFor
    <3>3. Add(w, p) /\ hq' = [hq EXCEPT ![c] = p] /\ hp' = [hp EXCEPT ![c] = "complete"]
      BY <2>2, <2>5, <3>2 DEF delayed_work_timer_event
    <3>4. /\ hq' \in [Cpu -> Queue \cup {None}] /\ hq'[c] = p /\ hp'[c] = "complete"
          /\ \A g \in Cpu \ {c} : hq'[g] = hq[g] /\ hp'[g] = hp[g]
      BY <2>3, <3>3 DEF ArgInv, HandlerInv
    <3>5. ArgInv'
      BY <2>1, <2>3, <3>4 DEF ArgInv
    <3>6. ASSUME NEW q \in Queue, work_list'[q] # <<>> PROVE Signalled(q)'
      <4>1. CASE q = p
        BY <3>4, <4>1 DEF Signalled, Pending
      <4>2. CASE q # p
        <5>1. Signalled(q)
          BY <2>3, <3>3, <3>6, <4>2, <1>AddLists DEF CallInv
        <5>2. Pending(q) => Pending(q)'
          <6>1. \A g \in Cpu : hp[g] = "complete" => g # c
            BY <2>1
          <6> QED BY <2>1, <3>4, <6>1 DEF Pending
        <5> QED BY <2>1, <5>1, <5>2 DEF Signalled
      <4> QED BY <4>1, <4>2
    <3> QED BY <3>5, <3>6 DEF CallInv
  <2> QED BY <2>4, <2>5
\* ... and signals.
<1>DelayedCompleteStep.
    ASSUME WorkInv, NEW c \in Cpu, delayed_complete(c)
    PROVE  CallInv'
  <2> USE <1>DelayedCompleteStep
  <2>1. /\ hp[c] = "complete" /\ hp' = [hp EXCEPT ![c] = "scan"] /\ hq' = [hq EXCEPT ![c] = None]
        /\ pc' = pc /\ arg' = arg /\ wp' = wp /\ work_list' = work_list
        /\ work_avail' = [work_avail EXCEPT ![hq[c]] = @ + 1]
    BY DEF delayed_complete, Complete, userVars
  <2>2. CallInv /\ ArgInv /\ HandlerInv
    BY DEF WorkInv, CallInv, TimerInv
  <2>3. PICK p \in Queue : p = hq[c]
    BY <2>1, <2>2 DEF ArgInv
  <2>4. work_avail' \in [Queue -> Nat] /\ work_avail'[p] > 0 /\ \A q \in Queue \ {p} : work_avail'[q] = work_avail[q]
    BY <2>1, <2>2, <2>3, SMT DEF ArgInv
  <2>5. /\ hq' \in [Cpu -> Queue \cup {None}] /\ hp'[c] = "scan"
        /\ \A g \in Cpu \ {c} : hq'[g] = hq[g] /\ hp'[g] = hp[g]
    BY <2>1, <2>2 DEF ArgInv, HandlerInv
  <2>6. ArgInv'
    BY <2>1, <2>2, <2>4, <2>5 DEF ArgInv
  <2>7. ASSUME NEW q \in Queue, work_list'[q] # <<>> PROVE Signalled(q)'
    <3>1. CASE q = p
      BY <2>4, <3>1 DEF Signalled
    <3>2. CASE q # p
      <4>1. Signalled(q)
        BY <2>1, <2>2, <2>7 DEF CallInv
      <4>2. Pending(q) => Pending(q)'
        BY <2>1, <2>3, <2>5, <3>2 DEF Pending
      <4> QED BY <2>1, <2>4, <3>2, <4>1, <4>2 DEF Signalled
    <3> QED BY <3>1, <3>2
  <2> QED BY <2>6, <2>7 DEF CallInv
\* The worker or vmm_workqueue_flush() ends its sleep.
<1>WakeStep.
    ASSUME WorkInv, NEW q \in Queue, wp' = [wp EXCEPT ![q] = "loop"], work_avail' \in [Queue -> Nat],
           \A p \in Queue \ {q} : work_avail'[p] = work_avail[p],
           UNCHANGED <<pc, arg, hp, hq, work_list>>
    PROVE  CallInv'
  <2> USE <1>WakeStep
  <2>1. pc' = pc /\ arg' = arg /\ hp' = hp /\ hq' = hq /\ work_list' = work_list
    OBVIOUS
  <2>2. wp'[q] = "loop" /\ \A p \in Queue \ {q} : wp'[p] = wp[p]
    BY DEF WorkInv, FlowInv, WorkTypes
  <2>3. ArgInv'
    BY <2>1 DEF WorkInv, CallInv, ArgInv
  <2>4. ASSUME NEW p \in Queue, work_list'[p] # <<>> PROVE Signalled(p)'
    <3>1. CASE p = q
      BY <2>2, <3>1 DEF Signalled
    <3>2. CASE p # q
      <4>1. Signalled(p)
        BY <2>1, <2>4 DEF WorkInv, CallInv
      <4>2. Pending(p) => Pending(p)'
        BY <2>1 DEF Pending
      <4> QED BY <2>2, <3>2, <4>1, <4>2 DEF Signalled
    <3> QED BY <3>1, <3>2
  <2> QED BY <2>3, <2>4 DEF CallInv
\* A work that schedules itself is signalled at once.
<1>RearmStep.
    ASSUME WorkInv, NEW q \in Queue, work_func(q)
    PROVE  CallInv'
  <2> USE <1>RearmStep
  <2>1. pc' = pc /\ arg' = arg /\ hp' = hp /\ hq' = hq /\ wp' = wp /\ wp[q] = "run"
    BY DEF work_func, timerVars, ctrlVars, userVars
  <2>2. PICK r \in Targets[held[q]] : /\ Add(held[q], QueueFor(r, Where[q]))
                                      /\ work_avail' = Complete(QueueFor(r, Where[q]))
    BY DEF work_func
  <2>3. PICK w \in Work : w = held[q]
    BY <2>1 DEF WorkInv, FlowInv, WorkTypes
  <2>4. Where[q] \in Cpu
    BY WorkAssumption
  <2>5. PICK p \in Queue : p = QueueFor(r, Where[q])
    BY <2>2, <2>3, <2>4, QueueForFacts
  <2>6. Add(w, p) /\ work_avail' = [work_avail EXCEPT ![p] = @ + 1]
    BY <2>2, <2>3, <2>5 DEF Complete
  <2>7. work_avail' \in [Queue -> Nat] /\ work_avail'[p] > 0 /\ \A g \in Queue \ {p} : work_avail'[g] = work_avail[g]
    <3>1. work_avail \in [Queue -> Nat]
      BY DEF WorkInv, CallInv, ArgInv
    <3>2. work_avail[p] + 1 \in Nat /\ work_avail[p] + 1 > 0
      BY <3>1, SMT
    <3> QED BY <2>6, <3>1, <3>2, <1>CountFacts
  <2>8. ArgInv'
    BY <2>1, <2>7 DEF WorkInv, CallInv, ArgInv
  <2>9. ASSUME NEW g \in Queue, work_list'[g] # <<>> PROVE Signalled(g)'
    <3>1. CASE g = p
      BY <2>7, <3>1 DEF Signalled
    <3>2. CASE g # p
      <4>1. Signalled(g)
        BY <2>6, <2>9, <3>2, <1>AddLists DEF WorkInv, CallInv, FlowInv
      <4>2. Pending(g) => Pending(g)'
        BY <2>1 DEF Pending
      <4> QED BY <2>1, <2>7, <3>2, <4>1, <4>2 DEF Signalled
    <3> QED BY <3>1, <3>2
  <2> QED BY <2>8, <2>9 DEF CallInv
<1>WaitsUser.
    ASSUME TimerInv, NEW t \in User, NEW p \in {"idle", "start"}, pc[t] \in {"idle", "start"},
           pc' = [pc EXCEPT ![t] = p], hp' = hp
    PROVE  Waits
    BY <1>WaitsUser DEF TimerInv, UserInv, Waits
<1>WaitsTimer.
    ASSUME TimerInv,
           \/ Tick \/ TimerCalls
           \/ \E c \in Cpu : vmm_timer_start(c) \/ clock_interrupt(c) \/ Handles(c)
           \/ \E t \in User, c \in Cpu : vmm_timer_event_start(t, c)
    PROVE  Waits
  \* The steps of the timer let the ones who are about to signal wait.
  <2>WaitsHandler.
      ASSUME TimerInv, NEW c \in Cpu, NEW p, hp[c] # "complete", p # "complete",
             hp' = [hp EXCEPT ![c] = p], pc' = pc
      PROVE  Waits
      BY <2>WaitsHandler DEF TimerInv, HandlerInv, Waits
  <2> USE <1>WaitsTimer
  <2>1. ASSUME pc' = pc, hp' = hp PROVE Waits
    BY <2>1 DEF Waits
  <2>2. ASSUME Tick PROVE Waits
    <3>1. pc' = pc /\ hp' = hp
      BY <2>2 DEF Tick, userVars
    <3> QED BY <2>1, <3>1
  <2>3. ASSUME NEW c \in Cpu, vmm_timer_start(c) \/ vmm_timer_stop(c) PROVE Waits
    <3>1. pc' = pc /\ hp' = hp
      BY <2>3 DEF vmm_timer_start, vmm_timer_stop, userVars
    <3> QED BY <2>1, <3>1
  <2>4. ASSUME NEW c \in Cpu, clock_interrupt(c) \/ Handles(c) PROVE Waits
    <3>1. pc' = pc
      BY <2>4 DEF clock_interrupt, Handles, handler_scan, handler_stop, handler_call, userVars
    <3>2. hp[c] # "complete"
      BY <2>4 DEF clock_interrupt, Handles, handler_scan, handler_stop, handler_call
    <3>3. \E p \in {"idle", "scan", "stop", "call"} : hp' = [hp EXCEPT ![c] = p]
      BY <2>4 DEF clock_interrupt, Handles, handler_scan, handler_stop, handler_call
    <3>4. "complete" \notin {"idle", "scan", "stop", "call"}
      OBVIOUS
    <3> QED BY <3>1, <3>2, <3>3, <3>4, <2>WaitsHandler
  <2>5. ASSUME NEW t \in User, NEW c \in Cpu, vmm_timer_event_start(t, c) PROVE Waits
    <3>1. hp' = hp /\ pc[t] = "start" /\ pc' = [pc EXCEPT ![t] = "idle"]
      BY <2>5 DEF vmm_timer_event_start
    <3> QED BY <3>1, <1>WaitsUser
  <2>6. ASSUME NEW t \in User, NEW e, vmm_timer_event_stop(t, e) PROVE Waits
    <3>1. pc' = pc /\ hp' = hp
      BY <2>6 DEF vmm_timer_event_stop
    <3> QED BY <2>1, <3>1
  <2>7. ASSUME NEW t \in User, NEW e, NEW d, event_start(t, e, d) PROVE Waits
    <3>1. hp' = hp /\ pc[t] = "idle" /\ pc' = [pc EXCEPT ![t] = "start"]
      BY <2>7 DEF event_start, Op, ctrlVars
    <3> QED BY <3>1, <1>WaitsUser
  <2> QED BY <2>2, <2>3, <2>4, <2>5, <2>6, <2>7 DEF TimerCalls
<1> SUFFICES ASSUME WorkInv, Next PROVE CallInv'
  OBVIOUS
<1>1. torn = {} /\ TimerInv /\ FlowInv /\ CallInv /\ WorkTypes
  BY DEF Next, WorkInv, FlowInv
<1>2. ASSUME Waits, UNCHANGED <<arg, hq>>, work_avail' = work_avail, wp' = wp, work_list' = work_list
      PROVE  CallInv'
  BY <1>1, <1>2, CallFrame
<1>3. ASSUME UNCHANGED <<workVars, arg>>, Waits PROVE CallInv'
  <2>1. UNCHANGED <<arg, hq>> /\ work_avail' = work_avail /\ wp' = wp /\ work_list' = work_list
    BY <1>3 DEF workVars
  <2> QED BY <1>2, <1>3, <2>1
<1>4. ASSUME NEW q \in Queue, workqueue_main(q) PROVE CallInv'
  <2>1. CASE worker_wait(q)
    <3>1. /\ wp' = [wp EXCEPT ![q] = "loop"] /\ UNCHANGED <<pc, arg, hp, hq, work_list>>
      BY <2>1 DEF worker_wait, timerVars, ctrlVars, userVars
    <3>2. work_avail' \in [Queue -> Nat] /\ \A p \in Queue \ {q} : work_avail'[p] = work_avail[p]
      <4>1. work_avail \in [Queue -> Nat]
        BY <1>1 DEF CallInv, ArgInv
      <4>2. work_avail' = [work_avail EXCEPT ![q] = work_avail[q] - 1] /\ work_avail[q] > 0
        BY <2>1 DEF worker_wait
      <4>3. work_avail[q] - 1 \in Nat
        BY <4>1, <4>2, SMT
      <4> QED BY <4>1, <4>2, <4>3, <1>CountFacts
    <3> QED BY <3>1, <3>2, <1>WakeStep
  <2>2. CASE worker_unlink(q) \/ worker_begin(q) \/ worker_end(q)
    <3>1. pc' = pc /\ hp' = hp /\ UNCHANGED <<arg, hq>> /\ work_avail' = work_avail
      BY <2>2 DEF worker_unlink, worker_begin, worker_end, timerVars, ctrlVars, userVars
    <3>2. Waits
      BY <3>1 DEF Waits
    <3>3. /\ \A p \in Queue : wp[p] # "wait" => wp'[p] # "wait" \/ work_list'[p] = <<>>
          /\ \A p \in Queue : work_list'[p] # <<>> => work_list[p] # <<>>
      <4>1. CASE worker_unlink(q)
        <5>1. CASE work_list[q] = <<>>
          <6>1. wp' = [wp EXCEPT ![q] = "wait"] /\ work_list' = work_list
            BY <4>1, <5>1 DEF worker_unlink
          <6> QED BY <1>1, <5>1, <6>1 DEF WorkTypes
        <5>2. CASE work_list[q] # <<>>
          <6>1. wp' = [wp EXCEPT ![q] = "held"] /\ work_list' = [work_list EXCEPT ![q] = Tail(@)]
            BY <4>1, <5>2 DEF worker_unlink
          <6> QED BY <1>1, <5>2, <6>1 DEF WorkTypes
        <5> QED BY <5>1, <5>2
      <4>2. CASE worker_begin(q) \/ worker_end(q)
        <5>1. work_list' = work_list /\ \E p \in {"run", "loop"} : wp' = [wp EXCEPT ![q] = p]
          BY <4>2 DEF worker_begin, worker_end
        <5> QED BY <1>1, <5>1 DEF WorkTypes
      <4> QED BY <2>2, <4>1, <4>2
    <3> QED BY <1>1, <3>1, <3>2, <3>3, CallFrame
  <2> QED BY <1>4, <2>1, <2>2, <1>RearmStep DEF workqueue_main
<1>5. ASSUME NEW t \in User, vmm_workqueue_stop_work(t) PROVE CallInv'
  <2>1. /\ pc[t] = "stop" /\ pc' = [pc EXCEPT ![t] = "idle"] /\ arg' = [arg EXCEPT ![t] = None]
        /\ UNCHANGED <<work_avail, hp, hq, wp>>
    BY <1>5 DEF vmm_workqueue_stop_work, ctrlVars
  <2>2. PICK w \in Work : arg[t] = w
    BY <1>1, <2>1 DEF CallInv, ArgInv
  <2>3. \/ work_list' = work_list
        \/ wq[w] # None /\ work_list' = [work_list EXCEPT ![wq[w]] = list_del(@, w)]
    BY <1>5, <2>2 DEF vmm_workqueue_stop_work
  <2>4. list_del(<<>>, w) = <<>>
    BY SMT DEF list_del
  <2>5. \A q \in Queue : work_list'[q] # <<>> => work_list[q] # <<>>
    <3>1. CASE work_list' = work_list
      BY <3>1
    <3>2. CASE wq[w] # None /\ work_list' = [work_list EXCEPT ![wq[w]] = list_del(@, w)]
      <4>1. PICK p \in Queue : p = wq[w]
        BY <1>1, <3>2 DEF WorkTypes
      <4>2. /\ work_list'[p] = list_del(work_list[p], w)
            /\ \A q \in Queue \ {p} : work_list'[q] = work_list[q]
        BY <1>1, <3>2, <4>1 DEF WorkTypes
      <4> QED BY <2>4, <4>2
    <3> QED BY <2>3, <3>1, <3>2
  <2> QED BY <1>1, <2>1, <2>5, <1>SilentStep
<1>6. ASSUME NEW t \in User, vmm_workqueue_flush(t) PROVE CallInv'
  <2>1. pc[t] = "flush" /\ UNCHANGED <<hp, hq, work_list>>
    BY <1>6 DEF vmm_workqueue_flush, ctrlVars
  <2>2. CASE pc' = [pc EXCEPT ![t] = "idle"] /\ arg' = [arg EXCEPT ![t] = None] /\ UNCHANGED <<wp, work_avail>>
    BY <1>1, <2>1, <2>2, <1>SilentStep
  <2>3. CASE /\ wp' = [wp EXCEPT ![arg[t]] = "loop"] /\ UNCHANGED <<pc, arg>>
             /\ work_avail' = [work_avail EXCEPT ![arg[t]] = IF @ > 0 THEN @ - 1 ELSE 0]
    <3>1. PICK q \in Queue : q = arg[t]
      BY <1>1, <2>1 DEF CallInv, ArgInv
    <3>2. /\ wp' = [wp EXCEPT ![q] = "loop"] /\ UNCHANGED <<pc, arg, hp, hq, work_list>>
      BY <2>1, <2>3, <3>1
    <3>3. work_avail' \in [Queue -> Nat] /\ \A p \in Queue \ {q} : work_avail'[p] = work_avail[p]
      <4> DEFINE n == IF work_avail[q] > 0 THEN work_avail[q] - 1 ELSE 0
      <4>1. work_avail \in [Queue -> Nat]
        BY <1>1 DEF CallInv, ArgInv
      <4>2. work_avail' = [work_avail EXCEPT ![q] = n]
        BY <2>3, <3>1
      <4>3. n \in Nat
        BY <4>1, SMT
      <4> QED BY <4>1, <4>2, <4>3, <1>CountFacts
    <3> QED BY <3>2, <3>3, <1>WakeStep
  <2> QED BY <1>6, <2>2, <2>3 DEF vmm_workqueue_flush
<1>7. ASSUME Continues PROVE CallInv'
  BY <1>1, <1>3, <1>4, <1>5, <1>6, <1>7, <1>WaitsTimer, <1>CompleteStep, <1>DelayedAddStep, <1>DelayedCompleteStep
    DEF Continues
<1>8. ASSUME NEW t \in User, Begins(t) PROVE CallInv'
  <2>1. ASSUME NEW w \in Work, NEW q \in Targets[w], vmm_workqueue_schedule_work(t, w, q) PROVE CallInv'
    <3>1. /\ pc[t] = "idle" /\ pc' = [pc EXCEPT ![t] = "complete"]
          /\ arg' = [arg EXCEPT ![t] = QueueFor(q, on[t])] /\ Add(w, QueueFor(q, on[t]))
          /\ UNCHANGED <<work_avail, hp, hq, wp>>
      BY <2>1 DEF vmm_workqueue_schedule_work, Op, ctrlVars
    <3>2. on[t] \in Cpu
      BY <1>1 DEF TimerInv, UserInv
    <3>3. PICK p \in Queue : p = QueueFor(q, on[t])
      BY <3>2, QueueForFacts
    <3>4. arg' = [arg EXCEPT ![t] = p] /\ Add(w, p)
      BY <3>1, <3>3
    <3>5. \A r \in Queue : work_list'[r] # <<>> => work_list[r] # <<>> \/ r = p
      BY <1>1, <3>4, <1>AddLists
    <3> QED BY <1>1, <3>1, <3>4, <3>5, <1>SilentStep
  <2>2. ASSUME NEW w \in Work, stop_begin(t, w) PROVE CallInv'
    <3>1. /\ pc[t] = "idle" /\ pc' = [pc EXCEPT ![t] = "stop"] /\ arg' = [arg EXCEPT ![t] = w]
          /\ UNCHANGED <<work_avail, hp, hq, wp>> /\ work_list' = work_list
      BY <2>2 DEF stop_begin, Op, workVars
    <3> QED BY <1>1, <3>1, <1>SilentStep
  <2>3. ASSUME NEW w \in Delayed, NEW d \in Durations, NEW q \in Targets[w],
               vmm_workqueue_schedule_delayed_work(t, w, q, d)
        PROVE  CallInv'
    <3>1. /\ pc[t] = "idle" /\ pc' = [pc EXCEPT ![t] = "start"] /\ hp' = hp /\ UNCHANGED <<arg, hq>>
          /\ work_avail' = work_avail /\ wp' = wp /\ work_list' = work_list
      BY <2>3 DEF vmm_workqueue_schedule_delayed_work, Op, ctrlVars
    <3>2. Waits
      BY <1>1, <3>1, <1>WaitsUser
    <3> QED BY <1>2, <3>1, <3>2
  <2>4. ASSUME NEW q \in Queue, flush_begin(t, q) PROVE CallInv'
    <3>1. /\ pc[t] = "idle" /\ pc' = [pc EXCEPT ![t] = "flush"] /\ arg' = [arg EXCEPT ![t] = q]
          /\ UNCHANGED <<work_avail, hp, hq, wp>> /\ work_list' = work_list
      BY <2>4 DEF flush_begin, Op, workVars, ctrlVars
    <3> QED BY <1>1, <3>1, <1>SilentStep
  <2> QED BY <1>8, <2>1, <2>2, <2>3, <2>4 DEF Begins
<1>9. ASSUME TimerCalls, UNCHANGED <<workVars, arg>> PROVE CallInv'
  BY <1>1, <1>3, <1>9, <1>WaitsTimer
<1> QED BY <1>7, <1>8, <1>9 DEF Next

-----------------------------------------------------------------------------
(* The theorems                                                            *)

LEMMA WorkBegins ==
  ASSUME Init
  PROVE  WorkInv
<1>1. TimerInv
  BY TimerBegins
<1>2. WorkTypes
  BY SMT DEF Init, WorkTypes
<1>3. \A q \in Queue : work_list[q] = <<>> /\ wp[q] = "wait"
  BY DEF Init
<1>4. \A q \in Queue : Distinct(work_list[q]) /\ \A x : ~In(x, work_list[q])
  BY <1>3, SMT DEF Distinct, In
<1>5. \A w \in Work : ~Scheduled(w)
  BY DEF Init, Scheduled
<1>6. \A w \in Work, q \in Queue : ~Has(w, q) /\ ~Works(w, q)
  BY <1>3, <1>4 DEF Has, Taken, Works
<1>7. QueueInv
  BY <1>4, <1>5, <1>6 DEF QueueInv
<1>8. FlagInv
  BY <1>5 DEF Init, FlagInv
<1>9. PinInv
  BY <1>3, <1>4, <1>6 DEF PinInv
<1>10. ArgInv
  BY DEF Init, TimerInit, ArgInv
<1> QED BY <1>1, <1>2, <1>3, <1>7, <1>8, <1>9, <1>10 DEF WorkInv, FlowInv, CallInv

\* The inductive invariant: the lists of timer events and of works hold exactly
\* the active events and the scheduled works.
THEOREM Invariance == Spec => []WorkInv
<1>1. Init => WorkInv
  BY WorkBegins
<1>2. WorkInv /\ [Next]_vars => WorkInv'
  <2> SUFFICES ASSUME WorkInv, [Next]_vars PROVE WorkInv'
    OBVIOUS
  <2>1. CASE Next
    BY <2>1, TimerStep, FlowStep, CallStep DEF WorkInv
  <2>2. CASE UNCHANGED vars
    <3>1. /\ UNCHANGED timerVars /\ UNCHANGED <<workVars, arg>>
      BY <2>2 DEF vars
    <3>2. /\ pc' = pc /\ hp' = hp /\ torn' = torn
      BY <3>1 DEF timerVars, ctrlVars, userVars
    <3>3. /\ flags' = flags /\ wq' = wq /\ work_list' = work_list /\ wp' = wp /\ held' = held
          /\ stopped' = stopped /\ UNCHANGED <<arg, hq>> /\ work_avail' = work_avail
      BY <3>1 DEF workVars
    <3>4. TimerInv'
      BY <3>1, TimerFrame DEF WorkInv
    <3>5. CallInv'
      <4>1. Waits
        BY <3>2 DEF Waits
      <4> QED BY <3>3, <4>1, CallFrame DEF WorkInv
    <3>6. FlowInv'
      <4>1. WorkTypes'
        BY <3>3 DEF WorkInv, FlowInv, WorkTypes
      <4>2. torn = {} => QueueInv'
        BY <3>3 DEF WorkInv, FlowInv, QueueInv, Has, Taken, Scheduled
      <4>3. FlagInv'
        BY <3>3 DEF WorkInv, FlowInv, FlagInv, Scheduled
      <4>4. PinInv'
        BY <3>3 DEF WorkInv, FlowInv, PinInv, Works, InProgress
      <4> QED BY <3>2, <4>1, <4>2, <4>3, <4>4 DEF FlowInv
    <3> QED BY <3>4, <3>5, <3>6 DEF WorkInv
  <2> QED BY <2>1, <2>2
<1> QED BY <1>1, <1>2, PTL DEF Spec

\* __timer_event_stop() finds an active event in the list of the host CPU it is
\* recorded for, and vmm_timer_event_start() never links an event twice.
THEOREM EventsListed == Spec => []ActiveIsListed
<1>1. WorkInv => ActiveIsListed
  <2> SUFFICES ASSUME WorkInv, torn = {}, NEW e \in Event, NEW c \in Cpu
               PROVE  LET places == {i \in DOMAIN event_list[c] : event_list[c][i] = e}
                      IN  IF active_state[e] /\ active_hcpu[e] = c THEN \E i \in places : places = {i}
                                                                   ELSE places = {}
    BY DEF ActiveIsListed
  <2>1. ListInv
    BY DEF WorkInv, TimerInv, OrderInv
  <2>2. Distinct(event_list[c]) /\ (In(e, event_list[c]) <=> active_state[e] /\ active_hcpu[e] = c)
    BY <2>1 DEF ListInv
  <2> DEFINE places == {i \in DOMAIN event_list[c] : event_list[c][i] = e}
  <2>3. \A i, j \in places : i = j
    BY <2>2 DEF Distinct
  <2>4. In(e, event_list[c]) <=> \E i : i \in places
    BY DEF In
  <2> HIDE DEF places
  <2>5. CASE In(e, event_list[c])
    <3>1. PICK i : i \in places
      BY <2>4, <2>5
    <3>2. places = {i}
      BY <2>3, <3>1
    <3> QED BY <2>2, <2>5, <3>1, <3>2 DEF places
  <2>6. CASE ~In(e, event_list[c])
    <3>1. places = {}
      BY <2>4, <2>6
    <3> QED BY <2>2, <2>6, <3>1 DEF places
  <2> QED BY <2>5, <2>6
<1> QED BY <1>1, Invariance, PTL

\* No event is late, provided that a thread in vmm_timer_event_start() can program
\* the clockchip of the list it has chosen: it is not moved to another host CPU
\* before it takes the locks, or a clockchip can be programmed from everywhere.
THEOREM NoEventLate == Reaches => (Spec => []ChipCovers)
<1> SUFFICES ASSUME Reaches PROVE Spec => []ChipCovers
  OBVIOUS
<1>1. WorkInv => ChipCovers
  <2> SUFFICES ASSUME WorkInv, torn = {}, NEW c \in Cpu, started[c] = "on", ~inprocess[c],
                      NEW i \in DOMAIN event_list[c]
               PROVE  \E d \in chip[c] : d <= Later(expiry[event_list[c][i]], now)
    BY DEF ChipCovers
  <2>1. CoverInv
    BY DEF WorkInv, TimerInv, OrderInv
  <2>2. event_list[c] \in Seq(Event)
    BY DEF WorkInv, TimerInv, TimerTypes
  <2>3. event_list[c][i] \in Event
    BY <2>2, EntryFacts
  <2>4. In(event_list[c][i], event_list[c])
    BY DEF In
  <2> QED BY <2>1, <2>3, <2>4 DEF CoverInv
<1> QED BY <1>1, Invariance, PTL

\* A scheduled work is in one list, once, or in the hands of one worker; a work
\* that is not scheduled is nowhere.
THEOREM WorksQueued == Spec => []ScheduledIsQueued
<1>1. WorkInv => ScheduledIsQueued
  <2> SUFFICES ASSUME WorkInv, torn = {}, NEW w \in Work
               PROVE  LET listed == {p \in UNION {{q} \X DOMAIN work_list[q] : q \in Queue} :
                                       work_list[p[1]][p[2]] = w}
                          taken == {q \in Queue : wp[q] = "held" /\ held[q] = w}
                      IN  IF Scheduled(w) THEN \/ taken = {} /\ \E p \in listed : listed = {p}
                                               \/ listed = {} /\ \E q \in taken : taken = {q}
                                          ELSE listed = {} /\ taken = {}
    BY DEF ScheduledIsQueued
  <2> DEFINE places == UNION {{q} \X DOMAIN work_list[q] : q \in Queue}
             listed == {p \in places : work_list[p[1]][p[2]] = w}
             taken == {q \in Queue : wp[q] = "held" /\ held[q] = w}
  <2>1. QueueInv
    BY DEF WorkInv, FlowInv
  <2>2. \A p : p \in listed <=> \E q \in Queue : \E i \in DOMAIN work_list[q] : p = <<q, i>> /\ work_list[q][i] = w
    <3>1. listed = Places(Queue, work_list, w)
      BY DEF Places
    <3> HIDE DEF places, listed
    <3> QED BY <3>1, PlacesFacts, SMT
  <2>3. \A q : q \in taken <=> q \in Queue /\ Taken(w, q)
    BY DEF Taken
  <2> HIDE DEF places, listed, taken
  <2>5. CASE Scheduled(w)
    <3>1. PICK q \in Queue : Has(w, q)
      BY <2>1, <2>5 DEF QueueInv
    <3>2. \A p \in Queue : Has(w, p) => p = q
      BY <2>1, <3>1 DEF QueueInv
    <3>3. CASE In(w, work_list[q])
      <4>1. PICK i \in DOMAIN work_list[q] : work_list[q][i] = w
        BY <3>3 DEF In
      <4>2. \A p : p \in listed => p = <<q, i>>
        <5> SUFFICES ASSUME NEW r \in Queue, NEW j \in DOMAIN work_list[r], work_list[r][j] = w
                     PROVE  <<r, j>> = <<q, i>>
          BY <2>2
        <5>1. r = q
          BY <3>2 DEF Has, In
        <5>2. Distinct(work_list[q])
          BY <2>1 DEF QueueInv
        <5>3. j = i
          BY <4>1, <5>1, <5>2 DEF Distinct
        <5> QED BY <5>1, <5>3
      <4>3. listed = {<<q, i>>}
        <5>1. <<q, i>> \in listed
          BY <2>2, <4>1
        <5> QED BY <4>2, <5>1
      <4>4. taken = {}
        <5>1. \A p : p \notin taken
          <6>1. ~Taken(w, q)
            BY <2>1, <3>3 DEF QueueInv
          <6>2. \A p \in Queue : Taken(w, p) => p = q
            BY <3>2 DEF Has
          <6> QED BY <2>3, <6>1, <6>2
        <5> QED BY <5>1
      <4>5. \E p \in listed : listed = {p}
        BY <4>3
      <4> QED BY <2>5, <4>4, <4>5 DEF listed, taken, places
    <3>4. CASE ~In(w, work_list[q])
      <4>1. \A p \in Queue : ~In(w, work_list[p])
        BY <3>2, <3>4 DEF Has
      <4>2. listed = {}
        <5>1. \A p : p \notin listed
          BY <2>2, <4>1 DEF In
        <5> QED BY <5>1
      <4>3. taken = {q}
        <5>1. \A p : p \in taken => p = q
          BY <2>3, <3>2 DEF Has
        <5>2. q \in taken
          BY <2>3, <3>1, <3>4 DEF Has
        <5> QED BY <5>1, <5>2
      <4>4. \E p \in taken : taken = {p}
        BY <4>3
      <4> QED BY <2>5, <4>2, <4>4 DEF listed, taken, places
    <3> QED BY <3>3, <3>4
  <2>6. CASE ~Scheduled(w)
    <3>1. \A q \in Queue : ~In(w, work_list[q]) /\ ~Taken(w, q)
      BY <2>1, <2>6 DEF QueueInv, Has
    <3>2. listed = {}
      <4>1. \A p : p \notin listed
        BY <2>2, <3>1 DEF In
      <4> QED BY <4>1
    <3>3. taken = {}
      <4>1. \A p : p \notin taken
        BY <2>3, <3>1
      <4> QED BY <4>1
    <3> QED BY <2>6, <3>2, <3>3 DEF listed, taken, places
  <2> QED BY <2>5, <2>6
<1> QED BY <1>1, Invariance, PTL

\* A worker does not sleep on a work in its list without a signal on the way,
\* although vmm_workqueue_schedule_work() signals after it has released the locks.
THEOREM NoWorkLost == Spec => []NoLostWork
<1>1. WorkInv => NoLostWork
  BY DEF WorkInv, CallInv, Signalled, Pending, NoLostWork
<1> QED BY <1>1, Invariance, PTL

\* After vmm_workqueue_stop_work() has returned, the function of a work that only
\* ever goes to one queue does not run until the work is scheduled again.
THEOREM StoppedWorks == Spec => []StopHolds
<1>1. WorkInv => StopHolds
  <2> SUFFICES ASSUME WorkInv, NEW w \in Pinned \cap stopped, NEW q \in RunsOn(w)
               PROVE  FALSE
    BY DEF StopHolds
  <2>1. w \in Work /\ w \in stopped /\ q \in Queue /\ wp[q] = "run" /\ held[q] = w
    BY DEF Pinned, RunsOn
  <2>2. PICK p \in Queue : Pins(w, p)
    BY DEF Pinned, Pins
  <2> QED BY <2>1, <2>2 DEF WorkInv, FlowInv, PinInv
<1> QED BY <1>1, Invariance, PTL


=============================================================================
