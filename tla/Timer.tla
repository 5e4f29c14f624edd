------------------------------- MODULE Timer --------------------------------
(***************************************************************************)
(* Timer events: core/vmm_timer.c.  Each host CPU keeps its events in the  *)
(* order of their expiry and programs its clockchip, a one-shot device,    *)
(* for the first; the handler of the clock interrupt calls the handlers of *)
(* the events that have expired.                                           *)
(*                                                                         *)
(* An operation on an event is one step: it holds active_lock of the event *)
(* throughout, and the list locks around each change of a list.  The host  *)
(* CPUs see the same time.  tlcp->curr and next_event are written only.    *)
(***************************************************************************)
EXTENDS Naturals, Sequences, FiniteSets

CONSTANTS
  Cpu,        \* host CPUs
  Event,      \* struct vmm_timer_event
  Plain,      \* the ones that are started by themselves
  Periodic,   \* the plain ones whose handler may restart them
  User,       \* threads
  Home,       \* the host CPU of each
  Movers,     \* the ones that may be moved to another host CPU
  LocalChip,  \* a clockchip can only be programmed by its own host CPU
  Booting,    \* host CPUs where vmm_timer_start() is still to come
  Stops,      \* host CPUs where vmm_timer_stop() may be called
  Durations,  \* the durations of events
  Ops,        \* what each thread does
  MaxTime,    \* bound: the time
  MaxCalls    \* bound: the number of calls of each thread

ASSUME TimerAssumption ==
  /\ 0 \in Cpu
  /\ Periodic \subseteq Plain /\ Plain \subseteq Event
  /\ Home \in [User -> Cpu]
  /\ Movers \subseteq User /\ Booting \cup Stops \subseteq Cpu
  /\ LocalChip \in BOOLEAN
  /\ Durations \subseteq Nat \ {0}
  /\ \A t \in User : {"event_start", "event_stop"} \cap Ops[t] # {} => Plain # {}
  /\ MaxTime \in Nat
  /\ MaxCalls \in [User -> Nat]

VARIABLES
  now,          \* vmm_timer_timestamp()
  started,      \* tlc.started: "new", "on", and "off" after vmm_timer_stop()
  inprocess,    \* tlc.inprocess
  event_list,   \* tlc.event_list
  chip,         \* the time the clockchip is programmed for, if it is
  hp,           \* where the handler of the clock interrupt is
  he,           \* the event it has found expired
  active_state, \* ev->active_state
  active_hcpu,  \* ev->active_hcpu
  expiry,       \* ev->expiry_tstamp
  duration,     \* ev->duration_nsecs
  on,           \* the host CPU of a thread
  pc,           \* where it is
  ev,           \* the event it works on
  hcpu,         \* vmm_smp_processor_id() when it began to start the event
  tstamp,       \* vmm_timer_timestamp() then
  dur,          \* for how long it starts it
  calls,        \* the number of calls it has made
  torn          \* list nodes unlinked or overwritten against their list

ctrlVars == <<now, started, inprocess, event_list, chip, hp, he>>
eventVars == <<active_state, active_hcpu, expiry, duration>>
userVars == <<on, pc, ev, hcpu, tstamp, dur, calls>>
timerVars == <<ctrlVars, eventVars, userVars, torn>>

AnEvent == CHOOSE e \in Event : TRUE

TimerInit ==
  /\ now = 0
  /\ started = [c \in Cpu |-> IF c \in Booting THEN "new" ELSE "on"]
  /\ inprocess = [c \in Cpu |-> FALSE]
  /\ event_list = [c \in Cpu |-> <<>>]
  /\ chip = [c \in Cpu |-> {}]
  /\ hp = [c \in Cpu |-> "idle"]
  /\ he = [c \in Cpu |-> AnEvent]
  /\ active_state = [e \in Event |-> FALSE]
  /\ active_hcpu = [e \in Event |-> 0]
  /\ expiry = [e \in Event |-> 0]
  /\ duration = [e \in Event |-> 0]
  /\ on = Home
  /\ pc = [t \in User |-> "idle"]
  /\ ev = [t \in User |-> AnEvent]
  /\ hcpu = Home
  /\ tstamp = [t \in User |-> 0]
  /\ dur = [t \in User |-> 0]
  /\ calls = [t \in User |-> 0]
  /\ torn = {}

-----------------------------------------------------------------------------
(* The functions of vmm_timer.c                                            *)

Later(a, b) == IF a < b THEN b ELSE a

\* The device vmm_clockchip_program_event() reaches: set_next_event() of the
\* generic timer ignores its clockchip and programs the executing host CPU's.
Device(c, here) == IF LocalChip THEN here ELSE c

\* __timer_schedule_next_event() for a host CPU, called on host CPU here with the
\* list and the expiry times as given.
ScheduleNext(c, here, list, exp, busy) ==
  IF started[c] # "on" \/ busy \/ list = <<>>
    THEN chip
    ELSE [chip EXCEPT ![Device(c, here)] = {Later(exp[Head(list)], now)}]

\* A list without the node of x, ...
list_del(list, x) ==
  IF \E i \in DOMAIN list : list[i] = x
    THEN LET i == CHOOSE i \in DOMAIN list : list[i] = x
         IN  [j \in 1..Len(list) - 1 |-> list[IF j < i THEN j ELSE j + 1]]
    ELSE list

\* ... and with one added before the p-th node, the list head after the last.
list_add_tail(list, p, x) ==
  [j \in 1..Len(list) + 1 |-> IF j < p THEN list[j] ELSE IF j = p THEN x ELSE list[j - 1]]

\* The lists without an event that __timer_event_stop() unlinks.  (Mutant: only
\* an event that has expired is unlinked.)
UnlinkedExpired(e) ==
  IF active_state[e] /\ expiry[e] <= now
    THEN [event_list EXCEPT ![active_hcpu[e]] = list_del(@, e)]
    ELSE event_list

Unlinked(e) ==
  IF active_state[e]
    THEN [event_list EXCEPT ![active_hcpu[e]] = list_del(@, e)]
    ELSE event_list

\* list_del() of a node that is in no list.
Tears(e) ==
  active_state[e] /\ ~\E i \in DOMAIN event_list[active_hcpu[e]] : event_list[active_hcpu[e]][i] = e

EventStop(e) ==
  /\ event_list' = Unlinked(e)
  /\ active_state' = [active_state EXCEPT ![e] = FALSE]
  /\ expiry' = [expiry EXCEPT ![e] = IF active_state[e] THEN 0 ELSE @]
  /\ torn' = IF Tears(e) THEN torn \cup {e} ELSE torn

\* list_for_each_entry() until p, an event that expires later or the list head.
\* (Mutant: ... that expires earlier.)
PositionReversed(list, exp, x, p) ==
  /\ \A j \in 1..p - 1 : exp[list[j]] > x
  /\ p <= Len(list) => exp[list[p]] <= x

Position(list, exp, x, p) ==
  /\ \A j \in 1..p - 1 : exp[list[j]] <= x
  /\ p <= Len(list) => exp[list[p]] > x

\* vmm_timer_event_start() under active_lock: c and time were read before, here
\* is the host CPU now.
EventStart(e, d, c, time, here) ==
  LET lists == Unlinked(e)
      exp == [expiry EXCEPT ![e] = time + d]
  IN
  /\ expiry' = exp
  /\ duration' = [duration EXCEPT ![e] = d]
  /\ active_state' = [active_state EXCEPT ![e] = TRUE]
  /\ active_hcpu' = [active_hcpu EXCEPT ![e] = c]
  /\ \E p \in 1..Len(lists[c]) + 1 :
       LET list == list_add_tail(lists[c], p, e) IN
       /\ Position(lists[c], expiry, time + d, p)
       /\ event_list' = [lists EXCEPT ![c] = list]
       /\ chip' = ScheduleNext(c, here, list, exp, inprocess[c])
  /\ torn' = IF Tears(e) THEN torn \cup {e} ELSE torn

-----------------------------------------------------------------------------
(* Each host CPU                                                           *)

Tick ==
  /\ now < MaxTime
  /\ now' = now + 1
  /\ UNCHANGED <<started, inprocess, event_list, chip, hp, he, eventVars, userVars, torn>>

vmm_timer_start(c) ==
  /\ started[c] = "new"
  /\ started' = [started EXCEPT ![c] = "on"]
  /\ chip' = [chip EXCEPT ![c] = {now}]
  /\ UNCHANGED <<now, inprocess, event_list, hp, he, eventVars, userVars, torn>>

vmm_timer_stop(c) ==
  /\ c \in Stops
  /\ started[c] = "on" /\ hp[c] = "idle"
  /\ started' = [started EXCEPT ![c] = "off"]
  /\ chip' = [chip EXCEPT ![c] = {}]
  /\ UNCHANGED <<now, inprocess, event_list, hp, he, eventVars, userVars, torn>>

\* The clock interrupt turns the one-shot device off and calls
\* timer_clockchip_event_handler().
clock_interrupt(c) ==
  /\ hp[c] = "idle"
  /\ \E d \in chip[c] : d <= now
  /\ chip' = [chip EXCEPT ![c] = {}]
  /\ inprocess' = [inprocess EXCEPT ![c] = TRUE]
  /\ hp' = [hp EXCEPT ![c] = "scan"]
  /\ UNCHANGED <<now, started, event_list, he, eventVars, userVars, torn>>

\* Under the list lock: the first event has expired and the lock is released,
\* or the handler is done.  (Mutant: it forgets to program the next event.)
handler_scan_forgets(c) ==
  /\ hp[c] = "scan"
  /\ IF event_list[c] # <<>> /\ expiry[Head(event_list[c])] <= now
       THEN /\ hp' = [hp EXCEPT ![c] = "stop"]
            /\ he' = [he EXCEPT ![c] = Head(event_list[c])]
            /\ UNCHANGED <<inprocess, chip>>
       ELSE /\ hp' = [hp EXCEPT ![c] = "idle"]
            /\ inprocess' = [inprocess EXCEPT ![c] = FALSE]
            /\ UNCHANGED <<he, chip>>
  /\ UNCHANGED <<now, started, event_list, eventVars, userVars, torn>>

handler_scan(c) ==
  /\ hp[c] = "scan"
  /\ IF event_list[c] # <<>> /\ expiry[Head(event_list[c])] <= now
       THEN /\ hp' = [hp EXCEPT ![c] = "stop"]
            /\ he' = [he EXCEPT ![c] = Head(event_list[c])]
            /\ UNCHANGED <<inprocess, chip>>
       ELSE /\ hp' = [hp EXCEPT ![c] = "idle"]
            /\ inprocess' = [inprocess EXCEPT ![c] = FALSE]
            /\ chip' = ScheduleNext(c, c, event_list[c], expiry, FALSE)
            /\ UNCHANGED he
  /\ UNCHANGED <<now, started, event_list, eventVars, userVars, torn>>

\* The expired event is stopped under its active_lock, wherever it is by now, ...
handler_stop(c) ==
  /\ hp[c] = "stop"
  /\ EventStop(he[c])
  /\ hp' = [hp EXCEPT ![c] = "call"]
  /\ UNCHANGED <<now, started, inprocess, chip, he, active_hcpu, duration, userVars>>

\* ... and its handler is called without a lock.
handler_call(c) ==
  /\ hp[c] = "call"
  /\ he[c] \in Plain
  /\ hp' = [hp EXCEPT ![c] = "scan"]
  /\ he' = [he EXCEPT ![c] = AnEvent]
  /\ \/ he[c] \in Periodic /\ EventStart(he[c], duration[he[c]], c, now, c)
     \/ UNCHANGED <<event_list, chip, eventVars, torn>>
  /\ UNCHANGED <<now, started, inprocess, userVars>>

Handles(c) == handler_scan(c) \/ handler_stop(c) \/ handler_call(c)

-----------------------------------------------------------------------------
(* Threads.  A local variable that is dead has its initial value.          *)

\* No interrupt handler has the host CPU of the thread.
Runs(t) == hp[on[t]] = "idle"

Op(t, op) == op \in Ops[t] /\ pc[t] = "idle" /\ Runs(t) /\ calls[t] < MaxCalls[t]

\* vmm_timer_event_start() reads the host CPU and the time, ...
event_start(t, e, d) ==
  /\ Op(t, "event_start")
  /\ now + d <= MaxTime
  /\ pc' = [pc EXCEPT ![t] = "start"]
  /\ ev' = [ev EXCEPT ![t] = e]
  /\ hcpu' = [hcpu EXCEPT ![t] = on[t]]
  /\ tstamp' = [tstamp EXCEPT ![t] = now]
  /\ dur' = [dur EXCEPT ![t] = d]
  /\ calls' = [calls EXCEPT ![t] = @ + 1]
  /\ UNCHANGED <<ctrlVars, eventVars, on, torn>>

\* ... and takes the locks afterwards, on another host CPU if the load balancer
\* has moved the thread in between.
vmm_timer_event_start(t, here) ==
  /\ pc[t] = "start"
  /\ here = on[t] \/ t \in Movers
  /\ hp[here] = "idle"
  /\ EventStart(ev[t], dur[t], hcpu[t], tstamp[t], here)
  /\ on' = [on EXCEPT ![t] = here]
  /\ pc' = [pc EXCEPT ![t] = "idle"]
  /\ ev' = [ev EXCEPT ![t] = AnEvent]
  /\ hcpu' = [hcpu EXCEPT ![t] = Home[t]]
  /\ tstamp' = [tstamp EXCEPT ![t] = 0]
  /\ dur' = [dur EXCEPT ![t] = 0]
  /\ UNCHANGED <<now, started, inprocess, hp, he, calls>>

vmm_timer_event_stop(t, e) ==
  /\ Op(t, "event_stop")
  /\ EventStop(e)
  /\ calls' = [calls EXCEPT ![t] = @ + 1]
  /\ UNCHANGED <<now, started, inprocess, chip, hp, he, active_hcpu, duration,
                 on, pc, ev, hcpu, tstamp, dur>>

\* The calls of threads, and the stop of a timer.
TimerCalls ==
  \/ \E c \in Cpu : vmm_timer_stop(c)
  \/ \E t \in User : \/ \E e \in Plain : \/ vmm_timer_event_stop(t, e)
                                        \/ \E d \in Durations : event_start(t, e, d)

-----------------------------------------------------------------------------
(* Properties                                                              *)

TimerTypeOK ==
  /\ now \in 0..MaxTime
  /\ started \in [Cpu -> {"new", "on", "off"}]
  /\ inprocess \in [Cpu -> BOOLEAN]
  /\ event_list \in [Cpu -> Seq(Event)]
  /\ \A c \in Cpu : chip[c] \subseteq Nat /\ Cardinality(chip[c]) <= 1
  /\ hp \in [Cpu -> {"idle", "scan", "stop", "call", "complete"}]
  /\ he \in [Cpu -> Event]
  /\ active_state \in [Event -> BOOLEAN]
  /\ active_hcpu \in [Event -> Cpu]
  /\ expiry \in [Event -> Nat] /\ duration \in [Event -> Nat]
  /\ on \in [User -> Cpu] /\ hcpu \in [User -> Cpu]
  /\ pc \in [User -> {"idle", "start", "complete", "stop", "flush"}]
  /\ ev \in [User -> Event]
  /\ tstamp \in [User -> 0..MaxTime] /\ dur \in [User -> Nat]
  /\ calls \in [User -> Nat]

\* An event is active exactly if it is in a list, once, and that is the list of
\* the host CPU in active_hcpu: __timer_event_stop() unlinks it from there.
ActiveIsListed ==
  torn = {} => \A e \in Event, c \in Cpu :
    LET places == {i \in DOMAIN event_list[c] : event_list[c][i] = e}
    IN  IF active_state[e] /\ active_hcpu[e] = c THEN \E i \in places : places = {i}
                                                 ELSE places = {}

\* While a host CPU does not process events its clockchip is programmed so that
\* no event of its list, not only the first, is late: a stop, a start in front
\* and a start during the handler leave it so.
ChipCovers ==
  torn = {} => \A c \in Cpu : started[c] = "on" /\ ~inprocess[c] =>
    \A i \in DOMAIN event_list[c] :
      \E d \in chip[c] : d <= Later(expiry[event_list[c][i]], now)

\* A started event fires or is stopped, unless the timer of its host CPU is.
EventFires ==
  \A e \in Event :
    active_state[e] /\ expiry[e] <= MaxTime
      ~> ~active_state[e] \/ started[active_hcpu[e]] = "off" \/ torn # {}
=============================================================================
