----------------------------- MODULE MCWorkqueue ----------------------------
(* Small instances of Workqueue: host CPUs 0 and 1 with their system work    *)
(* queues q0 and q1.                                                         *)
EXTENDS Workqueue

CONSTANTS u1, u2, w1, d1, e1, q0, q1

Cpus == {0, 1}

\* u1 lives on host CPU 0, u2 on host CPU 1.
HomeOf == [t \in User |-> IF t = u1 THEN 0 ELSE 1]

SysWq == [c \in Cpu |-> IF c = 0 THEN q0 ELSE q1]

WorkerOn == [q \in Queue |-> IF q = q0 THEN 0 ELSE 1]

\* w1 always goes to q1, a delayed work to any system queue.
Named == [w \in Work |-> IF w = w1 THEN {q1} ELSE {None}]

AnySystem == [w \in Work |-> {None}]

\* u1 schedules, u2 stops and flushes.
Roles == [t \in User |-> IF t = u1 THEN {"schedule", "delay", "event_start"}
                         ELSE {"stop", "stop_delayed", "flush", "event_stop"}]

ScheduleStop == [t \in User |-> IF t = u1 THEN {"schedule"} ELSE {"schedule", "stop"}]

DelayOnly == [t \in User |-> {"delay"}]

TwoEach == [t \in User |-> 2]

TwoAndOne == [t \in User |-> IF t = u1 THEN 2 ELSE 1]
=============================================================================
