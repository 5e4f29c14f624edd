---------------------------- MODULE MCScheduler ----------------------------
(* Small instances of Scheduler: host CPUs 0 and 1, threads and guests as   *)
(* model values.                                                            *)
EXTENDS Scheduler

CONSTANTS t1, t2, g1, g2

Cpus == {0, 1}
OneCpu == {0}

OneHome == [v \in User |-> 0]

\* t1 and g1 live on host CPU 0, t2 and g2 on host CPU 1.
HomeOf == [v \in User |-> IF v \in {t1, g1} THEN 0 ELSE 1]

=============================================================================
