------------------------------ MODULE MCSmpIpi ------------------------------
(* Small instances of SmpIpi: host CPUs 0 and 1.                            *)
EXTENDS SmpIpi

CONSTANTS t1, t2, t3

Cpus == {0, 1}

\* t1 and t2 live on host CPU 0, t3 on host CPU 1.
HomeOf == [t \in Caller |-> IF t = t3 THEN 1 ELSE 0]

OneEach == [t \in Caller |-> 1]

TwoAndOne == [t \in Caller |-> IF t = t1 THEN 2 ELSE 1]

=============================================================================
