---------------------------- MODULE BoundedQueue ----------------------------
(***************************************************************************)
(* What libs/include/libs/fifo.h promises of a struct fifo: a queue of at  *)
(* most Count elements, first in first out, whose callers see a return     *)
(* value (ret) and the buffer a read was copied to (dst).                  *)
(***************************************************************************)
EXTENDS Naturals, Sequences

CONSTANTS Data, Count, Zero

VARIABLES q, ret, dst

vars == <<q, ret, dst>>

Init == q = <<>> /\ ret = TRUE /\ dst = Zero

\* A full queue refuses the element, or drops its oldest one when told to.
Enqueue(d, overwrite) ==
  /\ ret' = (overwrite \/ Len(q) < Count)
  /\ q' = IF Len(q) < Count THEN Append(q, d)
          ELSE IF overwrite THEN Append(Tail(q), d) ELSE q
  /\ UNCHANGED dst

Dequeue ==
  \/ q = <<>> /\ ret' = FALSE /\ UNCHANGED <<q, dst>>
  \/ q # <<>> /\ ret' = TRUE /\ dst' = Head(q) /\ q' = Tail(q)

Clear == q' = <<>> /\ ret' = TRUE /\ UNCHANGED dst

\* Past the last element the header promises nothing about what is copied.
GetElement(index) ==
  /\ UNCHANGED q
  /\ \/ index < Len(q) /\ ret' = TRUE /\ dst' = q[index + 1]
     \/ index \in Len(q)..(Count - 1) /\ ret' = TRUE /\ dst' \in Data
     \/ index >= Count /\ ret' = FALSE /\ UNCHANGED dst

Next ==
  \/ \E d \in Data, overwrite \in BOOLEAN : Enqueue(d, overwrite)
  \/ Dequeue
  \/ Clear
  \/ \E index \in 0..Count : GetElement(index)

Spec == Init /\ [][Next]_vars
=============================================================================
