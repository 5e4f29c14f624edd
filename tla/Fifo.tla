-------------------------------- MODULE Fifo --------------------------------
(***************************************************************************)
(* The ring buffer of libs/common/fifo.c.  Every operation holds f->lock   *)
(* with interrupts off from its first to its last access, so each is one   *)
(* step.  elements is the zeroed array fifo_alloc() gets, dst the buffer   *)
(* the caller passes to a read, ret what the last call returned.           *)
(***************************************************************************)
EXTENDS Naturals, Sequences

CONSTANTS
  Data,     \* what an element may hold
  Zero,     \* the element of all zero bytes
  Count     \* f->element_count

ASSUME CountAssumption == Count \in Nat \ {0}
ASSUME ZeroAssumption == Zero \in Data

VARIABLES elements, read_pos, write_pos, avail_count, ret, dst

vars == <<elements, read_pos, write_pos, avail_count, ret, dst>>

fifo_alloc ==
  /\ elements = [i \in 0..(Count - 1) |-> Zero]
  /\ read_pos = 0
  /\ write_pos = 0
  /\ avail_count = 0
  /\ ret = TRUE
  /\ dst = Zero

isfull == avail_count >= Count

isempty == avail_count = 0

AdvanceLate(pos) == IF Count < pos + 1 THEN 0 ELSE pos + 1

\* pos++, back to 0 at the end of the array.
Advance(pos) == IF Count <= pos + 1 THEN 0 ELSE pos + 1

\* The slot of the element at a logical index.
Slot(index) ==
  IF Count <= read_pos + index THEN read_pos + index - Count ELSE read_pos + index

EnqueueKeepsRead(d, overwrite) ==
  /\ ret' = (overwrite \/ ~isfull)
  /\ IF ret'
       THEN /\ elements' = [elements EXCEPT ![write_pos] = d]
            /\ write_pos' = Advance(write_pos)
            /\ avail_count' = IF isfull THEN avail_count ELSE avail_count + 1
       ELSE UNCHANGED <<elements, write_pos, avail_count>>
  /\ UNCHANGED <<read_pos, dst>>

fifo_enqueue(d, overwrite) ==
  LET drop == overwrite /\ isfull
      avail == IF drop THEN avail_count - 1 ELSE avail_count
  IN /\ read_pos' = IF drop THEN Advance(read_pos) ELSE read_pos
     /\ \/ /\ avail < Count
           /\ elements' = [elements EXCEPT ![write_pos] = d]
           /\ write_pos' = Advance(write_pos)
           /\ avail_count' = avail + 1
           /\ ret' = TRUE
        \/ /\ avail >= Count
           /\ avail_count' = avail
           /\ ret' = FALSE
           /\ UNCHANGED <<elements, write_pos>>
     /\ UNCHANGED dst

fifo_dequeue ==
  \/ /\ isempty
     /\ ret' = FALSE
     /\ UNCHANGED <<elements, read_pos, write_pos, avail_count, dst>>
  \/ /\ ~isempty
     /\ dst' = elements[read_pos]
     /\ read_pos' = Advance(read_pos)
     /\ avail_count' = avail_count - 1
     /\ ret' = TRUE
     /\ UNCHANGED <<elements, write_pos>>

ClearKeepsWrite ==
  /\ read_pos' = 0
  /\ avail_count' = 0
  /\ ret' = TRUE
  /\ UNCHANGED <<elements, write_pos, dst>>

fifo_clear ==
  /\ read_pos' = 0
  /\ write_pos' = 0
  /\ avail_count' = 0
  /\ ret' = TRUE
  /\ UNCHANGED <<elements, dst>>

\* Only the size of the array bounds the index, not the number of elements.
fifo_getelement(index) ==
  /\ \/ index >= Count /\ ret' = FALSE /\ UNCHANGED dst
     \/ index < Count /\ ret' = TRUE /\ dst' = elements[Slot(index)]
  /\ UNCHANGED <<elements, read_pos, write_pos, avail_count>>

Next ==
  \/ \E d \in Data, overwrite \in BOOLEAN : fifo_enqueue(d, overwrite)
  \/ fifo_dequeue
  \/ fifo_clear
  \/ \E index \in 0..Count : fifo_getelement(index)

Spec == fifo_alloc /\ [][Next]_vars

-----------------------------------------------------------------------------

\* The positions stay inside the array and the count inside its size.
TypeOK ==
  /\ elements \in [0..(Count - 1) -> Data]
  /\ read_pos \in 0..(Count - 1)
  /\ write_pos \in 0..(Count - 1)
  /\ avail_count \in 0..Count
  /\ ret \in BOOLEAN
  /\ dst \in Data

\* The three counters fifo.c keeps agree: the next free slot is avail_count
\* slots after the oldest element, whatever mix of overwriting and refusing
\* enqueues, dequeues and clears came before.
PositionsAgree ==
  write_pos = Slot(avail_count)

\* The elements in the order they were enqueued.
Contents == [i \in 1..avail_count |-> elements[Slot(i - 1)]]

Queue == INSTANCE BoundedQueue WITH q <- Contents

\* fifo.c implements the bounded first-in first-out queue its header promises.
ImplementsQueue == Queue!Spec
=============================================================================
