----------------------------- MODULE FifoProofs -----------------------------
(***************************************************************************)
(* For every element type and every ring size: the counters of fifo.c stay *)
(* in step, and the ring implements the bounded queue of its header.       *)
(***************************************************************************)
EXTENDS Fifo, SequenceTheorems, TLAPS

IInv == TypeOK /\ PositionsAgree

\* The ring starts empty with all its positions at 0 (fifo_alloc).
LEMMA InitInv == fifo_alloc => IInv
  BY CountAssumption, ZeroAssumption
     DEF fifo_alloc, IInv, TypeOK, PositionsAgree, Slot

\* The three outcomes of fifo_enqueue(): there was room, the oldest element
\* was overwritten, the element was refused.
Stored(d) ==
  /\ avail_count < Count
  /\ avail_count' = avail_count + 1
  /\ write_pos' = Advance(write_pos)
  /\ elements' = [elements EXCEPT ![write_pos] = d]
  /\ ret' = TRUE
  /\ UNCHANGED <<read_pos, dst>>

Overwrote(d) ==
  /\ avail_count = Count
  /\ read_pos' = Advance(read_pos)
  /\ write_pos' = Advance(write_pos)
  /\ elements' = [elements EXCEPT ![write_pos] = d]
  /\ ret' = TRUE
  /\ UNCHANGED <<avail_count, dst>>

Refused ==
  /\ avail_count = Count
  /\ ret' = FALSE
  /\ UNCHANGED <<elements, read_pos, write_pos, avail_count, dst>>

\* fifo_enqueue() has one of these outcomes, and overwrite picks between the
\* last two.
LEMMA EnqueueCases ==
  ASSUME TypeOK, NEW d \in Data, NEW overwrite \in BOOLEAN, fifo_enqueue(d, overwrite)
  PROVE  Stored(d) \/ (overwrite /\ Overwrote(d)) \/ (~overwrite /\ Refused)
<1>1. ASSUME avail_count < Count PROVE Stored(d)
  BY <1>1, CountAssumption DEF TypeOK, fifo_enqueue, isfull, Stored
<1>2. ASSUME avail_count = Count, overwrite PROVE Overwrote(d)
  BY <1>2, CountAssumption DEF TypeOK, fifo_enqueue, isfull, Overwrote
<1>3. ASSUME avail_count = Count, ~overwrite PROVE Refused
  BY <1>3, CountAssumption DEF TypeOK, fifo_enqueue, isfull, Refused
<1>4. avail_count < Count \/ avail_count = Count
  BY CountAssumption DEF TypeOK
<1>5. QED
  BY <1>1, <1>2, <1>3, <1>4

\* No operation of fifo.c lets the positions leave the array or drift apart.
LEMMA StepInv == IInv /\ [Next]_vars => IInv'
<1> SUFFICES ASSUME IInv, [Next]_vars PROVE IInv'
  OBVIOUS
<1> USE CountAssumption, ZeroAssumption DEF IInv, TypeOK, PositionsAgree, Slot
<1>1. ASSUME NEW d \in Data, NEW overwrite \in BOOLEAN, fifo_enqueue(d, overwrite)
      PROVE IInv'
  <2>1. ASSUME Stored(d) PROVE IInv'
    BY <2>1 DEF Stored, Advance
  <2>2. ASSUME Overwrote(d) PROVE IInv'
    BY <2>2 DEF Overwrote, Advance
  <2>3. ASSUME Refused PROVE IInv'
    BY <2>3 DEF Refused
  <2>4. QED
    BY <1>1, <2>1, <2>2, <2>3, EnqueueCases
<1>2. CASE fifo_dequeue
  <2>1. CASE isempty
    BY <1>2, <2>1 DEF fifo_dequeue
  <2>2. CASE ~isempty
    <3>1. /\ avail_count \in 1..Count
          /\ avail_count' = avail_count - 1
          /\ read_pos' = Advance(read_pos)
          /\ dst' = elements[read_pos]
          /\ ret' = TRUE
          /\ UNCHANGED <<elements, write_pos>>
      BY <1>2, <2>2 DEF fifo_dequeue, isempty
    <3>2. QED
      BY <3>1 DEF Advance
  <2>3. QED
    BY <2>1, <2>2
<1>3. CASE fifo_clear
  BY <1>3 DEF fifo_clear
<1>4. ASSUME NEW index \in 0..Count, fifo_getelement(index)
      PROVE IInv'
  <2>1. UNCHANGED <<elements, read_pos, write_pos, avail_count>>
    BY <1>4 DEF fifo_getelement
  <2>2. index < Count => elements[Slot(index)] \in Data
    OBVIOUS
  <2>3. ret' \in BOOLEAN /\ dst' \in Data
    BY <1>4, <2>2 DEF fifo_getelement
  <2>4. QED
    BY <2>1, <2>3
<1>5. CASE UNCHANGED vars
  BY <1>5 DEF vars
<1>6. QED
  BY <1>1, <1>2, <1>3, <1>4, <1>5 DEF Next

\* The positions of the ring stay below Count, and the element count at most
\* Count.
THEOREM RingTypes == Spec => []TypeOK
<1>1. IInv => TypeOK
  BY DEF IInv
<1> QED
  BY <1>1, InitInv, StepInv, PTL DEF Spec

\* read_pos, write_pos and avail_count agree after any mix of overwriting and
\* refusing enqueues, dequeues and clears, for every size of the ring.
THEOREM RingPositions == Spec => []PositionsAgree
<1>1. IInv => PositionsAgree
  BY DEF IInv
<1> QED
  BY <1>1, InitInv, StepInv, PTL DEF Spec

-----------------------------------------------------------------------------

\* The contents are a sequence of avail_count elements (fifo_avail), the i-th
\* of them i - 1 slots after the read position.
ContentsShape ==
  /\ Contents \in Seq(Data)
  /\ Len(Contents) = avail_count
  /\ \A i \in 1..avail_count : Contents[i] = elements[Slot(i - 1)]

LEMMA ContentsSeq == IInv => ContentsShape
<1> SUFFICES ASSUME IInv PROVE ContentsShape
  OBVIOUS
<1>1. \A i \in 1..avail_count : elements[Slot(i - 1)] \in Data
  BY CountAssumption DEF IInv, TypeOK, Slot
<1>2. avail_count \in Nat
  BY CountAssumption DEF IInv, TypeOK
<1>3. QED
  BY <1>1, <1>2 DEF Contents, ContentsShape

\* fifo_enqueue() is an enqueue of the abstract queue.
LEMMA EnqueueImplements ==
  ASSUME IInv, IInv', NEW d \in Data, NEW overwrite \in BOOLEAN,
         fifo_enqueue(d, overwrite)
  PROVE  Queue!Enqueue(d, overwrite)
<1> USE CountAssumption
<1>0. ContentsShape /\ ContentsShape'
  BY ContentsSeq, PTL
<1>1. CASE Stored(d)
  <2>1. Len(Contents') = Len(Append(Contents, d))
    BY <1>0, <1>1, AppendProperties DEF Stored, ContentsShape, IInv, TypeOK
  <2>2. \A i \in 1..avail_count : Contents'[i] = Contents[i]
    <3>1. \A i \in 1..avail_count : /\ Slot(i - 1) \in 0..(Count - 1)
                                    /\ Slot(i - 1) # write_pos
                                    /\ Slot(i - 1)' = Slot(i - 1)
      BY <1>1 DEF Stored, IInv, TypeOK, PositionsAgree, Slot
    <3>2. QED
      BY <1>0, <1>1, <3>1 DEF Stored, ContentsShape, IInv, TypeOK
  <2>3. Contents'[avail_count + 1] = d
    <3>1. Slot(avail_count - 1)' = write_pos /\ write_pos \in 0..(Count - 1)
      BY <1>1 DEF Stored, IInv, TypeOK, PositionsAgree, Slot
    <3>2. Contents'[avail_count'] = elements'[write_pos]
      BY <1>0, <1>1, <3>1 DEF Stored, ContentsShape, IInv, TypeOK
    <3>3. QED
      BY <1>1, <3>1, <3>2 DEF Stored, IInv, TypeOK
  <2>4. Contents' = Append(Contents, d)
    BY <1>0, <1>1, <2>1, <2>2, <2>3, AppendProperties, SeqEqual
       DEF Stored, ContentsShape, IInv, TypeOK
  <2>5. QED
    BY <1>0, <1>1, <2>4 DEF Stored, ContentsShape, Queue!Enqueue, IInv, TypeOK
<1>2. CASE overwrite /\ Overwrote(d)
  <2>1. Contents # <<>> /\ Len(Contents) = Count
    BY <1>0, <1>2 DEF Overwrote, ContentsShape
  <2>2. /\ Tail(Contents) \in Seq(Data)
        /\ Len(Tail(Contents)) = Count - 1
        /\ \A i \in 1..(Count - 1) : Tail(Contents)[i] = Contents[i + 1]
    BY <1>0, <2>1, HeadTailProperties DEF ContentsShape
  <2>3. \A i \in 1..(Count - 1) : Contents'[i] = Contents[i + 1]
    <3>1. \A i \in 1..(Count - 1) : /\ Slot(i) \in 0..(Count - 1)
                                    /\ Slot(i) # write_pos
                                    /\ Slot(i - 1)' = Slot(i)
      BY <1>2 DEF Overwrote, IInv, TypeOK, PositionsAgree, Slot, Advance
    <3>2. ASSUME NEW i \in 1..(Count - 1) PROVE Contents'[i] = Contents[i + 1]
      <4>1. i \in 1..avail_count' /\ i + 1 \in 1..avail_count /\ (i + 1) - 1 = i
        BY <1>2, CountAssumption DEF Overwrote
      <4>2. Contents'[i] = elements'[Slot(i - 1)']
        BY <1>0, <4>1, Zenon DEF ContentsShape
      <4>3. Contents[i + 1] = elements[Slot(i)]
        BY <1>0, <4>1 DEF ContentsShape
      <4>4. elements'[Slot(i)] = elements[Slot(i)]
        BY <1>2, <3>1 DEF Overwrote, IInv, TypeOK
      <4>5. QED
        BY <3>1, <4>2, <4>3, <4>4, Zenon
    <3>3. QED
      BY <3>2, Zenon
  <2>4. Contents'[Count] = d
    <3>1. Slot(Count - 1)' = write_pos /\ write_pos \in 0..(Count - 1)
      BY <1>2 DEF Overwrote, IInv, TypeOK, PositionsAgree, Slot, Advance
    <3>2. QED
      BY <1>0, <1>2, <3>1 DEF Overwrote, ContentsShape, IInv, TypeOK
  <2>5. Len(Contents') = Count /\ Contents' \in Seq(Data)
    BY <1>0, <1>2 DEF Overwrote, ContentsShape
  <2>6. Contents' = Append(Tail(Contents), d)
    BY <2>2, <2>3, <2>4, <2>5, AppendProperties, SeqEqual
  <2>7. QED
    <3>1. ~(Len(Contents) < Count)
      BY <2>1
    <3>2. QED
      BY <1>2, <2>6, <3>1, Zenon DEF Overwrote, Queue!Enqueue
<1>3. CASE ~overwrite /\ Refused
  <2>1. Contents' = Contents
    BY <1>3 DEF Refused, Contents, Slot
  <2>2. ~(Len(Contents) < Count)
    BY <1>0, <1>3 DEF Refused, ContentsShape
  <2>3. QED
    BY <1>3, <2>1, <2>2, Zenon DEF Refused, Queue!Enqueue
<1>4. QED
  BY <1>1, <1>2, <1>3, EnqueueCases DEF IInv

\* fifo_dequeue() hands out the oldest element, or fails on an empty queue.
LEMMA DequeueImplements ==
  ASSUME IInv, IInv', fifo_dequeue
  PROVE  Queue!Dequeue
<1> USE CountAssumption
<1>0. ContentsShape /\ ContentsShape'
  BY ContentsSeq, PTL
<1>1. CASE avail_count = 0
  <2>1. ret' = FALSE /\ UNCHANGED <<elements, read_pos, avail_count, dst>>
    BY <1>1 DEF fifo_dequeue, isempty
  <2>2. Contents' = Contents /\ Contents = <<>>
    BY <1>0, <1>1, <2>1 DEF Contents, Slot
  <2>3. QED
    BY <2>1, <2>2 DEF Queue!Dequeue
<1>2. CASE avail_count # 0
  <2>1. avail_count' = avail_count - 1 /\ read_pos' = Advance(read_pos)
        /\ elements' = elements /\ ret' = TRUE /\ dst' = elements[read_pos]
    BY <1>2 DEF fifo_dequeue, isempty
  <2>2. Contents # <<>>
    BY <1>0, <1>2, EmptySeq DEF ContentsShape
  <2>3. Head(Contents) = elements[read_pos]
    <3>1. Contents[1] = elements[read_pos]
      BY <1>0, <1>2 DEF ContentsShape, IInv, TypeOK, Slot
    <3>2. QED
      BY <1>0, <2>2, <3>1 DEF ContentsShape
  <2>4. \A i \in 1..(avail_count - 1) : Contents'[i] = Contents[i + 1]
    BY <1>0, <1>2, <2>1 DEF ContentsShape, IInv, TypeOK, Slot, Advance
  <2>5. Contents' = Tail(Contents)
    BY <1>0, <2>1, <2>2, <2>4, HeadTailProperties, SeqEqual
       DEF ContentsShape, IInv, TypeOK
  <2>6. QED
    BY <2>1, <2>2, <2>3, <2>5 DEF Queue!Dequeue
<1>3. QED
  BY <1>1, <1>2

\* fifo_getelement() reads the queue at the index, or an unspecified element.
LEMMA GetElementImplements ==
  ASSUME IInv, NEW index \in 0..Count, fifo_getelement(index)
  PROVE  Queue!GetElement(index)
<1> USE CountAssumption
<1>1. Contents' = Contents
  BY DEF fifo_getelement, Contents, Slot
<1>2. ASSUME index < avail_count PROVE Contents[index + 1] = elements[Slot(index)]
  BY <1>2 DEF IInv, TypeOK, Contents, Slot
<1>3. ASSUME index < Count PROVE elements[Slot(index)] \in Data
  BY <1>3 DEF IInv, TypeOK, Slot
<1>4. QED
  BY <1>1, <1>2, <1>3, ContentsSeq
     DEF IInv, TypeOK, ContentsShape, fifo_getelement, Queue!GetElement

\* The ring of fifo.c, for every size, is a bounded first-in first-out queue.
THEOREM FifoImplementsQueue == Spec => ImplementsQueue
<1>1. fifo_alloc => Queue!Init
  <2>1. fifo_alloc => Contents = <<>>
    BY DEF fifo_alloc, Contents
  <2>2. QED
    BY <2>1 DEF fifo_alloc, Queue!Init
<1>2. IInv /\ IInv' /\ [Next]_vars => [Queue!Next]_(Queue!vars)
  <2> SUFFICES ASSUME IInv, IInv', [Next]_vars
               PROVE  [Queue!Next]_(Queue!vars)
    OBVIOUS
  <2>1. ASSUME NEW d \in Data, NEW overwrite \in BOOLEAN, fifo_enqueue(d, overwrite)
        PROVE  Queue!Next
    BY <2>1, EnqueueImplements DEF Queue!Next
  <2>2. CASE fifo_dequeue
    BY <2>2, DequeueImplements DEF Queue!Next
  <2>3. CASE fifo_clear
    <3>1. Contents' = <<>>
      BY <2>3 DEF fifo_clear, Contents
    <3>2. QED
      BY <2>3, <3>1 DEF fifo_clear, Queue!Next, Queue!Clear
  <2>4. ASSUME NEW index \in 0..Count, fifo_getelement(index)
        PROVE  Queue!Next
    BY <2>4, GetElementImplements DEF Queue!Next
  <2>5. CASE UNCHANGED vars
    BY <2>5 DEF vars, Queue!vars, Contents, Slot
  <2>6. QED
    BY <2>1, <2>2, <2>3, <2>4, <2>5 DEF Next
<1>3. Spec => []IInv
  BY InitInv, StepInv, PTL DEF Spec
<1>4. QED
  BY <1>1, <1>2, <1>3, PTL DEF Spec, ImplementsQueue, Queue!Spec
=============================================================================
