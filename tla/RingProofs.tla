------------------------------ MODULE RingProofs ------------------------------
(***************************************************************************)
(* The firmware's ring buffer is a bounded queue, for every size of ring   *)
(* and every set of bytes.                                                 *)
(***************************************************************************)
EXTENDS Ring, TLAPS

LEMMA LenType == TypeOK => len \in Slots /\ avail \in Slots
  BY RingAssumption DEF TypeOK, len, avail, Slots

\* The indices stay inside the array and len() and avail() never panic.
THEOREM RingTypeCorrect == Spec => []TypeOK
  <1>1. Init => TypeOK
    BY RingAssumption DEF Init, TypeOK, Slots
  <1>2. TypeOK /\ [Next]_ring => TypeOK'
    <2> SUFFICES ASSUME TypeOK, [Next]_ring PROVE TypeOK'
      OBVIOUS
    <2>1. ASSUME NEW b \in Byte, put(b) PROVE TypeOK'
      <3>1. len \in Slots /\ avail \in Slots
        BY LenType
      <3>2. (head + 1) % RING_BUF_SIZE \in Slots
        BY RingAssumption DEF TypeOK, Slots
      <3>3. QED
        BY <2>1, <3>1, <3>2 DEF put, Panic, TypeOK
    <2>2. ASSUME NEW n \in 1 .. RING_BUF_SIZE, consume(n) PROVE TypeOK'
      <3>1. (tail + n) % RING_BUF_SIZE \in Slots
        BY RingAssumption DEF TypeOK, Slots
      <3>2. QED
        BY <2>2, <3>1 DEF consume, Panic, TypeOK
    <2>3. CASE clear
      BY <2>3, RingAssumption DEF clear, TypeOK, Slots
    <2>4. CASE UNCHANGED ring
      BY <2>4 DEF ring, TypeOK
    <2>5. QED
      BY <2>1, <2>2, <2>3, <2>4 DEF Next
  <1>3. QED
    BY <1>1, <1>2, PTL DEF Spec

-----------------------------------------------------------------------------

Slot(i) == (tail + i - 1) % RING_BUF_SIZE

\* What the ring holds, said with len() and without the minimum in copy().
HoldsSeq ==
  /\ len \in Slots /\ avail \in Slots
  /\ Contents = [i \in 1 .. len |-> body[Slot(i)]]
  /\ Contents \in Seq(Byte)
  /\ Len(Contents) = len

LEMMA ContentsSeq == TypeOK => HoldsSeq
  <1> SUFFICES ASSUME TypeOK PROVE HoldsSeq
    OBVIOUS
  <1>1. len \in Slots /\ avail \in Slots
    BY LenType
  <1>2. Contents = [i \in 1 .. len |-> body[Slot(i)]]
    BY <1>1, RingAssumption DEF Contents, copy, Slot, Slots
  <1>3. \A i \in 1 .. len : Slot(i) \in Slots
    BY <1>1, RingAssumption DEF TypeOK, Slot, Slots
  <1>4. \A i \in 1 .. len : body[Slot(i)] \in Byte
    BY <1>3 DEF TypeOK
  <1>5. len \in Nat
    BY <1>1 DEF Slots
  <1>6. QED
    BY <1>1, <1>2, <1>4, <1>5 DEF HoldsSeq

LEMMA ContentsSeqNext == TypeOK' => HoldsSeq'
  BY ContentsSeq, PTL

\* The slot of the i-th byte, with the wrap-around spelt out.
LEMMA SlotUnwrapped ==
  ASSUME NEW t \in Slots, NEW i \in 1 .. RING_BUF_SIZE
  PROVE  (t + i - 1) % RING_BUF_SIZE
           = IF t + i - 1 < RING_BUF_SIZE THEN t + i - 1 ELSE t + i - 1 - RING_BUF_SIZE
  BY RingAssumption DEF Slots

\* A put() that finds room adds its byte behind the others and moves none.
LEMMA PutAdds ==
  ASSUME TypeOK, TypeOK', NEW b \in Byte, put(b)
  PROVE  Q!Add(b)
  <1>1. HoldsSeq /\ HoldsSeq'
    BY ContentsSeq, ContentsSeqNext
  <1>2. CASE avail = 0
    <2>1. panicked' = 7 /\ called' = <<"put", b>> /\ UNCHANGED <<head, tail, body>>
      BY <1>1, <1>2 DEF put, Panic, HoldsSeq, Slots
    <2>2. UNCHANGED Contents
      BY <2>1 DEF Contents, copy, len
    <2>3. Len(Contents) = RING_BUF_SIZE - 1
      BY <1>1, <1>2, RingAssumption DEF HoldsSeq, avail, Slots
    <2>4. QED
      BY <2>1, <2>2, <2>3 DEF Q!Add, Error
  <1>3. CASE avail # 0
    <2>1. /\ body' = [body EXCEPT ![head] = b] /\ tail' = tail
          /\ head' = (head + 1) % RING_BUF_SIZE
          /\ called' = <<"put", b>> /\ UNCHANGED panicked
      BY <1>1, <1>3 DEF put, HoldsSeq
    <2>2. head' = IF head + 1 < RING_BUF_SIZE THEN head + 1 ELSE 0
      BY <2>1, RingAssumption DEF TypeOK, Slots
    <2>3. len' = len + 1 /\ len + 1 < RING_BUF_SIZE
      BY <1>1, <1>3, <2>1, <2>2, RingAssumption DEF TypeOK, HoldsSeq, len, avail, Slots
    <2>4. \A i \in 1 .. len : Slot(i)' = Slot(i) /\ Slot(i) \in Slots /\ Slot(i) # head
      <3> TAKE i \in 1 .. len
      <3>0. tail \in Slots /\ i \in 1 .. RING_BUF_SIZE
        BY <1>1, RingAssumption DEF Slots, TypeOK, HoldsSeq
      <3>1. Slot(i) = IF tail + i - 1 < RING_BUF_SIZE THEN tail + i - 1
                      ELSE tail + i - 1 - RING_BUF_SIZE
        BY <3>0, SlotUnwrapped, Zenon DEF Slot
      <3>2. Slot(i) \in Slots /\ Slot(i) # head
        BY <1>1, <2>3, <3>1, RingAssumption DEF TypeOK, HoldsSeq, Slots, len
      <3>3. Slot(i)' = Slot(i)
        BY <2>1 DEF Slot
      <3>4. QED
        BY <3>2, <3>3
    <2>5. (tail + (len + 1) - 1) % RING_BUF_SIZE = head
      <3>1. len + 1 \in 1 .. RING_BUF_SIZE
        BY <1>1, RingAssumption DEF HoldsSeq, Slots
      <3>2. (tail + (len + 1) - 1) % RING_BUF_SIZE
              = IF tail + (len + 1) - 1 < RING_BUF_SIZE THEN tail + (len + 1) - 1
                ELSE tail + (len + 1) - 1 - RING_BUF_SIZE
        BY <3>1, SlotUnwrapped DEF TypeOK
      <3>3. QED
        BY <1>1, <3>2, RingAssumption DEF TypeOK, HoldsSeq, Slots, len
    <2>6. \A i \in 1 .. len : body'[Slot(i)'] = Contents[i]
      BY <1>1, <2>1, <2>4 DEF TypeOK, HoldsSeq
    <2>7. body'[(tail' + (len + 1) - 1) % RING_BUF_SIZE] = b
      BY <2>1, <2>5 DEF TypeOK
    <2>8. Contents' = [i \in 1 .. len + 1 |-> body'[(tail' + i - 1) % RING_BUF_SIZE]]
      BY <1>1, <2>3 DEF HoldsSeq, Slot
    <2>9. \A i \in 1 .. len : body'[(tail' + i - 1) % RING_BUF_SIZE] = Contents[i]
      BY <2>6 DEF Slot
    <2>10. Contents' = Append(Contents, b)
      <3>1. Append(Contents, b) = [i \in 1 .. len + 1 |-> IF i = len + 1 THEN b ELSE Contents[i]]
        BY <1>1 DEF HoldsSeq, Slots
      <3>2. \A i \in 1 .. len + 1 :
              body'[(tail' + i - 1) % RING_BUF_SIZE] = IF i = len + 1 THEN b ELSE Contents[i]
        <4> TAKE i \in 1 .. len + 1
        <4>1. CASE i = len + 1
          BY <2>7, <4>1
        <4>2. CASE i # len + 1
          <5>1. i \in 1 .. len
            BY <1>1, <4>2 DEF HoldsSeq, Slots
          <5>2. QED
            BY <2>9, <4>2, <5>1, Zenon
        <4>3. QED
          BY <4>1, <4>2
      <3>3. QED
        BY <2>8, <3>1, <3>2, Zenon
    <2>11. Len(Contents) < RING_BUF_SIZE - 1
      BY <1>1, <2>3, RingAssumption DEF HoldsSeq, Slots
    <2>12. QED
      BY <2>1, <2>10, <2>11 DEF Q!Add, Error
  <1>4. QED
    BY <1>2, <1>3

\* A consume() that finds its n bytes takes the n oldest.
LEMMA ConsumeRemoves ==
  ASSUME TypeOK, TypeOK', NEW n \in 1 .. RING_BUF_SIZE, consume(n)
  PROVE  Q!Remove(n)
  <1>1. HoldsSeq /\ HoldsSeq'
    BY ContentsSeq, ContentsSeqNext
  <1>2. CASE n > len
    <2>1. panicked' = 4 /\ called' = <<"consume", n>> /\ UNCHANGED <<head, tail, body>>
      BY <1>2 DEF consume, Panic
    <2>2. UNCHANGED Contents
      BY <2>1 DEF Contents, copy, len
    <2>3. n > Len(Contents)
      BY <1>1, <1>2 DEF HoldsSeq
    <2>4. QED
      BY <2>1, <2>2, <2>3 DEF Q!Remove, Error
  <1>3. CASE ~ (n > len)
    <2>1. /\ tail' = (tail + n) % RING_BUF_SIZE
          /\ called' = <<"consume", n>> /\ UNCHANGED <<head, body, panicked>>
      BY <1>3 DEF consume
    <2>2. n \in 1 .. len /\ len \in 1 .. RING_BUF_SIZE - 1
      BY <1>1, <1>3, RingAssumption DEF HoldsSeq, Slots
    <2>3. tail' = IF tail + n < RING_BUF_SIZE THEN tail + n ELSE tail + n - RING_BUF_SIZE
      BY <2>1, <2>2, RingAssumption DEF TypeOK, Slots
    <2>4. len' = len - n
      BY <2>1, <2>2, <2>3, RingAssumption DEF TypeOK, len, Slots
    <2>5. \A i \in 1 .. len - n :
            body'[(tail' + i - 1) % RING_BUF_SIZE] = Contents[i + n]
      <3> TAKE i \in 1 .. len - n
      <3>1. tail \in Slots /\ tail' \in Slots
        BY DEF TypeOK
      <3>2. i \in 1 .. RING_BUF_SIZE /\ i + n \in 1 .. RING_BUF_SIZE /\ i + n \in 1 .. len
        BY <2>2, RingAssumption
      <3>3. (tail' + i - 1) % RING_BUF_SIZE
              = IF tail' + i - 1 < RING_BUF_SIZE THEN tail' + i - 1
                ELSE tail' + i - 1 - RING_BUF_SIZE
        BY <3>1, <3>2, SlotUnwrapped, Zenon
      <3>4. (tail + (i + n) - 1) % RING_BUF_SIZE
              = IF tail + (i + n) - 1 < RING_BUF_SIZE THEN tail + (i + n) - 1
                ELSE tail + (i + n) - 1 - RING_BUF_SIZE
        BY <3>1, <3>2, SlotUnwrapped, Zenon
      <3>5. (tail' + i - 1) % RING_BUF_SIZE = (tail + (i + n) - 1) % RING_BUF_SIZE
        BY <2>2, <2>3, <3>1, <3>2, <3>3, <3>4, RingAssumption DEF Slots
      <3>6. Contents[i + n] = body[(tail + (i + n) - 1) % RING_BUF_SIZE]
        BY <1>1, <3>2, Zenon DEF HoldsSeq, Slot
      <3>7. QED
        BY <2>1, <3>5, <3>6, Zenon
    <2>6. Contents' = [i \in 1 .. len - n |-> body'[(tail' + i - 1) % RING_BUF_SIZE]]
      BY <1>1, <2>4, Zenon DEF HoldsSeq, Slot
    <2>7. Contents' = [i \in 1 .. len - n |-> Contents[i + n]]
      BY <2>5, <2>6, Zenon
    <2>8. SubSeq(Contents, n + 1, Len(Contents)) = [i \in 1 .. len - n |-> Contents[i + n]]
      <3>1. SubSeq(Contents, n + 1, len) = [i \in 1 .. len - n |-> Contents[i + (n + 1) - 1]]
        BY <1>1, <2>2 DEF HoldsSeq, Slots
      <3>2. \A i \in 1 .. len - n : i + (n + 1) - 1 = i + n
        BY <2>2
      <3>3. QED
        BY <1>1, <3>1, <3>2, Zenon DEF HoldsSeq
    <2>9. n <= Len(Contents)
      BY <1>1, <2>2 DEF HoldsSeq
    <2>10. QED
      BY <2>1, <2>7, <2>8, <2>9 DEF Q!Remove, Error
  <1>4. QED
    BY <1>2, <1>3

LEMMA EmptyContents == head = 0 /\ tail = 0 => Contents = <<>>
  BY RingAssumption DEF Contents, copy, len

LEMMA EmptyContentsNext == head' = 0 /\ tail' = 0 => Contents' = <<>>
  BY RingAssumption DEF Contents, copy, len

\* The ring buffer implements the bounded queue, whatever its size: bytes come
\* out in the order they went in, none is lost or seen twice, and put() panics
\* only on a full ring.
THEOREM RingIsAQueue == Spec => ImplementsFifo
  <1>1. Init => Q!FInit
    BY EmptyContents DEF Init, Q!FInit, Error
  <1>2. TypeOK /\ TypeOK' /\ [Next]_ring => [Q!FNext]_Q!fifo
    <2> SUFFICES ASSUME TypeOK, TypeOK', [Next]_ring PROVE [Q!FNext]_Q!fifo
      OBVIOUS
    <2>1. ASSUME NEW b \in Byte, put(b) PROVE Q!FNext
      <3>1. Error = "none"
        BY <2>1 DEF put, Error
      <3>2. QED
        BY <2>1, <3>1, PutAdds DEF Q!FNext
    <2>2. ASSUME NEW n \in 1 .. RING_BUF_SIZE, consume(n) PROVE Q!FNext
      <3>1. Error = "none"
        BY <2>2 DEF consume, Error
      <3>2. n \in 1 .. (RING_BUF_SIZE - 1) + 1
        BY RingAssumption
      <3>3. QED
        BY <2>2, <3>1, <3>2, ConsumeRemoves DEF Q!FNext
    <2>3. CASE clear
      BY <2>3, EmptyContentsNext DEF clear, Error, Q!FNext, Q!Reset
    <2>4. CASE UNCHANGED ring
      BY <2>4 DEF ring, Contents, copy, len, Error, Q!fifo
    <2>5. QED
      BY <2>1, <2>2, <2>3, <2>4 DEF Next
  <1>3. QED
    BY <1>1, <1>2, RingTypeCorrect, PTL DEF Spec, ImplementsFifo, Q!FSpec
================================================================================
