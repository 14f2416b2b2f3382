--------------------------------- MODULE Ring ---------------------------------
(***************************************************************************)
(* The ring buffer of the exerciser's firmware (exer/fw/serial_task.h):    *)
(* head and tail indices into an array, one slot of which is never used,   *)
(* with the tests by which its functions panic.                            *)
(***************************************************************************)
EXTENDS Integers, Sequences

CONSTANTS
  Byte,           \* what a slot holds
  RING_BUF_SIZE

ASSUME RingAssumption == RING_BUF_SIZE \in 2 .. 127 /\ Byte # {}

VARIABLES
  head,      \* where the next byte is added
  tail,      \* where the next byte is consumed
  body,      \* the slots
  panicked,  \* the subcode of the panic that stopped the firmware, or 0
  called     \* bookkeeping for the refinement: the last call

ring == <<head, tail, body, panicked, called>>

Slots == 0 .. RING_BUF_SIZE - 1

-----------------------------------------------------------------------------

len == IF head >= tail THEN head - tail ELSE (head + RING_BUF_SIZE) - tail

avail == (RING_BUF_SIZE - len) - 1

\* copy(): up to max of the oldest bytes.  peek() is the first of them.
copy(max) ==
  [i \in 1 .. IF max < len THEN max ELSE len |-> body[(tail + i - 1) % RING_BUF_SIZE]]

Init ==
  /\ head = 0 /\ tail = 0
  /\ body \in [Slots -> Byte]
  /\ panicked = 0 /\ called = <<"init">>

Panic(subcode) == panicked' = subcode /\ UNCHANGED <<head, tail, body>>

\* Mutant: put() does not ask whether the ring is full.
putUnchecked(b) ==
  /\ panicked = 0 /\ called' = <<"put", b>>
  /\ body' = [body EXCEPT ![head] = b]
  /\ head' = (head + 1) % RING_BUF_SIZE
  /\ UNCHANGED <<tail, panicked>>

put(b) ==
  /\ panicked = 0 /\ called' = <<"put", b>>
  /\ IF len \notin Slots THEN Panic(1)
     ELSE IF avail \notin Slots THEN Panic(2)
     ELSE IF avail = 0 THEN Panic(7)
     ELSE /\ body' = [body EXCEPT ![head] = b]
          /\ head' = (head + 1) % RING_BUF_SIZE
          /\ UNCHANGED <<tail, panicked>>

\* Mutant: consume() does not wrap the index.
consumeUnwrapped(n) ==
  /\ panicked = 0 /\ called' = <<"consume", n>>
  /\ IF n > len THEN Panic(4)
     ELSE /\ tail' = tail + n
          /\ UNCHANGED <<head, body, panicked>>

\* consume(0) returns at once; n is unsigned, so its test n < 0 never succeeds.
consume(n) ==
  /\ panicked = 0 /\ called' = <<"consume", n>>
  /\ IF n > len THEN Panic(4)
     ELSE /\ tail' = (tail + n) % RING_BUF_SIZE
          /\ UNCHANGED <<head, body, panicked>>

\* stateUnsync() empties a ring by clearing both of its indices.
clear ==
  /\ panicked = 0
  /\ head' = 0 /\ tail' = 0 /\ called' = <<"clear">>
  /\ UNCHANGED <<body, panicked>>

Next ==
  \/ \E b \in Byte : put(b)
  \/ \E n \in 1 .. RING_BUF_SIZE : consume(n)
  \/ clear

Spec == Init /\ [][Next]_ring

-----------------------------------------------------------------------------

\* Both indices stay inside the array, and of the panics only those of put()
\* on a full ring and consume() of more than there is can happen: the checks
\* in len() and avail() never fail.
TypeOK ==
  /\ head \in Slots /\ tail \in Slots
  /\ body \in [Slots -> Byte]
  /\ panicked \in {0, 4, 7}

\* What is in the ring, oldest first.
Contents == copy(RING_BUF_SIZE)

Error ==
  IF panicked = 0 THEN "none" ELSE IF panicked = 7 THEN "overflow"
  ELSE IF panicked = 4 THEN "underflow" ELSE "failed check"

Q == INSTANCE Fifo WITH
  Capacity <- RING_BUF_SIZE - 1, queue <- Contents, error <- Error

\* The ring is a queue of RING_BUF_SIZE - 1 bytes: whatever wraps, put() adds at
\* the end and panics only when the ring is full, consume() removes from the
\* front, and a full ring is never taken for an empty one.
ImplementsFifo == Q!FSpec
================================================================================
