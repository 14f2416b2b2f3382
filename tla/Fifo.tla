--------------------------------- MODULE Fifo ---------------------------------
(***************************************************************************)
(* A bounded first-in first-out queue of bytes: what the firmware's layers *)
(* above the ring buffer take it to be.  A call does what its name says,   *)
(* or fails: only a full queue overflows, and only a call for more bytes   *)
(* than there are underflows.                                              *)
(***************************************************************************)
EXTENDS Naturals, Sequences

CONSTANTS Byte, Capacity

VARIABLES
  queue,
  called,  \* the last call
  error    \* "none", "overflow" or "underflow"

fifo == <<queue, called, error>>

FInit == queue = <<>> /\ called = <<"init">> /\ error = "none"

Add(b) ==
  /\ called' = <<"put", b>>
  /\ \/ /\ Len(queue) < Capacity /\ queue' = Append(queue, b)
        /\ UNCHANGED error
     \/ /\ Len(queue) = Capacity /\ error' = "overflow"
        /\ UNCHANGED queue

Remove(n) ==
  /\ called' = <<"consume", n>>
  /\ \/ /\ n <= Len(queue) /\ queue' = SubSeq(queue, n + 1, Len(queue))
        /\ UNCHANGED error
     \/ /\ n > Len(queue) /\ error' = "underflow"
        /\ UNCHANGED queue

Reset == called' = <<"clear">> /\ queue' = <<>> /\ UNCHANGED error

FNext ==
  /\ error = "none"
  /\ (\E b \in Byte : Add(b)) \/ (\E n \in 1 .. Capacity + 1 : Remove(n)) \/ Reset

FSpec == FInit /\ [][FNext]_fifo
================================================================================
