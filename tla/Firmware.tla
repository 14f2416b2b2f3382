-------------------------------- MODULE Firmware --------------------------------
(***************************************************************************)
(* The firmware with a host that may send any bytes at any time, without   *)
(* waiting for answers, and reads what it is sent.                         *)
(***************************************************************************)
EXTENDS SerialTask

CONSTANTS
  HostBytes,   \* the bytes the host may send
  MaxInFlight  \* how many bytes either direction of the line holds

ASSUME FirmwareAssumption == HostBytes \subseteq 0 .. 255 /\ MaxInFlight \in Nat

fvars == <<nano, toNano, toHost>>

Init == nano = Booted(PowerUp) /\ toNano = <<>> /\ toHost = <<>>

HostWrites ==
  /\ Len(toNano) < MaxInFlight
  /\ \E b \in HostBytes : toNano' = Append(toNano, b)
  /\ UNCHANGED <<nano, toHost>>

HostReads ==
  /\ toHost # <<>>
  /\ toHost' = Tail(toHost)
  /\ UNCHANGED <<nano, toNano>>

\* The line takes no more than it holds: availableForWrite() returns 0.
Task ==
  \E k \in 0 .. MaxInFlight - Len(toHost), j \in 0 .. MaxInFlight : serialTask(k, j)

Next == Task \/ heartbeatTask \/ Reset \/ HostWrites \/ HostReads

Spec == Init /\ [][Next]_fvars

-----------------------------------------------------------------------------

Byte == 0 .. 255

PortsType ==
  [data : Byte, out : [Outputs -> Byte], in : [Inputs -> Byte], chip : 0 .. ChipMod - 1]

\* Nothing overflows: what the handlers append stays within the rings, the
\* poll buffer and the log queue.
TypeOK ==
  /\ nano \in [rcv : Seq(Byte), xmt : Seq(Byte), state : {"unsync", "desync", "ready"},
               inProgress : BOOLEAN, inuse : BOOLEAN, buf : Seq(Byte),
               log : Seq({ResetMessage, HeartbeatMessage}), lost : BOOLEAN,
               ports : PortsType, panic : Byte, executed : 0 .. 2, read : Byte]
  /\ Len(nano.rcv) < RING_BUF_SIZE /\ Len(nano.xmt) < RING_BUF_SIZE
  /\ Len(nano.buf) <= POLL_BUF_MAX_DATA
  /\ Len(nano.log) < LOG_QUEUE_SIZE
  /\ toNano \in Seq(Byte) /\ toHost \in Seq(Byte)

\* The poll buffer is in use exactly while its in-progress handler is
\* installed, with something left to send, although stateUnsync() and
\* stBadCmd() clear the handler and not the buffer.  So neither
\* allocPollBuffer() nor freePollBuffer() ever panics.
PollBufferOwned ==
  nano.panic = 0 =>
    /\ nano.inuse <=> nano.inProgress
    /\ nano.inProgress => nano.state = "ready" /\ nano.buf # <<>>

\* Of all the panics of serial_task.h only a full transmit ring can happen.
OnlyFullRingPanics == nano.panic \in {0, 7, 12}

\* Between calls, an unsynchronized connection has nothing in either ring: no
\* byte of an old session is left to be taken for one of the next.
UnsyncIsEmpty == nano.state = "unsync" => nano.rcv = <<>> /\ nano.xmt = <<>>

\* The byte that was refused stays in the ring while desynchronizing, "This
\* ensures we'll come back here again soon".
DesyncKeepsByte == nano.state = "desync" => nano.rcv # <<>>

FInv == TypeOK /\ PollBufferOwned /\ OnlyFullRingPanics /\ UnsyncIsEmpty /\ DesyncKeepsByte

\* "individual handlers can assume ... there is space for the fixed part of
\* the response" (exer/fw/serial_task.h, in process): no handler that process()
\* calls overruns the transmit ring.
FixedResponseFits == nano.panic # 7
================================================================================
