------------------------------- MODULE SerialTask -------------------------------
(***************************************************************************)
(* The firmware's side of the serial link (exer/fw/serial_task.h): the     *)
(* connection states, the command handlers and the poll buffer, with the   *)
(* log queue they empty (exer/fw/small_tasks.h) and the registers they     *)
(* drive (module Ports).                                                   *)
(*                                                                         *)
(* A handler is an operator from the firmware's state to its next state.   *)
(* The rings are sequences: module Ring shows that this is what they are.  *)
(* A panic never returns, so nothing a handler does after one counts.      *)
(***************************************************************************)
EXTENDS Ports, Sequences

CONSTANTS
  RING_BUF_SIZE,
  LOG_QUEUE_SIZE,
  POLL_BUF_MAX_DATA,
  ResetMessage,      \* what logInitCallback() prints
  HeartbeatMessage   \* what heartbeatMessageCallback() prints

ASSUME SerialAssumption ==
  /\ RING_BUF_SIZE \in 4 .. 127
  /\ LOG_QUEUE_SIZE \in Nat \ {0, 1}
  /\ POLL_BUF_MAX_DATA \in 3 .. 255
  /\ {ResetMessage, HeartbeatMessage} \subseteq Seq(0 .. 255) \ {<<>>}
  /\ ChipMod \in 1 .. 256
  /\ Floating \in 0 .. 255

VARIABLES
  nano,    \* the firmware
  toNano,  \* bytes on their way to it
  toHost   \* bytes on their way from it

STCMD_BASE == 224
STCMD_SYNC == 225
STCMD_GET_VER == 226
STCMD_POLL == 227
STCMD_PULSE == 240
STCMD_SET == 244
STCMD_SETR == 245
STCMD_GET == 248
STCMD_GETR == 249
STERR_BADCMD == 129
PROTOCOL_VERSION == 13
PANIC_SERIAL_BAD_BYTE == 238
ACK(cmd) == 255 - cmd

\* The lengths in the table of handlers.
CmdLen(b) ==
  IF b \in {STCMD_PULSE, STCMD_SET, STCMD_SETR} THEN 3
  ELSE IF b \in {STCMD_GET, STCMD_GETR} THEN 2 ELSE 1

MAX_FIXED_RESPONSE_BYTES == 2

\* Mutant: the slot that is never used is counted.
availAll(ring) == RING_BUF_SIZE - Len(ring)

avail(ring) == RING_BUF_SIZE - Len(ring) - 1

isCommand(b) == b > STCMD_BASE

canSend(s, n) == n < avail(s.xmt)

\* After setup(): logInit() has queued its message, SerialReset() has put the
\* connection and the poll buffer in order and the self test has set U10.
\* "executed" and "read" are bookkeeping for properties: how many exerciser
\* commands (0, 1, or more) have run since the host last issued one, and what
\* the last stGet() read.
Booted(ports) ==
  [rcv |-> <<>>, xmt |-> <<>>, state |-> "unsync", inProgress |-> FALSE,
   inuse |-> FALSE, buf |-> <<>>, log |-> <<ResetMessage>>, lost |-> FALSE,
   ports |-> callAfterPostInit(ports), panic |-> 0, executed |-> 0, read |-> 0]

-----------------------------------------------------------------------------
(* The middle layer                                                        *)

\* Mutant: pending output is kept.
stateUnsyncKeepsOutput(s) ==
  [s EXCEPT !.rcv = <<>>, !.inProgress = FALSE, !.state = "unsync"]

stateUnsync(s) ==
  [s EXCEPT !.rcv = <<>>, !.xmt = <<>>, !.inProgress = FALSE, !.state = "unsync"]

\* panic() shuts the connection down and never returns.
Panic(s, subcode) == [stateUnsync(s) EXCEPT !.panic = subcode]

consume(s, n) ==
  IF n > Len(s.rcv) THEN Panic(s, 4) ELSE [s EXCEPT !.rcv = SubSeq(@, n + 1, Len(@))]

\* Mutant: put() does not look whether the ring is full.
sendUnchecked(s, b) == IF s.panic # 0 THEN s ELSE [s EXCEPT !.xmt = Append(@, b)]

send(s, b) ==
  IF s.panic # 0 THEN s
  ELSE IF avail(s.xmt) = 0 THEN Panic(s, 7)
  ELSE [s EXCEPT !.xmt = Append(@, b)]

sendAck(s, b) ==
  IF ~isCommand(b) THEN Panic(s, PANIC_SERIAL_BAD_BYTE) ELSE send(s, ACK(b))

sendNak(s) == send(s, STERR_BADCMD)

allocPollBuffer(s) ==
  IF s.panic # 0 THEN s
  ELSE IF s.inuse THEN Panic(s, 13)
  ELSE [s EXCEPT !.inuse = TRUE, !.buf = <<>>]


freePollBuffer(s) ==
  IF s.panic # 0 THEN s
  ELSE IF ~s.inuse THEN Panic(s, 14)
  ELSE [s EXCEPT !.inuse = FALSE, !.buf = <<>>]

-----------------------------------------------------------------------------
(* The log queue                                                           *)

internalLogQueueCallback(s, message) ==
  IF Len(s.log) = LOG_QUEUE_SIZE - 1 THEN [s EXCEPT !.lost = TRUE]
  ELSE [s EXCEPT !.log = Append(@, message)]

\* snprintf() into max bytes ends with a nul, which is counted when it cuts.
Printed(message, max) ==
  IF Len(message) < max THEN message ELSE Append(SubSeq(message, 1, max - 1), 0)

\* After an overrun the message is printed behind a star and a blank, which
\* the callback, and so the byte count, does not count.
internalLogGetPending(s) ==
  LET star == IF s.lost THEN <<42, 32>> ELSE <<>>
      text == Printed(Head(s.log), POLL_BUF_MAX_DATA - Len(star))
  IN  [s EXCEPT !.log = Tail(@), !.lost = FALSE,
                !.buf = SubSeq(star \o text, 1, Len(text))]

-----------------------------------------------------------------------------
(* The command handlers                                                    *)

\* The NAK of stBadCmd(), and the state it returns.
Nak(s) ==
  IF ~canSend(s, 1) THEN Panic(s, 12) ELSE sendNak([s EXCEPT !.inProgress = FALSE])

\* Mutant: the refused byte is consumed at once.
stBadCmdConsumes(s) ==
  IF s.state = "desync" THEN stateUnsync(s)
  ELSE LET t == Nak(consume(s, 1)) IN IF t.panic # 0 THEN t ELSE [t EXCEPT !.state = "desync"]

stBadCmd(s) ==
  IF s.state = "desync" THEN stateUnsync(s)
  ELSE LET t == Nak(s) IN IF t.panic # 0 THEN t ELSE [t EXCEPT !.state = "desync"]

\* Mutant: a sync leaves the state alone.
stSyncKeepsState(s) == sendAck(consume(s, 1), STCMD_SYNC)

stSync(s) ==
  LET t == sendAck(consume(s, 1), STCMD_SYNC)
  IN  IF t.panic # 0 THEN t ELSE [t EXCEPT !.state = "ready"]

stGetVer(s) == send(sendAck(consume(s, 1), STCMD_GET_VER), PROTOCOL_VERSION)

\* Mutant: the loop asks canSend() for the whole of the ring, which it never grants.
pollResponseWaits(s) ==
  LET t == [s EXCEPT !.xmt = @ \o s.buf, !.buf = <<>>]
  IN  IF s.panic # 0 \/ ~canSend(s, RING_BUF_SIZE - 1) THEN s
      ELSE [freePollBuffer(t) EXCEPT !.inProgress = FALSE]


\* As much of the poll buffer as leaves one free byte in the transmit ring.
pollResponseInProgress(s) ==
  LET room == IF canSend(s, 1) THEN avail(s.xmt) - 1 ELSE 0
      n == IF room < Len(s.buf) THEN room ELSE Len(s.buf)
      t == [s EXCEPT !.xmt = @ \o SubSeq(s.buf, 1, n),
                     !.buf = SubSeq(@, n + 1, Len(@))]
  IN  IF s.panic # 0 THEN s
      ELSE IF t.buf # <<>> THEN t
      ELSE [freePollBuffer(t) EXCEPT !.inProgress = FALSE]

\* The byte count is sent, then as much of the message as there is room for.
stPoll(s) ==
  LET t == sendAck(consume(s, 1), STCMD_POLL)
      u == internalLogGetPending(allocPollBuffer(t))
      v == send(u, Len(u.buf))
  IN  IF t.panic # 0 THEN t
      ELSE IF t.log = <<>> THEN send(t, 0)
      ELSE IF t.inuse THEN allocPollBuffer(t)
      ELSE IF v.panic # 0 THEN v
      ELSE pollResponseInProgress([v EXCEPT !.inProgress = TRUE])

\* The exerciser commands send a NAK for an id above 15 and then carry on, as
\* nothing returns after the call of stBadCmd().
CheckId(s, id) == IF s.panic = 0 /\ id > 15 THEN Nak(s) ELSE s

Ran(s) == [s EXCEPT !.executed = IF @ < 2 THEN @ + 1 ELSE @]

\* cmd[1] pulses of the control output cmd[2].
stPulse(s) ==
  LET cmd == SubSeq(s.rcv, 1, 3)
      t == CheckId(consume(s, 3), cmd[3])
  IN  IF t.panic # 0 THEN t
      ELSE sendAck(Ran([t EXCEPT !.ports = Toggled(@, cmd[3], cmd[2])]), STCMD_PULSE)

stSet(s) ==
  LET cmd == SubSeq(s.rcv, 1, 3)
      t == CheckId(consume(s, 3), cmd[2])
      data == IF cmd[1] = STCMD_SETR THEN reverse_byte(cmd[3]) ELSE cmd[3]
  IN  IF t.panic # 0 THEN t
      ELSE sendAck(Ran([t EXCEPT !.ports = nanoSetRegister(@, cmd[2], data)]), cmd[1])

stGet(s) ==
  LET cmd == SubSeq(s.rcv, 1, 2)
      t == CheckId(consume(s, 2), cmd[2])
      value == GetValue(t.ports, cmd[2])
      result == IF cmd[1] = STCMD_GETR THEN reverse_byte(value) ELSE value
      u == Ran([t EXCEPT !.ports = nanoGetRegister(@, cmd[2]), !.read = result])
  IN  IF t.panic # 0 THEN t ELSE send(sendAck(u, cmd[1]), result)

-----------------------------------------------------------------------------
(* serialTask()                                                            *)

\* The firmware once k bytes have been written and the j bytes that have
\* arrived have been read.
AfterIO(k, j) ==
  [nano EXCEPT !.xmt = SubSeq(@, k + 1, Len(@)), !.rcv = @ \o SubSeq(toNano, 1, j)]

Transfer(k, j) ==
  /\ toHost' = toHost \o SubSeq(nano.xmt, 1, k)
  /\ toNano' = SubSeq(toNano, j + 1, Len(toNano))

\* Mutant: a command is run before all of it has come.
MayRunPartial(s, b) == avail(s.xmt) >= MAX_FIXED_RESPONSE_BYTES

\* Whether process() has the whole command and room for the fixed response.
MayRun(s, b) ==
  Len(s.rcv) >= CmdLen(b) /\ avail(s.xmt) >= MAX_FIXED_RESPONSE_BYTES

Runs(s, commands) == Head(s.rcv) \in commands /\ MayRun(s, Head(s.rcv))

Implemented == {STCMD_SYNC, STCMD_GET_VER, STCMD_POLL, STCMD_PULSE, STCMD_SET,
                STCMD_SETR, STCMD_GET, STCMD_GETR}

process(s) ==
  LET b == Head(s.rcv)
  IN  \/ ~isCommand(b) /\ nano' = stBadCmd(s)
      \/ isCommand(b) /\ ~MayRun(s, b) /\ nano' = s
      \/ Runs(s, {STCMD_SYNC}) /\ nano' = stSync(s)
      \/ Runs(s, {STCMD_GET_VER}) /\ nano' = stGetVer(s)
      \/ Runs(s, {STCMD_POLL}) /\ nano' = stPoll(s)
      \/ Runs(s, {STCMD_PULSE}) /\ nano' = stPulse(s)
      \/ Runs(s, {STCMD_SET, STCMD_SETR}) /\ nano' = stSet(s)
      \/ Runs(s, {STCMD_GET, STCMD_GETR}) /\ nano' = stGet(s)
      \/ isCommand(b) /\ b \notin Implemented /\ MayRun(s, b) /\ nano' = stBadCmd(s)

\* Mutant: a long response in progress does not keep new commands waiting.
HandleInterleaved(s) ==
  IF s.rcv = <<>> THEN nano' = IF s.inProgress THEN pollResponseInProgress(s) ELSE s
  ELSE IF s.state = "ready" THEN process(s)
  ELSE IF s.state = "unsync" /\ Head(s.rcv) = STCMD_SYNC THEN nano' = stSync(s)
  ELSE nano' = stBadCmd(s)

\* What a call does once it has moved bytes: go on with a long response, or
\* look at the oldest byte received.
Handle(s) ==
  IF s.inProgress THEN nano' = pollResponseInProgress(s)
  ELSE IF s.rcv = <<>> THEN nano' = s
  ELSE IF s.state = "ready" THEN process(s)
  ELSE IF s.state = "unsync" /\ Head(s.rcv) = STCMD_SYNC THEN nano' = stSync(s)
  ELSE nano' = stBadCmd(s)

\* A call of serialTask() writes the k bytes the hardware takes, reads the j
\* that have come and the receive ring has room for, and then does one thing.
serialTask(k, j) ==
  /\ nano.panic = 0
  /\ k <= Len(nano.xmt) /\ j <= Len(toNano) /\ j <= avail(nano.rcv)
  /\ Transfer(k, j)
  /\ Handle(AfterIO(k, j))

\* heartbeatTask() queues its message every eight seconds.
heartbeatTask ==
  /\ nano.panic = 0
  /\ nano' = internalLogQueueCallback(nano, HeartbeatMessage)
  /\ UNCHANGED <<toNano, toHost>>

\* A reset of the Nano, which the chip in the socket does not see.
Reset ==
  /\ nano' = [Booted(nano.ports) EXCEPT !.executed = nano.executed, !.read = nano.read]
  /\ UNCHANGED <<toNano, toHost>>
================================================================================
