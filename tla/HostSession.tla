------------------------------ MODULE HostSession ------------------------------
(***************************************************************************)
(* The host's side of the serial link: cex making a connection, then a     *)
(* session of polls and user commands, or the commands of a vector file    *)
(* (exer/cex/dev/nano.go, exer/cex/dev/arduino.go, exer/cex/main.go).      *)
(*                                                                         *)
(* host.pc says which read or decision the one thread of the host is at.   *)
(* A read takes a byte or fails, by timeout or by an error of the device.  *)
(***************************************************************************)
EXTENDS Integers, Sequences

CONSTANTS
  Commands,  \* the exerciser commands the user or the vector file may give
  MaxCalls,  \* how many of them
  MaxDrain   \* how many bytes drain() reads; 300 in the code

VARIABLES host, toNano, toHost

CmdSync == 225
CmdGetVer == 226
CmdPoll == 227
CmdGets == {248, 249}
ProtocolVersion == 13
Ack(b) == 255 - b

tries == 3

None == <<>>

\* host.cmd is the command in progress and host.left how many bytes of its
\* response are still to come; host.got are those that came.  host.answer is
\* what the last exerciser command returned, host.msg the last message polled.
HostInit ==
  host \in [pc : {"sync"}, try : {1}, sent : {0}, left : {0}, cmd : {None},
            got : {None}, calls : {0}, answer : {None}, msg : {None},
            interactive : BOOLEAN]

Goes(h) == host' = h

-----------------------------------------------------------------------------
(* Where the outcome of a command takes the host                           *)

\* CreateSession() tries again, from drain(), or gives up.
NextTry(h) ==
  IF h.try < tries THEN [h EXCEPT !.pc = "drain", !.try = @ + 1, !.sent = 0, !.left = 0]
  ELSE [h EXCEPT !.pc = "over"]

\* getSyncResponse() sends another sync, or fails.
NextSync(h) == IF h.sent < tries THEN [h EXCEPT !.pc = "sync"] ELSE NextTry(h)

\* The interactive loop polls, then looks for input; vector mode never polls.
Idle(h) == [h EXCEPT !.pc = IF h.interactive THEN "poll" ELSE "input", !.cmd = None]

Failed(h) ==
  CASE h.cmd = <<CmdSync>> -> NextSync([h EXCEPT !.got = None])
    [] h.cmd = <<CmdGetVer>> -> NextTry([h EXCEPT !.got = None])
    [] OTHER -> [h EXCEPT !.pc = "over"]

\* isLogRequest()
IsRequest(msg) == msg[1] \in 35 .. 38

Succeeded(h) ==
  CASE h.cmd = <<CmdSync>> ->
         [h EXCEPT !.pc = IF h.sent > 1 THEN "extra" ELSE "ver", !.left = h.sent - 1]
    [] h.cmd = <<CmdGetVer>> ->
         IF h.got = <<ProtocolVersion>> THEN Idle([h EXCEPT !.got = None])
         ELSE NextTry([h EXCEPT !.got = None])
    [] h.cmd = <<CmdPoll>> ->
         IF h.got # None /\ IsRequest(h.got) THEN [h EXCEPT !.pc = "over"]
         ELSE [h EXCEPT !.pc = "input", !.cmd = None, !.got = None,
                        !.msg = IF h.got = None THEN @ ELSE h.got]
    [] OTHER -> Idle([h EXCEPT !.answer = <<h.cmd, h.got>>, !.got = None])

-----------------------------------------------------------------------------
(* DoFixedCommand() and DoCountedReceive()                                 *)

\* Mutant: the response to a reversed get is forgotten.
ExpectedNotReversed(cmd) == IF cmd[1] \in {CmdGetVer, CmdPoll, 248} THEN 1 ELSE 0

\* How many bytes of fixed response the caller expects.
Expected(cmd) == IF cmd[1] \in {CmdGetVer, CmdPoll} \cup CmdGets THEN 1 ELSE 0

\* Write the command and wait for its ack; a write may fail.
Send(h, cmd) ==
  /\ Goes([h EXCEPT !.pc = "ack", !.cmd = cmd])
  /\ toNano' = toNano \o cmd
  /\ UNCHANGED toHost

WriteFails(h, cmd) == Goes(Failed([h EXCEPT !.cmd = cmd])) /\ UNCHANGED <<toNano, toHost>>

Read == toHost # <<>> /\ toHost' = Tail(toHost) /\ UNCHANGED toNano


GetAck ==
  /\ host.pc = "ack"
  /\ Read
  /\ Goes(IF Head(toHost) # Ack(host.cmd[1]) THEN Failed(host)
          ELSE IF Expected(host.cmd) = 0 THEN Succeeded(host)
          ELSE [host EXCEPT !.pc = "response"])

\* Mutant: a count of zero is waited for like any other.
GetResponseZero ==
  /\ host.pc = "response"
  /\ Read
  /\ LET b == Head(toHost)
     IN  Goes(IF host.cmd # <<CmdPoll>> THEN Succeeded([host EXCEPT !.got = <<b>>])
              ELSE [host EXCEPT !.pc = "counted", !.left = b])

\* The byte of fixed response, which for a poll is the count of what follows.
GetResponse ==
  /\ host.pc = "response"
  /\ Read
  /\ LET b == Head(toHost)
     IN  Goes(IF host.cmd # <<CmdPoll>> THEN Succeeded([host EXCEPT !.got = <<b>>])
              ELSE IF b = 0 THEN Succeeded(host)
              ELSE [host EXCEPT !.pc = "counted", !.left = b])


GetCounted ==
  /\ host.pc = "counted"
  /\ Read
  /\ LET h == [host EXCEPT !.got = Append(@, Head(toHost)), !.left = @ - 1]
     IN  Goes(IF h.left = 0 THEN Succeeded(h) ELSE h)

-----------------------------------------------------------------------------
(* Making the connection                                                   *)

SendSync ==
  /\ host.pc = "sync"
  /\ Send([host EXCEPT !.sent = @ + 1], <<CmdSync>>)

\* One read for every sync but the acked one; what it returns is not looked at.
AfterExtra(h) == [h EXCEPT !.left = @ - 1, !.pc = IF h.left = 1 THEN "ver" ELSE "extra"]

ReadExtra ==
  /\ host.pc = "extra"
  /\ Read
  /\ Goes(AfterExtra(host))

SendGetVer ==
  /\ host.pc = "ver"
  /\ Send(host, <<CmdGetVer>>)

\* drain() gives up on a Nano that does not stop sending.
Drain ==
  /\ host.pc = "drain"
  /\ Read
  /\ Goes(IF host.left + 1 = MaxDrain THEN NextTry(host) ELSE [host EXCEPT !.left = @ + 1])

\* Mutant: the reads for delayed acks have no timeout.
ReadFailsNotExtra ==
  /\ host.pc \in {"ack", "response", "counted", "drain"}
  /\ Goes(IF host.pc = "drain" THEN [host EXCEPT !.pc = "sync", !.left = 0] ELSE Failed(host))
  /\ UNCHANGED <<toNano, toHost>>

\* ReadFor() fails.
ReadFails ==
  /\ host.pc \in {"ack", "response", "counted", "extra", "drain"}
  /\ Goes(CASE host.pc = "drain" -> [host EXCEPT !.pc = "sync", !.left = 0]
            [] host.pc = "extra" -> AfterExtra(host)
            [] OTHER -> Failed(host))
  /\ UNCHANGED <<toNano, toHost>>

\* nano.Write() fails.
WriteFailure ==
  \/ host.pc = "sync" /\ WriteFails([host EXCEPT !.sent = @ + 1], <<CmdSync>>)
  \/ host.pc = "ver" /\ WriteFails(host, <<CmdGetVer>>)
  \/ host.pc = "poll" /\ WriteFails(host, <<CmdPoll>>)

\* It may have written some of the bytes of a longer command.
IssueFails(cmd) ==
  /\ host.pc = "input" /\ host.calls < MaxCalls
  /\ \E n \in 0 .. Len(cmd) - 1 : toNano' = toNano \o SubSeq(cmd, 1, n)
  /\ Goes([host EXCEPT !.pc = "over", !.cmd = cmd, !.calls = @ + 1, !.answer = None])
  /\ UNCHANGED toHost

-----------------------------------------------------------------------------
(* The session                                                             *)

DoPoll ==
  /\ host.pc = "poll"
  /\ Send(host, <<CmdPoll>>)

Issue(cmd) ==
  /\ host.pc = "input" /\ host.calls < MaxCalls
  /\ Send([host EXCEPT !.calls = @ + 1, !.answer = None], cmd)

\* No line has been typed: poll again.
NoInput ==
  /\ host.pc = "input" /\ host.interactive
  /\ Goes([host EXCEPT !.pc = "poll"])
  /\ UNCHANGED <<toNano, toHost>>

\* End of input or of the vector file.
Quit ==
  /\ host.pc = "input"
  /\ Goes([host EXCEPT !.pc = "over"])
  /\ UNCHANGED <<toNano, toHost>>

\* What the host does when a byte has come, or of its own accord.
HostStep ==
  \/ GetAck \/ GetResponse \/ GetCounted
  \/ SendSync \/ ReadExtra \/ SendGetVer \/ Drain
  \/ DoPoll \/ NoInput \/ Quit
================================================================================
