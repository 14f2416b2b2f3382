---------------------------------- MODULE Link ----------------------------------
(***************************************************************************)
(* The exerciser: cex and the firmware joined by a serial line that may    *)
(* delay bytes beyond the host's timeout or lose them, with a Nano that    *)
(* may be reset under the host's feet.                                     *)
(***************************************************************************)
EXTENDS SerialTask

CONSTANTS Commands, MaxCalls, MaxDrain,
  MaxFaults   \* how many faults there may be

ASSUME LinkAssumption == MaxFaults \in Nat /\ MaxCalls \in Nat /\ MaxDrain \in Nat \ {0}

VARIABLES
  host,
  faults  \* the faults so far

lvars == <<nano, toNano, toHost, host, faults>>

H == INSTANCE HostSession

Init ==
  /\ nano = Booted(PowerUp) /\ toNano = <<>> /\ toHost = <<>>
  /\ H!HostInit
  /\ faults = 0

Fault == faults < MaxFaults /\ faults' = faults + 1

\* Nothing that the Nano has received makes it send anything more.
Quiet ==
  /\ toHost = <<>>
  /\ \/ nano.panic # 0
     \/ /\ toNano = <<>> /\ nano.xmt = <<>> /\ ~nano.inProgress
        /\ \/ nano.rcv = <<>>
           \/ /\ nano.state = "ready" /\ isCommand(Head(nano.rcv))
              /\ ~MayRun(nano, Head(nano.rcv))

Task ==
  /\ \E k \in 0 .. Len(nano.xmt), j \in 0 .. Len(toNano) : serialTask(k, j)
  /\ UNCHANGED <<host, faults>>

Heartbeat == heartbeatTask /\ UNCHANGED <<host, faults>>

HostRuns == H!HostStep /\ UNCHANGED <<nano, faults>>

\* Giving a command starts the count of how often it is carried out.
Give == nano' = [nano EXCEPT !.executed = 0] /\ UNCHANGED faults

Issue == \E cmd \in Commands : H!Issue(cmd) /\ Give

\* Five seconds are enough for an answer that is to come at all, unless the
\* timeout is one of the faults.
Timeout ==
  /\ H!ReadFails
  /\ IF Quiet THEN UNCHANGED faults ELSE Fault
  /\ UNCHANGED nano

WriteError ==
  /\ Fault
  /\ \/ H!WriteFailure /\ UNCHANGED nano
     \/ \E cmd \in Commands : H!IssueFails(cmd) /\ nano' = [nano EXCEPT !.executed = 0]

RemoveAt(seq, i) == SubSeq(seq, 1, i - 1) \o SubSeq(seq, i + 1, Len(seq))

\* The line loses a byte.
Lose ==
  /\ Fault
  /\ \/ /\ \E i \in 1 .. Len(toNano) : toNano' = RemoveAt(toNano, i)
        /\ UNCHANGED toHost
     \/ /\ \E i \in 1 .. Len(toHost) : toHost' = RemoveAt(toHost, i)
        /\ UNCHANGED toNano
  /\ UNCHANGED <<nano, host>>

NanoReset == Fault /\ Reset /\ UNCHANGED host

Next ==
  Task \/ Heartbeat \/ HostRuns \/ Issue \/ Timeout \/ WriteError \/ Lose \/ NanoReset

Spec == Init /\ [][Next]_lvars

Min(m, n) == IF m < n THEN m ELSE n

\* The calls of serialTask() in which the hardware keeps up with the firmware.
Prompt ==
  /\ serialTask(Len(nano.xmt), Min(Len(toNano), avail(nano.rcv)))
  /\ UNCHANGED <<host, faults>>

\* The Nano keeps calling its tasks, the host keeps running, and a read for
\* which nothing comes ends.
FairSpec ==
  /\ Spec
  /\ WF_lvars(Prompt)
  /\ WF_lvars(HostRuns)
  /\ WF_lvars(Timeout)

-----------------------------------------------------------------------------

Connected == host.pc \in {"poll", "input"}




\* A session with no fault is connected by the first sync of the first try.
FirstSyncConnects == faults = 0 => host.try = 1 /\ host.sent <= 1

E == INSTANCE Exchange WITH
  session <- IF host.pc = "over" THEN "over"
             ELSE IF Connected \/ host.cmd \in Commands \cup {<<227>>} THEN "open"
             ELSE "connecting",
  call <- IF host.cmd \in Commands THEN host.cmd ELSE <<>>,
  count <- nano.executed,
  result <- nano.read,
  reply <- host.answer,
  device <- nano.ports


\* With no fault, only the user ends a session.
SessionLasts ==
  [][faults' = 0 /\ host'.pc = "over" => host.pc \in {"input", "over"}]_lvars

\* The host never hangs: making the connection, however its retries go, a poll
\* and a command all end, with success or with the end of the session.
HostNeverHangs == [](<>(Connected \/ host.pc = "over"))

\* Tearing a session down never hangs in stBadCmd(), whatever has been lost.
DesyncEnds == nano.state = "desync" ~> nano.state = "unsync"

\* A message longer than the transmit ring is sent to its end, or given up
\* with the session: pollResponseInProgress() cannot be stuck.
PollEnds == nano.inProgress ~> ~nano.inProgress
================================================================================
