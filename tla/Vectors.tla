-------------------------------- MODULE Vectors --------------------------------
(***************************************************************************)
(* Vector mode of the exerciser's host program: cex reads test vectors     *)
(* (vector.go, utils/testfile.go, utils/fixedbitvec.go), sets the pins of  *)
(* the chip, clocks it and judges what it gives.  The firmware's side of a *)
(* command is Ports; how a command gets there is Link's subject, here it   *)
(* is carried out or fails.  The chip is external: it may give anything.   *)
(*                                                                         *)
(* A bit vector is the set of the positions that are 1.  A line of a file  *)
(* is a record with its kind; a token of a vector is a pair of its first   *)
(* character and the number after it.                                      *)
(***************************************************************************)
EXTENDS Integers, Sequences, SequencesExt, FiniteSets

CONSTANTS Files,       \* the command lines: sequences of files, which are sequences of lines
          ChipOutputs, \* what the chip may give: records of F and the five flags
          Faults       \* whether commands and reads of the file may fail

P == INSTANCE Ports WITH ChipMod <- 1, Floating <- 0

VARIABLES files,       \* the command line
          at,          \* the file and the line in it that are processed
          tf,          \* the TestFile, or NoTestFile
          step,        \* 0 in scan(), else the next step of applyPLCC()
          board,       \* the registers of the exerciser, as in Ports
          chip,        \* what the chip gives
          edges,       \* history: pulses on TSTCLK for the present vector
          clockFailed, \* history: the command for that pulse has failed
          failures,    \* totalFailures
          wrong,       \* history: the chip has not given what some vector expects
          cut,         \* history: a file has not been read to its end
          exit         \* "running", "panic", or the exit code

vars == <<files, at, tf, step, board, chip, edges, clockFailed, failures, wrong, cut, exit>>

NoTestFile == [socket |-> "nil"]

-----------------------------------------------------------------------------
(* utils/testfile.go and utils/fixedbitvec.go                              *)

SizeOf == [PLCC |-> 68, ZIF |-> 24]

NewTestFile(socket) ==
  [socket |-> socket, size |-> SizeOf[socket], clockPin |-> 0,
   toUUT |-> {}, fromUUT |-> {}, ignored |-> {}]

Clear(t) == [t EXCEPT !.clockPin = 0, !.toUUT = {}, !.fromUUT = {}]

\* A bit vector has one byte more than the whole bytes of its size.
Room(t) == 8 * (1 + t.size \div 8)

Get(vec, pos) == IF pos \in vec THEN 1 ELSE 0
GetByte(vec, pos) ==
  LET first == (pos \div 8) * 8
  IN FoldLeft(LAMBDA b, i : b + Get(vec, first + i - 1) * 2^(i - 1), 0, [i \in 1 .. 8 |-> i])

-----------------------------------------------------------------------------
(* parseVector().  The state of the parse is the TestFile with the next    *)
(* position and what has become of it.                                     *)

Set16(pos, v) == {pos + i : i \in {j \in 0 .. 15 : (v \div 2^j) % 2 = 1}}
Reversed16(pos, v) == {pos + i : i \in {j \in 0 .. 15 : (v \div 2^(15 - j)) % 2 = 1}}

\* Bits `set` of a field become 1 and the others touched become 0, then the
\* position moves on.
Write(s, field, touched, set, n) ==
  IF \E pos \in touched : pos >= Room(s.tf) THEN [s EXCEPT !.res = "panic"]
  ELSE [s EXCEPT !.tf[field] = (@ \ touched) \cup set, !.pos = @ + n]

parseToken(s, t) ==
  LET here == {s.pos}
  IN IF s.res # "ok" THEN s
     ELSE CASE t[1] = "0" -> Write(s, "toUUT", here, {}, 1)
            [] t[1] = "1" -> Write(s, "toUUT", here, here, 1)
            [] t[1] = "L" -> Write(s, "fromUUT", here, {}, 1)
            [] t[1] = "H" -> Write(s, "fromUUT", here, here, 1)
            [] t[1] = "C" -> Write([s EXCEPT !.tf.clockPin = 1 + s.pos], "toUUT", here, here, 0)
            [] t[1] \in {"X", "G", "V"} -> Write(s, "ignored", here, here, 1)
            [] t[1] = "%" -> Write(s, "toUUT", Set16(s.pos, t[2]), Set16(s.pos, t[2]), 16)
            [] t[1] = "@" -> Write(s, "fromUUT", Reversed16(s.pos, t[2]),
                                   Reversed16(s.pos, t[2]), 16)
            [] t[1] = "short" -> [s EXCEPT !.res = "panic"]    \* fewer than four digits
            [] OTHER -> [s EXCEPT !.res = "error"]

parseVector(t, tokens) ==
  LET end == FoldLeft(parseToken, [tf |-> t, pos |-> 0, res |-> "ok"], tokens)
  IN IF end.res = "ok" /\ end.pos # t.size THEN [end EXCEPT !.res = "error"] ELSE end

-----------------------------------------------------------------------------
(* applyPLCC(): what it sends, in order.                                   *)

pinToPos(pin) == pin - 1

\* The byte whose bits 0, 1, ... come from the listed pins; pin 0 is no pin.
FromPins(pins) ==
  FoldLeft(LAMBDA b, i : b + (IF pins[i] = 0 THEN 0
                              ELSE Get(tf.toUUT, pinToPos(pins[i])) * 2^(i - 1)),
           0, [i \in DOMAIN pins |-> i])

Pins(first) == [i \in 1 .. 8 |-> first + i - 1]

SetsU10Low ==
  << <<4, GetByte(tf.toUUT, 0)>>, <<5, GetByte(tf.toUUT, 8)>>,
     <<6, FromPins(<<27, 26, 25, 44, 45, 46, 47, 48>>)>>, <<10, FromPins(<<49, 50, 51, 52>>)>>,
     <<3, FromPins(Pins(53))>>, <<2, FromPins(Pins(61))>> >>

Sets ==
  << <<4, GetByte(tf.toUUT, 0)>>, <<5, GetByte(tf.toUUT, 8)>>,
     <<6, FromPins(<<27, 26, 25, 44, 45, 46, 47, 48>>)>>,
     <<10, FromPins(<<0, 0, 0, 0, 49, 50, 51, 52>>)>>,
     <<3, FromPins(Pins(53))>>, <<2, FromPins(Pins(61))>> >>

ClockStep == 7
JudgeStep == 14

\* The inputs of the exerciser: the clocks of U11, U3 and U7.
Latched(id) == CASE id = 11 -> chip.flags [] id = 0 -> chip.f \div 256 [] id = 7 -> chip.f % 256

\* What a command does to the board: steps 1 to 6 set, 8 to 10 clock the inputs,
\* 11 to 13 read them.
Effect(n) ==
  IF n < ClockStep THEN P!nanoSetRegister(board, Sets[n][1], Sets[n][2])
  ELSE IF n \in 8 .. 10
       THEN LET id == <<11, 0, 7>>[n - 7]
            IN [board EXCEPT !.in[P!InputOf[id]] = Latched(id)]
       ELSE board

ExpectedF ==
  FoldLeft(LAMBDA v, i : v + Get(tf.fromUUT, pinToPos(27 + i)) * 2^(16 - i),
           0, [i \in 1 .. 16 |-> i])

ErrorCountOfF ==
  IF ExpectedF = P!GetValue(board, 1) * 256 + P!GetValue(board, 9) THEN 0 ELSE 1

\* The mismatches that are counted.  "g C", "g 1" and "g 9" have been read.
ErrorCount ==
  LET got == P!GetValue(board, 1) * 256 + P!GetValue(board, 9)
      cpgzv == P!GetValue(board, 12)
      Fails(i) == /\ (cpgzv \div 2^i) % 2 # Get(tf.fromUUT, pinToPos(20) + i)
                  /\ pinToPos(20) + i \notin tf.ignored
  IN (IF ExpectedF = got THEN 0 ELSE 1) + Cardinality({i \in 0 .. 4 : Fails(i)})

-----------------------------------------------------------------------------
Init ==
  /\ files \in Files /\ at = <<1, 1>> /\ tf = NoTestFile /\ step = 0
  /\ board = P!callAfterPostInit(P!PowerUp) /\ chip \in ChipOutputs
  /\ edges = 0 /\ clockFailed = FALSE
  /\ failures = 0 /\ wrong = FALSE /\ cut = FALSE /\ exit = "running"

Running == exit = "running"
InScan == Running /\ step = 0 /\ at[1] <= Len(files)
AtLine == InScan /\ at[2] <= Len(files[at[1]])
Line == files[at[1]][at[2]]
Advance == at' = <<at[1], at[2] + 1>>

\* Empty lines, comments, and lines for the log.
SkipLine ==
  /\ AtLine /\ Line.kind = "skip" /\ Advance
  /\ UNCHANGED <<files, tf, step, board, chip, edges, clockFailed, failures, wrong, cut, exit>>

Socket ==
  /\ AtLine /\ Line.kind = "socket"
  /\ IF tf = NoTestFile /\ Line.arg \in DOMAIN SizeOf
     THEN tf' = NewTestFile(Line.arg) /\ Advance /\ UNCHANGED exit
     ELSE exit' = "2" /\ UNCHANGED <<tf, at>>
  /\ UNCHANGED <<files, step, board, chip, edges, clockFailed, failures, wrong, cut>>

\* A vector is parsed.  Without a socket there is no TestFile to clear.  The one
\* for the ZIF socket is then done with; for the PLCC socket applyPLCC() starts.
Vector ==
  /\ AtLine /\ Line.kind = "vector"
  /\ IF tf = NoTestFile THEN exit' = "panic" /\ UNCHANGED <<tf, step, at>>
     ELSE LET end == parseVector(Clear(tf), Line.tokens)
          IN /\ tf' = end.tf
             /\ exit' = CASE end.res = "ok" -> exit [] end.res = "panic" -> "panic"
                          [] end.res = "error" -> "2"
             /\ step' = IF end.res = "ok" /\ tf.socket = "PLCC" THEN 1 ELSE 0
             /\ IF end.res = "ok" /\ tf.socket = "ZIF" THEN Advance ELSE UNCHANGED at
  /\ edges' = 0 /\ clockFailed' = FALSE
  /\ UNCHANGED <<files, board, chip, failures, wrong, cut>>

Command ==
  /\ Running /\ step \in 1 .. 13 /\ step # ClockStep
  /\ board' = Effect(step)
  /\ step' = step + 1
  /\ UNCHANGED <<files, at, tf, chip, edges, clockFailed, failures, wrong, cut, exit>>

\* The outputs settle once the inputs are set and, in a clocked test, the clock
\* has been pulsed.
Clock ==
  /\ Running /\ step = ClockStep
  /\ edges' = IF tf.clockPin # 0 THEN 1 ELSE 0
  /\ chip' \in ChipOutputs
  /\ step' = step + 1
  /\ UNCHANGED <<files, at, tf, board, clockFailed, failures, wrong, cut, exit>>

\* What a vector means, by the test case it was written for: the pins of the
\* flags that this file has declared don't-care so far, and the outputs that differ.
Ignored(lines) ==
  {i \in 0 .. 4 : \E l \in lines : /\ files[at[1]][l].kind = "vector"
                                   /\ files[at[1]][l].case.flags[i + 1] = "X"}

Differs(case, ignored) ==
  (IF chip.f = case.f THEN 0 ELSE 1)
  + Cardinality({i \in (0 .. 4) \ ignored :
                   ((chip.flags \div 2^i) % 2 = 1) # (case.flags[i + 1] = "H")})

Mismatches == Differs(Line.case, Ignored(1 .. at[2]))

Judge ==
  /\ Running /\ step = JudgeStep
  /\ failures' = failures + ErrorCount
  /\ wrong' = (wrong \/ Mismatches > 0)
  /\ step' = 0 /\ Advance
  /\ UNCHANGED <<files, tf, board, chip, edges, clockFailed, cut, exit>>

\* A command that fails has been carried out or not, and ends the program; but
\* nobody looks at what the pulse of the clock returns.
CommandFails ==
  /\ Faults /\ Running /\ step \in 1 .. 13 /\ step # ClockStep
  /\ board' \in {board, Effect(step)}
  /\ exit' = "2"
  /\ UNCHANGED <<files, at, tf, step, chip, edges, clockFailed, failures, wrong, cut>>

ClockFails ==
  /\ Faults /\ Running /\ step = ClockStep /\ tf.clockPin # 0
  /\ edges' \in {0, 1} /\ clockFailed' = TRUE
  /\ chip' \in ChipOutputs
  /\ step' = step + 1
  /\ UNCHANGED <<files, at, tf, board, failures, wrong, cut, exit>>

\* The next file, or the end.  Scan() also returns false when the file cannot be
\* read any further; scan() does not ask which it was.
EndOfFile ==
  /\ InScan
  /\ \/ at[2] > Len(files[at[1]]) /\ UNCHANGED cut
     \/ Faults /\ at[2] <= Len(files[at[1]]) /\ cut' = TRUE
  /\ at' = <<at[1] + 1, 1>> /\ tf' = NoTestFile
  /\ exit' = IF at[1] < Len(files) THEN exit ELSE IF failures = 0 THEN "0" ELSE "3"
  /\ UNCHANGED <<files, step, board, chip, edges, clockFailed, failures, wrong>>

\* The next file cannot be opened.
OpenFails ==
  /\ Faults /\ InScan /\ at[2] = 1
  /\ exit' = "2"
  /\ UNCHANGED <<files, at, tf, step, board, chip, edges, clockFailed, failures, wrong, cut>>

Next == SkipLine \/ Socket \/ Vector \/ Command \/ Clock \/ Judge \/ CommandFails
        \/ ClockFails \/ EndOfFile \/ OpenFails

Spec == Init /\ [][Next]_vars

-----------------------------------------------------------------------------
(* Properties.  A vector's `case` is the test case it was written for: two *)
(* operands a and b, the bits of the control pins, whether it is clocked,  *)
(* the result f and the flags.                                             *)

BitOf(b, i) == (b \div 2^i) % 2

\* applyPLCC() with nanoSetRegister(): from the moment the outputs are sampled
\* until they are judged, whatever the vectors before have left behind, every
\* input pin of the chip has the value its test case gives it, by the wiring in
\* the comments of vector.go; the output enables in U10 are low; and the clock
\* has had one pulse if the test is clocked, unless the command for it failed.
AppliedAsWritten ==
  (Running /\ step \in 8 .. JudgeStep) =>
    LET case == Line.case
        out == board.out
    IN /\ out[4] + 256 * out[5] = case.a
       /\ out[3] + 256 * out[2] = case.b
       /\ \A pin \in 25 .. 27 : BitOf(out[6], 27 - pin) = case.ctl[pin]
       /\ \A pin \in 44 .. 48 : BitOf(out[6], pin - 41) = case.ctl[pin]
       /\ \A pin \in 49 .. 52 : BitOf(out[10], 52 - pin) = case.ctl[pin]
       /\ out[10] < 16
       /\ clockFailed \/ edges = (IF case.clocked THEN 1 ELSE 0)

\* The end of applyPLCC(): the failures counted for a vector are the outputs in
\* which the chip differs from the test case, F counting once, except for flags
\* that this vector or an earlier one of the file has marked X.
JudgedAsWritten == (Running /\ step = JudgeStep) => ErrorCount = Mismatches

\* submain() and scan(): over all the vectors of all the files, the exit code is
\* 3 exactly if the chip has given something that a vector does not allow.
ExitTruthful == exit \in {"0", "3"} => (exit = "3" <=> wrong)

\* utils/testfile.go: "The bit vectors are cleared (dropped) and recreated per
\* test vector within the file", so that a vector is judged by its own tokens.
JudgedByItself ==
  (Running /\ step = JudgeStep) =>
    ErrorCount = Differs(Line.case, Ignored({at[2]}))
================================================================================
