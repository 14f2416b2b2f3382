--------------------------------- MODULE Ports ---------------------------------
(***************************************************************************)
(* The registers of the chip exerciser as the firmware drives them         *)
(* (exer/fw/port_utils.h).  The state p is a record: the byte on the data  *)
(* port, the output registers, the input registers by the id that reads    *)
(* them, and the chip in the socket, here a counter of TSTCLK pulses.      *)
(***************************************************************************)
EXTENDS Integers

CONSTANTS
  ChipMod,  \* the chip in the socket counts modulo this
  Floating  \* what the data port reads when no register drives it

RI_TSTCLK == 8
RI_U10_CLK == 10

Outputs == {2, 3, 4, 5, 6, RI_U10_CLK}

\* The id that reads an input register, by the id that clocks it.
InputOf == [i \in {0, 7, 11} |-> CASE i = 0 -> 1 [] i = 7 -> 9 [] i = 11 -> 12]
Inputs == {1, 9, 12}

reverse_byte(b) ==
  LET bit(weight) == (b \div weight) % 2
  IN  bit(1) * 128 + bit(2) * 64 + bit(4) * 32 + bit(8) * 16
      + bit(16) * 8 + bit(32) * 4 + bit(64) * 2 + bit(128)

\* The decoder output that getAddressFromRegisterID() and
\* getDecoderSelectPinFromRegisterID() select: bits 2:0 and bit 3 of the id.
Line(reg) == reg % 16

\* What the hardware does when a decoder output goes low and high again while
\* the given byte is on the bus.
Pulsed(p, line, bus) ==
  IF line \in Outputs THEN [p EXCEPT !.out[line] = bus]
  ELSE IF line \in DOMAIN InputOf THEN [p EXCEPT !.in[InputOf[line]] = p.chip]
  ELSE IF line = RI_TSTCLK THEN [p EXCEPT !.chip = (@ + 1) % ChipMod]
  ELSE p

nanoTogglePulse(p, reg) == Pulsed(p, Line(reg), p.data)

\* stPulse()'s loop of count calls.  Only on the clock of the chip does a second
\* pulse do more than the first.
Toggled(p, reg, count) ==
  IF count = 0 THEN p
  ELSE IF Line(reg) = RI_TSTCLK THEN [p EXCEPT !.chip = (@ + count) % ChipMod]
  ELSE nanoTogglePulse(p, reg)

\* The low half of U10 holds output enables and stays low; U10 is wired in
\* reverse.  Both tests look at all the bits of the id.
nanoSetRegister(p, reg, data) ==
  LET byte == IF reg = RI_U10_CLK THEN reverse_byte((data \div 16) * 16) ELSE data
  IN  nanoTogglePulse([p EXCEPT !.data = byte], reg)

\* The byte that is read, and the registers afterwards: selecting an output
\* register's id clocks it although nothing drives the bus.
GetValue(p, reg) == IF Line(reg) \in Inputs THEN p.in[Line(reg)] ELSE Floating

nanoGetRegister(p, reg) == Pulsed(p, Line(reg), GetValue(p, reg))

\* The registers power up with anything in them, here zeros; the self test
\* calls nanoSetRegister(RI_U10_CLK, 0xFF).
PowerUp == [data |-> 0, out |-> [i \in Outputs |-> 0], in |-> [i \in Inputs |-> 0],
            chip |-> 0]

callAfterPostInit(p) == nanoSetRegister(p, RI_U10_CLK, 255)
================================================================================
