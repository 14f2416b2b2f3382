---------------------------------- MODULE Isa ----------------------------------
(***************************************************************************)
(* The WUT-4 instruction word: its fields, the five nested opcode classes  *)
(* and the ALU, as the emulator computes them (emul/util.go, emul/exec.go).*)
(* Everything here is a pure function of 16-bit words.                     *)
(***************************************************************************)
EXTENDS Integers

Word == {n \in Nat : n < 65536}
Byte == {n \in Nat : n < 256}

\* exec.go counts modulo 2^16 because word and uint16 are Go uint16s.
Wrap(n) == n % 65536

\* bits(hi, lo) of util.go, given by the weights of its lowest bit and of the
\* bit above its highest: bits(5, 3) is Field(w, 8, 8).
Field(w, low, size) == (w \div low) % size

Bit(w, weight) == (w \div weight) % 2

-----------------------------------------------------------------------------
(* decode()                                                                *)

OpOf(w) == Field(w, 8192, 8)
XopOf(w) == Field(w, 512, 8)
YopOf(w) == Field(w, 64, 8)
ZopOf(w) == Field(w, 8, 8)
VopOf(w) == Field(w, 1, 8)

\* decode() copies the low three fields to the register selectors.
Ra(w) == VopOf(w)
Rb(w) == ZopOf(w)
Rc(w) == YopOf(w)

IsVop(w) == Field(w, 8, 8192) = 8191
IsZop(w) == ~IsVop(w) /\ Field(w, 64, 1024) = 1023
IsYop(w) == ~IsVop(w) /\ ~IsZop(w) /\ Field(w, 512, 128) = 127
IsXop(w) == ~IsVop(w) /\ ~IsZop(w) /\ ~IsYop(w) /\ Field(w, 4096, 16) = 15
IsBase(w) == ~IsVop(w) /\ ~IsZop(w) /\ ~IsYop(w) /\ ~IsXop(w)

\* sxtImm(): the 7-bit immediate of the loads, stores, beq and adi is sign
\* extended, that of lui is its ten bits moved to the top, that of jlr is
\* positive; words from 16_F000 up have none.
Imm(w) ==
  LET imm7 == Field(w, 64, 128)
      neg == Bit(w, 4096) = 1
  IN  IF OpOf(w) < 6 THEN (IF neg THEN imm7 + 65408 ELSE imm7)
      ELSE IF OpOf(w) = 6 THEN Field(w, 8, 1024) * 64
      ELSE IF ~neg THEN imm7 ELSE 0

-----------------------------------------------------------------------------
(* alu3(): the three-operand operations.                                   *)

\* Go's a &^ b.
BitClear(a, b) ==
  LET bit(k) == IF Bit(a, k) = 1 /\ Bit(b, k) = 0 THEN k ELSE 0
  IN  bit(1) + bit(2) + bit(4) + bit(8) + bit(16) + bit(32) + bit(64)
      + bit(128) + bit(256) + bit(512) + bit(1024) + bit(2048) + bit(4096)
      + bit(8192) + bit(16384) + bit(32768)

\* The sums are formed in uint16 before they are widened to uint32, so bit 16
\* of "full" is never set and the carry that alu3 derives from it is always 0.
Alu3(xop, rs1, rs2, hc) ==
  CASE xop = 0 -> Wrap(rs2 + rs1)
    [] xop = 1 -> Wrap(rs2 + rs1 + hc)
    [] xop = 2 -> Wrap(rs2 - rs1)
    [] xop = 3 -> Wrap(rs2 - rs1 - hc)
    [] xop = 4 -> BitClear(rs2, rs1)
    [] xop = 5 -> Wrap(BitClear(rs2, rs1) + rs1)
    [] OTHER -> Wrap(BitClear(rs2, rs1) + BitClear(rs1, rs2))

Carry3(xop, rs1, rs2, hc) ==
  CASE xop = 0 -> Field(Wrap(rs2 + rs1), 65536, 2)
    [] xop = 1 -> Field(Wrap(rs2 + rs1 + hc), 65536, 2)
    [] xop = 2 -> Field(Wrap(rs2 - rs1), 65536, 2)
    [] xop = 3 -> Field(Wrap(rs2 - rs1 - hc), 65536, 2)
    [] OTHER -> 0

(* alu1(): the one-operand operations. 2 is swb and 3 is sxt.              *)
Alu1(zop, rs1) ==
  CASE zop = 0 -> 65535 - rs1
    [] zop = 1 -> Wrap(65536 - rs1)
    [] zop = 2 -> (rs1 \div 256) + 256 * (rs1 % 256)
    [] zop = 3 -> (rs1 % 256) + (IF Bit(rs1, 128) = 1 THEN 65280 ELSE 0)
    [] zop = 4 -> rs1 \div 2
    [] zop = 5 -> Wrap(2 * rs1)
    [] OTHER -> (rs1 \div 2) + 32768 * Bit(rs1, 32768)

Carry1(zop, rs1) ==
  CASE zop \in {4, 6} -> Bit(rs1, 1)
    [] zop = 5 -> Bit(rs1, 32768)
    [] OTHER -> 0
================================================================================
