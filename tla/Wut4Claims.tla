------------------------------- MODULE Wut4Claims -------------------------------
(***************************************************************************)
(* What comments and documents of the repository say of the emulator and   *)
(* the emulator does not do.  Each is refuted by a run of its own.         *)
(***************************************************************************)
EXTENDS Wut4History

A == INSTANCE Asm

\* "Prevent the emulator from crashing if the emulated code accesses past the
\* end of physmem" (emul/util.go, in translate): no program makes an index
\* into physmem run out of range.
InsidePhysmem == panic # "physmem index"

\* "All the cases should have been handled, so this should not be reachable"
\* (emul/exec.go, in loadSpecial): the assertion there never fails.
LoadSpecialTotal == panic # "missing case in loadSpecial"

\* "hidden carry bit, 1 or 0" (emul/emul.go): after add it is the carry out of
\* the sixteen-bit sum, for adc to use.
AddSetsCarry ==
  [][stage = "execute" /\ w4.ex = ExNone /\ IsXop(w4.ir) /\ XopOf(w4.ir) = 0
       => w4'.hc = (Gen(Rb(w4.ir)) + Gen(Rc(w4.ir))) \div 65536]_vars

\* "sxt {ra: reg} => ... 0b010" (asm/asm): the word the assembler emits for sxt
\* makes the emulator extend the sign of the low byte.
SxtExtendsSign ==
  [][\A r \in 0 .. 7 :
       stage = "execute" /\ w4.ex = ExNone /\ w4.ir = A!sxt(r)[1]
         => w4'.alu = (Gen(r) % 256) + (IF Gen(r) % 256 >= 128 THEN 65280 ELSE 0)]_vars

\* "Execution of the brk instruction in WUT-4 code turns on the debug flag"
\* (emul/README.md).
BrkTurnsDebugOn ==
  [][stage = "execute" /\ w4.ex = ExNone /\ Vop(5) /\ w4.mode = Kern
       => dbEnabled']_vars
================================================================================
