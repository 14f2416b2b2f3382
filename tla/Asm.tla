---------------------------------- MODULE Asm ----------------------------------
(***************************************************************************)
(* The assembler's rule set (asm/asm): what each mnemonic is encoded as.   *)
(* A rule gives the sequence of words it emits, one word or two.  The      *)
(* rules are read by the customasm program, which puts the bit fields of a *)
(* rule side by side and keeps the low bits of a negative immediate.       *)
(***************************************************************************)
EXTENDS Integers, Sequences

Reg == 0 .. 7

\* op @ imm7 @ rb @ ra
ImmOp(op, ra, rb, imm) == <<op * 8192 + (imm % 128) * 64 + rb * 8 + ra>>

ldw(ra, rb, imm) == ImmOp(0, ra, rb, imm)
ldb(ra, rb, imm) == ImmOp(1, ra, rb, imm)
stw(ra, rb, imm) == ImmOp(2, ra, rb, imm)
stb(ra, rb, imm) == ImmOp(3, ra, rb, imm)
beq(ra, rb, adr, here) == ImmOp(4, ra, rb, adr - here - 1)
adi(ra, rb, imm) == ImmOp(5, ra, rb, imm)
lui(ra, imm) == <<6 * 8192 + (imm % 1024) * 8 + ra>>

\* 0xF @ xop @ rc @ rb @ ra
Xop(xop, ra, rb, rc) == <<61440 + xop * 512 + rc * 64 + rb * 8 + ra>>

add(ra, rb, rc) == Xop(0, ra, rb, rc)
adc(ra, rb, rc) == Xop(1, ra, rb, rc)
sub(ra, rb, rc) == Xop(2, ra, rb, rc)
sbb(ra, rb, rc) == Xop(3, ra, rb, rc)
bic(ra, rb, rc) == Xop(4, ra, rb, rc)
bis(ra, rb, rc) == Xop(5, ra, rb, rc)
xor(ra, rb, rc) == Xop(6, ra, rb, rc)

\* 0xF @ 0b111 @ yop @ rb @ ra
Yop(yop, ra, rb) == Xop(7, ra, rb, yop)

lsp(ra, rb) == Yop(0, ra, rb)
lio(ra, rb) == Yop(1, ra, rb)
ssp(ra, rb) == Yop(2, ra, rb)
sio(ra, rb) == Yop(3, ra, rb)
y04(ra, rb) == Yop(4, ra, rb)
y05(ra, rb) == Yop(5, ra, rb)
y06(ra, rb) == Yop(6, ra, rb)

\* 0xF @ 0b111 @ 0b111 @ zop @ ra
Zop(zop, ra) == Yop(7, ra, zop)

not(ra) == Zop(0, ra)
neg(ra) == Zop(1, ra)
sxt(ra) == Zop(2, ra)
swb(ra) == Zop(3, ra)
lsr(ra) == Zop(4, ra)
lsl(ra) == Zop(5, ra)
asr(ra) == Zop(6, ra)

\* 0xF @ 0b111 @ 0b111 @ 0b111 @ vop
Vop(vop) == Zop(7, vop)

rti == Vop(0)
rtl == Vop(1)
di == Vop(2)
ei == Vop(3)
hlt == Vop(4)
brk == Vop(5)
v06 == Vop(6)
die == Vop(7)

-----------------------------------------------------------------------------
(* Aliases                                                                 *)

upper(imm) == (imm \div 64) % 1024
lower(imm) == imm % 64

lli(ra, imm) == adi(ra, ra, imm)
ldi(ra, imm) == lui(ra, upper(imm)) \o adi(ra, ra, lower(imm))
lsi(ra, imm) == adi(ra, 0, imm)
nop == neg(0)

\* 0b111_0 @ imm6 @ rb @ ra; the kind of jlr is in the rA field.
jlr(kind, rb, imm) == <<57344 + (imm % 64) * 64 + rb * 8 + kind>>

sys(imm) == jlr(0, 0, imm)
jsr(rb, imm) == lui(rb, upper(imm)) \o jlr(1, rb, lower(imm))
jsrReg(rb) == jlr(1, rb, 0)
jmp(rb, imm) == lui(rb, upper(imm)) \o jlr(2, rb, lower(imm))
jmpReg(rb) == jlr(2, rb, 0)

ior(ra, rb, imm) == lli(rb, imm) \o lio(ra, rb)
iow(ra, rb, imm) == lli(rb, imm) \o sio(ra, rb)
srr(ra, rb, imm) == lli(rb, imm) \o lsp(ra, rb)
srw(ra, rb, imm) == lli(rb, imm) \o ssp(ra, rb)
================================================================================
