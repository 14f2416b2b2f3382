---------------------------------- MODULE Itf ----------------------------------
(***************************************************************************)
(* The round trip test (itf/itf.go): a source is assembled, the binary is  *)
(* disassembled by dsm -q, the listing is assembled again, and the two     *)
(* binaries are compared.  It composes the assembler's rules (Asm) with    *)
(* the disassembler (Dsm), whose passes go over the file word by word.     *)
(*                                                                         *)
(* A source or a listing is a sequence of lines as in Dsm; a binary is a   *)
(* sequence of words.  The 128 KiB to which the code section is filled up  *)
(* when there is a data section are one zero word here.                    *)
(***************************************************************************)
EXTENDS Dsm, SequencesExt

CONSTANTS Sources,   \* the assembler sources to test
          ReadFails  \* whether reading the binary may fail

A == INSTANCE Asm
Isa == INSTANCE Isa

VARIABLES pc,        \* where main() is, and within it the pass of disassemble()
          source, bin, listing, out2,   \* the files
          at, prevInst,                 \* of forEachInst()
          readError                     \* history: a read has failed

vars == <<pc, source, bin, listing, out2, at, prevInst, readError>>

-----------------------------------------------------------------------------
(* The assembler: the encodings of a line, none if no rule accepts it.     *)

Base == [ldw |-> 0, ldb |-> 1, stw |-> 2, stb |-> 3, adi |-> 5]
Xops == [add |-> 0, adc |-> 1, sub |-> 2, sbb |-> 3, bic |-> 4, bis |-> 5, xor |-> 6]
Yops == [lsp |-> 0, lio |-> 1, ssp |-> 2, sio |-> 3, y04 |-> 4, y05 |-> 5, y06 |-> 6]
Zops == [not |-> 0, neg |-> 1, sxt |-> 2, swb |-> 3, lsr |-> 4, lsl |-> 5, asr |-> 6]
Vops == [rti |-> 0, rtl |-> 1, di |-> 2, ei |-> 3, hlt |-> 4, brk |-> 5, v06 |-> 6, die |-> 7]
Imm6 == -32 .. 63

Rule(name, a, here) ==
  CASE name \in DOMAIN Base /\ Len(a) = 3 /\ a[3] \in -64 .. 127
         -> {A!ImmOp(Base[name], a[1], a[2], a[3])}
    [] name = "beq" /\ Len(a) = 3 -> {A!beq(a[1], a[2], a[3], here)}
    [] name = "lui" /\ Len(a) = 2 /\ a[2] \in -512 .. 1023 -> {A!lui(a[1], a[2])}
    [] name \in DOMAIN Xops /\ Len(a) = 3 -> {A!Xop(Xops[name], a[1], a[2], a[3])}
    [] name \in DOMAIN Yops /\ Len(a) = 2 -> {A!Yop(Yops[name], a[1], a[2])}
    [] name \in DOMAIN Zops /\ Len(a) = 1 -> {A!Zop(Zops[name], a[1])}
    [] name \in DOMAIN Vops /\ a = <<>> -> {A!Vop(Vops[name])}
    [] name = "lli" /\ Len(a) = 2 /\ a[2] \in Imm6 -> {A!lli(a[1], a[2])}
    [] name = "ldi" /\ Len(a) = 2 /\ a[2] >= 0 -> {A!ldi(a[1], a[2])}
    [] name = "lsi" /\ Len(a) = 2 /\ a[2] \in Imm6 -> {A!lsi(a[1], a[2])}
    [] name = "nop" /\ a = <<>> -> {A!nop}
    [] name = "sys" /\ Len(a) = 1 /\ a[1] \in 0 .. 63 /\ a[1] % 2 = 0 -> {A!sys(a[1])}
    [] name = "jsr" /\ Len(a) = 2 /\ a[1] # 0 -> {A!jsr(a[1], a[2])}
    [] name = "jsr" /\ Len(a) = 1 /\ a[1] # 0 -> {A!jsrReg(a[1])}
    [] name = "jmp" /\ Len(a) = 2 /\ a[1] # 0 -> {A!jmp(a[1], a[2])}
    [] name = "jmp" /\ Len(a) = 1 /\ a[1] # 0 -> {A!jmpReg(a[1])}
    [] name = "ior" /\ a[3] \in Imm6 -> {A!ior(a[1], a[2], a[3])}
    [] name = "iow" /\ a[3] \in Imm6 -> {A!iow(a[1], a[2], a[3])}
    [] name = "srr" /\ a[3] \in Imm6 -> {A!srr(a[1], a[2], a[3])}
    [] name = "srw" /\ a[3] \in Imm6 -> {A!srw(a[1], a[2], a[3])}
    [] name = "#d16" -> {a}            \* a word written as such
    [] name = "#bank data" -> {<<0>> \o a}
    [] OTHER -> {}

Accepts(lines) == \A i \in DOMAIN lines : Rule(lines[i][1], lines[i][2], 0) # {}

Assembled(lines) ==
  FoldLeft(LAMBDA words, line :
             words \o (CHOOSE w \in Rule(line[1], line[2], Len(words)) : TRUE),
           <<>>, lines)

-----------------------------------------------------------------------------
Init ==
  /\ pc = "assemble" /\ source \in Sources
  /\ bin = <<>> /\ listing = <<>> /\ out2 = <<>>
  /\ at = 0 /\ prevInst = 0 /\ readError = FALSE

Assemble ==
  /\ pc = "assemble"
  /\ IF Accepts(source) THEN pc' = "pass1" /\ bin' = Assembled(source)
                        ELSE pc' = "fatal" /\ UNCHANGED bin
  /\ UNCHANGED <<source, listing, out2, at, prevInst, readError>>

\* forEachInst() goes on: neither at the end of the file nor at a zero word.
More == at < 65536 /\ at < Len(bin) /\ bin[at + 1] # 0

\* One call of op().
Step(pass, result) ==
  /\ pc = pass /\ More
  /\ listing' = result
  /\ at' = at + 1 /\ prevInst' = bin[at + 1]
  /\ UNCHANGED <<pc, source, bin, out2, readError>>

Pass1 == Step("pass1", Append(listing, decode(bin[at + 1], at)))

\* A first pass that was cut short has left the list too short for the second,
\* which panics where it replaces a line that is not there.
TooShort ==
  /\ pc = "pass2" /\ More /\ at >= Len(listing)
  /\ LET long == listing \o [i \in 1 .. at + 1 - Len(listing) |-> Hidden]
     IN condense(at, prevInst, bin[at + 1], long) # long

Pass2 == ~TooShort /\ Step("pass2", condense(at, prevInst, bin[at + 1], listing))

Pass2Panics ==
  /\ TooShort
  /\ pc' = "fatal"
  /\ UNCHANGED <<source, bin, listing, out2, at, prevInst, readError>>

\* forEachInst() returns, and what it returns is not looked at.  After the last
\* pass the lines that are not empty are printed.
EndPass(failed) ==
  /\ pc \in {"pass1", "pass2"}
  /\ pc' = IF pc = "pass1" THEN "pass2" ELSE "reassemble"
  /\ listing' = IF pc = "pass1" THEN listing
                ELSE SelectSeq(listing, LAMBDA line : line # Hidden)
  /\ at' = 0 /\ prevInst' = 0
  /\ readError' = (readError \/ failed)
  /\ UNCHANGED <<source, bin, out2>>

PassDone == ~More /\ EndPass(FALSE)
ReadError == ReadFails /\ More /\ EndPass(TRUE)

Reassemble ==
  /\ pc = "reassemble"
  /\ IF Accepts(listing) THEN pc' = "compare" /\ out2' = Assembled(listing)
                         ELSE pc' = "fatal" /\ UNCHANGED out2
  /\ UNCHANGED <<source, bin, listing, at, prevInst, readError>>

runCompare ==
  /\ pc = "compare"
  /\ pc' = IF bin = out2 THEN "passed" ELSE "fatal"
  /\ UNCHANGED <<source, bin, listing, out2, at, prevInst, readError>>

Next == Assemble \/ Pass1 \/ Pass2 \/ Pass2Panics \/ PassDone \/ ReadError \/ Reassemble
        \/ runCompare

Spec == Init /\ [][Next]_vars

-----------------------------------------------------------------------------
(* Properties.                                                             *)

\* The words of a binary that its listing cannot carry: a zero, which ends the
\* disassembly; the two spare instructions the table has wrongly; an immediate
\* add after the lui of another register, taken for an ldi; and a jlr the
\* assembler has no way to write.
Lost(b, k) ==
  LET w == b[k]
      ra == bits(w, 2, 0)
      rb == bits(w, 5, 3)
      lui(r) == k > 1 /\ LuiSeen(b[k - 1]) /\ bits(b[k - 1], 2, 0) = r
  IN \/ w = 0
     \/ bits(w, 15, 6) \in {1021, 1022}
     \/ IsLli(w) /\ bits(w, 12, 12) = 0 /\ k > 1 /\ LuiSeen(b[k - 1]) /\ ~lui(ra)
     \/ IsJlr(w) /\ ra > 2
     \/ IsJlr(w) /\ ra = 0 /\ (rb # 0 \/ bits(w, 6, 6) = 1)
     \/ IsJlr(w) /\ ra \in {1, 2} /\ (rb = 0 \/ ~(lui(rb) \/ bits(w, 11, 6) = 0))

\* main() of itf.go: unless a read of the binary fails, the test passes exactly
\* for the programs none of whose words are lost.
RoundTrip ==
  (pc \in {"passed", "fatal"} /\ ~readError /\ Accepts(source))
    => (pc = "passed" <=> \A k \in DOMAIN bin : ~Lost(bin, k))

\* condense() replaces lines while the list is gone through, and hides some: at
\* every moment each line that is not hidden stands for the words that end at its
\* place, so that what is printed is assembled again at the address it came from,
\* and the targets of the branches after it stay right.
Width(line) == IF line = Hidden THEN 0
               ELSE IF line[1] = "ldi" \/ (line[1] \in {"jsr", "jmp"} /\ Len(line[2]) = 2)
                    THEN 2 ELSE 1

AddressesKept ==
  pc \in {"pass1", "pass2"} =>
    \A k \in DOMAIN listing :
      listing[k] # Hidden =>
        FoldLeft(LAMBDA n, line : n + Width(line), 0, SubSeq(listing, 1, k)) = k

\* dsm.go, decode(): "We don't want to emit the branch *offset* into the
\* disassembly, we want the *target*": the target the emulator would go to.
BranchTargetShown ==
  pc = "pass2" =>
    \A k \in DOMAIN listing :
      listing[k][1] = "beq" => listing[k][2][3] = Isa!Wrap(k + Isa!Imm(bin[k]))
================================================================================
