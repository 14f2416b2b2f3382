---------------------------------- MODULE MCWut4 ----------------------------------
(***************************************************************************)
(* Programs for the emulator.  The MMUs are zero after reset, so that both *)
(* modes see the first page of physical memory: the kernel's code starts   *)
(* at 0, its vectors are the even addresses below 64, the user's code is   *)
(* at 63.                                                                  *)
(***************************************************************************)
EXTENDS Wut4Claims, Sequences, TLC

\* The words of a sequence at consecutive addresses.
At(addr, words) == [a \in addr .. addr + Len(words) - 1 |-> words[a - addr + 1]]

One(seqs) == {s[1] : s \in seqs}

\* Words of every class and opcode, with a few operands each.
Ordinary == One(
  {A!ImmOp(op, ra, rb, imm) : op \in {0, 1, 2, 3, 5}, ra \in {0, 2}, rb \in {0, 1},
                              imm \in {0, 1, -1}}
  \cup {A!ImmOp(4, ra, 1, 0) : ra \in {0, 1}}
  \cup {A!lui(ra, 1023) : ra \in {0, 3}}
  \cup {A!Xop(x, 2, 1, rc) : x \in 0 .. 6, rc \in {0, 1}}
  \cup {A!Yop(y, ra, rb) : y \in 0 .. 6, ra \in {0, 2}, rb \in {0, 1}}
  \cup {A!Zop(z, 1) : z \in 0 .. 6}
  \cup {A!Vop(v) : v \in 0 .. 7})

Jumps == One(
  {A!jlr(kind, rb, imm) : kind \in 0 .. 3, rb \in {0, 1}, imm \in {0, 31, 32, 33, 62, 63}}
  \cup {A!ImmOp(4, 0, 0, imm) : imm \in {-1, 2}})

\* reset: go to user mode at 63.  Every trap vector halts.
Boot == At(0, A!lsi(1, Irr) \o A!lsi(2, 63) \o A!ssp(2, 1) \o A!rti)
        @@ [a \in Traps |-> A!hlt[1]]

\* In user mode: r1 := k, then the word u, then sys 34.  Faults are handled by
\* the kernel word x followed by rti.
UserImages ==
  {At(63, A!lsi(1, k) \o <<u>> \o A!sys(34)) @@ Boot
   @@ At(16, <<x>>) @@ At(17, A!rti) @@ At(18, <<x>>) @@ At(19, A!rti)
     : k \in {0, 1, 2, 4, 8, 17, 25, 32, 63}, u \in Ordinary,
       x \in One({A!nop, A!hlt, A!die, A!jsrReg(1), A!adi(2, 0, 5)})}
  \cup
  {At(63, A!lsi(1, k) \o <<u>> \o A!sys(34)) @@ Boot @@ At(16, A!hlt) @@ At(18, A!hlt)
     : k \in {0, 1, 63}, u \in Jumps}

\* In kernel mode from reset: r1 := k and r2 := v, then the words w and x.
KernImages ==
  {At(0, A!lsi(1, k) \o A!ldi(2, v) \o <<w, x>> \o A!hlt) @@ At(16, A!hlt)
   @@ At(18, A!hlt) @@ [a \in Traps |-> A!hlt[1]]
     : k \in 0 .. 63, v \in {0, 1, 16, 192},
       w \in One({A!ssp(2, 1), A!lsp(2, 1), A!ldw(2, 1, 0), A!stb(2, 1, 63), A!ei}),
       x \in One({A!ldw(2, 1, -1), A!ldb(2, 0, 1), A!hlt, A!die, A!sys(34), A!rtl,
                  A!jlr(1, 1, 5), A!brk, A!rti})}

MCImages == UserImages \cup KernImages

\* For the debugger: loops in kernel and in user mode, a user program that
\* faults and is resumed for ever, and programs that halt or double fault.
DebugImages ==
  {At(0, A!beq(0, 0, 0, 0)),
   At(63, A!beq(0, 0, 63, 63)) @@ Boot,
   At(63, A!die \o A!beq(0, 0, 63, 64)) @@ At(16, A!rti) @@ Boot,
   At(63, A!sys(40)) @@ At(18, A!hlt) @@ Boot,
   At(0, A!brk \o A!hlt),
   At(0, A!die)}

\* One short kernel program for each claim of Wut4Claims.
ClaimImages ==
  {At(0, A!lsi(1, 48) \o A!ldi(2, 192) \o A!ssp(2, 1) \o A!ldb(3, 0, 0) \o A!hlt),
   At(0, A!lsi(1, 24) \o A!lsp(2, 1) \o A!hlt),
   At(0, A!lsi(1, Imr) \o A!lsi(2, 2) \o A!ssp(2, 1) \o A!rti),
   At(0, A!lsi(1, 16) \o A!lsi(2, 2) \o A!ssp(2, 1) \o A!hlt),
   At(0, A!ldi(1, 65535) \o A!add(2, 1, 1) \o A!hlt),
   At(0, A!ldi(1, 384) \o A!sxt(1) \o A!hlt),
   At(0, A!brk \o A!hlt)}
================================================================================
