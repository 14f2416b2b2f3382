---------------------------------- MODULE Wut4 ----------------------------------
(***************************************************************************)
(* The WUT-4 functional emulator: simulate()'s loop, the five stages of a  *)
(* machine cycle, the two modes with their registers and MMUs, exceptions  *)
(* and double faults, and the debugger prompt with the goroutine that      *)
(* turns it on (emul/emul.go, emul/exec.go, emul/util.go).                 *)
(*                                                                         *)
(* The record w4 is the w4machine struct; its fields have the struct's     *)
(* names.  The combinational fields that decode() sets are functions of    *)
(* w4.ir, in module Isa, so decode() is no step of its own.                *)
(***************************************************************************)
EXTENDS Isa

CONSTANTS
  PhysMemSize,  \* words of physical memory; 6 * 64 * K in the code
  Images,       \* the memories load() may have left: functions from the
                \* addresses of the nonzero words to their values
  dflag,        \* -d: start in the debugger
  qflag,        \* -q: no register dump at the end
  Sigints,      \* whether the user may press ^C
  CycMod        \* the cycle counter counts modulo this; 2^64 in the code

ASSUME ConstantsAssumption ==
  /\ PhysMemSize \in Nat \ {0}
  /\ \A m \in Images : /\ DOMAIN m \subseteq 0 .. PhysMemSize - 1
                       /\ \A a \in DOMAIN m : m[a] \in Word
  /\ {dflag, qflag, Sigints} \subseteq BOOLEAN
  /\ CycMod \in Nat \ {0}

VARIABLES
  w4,         \* the machine
  physmem,    \* physical memory; words outside its domain are zero
  dbEnabled,  \* the flag the debugger and the signal goroutine share
  stage,      \* where simulate() is
  panic       \* what ended the emulator process abnormally, if anything did

vars == <<w4, physmem, dbEnabled, stage, panic>>

Kern == 0
User == 1
Modes == {Kern, User}

Link == 1
Irr == 2
Icr == 3
Imr == 4
CCLS == 6
CCMS == 7
MmuCtl1 == 8

ExNone == 0
ExIllegal == 16
ExMemory == 18
Traps == {e \in 32 .. 62 : e % 2 = 0}

Stages == {"start", "fetch", "execute", "memory", "writeback", "check",
           "prompt", "exit", "stopped", "crashed"}

Panics == {"none", "double fault in fetch", "physmem index", "mode index",
           "decode failure", "missing case in loadSpecial"}

Gen(r) == w4.gen[w4.mode][r]

Peek(a) == IF a \in DOMAIN physmem THEN physmem[a] ELSE 0

\* Go on with machine m at the given stage.
Go(m, next) == w4' = m /\ stage' = next /\ UNCHANGED panic

\* The Go runtime or an assert ends the process.
Panic(p) == panic' = p /\ stage' = "crashed" /\ UNCHANGED w4

Raise(e) == [w4 EXCEPT !.ex = e]

\* translate(): 16 MMU entries for code, then 16 for data, of the given mode.
Translate(m, isData, va) ==
  LET entry == m.spr[m.mode][(IF isData THEN 48 ELSE 32) + (va \div 4096)]
      result == (entry % 4096) * 4096 + (va % 4096)
  IN  IF isData THEN result \div 2 ELSE result

\* The test by which translate() reports ExMemory.
Faults(addr) == addr > PhysMemSize

\* What an access to physmem[addr] needs in order not to panic.
InBounds(addr) == addr < PhysMemSize

-----------------------------------------------------------------------------
(* reset() and the head of the loop                                        *)

NoGen == [r \in 0 .. 7 |-> 0]
NoSpr == [r \in 0 .. 63 |-> 0]

Init ==
  /\ w4 = [cyc |-> 0, pc |-> 0, run |-> TRUE, en |-> FALSE, mode |-> Kern,
           ex |-> ExNone, ir |-> 0, alu |-> 0, sd |-> 0, wb |-> 0, hc |-> 0,
           gen |-> [m \in Modes |-> NoGen],
           spr |-> [m \in Modes |->
                      IF m = Kern THEN [NoSpr EXCEPT ![Imr] = User] ELSE NoSpr]]
  /\ physmem \in Images
  /\ dbEnabled = dflag
  /\ stage = "start"
  /\ panic = "none"

\* Mutant: the loop forgets to test run.
LoopHeadIgnoresRun(m) == Go([m EXCEPT !.cyc = (@ + 1) % CycMod], "fetch")

\* The for statement: count the cycle, then run it or leave the loop.
LoopHead(m) ==
  Go([m EXCEPT !.cyc = (@ + 1) % CycMod], IF m.run THEN "fetch" ELSE "exit")

\* dump() indexes physmem for the row of code at pc, even when pc does not
\* translate, and for the row of data at 0, only when 0 translates.
DumpInBounds(m) ==
  LET code == Translate(m, FALSE, m.pc)
      data == Translate(m, TRUE, 0)
  IN  /\ InBounds(code - (code % 8) + 7)
      /\ Faults(data) \/ InBounds(data + 7)

\* dump() and then prompt(), where the emulator waits for a command.
EnterPrompt ==
  IF DumpInBounds(w4) THEN Go(w4, "prompt") ELSE Panic("physmem index")

Start ==
  /\ stage = "start"
  /\ IF dbEnabled THEN EnterPrompt ELSE LoopHead(w4)
  /\ UNCHANGED <<physmem, dbEnabled>>

-----------------------------------------------------------------------------
(* fetch()                                                                 *)

\* Mutant: the kernel is entered with exceptions still enabled.
TakeExceptionKeepsEn ==
  IF w4.ex = ExNone THEN w4
  ELSE [w4 EXCEPT !.spr[Kern] = [@ EXCEPT ![Irr] = w4.pc, ![Icr] = w4.ex,
                                          ![Imr] = w4.mode],
                  !.mode = Kern, !.pc = w4.ex, !.ex = ExNone]


\* An exception left by the previous cycle enters the kernel at its vector.
TakeException ==
  IF w4.ex = ExNone THEN w4
  ELSE [w4 EXCEPT !.spr[Kern] = [@ EXCEPT ![Irr] = w4.pc, ![Icr] = w4.ex,
                                          ![Imr] = w4.mode],
                  !.mode = Kern, !.pc = w4.ex, !.en = FALSE, !.ex = ExNone]

Fetch ==
  /\ stage = "fetch"
  /\ IF w4.ex # ExNone /\ ~w4.en THEN Panic("double fault in fetch")
     ELSE LET m == TakeException
              addr == Translate(m, FALSE, m.pc)
          IN  IF Faults(addr) THEN Go([m EXCEPT !.ex = ExMemory], "execute")
              ELSE IF ~InBounds(addr) THEN Panic("physmem index")
              ELSE Go([m EXCEPT !.ir = Peek(addr), !.pc = Wrap(@ + 1)], "execute")
  /\ UNCHANGED <<physmem, dbEnabled>>

-----------------------------------------------------------------------------
(* execute(): one action per entry of baseops, yops and vops               *)

Executing(class) ==
  /\ stage = "execute"
  /\ w4.ex = ExNone
  /\ class
  /\ UNCHANGED <<physmem, dbEnabled>>

Base(op) == IsBase(w4.ir) /\ OpOf(w4.ir) = op
Yop(op) == IsYop(w4.ir) /\ YopOf(w4.ir) = op
Vop(op) == IsVop(w4.ir) /\ VopOf(w4.ir) = op

\* Mutant: the sum is kept in more than sixteen bits.
SumUnwrapped == Gen(Rb(w4.ir)) + Imm(w4.ir)

\* rB plus the immediate: the address of a load or store and the sum of adi.
Sum == Wrap(Gen(Rb(w4.ir)) + Imm(w4.ir))

Ldw ==
  /\ Executing(Base(0))
  /\ Go(IF w4.ir = 0 THEN Raise(ExIllegal) ELSE [w4 EXCEPT !.alu = Sum], "memory")

Ldb ==
  /\ Executing(Base(1))
  /\ Go([w4 EXCEPT !.alu = Sum], "memory")

\* stw and stb.
Store ==
  /\ Executing(Base(2) \/ Base(3))
  /\ Go([w4 EXCEPT !.alu = Sum, !.sd = Gen(Ra(w4.ir))], "memory")

Beq ==
  /\ Executing(Base(4))
  /\ Go(IF Gen(Rb(w4.ir)) = Gen(Ra(w4.ir))
        THEN [w4 EXCEPT !.pc = Wrap(@ + Imm(w4.ir))] ELSE w4, "memory")

Adi ==
  /\ Executing(Base(5))
  /\ Go([w4 EXCEPT !.alu = Sum], "memory")

Lui ==
  /\ Executing(Base(6))
  /\ Go([w4 EXCEPT !.alu = Imm(w4.ir)], "memory")

\* jlr: system trap, jump and link, or jump, by the rA field.
Jlr ==
  /\ Executing(Base(7))
  /\ IF Field(w4.ir, 4096, 16) # 14 THEN Panic("decode failure")
     ELSE Go(CASE Ra(w4.ir) = 0 ->
                    Raise(IF Rb(w4.ir) = 0 /\ Imm(w4.ir) \in Traps
                          THEN Imm(w4.ir) ELSE ExIllegal)
               [] Ra(w4.ir) = 1 ->
                    [w4 EXCEPT !.spr[w4.mode][Link] = w4.pc, !.pc = Sum]
               [] Ra(w4.ir) = 2 -> [w4 EXCEPT !.pc = Sum]
               [] OTHER -> Raise(ExIllegal), "memory")

Xops ==
  /\ Executing(IsXop(w4.ir))
  /\ LET xop == XopOf(w4.ir)
         rs1 == Gen(Rb(w4.ir))
         rs2 == Gen(Rc(w4.ir))
     IN  IF xop = 7 THEN Panic("decode failure")
         ELSE Go([w4 EXCEPT !.alu = Alu3(xop, rs1, rs2, w4.hc),
                            !.hc = Carry3(xop, rs1, rs2, w4.hc)], "memory")

\* lsp and lio pass rB to the alu; ssp and sio also latch rA for the store.
LoadYops ==
  /\ Executing(Yop(0) \/ Yop(1))
  /\ Go([w4 EXCEPT !.alu = Gen(Rb(w4.ir))], "memory")

StoreYops ==
  /\ Executing(Yop(2) \/ Yop(3))
  /\ Go([w4 EXCEPT !.alu = Gen(Rb(w4.ir)), !.sd = Gen(Ra(w4.ir))], "memory")

\* y04, y05 and y06 are illegal; yop 7 would be a zop.
OtherYops ==
  /\ Executing(IsYop(w4.ir) /\ YopOf(w4.ir) > 3)
  /\ IF YopOf(w4.ir) = 7 THEN Panic("decode failure")
     ELSE Go(Raise(ExIllegal), "memory")

Zops ==
  /\ Executing(IsZop(w4.ir))
  /\ LET zop == ZopOf(w4.ir)
         rs1 == Gen(Ra(w4.ir))
     IN  IF zop = 7 THEN Panic("decode failure")
         ELSE Go([w4 EXCEPT !.alu = Alu1(zop, rs1), !.hc = Carry1(zop, rs1)],
                 "memory")

\* The vops that only the kernel may execute begin with this test.
Privileged(m) == IF w4.mode = User THEN Raise(ExIllegal) ELSE m

Rti ==
  /\ Executing(Vop(0))
  /\ Go(Privileged([w4 EXCEPT !.ex = ExNone, !.en = TRUE,
                              !.pc = w4.spr[Kern][Irr], !.spr[Kern][Irr] = 0,
                              !.mode = w4.spr[Kern][Imr] % 256]), "memory")

Rtl ==
  /\ Executing(Vop(1))
  /\ Go([w4 EXCEPT !.pc = w4.spr[w4.mode][Link]], "memory")

\* Mutant: di forgets to test the mode.
DiAnyMode ==
  /\ Executing(Vop(2))
  /\ Go([w4 EXCEPT !.en = FALSE], "memory")

Di ==
  /\ Executing(Vop(2))
  /\ Go(Privileged([w4 EXCEPT !.en = FALSE]), "memory")

Ei ==
  /\ Executing(Vop(3))
  /\ Go(Privileged([w4 EXCEPT !.en = TRUE]), "memory")

\* Mutant: hlt forgets to test the mode.
HltAnyMode ==
  /\ Executing(Vop(4))
  /\ Go([w4 EXCEPT !.run = FALSE], "memory")

Hlt ==
  /\ Executing(Vop(4))
  /\ Go(Privileged([w4 EXCEPT !.run = FALSE]), "memory")

\* brk only calls dump().
Brk ==
  /\ Executing(Vop(5))
  /\ IF w4.mode = User \/ DumpInBounds(w4) THEN Go(Privileged(w4), "memory")
     ELSE Panic("physmem index")

\* v06 and die.
Die ==
  /\ Executing(Vop(6) \/ Vop(7))
  /\ Go(Raise(ExIllegal), "memory")

Execute ==
  \/ Ldw \/ Ldb \/ Store \/ Beq \/ Adi \/ Lui \/ Jlr \/ Xops
  \/ LoadYops \/ StoreYops \/ OtherYops \/ Zops
  \/ Rti \/ Rtl \/ Di \/ Ei \/ Hlt \/ Brk \/ Die

\* With an exception pending, execute(), memory() and writeback() return.
Skip ==
  /\ stage \in {"execute", "memory", "writeback"}
  /\ w4.ex # ExNone
  /\ Go(w4, CASE stage = "execute" -> "memory"
              [] stage = "memory" -> "writeback"
              [] OTHER -> "check")
  /\ UNCHANGED <<physmem, dbEnabled>>

-----------------------------------------------------------------------------
(* memory()                                                                *)

InMemory(class) ==
  /\ stage = "memory"
  /\ w4.ex = ExNone
  /\ class
  /\ UNCHANGED dbEnabled

\* memory() first copies the alu to the writeback register.
Latched == [w4 EXCEPT !.wb = w4.alu]
LatchedRaise(e) == [Latched EXCEPT !.ex = e]

IsOdd == w4.alu % 2 = 1
DataAddr == Translate(w4, TRUE, w4.alu)

\* The word memWord with its odd or even byte replaced by the low byte of sd.
WithByte(memWord) ==
  IF IsOdd THEN (memWord % 256) + (w4.sd % 256) * 256
  ELSE (memWord \div 256) * 256 + (w4.sd % 256)

Poke(addr, val) ==
  physmem' = [a \in DOMAIN physmem \cup {addr} |->
                IF a = addr THEN val ELSE physmem[a]]

\* ldw, ldb, stw and stb: the four opcodes below 4.
DataFault ==
  /\ InMemory(OpOf(w4.ir) < 4)
  /\ Faults(DataAddr) \/ (IsOdd /\ OpOf(w4.ir) \in {0, 2})
  /\ Go(LatchedRaise(ExMemory), "writeback")
  /\ UNCHANGED physmem

Load ==
  /\ InMemory(OpOf(w4.ir) < 2)
  /\ ~Faults(DataAddr)
  /\ OpOf(w4.ir) = 1 \/ ~IsOdd
  /\ LET memWord == Peek(DataAddr)
     IN  IF ~InBounds(DataAddr) THEN Panic("physmem index")
         ELSE Go([w4 EXCEPT !.wb = IF OpOf(w4.ir) = 0 THEN memWord
                                   ELSE IF IsOdd THEN memWord \div 256
                                   ELSE memWord % 256], "writeback")
  /\ UNCHANGED physmem

StoreData ==
  /\ InMemory(OpOf(w4.ir) \in {2, 3})
  /\ ~Faults(DataAddr)
  /\ OpOf(w4.ir) = 3 \/ ~IsOdd
  /\ IF ~InBounds(DataAddr) THEN Panic("physmem index") /\ UNCHANGED physmem
     ELSE /\ Go(Latched, "writeback")
          /\ Poke(DataAddr,
                  IF OpOf(w4.ir) = 2 THEN w4.sd ELSE WithByte(Peek(DataAddr)))

-----------------------------------------------------------------------------
(* loadSpecial() and storeSpecial()                                        *)

SprIndex == w4.alu % 64

\* MmuCtl1 bit 4 selects whose MMU the kernel sees in its upper 32 SPRs.
MmuMode == IF Bit(w4.spr[Kern][MmuCtl1], 16) = 1 THEN User ELSE Kern

LspIllegal(r) ==
  \/ w4.mode = User /\ r \notin {0, Link, CCLS, CCMS}
  \/ r = 31

LoadSpecial(r) ==
  CASE r = 0 -> w4.pc
    [] r = Link -> w4.spr[w4.mode][Link]
    [] r \in {Irr, Icr, Imr, 5, MmuCtl1} -> w4.spr[Kern][r]
    [] r = CCLS -> w4.cyc % 65536
    [] r = CCMS -> (w4.cyc \div 65536) % 65536
    [] r \in 16 .. 23 -> w4.gen[User][r - 16]
    [] r = 25 -> w4.spr[User][Link]
    [] r >= 32 -> w4.spr[MmuMode][r]
    [] OTHER -> 0

Lsp ==
  /\ InMemory(Yop(0))
  /\ IF LspIllegal(SprIndex)
     THEN Go([w4 EXCEPT !.wb = 0, !.ex = ExIllegal], "writeback")
     ELSE IF SprIndex \in 24 .. 30 \ {25} THEN Panic("missing case in loadSpecial")
     ELSE Go([w4 EXCEPT !.wb = LoadSpecial(SprIndex)], "writeback")
  /\ UNCHANGED physmem

\* Mutant: the special register is written before the mode is tested.
StoreSpecialThenTest(r) ==
  IF w4.mode = User
  THEN [Latched EXCEPT !.spr[User][r] = w4.sd, !.ex = IF r = Link THEN ExNone ELSE ExIllegal]
  ELSE [Latched EXCEPT !.spr[Kern][r] = w4.sd]

StoreSpecial(r) ==
  IF w4.mode = User
  THEN IF r = Link THEN [Latched EXCEPT !.spr[User][Link] = w4.sd]
       ELSE LatchedRaise(ExIllegal)
  ELSE CASE r \in {Irr, Icr, Imr, 5, MmuCtl1} ->
              [Latched EXCEPT !.spr[Kern][r] = w4.sd]
         [] r \in 16 .. 23 -> [Latched EXCEPT !.gen[User][r - 16] = w4.sd]
         [] r = 25 -> [Latched EXCEPT !.spr[User][Link] = w4.sd]
         [] r >= 32 -> [Latched EXCEPT !.spr[MmuMode][r] = w4.sd]
         [] OTHER -> LatchedRaise(ExIllegal)

Ssp ==
  /\ InMemory(Yop(2))
  /\ Go(StoreSpecial(SprIndex), "writeback")
  /\ UNCHANGED physmem

\* loadIO() returns 0, storeIO() does nothing: both are still to be written.
\* Every other instruction has nothing to do in this stage.
NoMemory ==
  /\ InMemory(OpOf(w4.ir) >= 4 /\ ~Yop(0) /\ ~Yop(2))
  /\ Go(IF Yop(1) THEN [w4 EXCEPT !.wb = 0] ELSE Latched, "writeback")
  /\ UNCHANGED physmem

Memory == DataFault \/ Load \/ StoreData \/ Lsp \/ Ssp \/ NoMemory

-----------------------------------------------------------------------------
(* writeback() and the foot of the loop                                    *)

WritesRegister(w) ==
  \/ OpOf(w) \in {0, 1, 5, 6}
  \/ IsXop(w) \/ IsZop(w)
  \/ IsYop(w) /\ YopOf(w) < 2

\* Mutant: writeback() forgets to return when an exception is pending.
WritebackAlways ==
  /\ stage = "writeback"
  /\ IF w4.mode \notin Modes THEN Panic("mode index")
     ELSE Go(IF WritesRegister(w4.ir) /\ Ra(w4.ir) # 0
             THEN [w4 EXCEPT !.gen[w4.mode][Ra(w4.ir)] = w4.wb] ELSE w4, "check")
  /\ UNCHANGED <<physmem, dbEnabled>>

Writeback ==
  /\ stage = "writeback"
  /\ w4.ex = ExNone
  /\ IF w4.mode \notin Modes THEN Panic("mode index")
     ELSE Go(IF WritesRegister(w4.ir) /\ Ra(w4.ir) # 0
             THEN [w4 EXCEPT !.gen[w4.mode][Ra(w4.ir)] = w4.wb] ELSE w4, "check")
  /\ UNCHANGED <<physmem, dbEnabled>>

\* Mutant: the loop forgets to look for a double fault.
CheckNoDoubleFault ==
  /\ stage = "check"
  /\ IF dbEnabled THEN EnterPrompt ELSE LoopHead(w4)
  /\ UNCHANGED <<physmem, dbEnabled>>

\* Mutant: the loop forgets to look at dbEnabled.
CheckNoPrompt ==
  /\ stage = "check"
  /\ IF w4.ex # ExNone /\ ~w4.en THEN Go(w4, "exit") ELSE LoopHead(w4)
  /\ UNCHANGED <<physmem, dbEnabled>>

\* Exception and not enabled: a double fault, which leaves the loop.
Check ==
  /\ stage = "check"
  /\ IF w4.ex # ExNone /\ ~w4.en THEN Go(w4, "exit")
     ELSE IF dbEnabled THEN EnterPrompt
     ELSE LoopHead(w4)
  /\ UNCHANGED <<physmem, dbEnabled>>

\* The debugger's r, s and x; c and h leave the machine as it is.
PromptRun ==
  /\ stage = "prompt"
  /\ dbEnabled' = FALSE
  /\ LoopHead([w4 EXCEPT !.run = TRUE])
  /\ UNCHANGED physmem

PromptStep ==
  /\ stage = "prompt"
  /\ dbEnabled' = TRUE
  /\ LoopHead([w4 EXCEPT !.run = TRUE])
  /\ UNCHANGED physmem

PromptExit ==
  /\ stage = "prompt"
  /\ LoopHead([w4 EXCEPT !.run = FALSE])
  /\ UNCHANGED <<physmem, dbEnabled>>

\* The final dump, unless -q.
Exit ==
  /\ stage = "exit"
  /\ IF qflag \/ DumpInBounds(w4) THEN Go(w4, "stopped") ELSE Panic("physmem index")
  /\ UNCHANGED <<physmem, dbEnabled>>

\* Mutant: the signal goroutine ends the emulation.
SigintExits ==
  /\ Sigints
  /\ stage \notin {"stopped", "crashed"}
  /\ stage' = "exit"
  /\ UNCHANGED <<w4, physmem, dbEnabled, panic>>

\* The signal goroutine runs beside the loop and may set the flag at any time.
Sigint ==
  /\ Sigints
  /\ stage \notin {"stopped", "crashed"}
  /\ dbEnabled' = TRUE
  /\ UNCHANGED <<w4, physmem, stage, panic>>

\* The steps of the loop that wait for nobody.
Simulate ==
  Start \/ Fetch \/ Execute \/ Skip \/ Memory \/ Writeback \/ Check \/ Exit

Prompt == PromptRun \/ PromptStep \/ PromptExit

Next == Simulate \/ Prompt \/ Sigint

Spec == Init /\ [][Next]_vars

-----------------------------------------------------------------------------
(* What the emulator promises                                              *)

Machine ==
  [cyc : 0 .. CycMod - 1, pc : Word, run : BOOLEAN, en : BOOLEAN,
   mode : Byte, ex : {ExNone, ExIllegal, ExMemory} \cup Traps,
   ir : Word, alu : Word, sd : Word, wb : Word, hc : {0, 1},
   gen : [Modes -> [0 .. 7 -> Word]], spr : [Modes -> [0 .. 63 -> Word]]]

PhysmemType ==
  /\ DOMAIN physmem \subseteq 0 .. PhysMemSize - 1
  /\ \A a \in DOMAIN physmem : physmem[a] \in Word

\* Every register and latch of w4machine keeps to its width, every exception
\* is one that exec.go raises, and memory is only written inside physmem.
TypeOK ==
  /\ w4 \in Machine
  /\ PhysmemType
  /\ dbEnabled \in BOOLEAN
  /\ stage \in Stages
  /\ panic \in Panics

\* Exceptions are enabled whenever the machine is not in kernel mode: rti is
\* the only way out of it and sets en, and user mode can execute neither di
\* nor another kernel instruction that clears it.  So a fault in a user
\* program always reaches the kernel's handler.
UserEnabled == w4.mode # Kern => w4.en

\* The emulator's own consistency checks never fail, whatever the program:
\* fetch() is never entered with a double fault, and decode() sorts every
\* word into a class whose table has an entry for it.
AssertsHold == panic \notin {"double fault in fetch", "decode failure"}

\* The loop only starts a cycle with run set, and only the kernel clears it.
RunInv ==
  /\ stage \in {"start", "fetch", "execute"} => w4.run
  /\ w4.mode # Kern /\ stage \notin {"exit", "stopped", "crashed"} => w4.run

\* An exception that a cycle leaves behind can be taken by the next one.
PendingInv ==
  /\ stage \in {"fetch", "prompt"} /\ w4.ex # ExNone => w4.en
  /\ stage = "start" => w4.ex = ExNone

\* The mode is one of the two, except after an rti that found something else in
\* Imr, which does not get past writeback().
ModeInv ==
  w4.mode \notin Modes =>
    \/ stage = "crashed"
    \/ stage \in {"memory", "writeback"} /\ IsVop(w4.ir) /\ w4.ex = ExNone

\* The inductive invariant: from it UserEnabled and AssertsHold follow for
\* every program, every size of memory and every use of the debugger.
IInv == TypeOK /\ UserEnabled /\ AssertsHold /\ RunInv /\ PendingInv /\ ModeInv

\* ^C is answered: once the signal goroutine has set dbEnabled the loop comes
\* to the prompt, or the program ends of itself, whatever it is doing.
InterruptAnswered ==
  dbEnabled ~> stage \in {"prompt", "exit", "stopped", "crashed"}
================================================================================
