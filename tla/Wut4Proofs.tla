------------------------------ MODULE Wut4Proofs ------------------------------
(***************************************************************************)
(* Proofs about the emulator, for every size of memory, every set of       *)
(* images and every setting of the flags.                                  *)
(*                                                                         *)
(* The first lemmas bound what the operators of Isa return.  Then there is *)
(* one lemma per stage of simulate(), with a step per instruction where    *)
(* instructions differ, that the stage preserves IInv; theorem Invariance  *)
(* combines them and the other theorems follow from it.                    *)
(***************************************************************************)
EXTENDS Wut4, TLAPS

LEMMA WrapType == \A n \in Int : Wrap(n) \in Word
  BY DEF Wrap, Word

LEMMA BitType ==
  ASSUME NEW w \in Word, NEW k \in Nat \ {0}
  PROVE  Bit(w, k) \in {0, 1}
  <1>1. w \div k \in Int
    BY DEF Word
  <1>2. QED
    BY <1>1 DEF Bit

LEMMA ImmType == \A w \in Word : Imm(w) \in Word
  <1> TAKE w \in Word
  <1>2. Field(w, 64, 128) \in Nat /\ Field(w, 64, 128) < 128
    BY DEF Field, Word
  <1>3. Field(w, 8, 1024) \in Nat /\ Field(w, 8, 1024) < 1024
    BY DEF Field, Word
  <1>4. QED
    BY <1>2, <1>3 DEF Imm, Word

LEMMA SelectorType ==
  ASSUME NEW w \in Word
  PROVE  /\ Ra(w) \in 0 .. 7 /\ Rb(w) \in 0 .. 7 /\ Rc(w) \in 0 .. 7
         /\ OpOf(w) \in 0 .. 7 /\ XopOf(w) \in 0 .. 7
  BY DEF Field, Word, Ra, Rb, Rc, OpOf, XopOf, VopOf, ZopOf, YopOf

LEMMA BitClearType == \A a, b \in Word : BitClear(a, b) \in Word
  BY DEF BitClear, Word

LEMMA Alu3Type ==
  ASSUME NEW xop, NEW a \in Word, NEW b \in Word, NEW hc \in {0, 1}
  PROVE  Alu3(xop, a, b, hc) \in Word /\ Carry3(xop, a, b, hc) \in {0, 1}
  <1>1. BitClear(a, b) \in Word /\ BitClear(b, a) \in Word
    BY BitClearType
  <1>2. Alu3(xop, a, b, hc) \in Word
    BY <1>1 DEF Alu3, Wrap, Word
  <1>3. \A n \in Int : Field(Wrap(n), 65536, 2) \in {0, 1}
    BY DEF Field, Wrap
  <1>4. Carry3(xop, a, b, hc) \in {0, 1}
    BY <1>3 DEF Carry3, Word
  <1>5. QED
    BY <1>2, <1>4

LEMMA Alu1Type ==
  ASSUME NEW zop, NEW a \in Word
  PROVE  Alu1(zop, a) \in Word /\ Carry1(zop, a) \in {0, 1}
  <1>1. Bit(a, 1) \in {0, 1} /\ Bit(a, 32768) \in {0, 1} /\ Bit(a, 128) \in {0, 1}
    BY BitType
  <1>2. Carry1(zop, a) \in {0, 1}
    BY <1>1 DEF Carry1
  <1>3. Alu1(zop, a) \in Word
    BY <1>1 DEF Alu1, Wrap, Word
  <1>4. QED
    BY <1>2, <1>3
-----------------------------------------------------------------------------

LEMMA Decoding ==
  ASSUME NEW w \in Word
  PROVE  /\ IsBase(w) /\ OpOf(w) = 7 => Field(w, 4096, 16) = 14
         /\ IsXop(w) => XopOf(w) # 7
         /\ IsYop(w) => YopOf(w) # 7
         /\ IsZop(w) => ZopOf(w) # 7
         /\ IsVop(w) => OpOf(w) = 7 /\ ~IsYop(w) /\ ~IsXop(w) /\ ~IsZop(w)
  BY DEF Word, Field, IsBase, IsXop, IsYop, IsZop, IsVop, OpOf, XopOf, YopOf, ZopOf

LEMMA Operands ==
  ASSUME TypeOK, w4.mode \in Modes
  PROVE  /\ \A r \in 0 .. 7 : Gen(r) \in Word
         /\ Gen(Ra(w4.ir)) \in Word /\ Gen(Rb(w4.ir)) \in Word
         /\ Gen(Rc(w4.ir)) \in Word
         /\ Imm(w4.ir) \in Word /\ Sum \in Word
  <1>1. w4.ir \in Word /\ w4.gen \in [Modes -> [0 .. 7 -> Word]]
    BY DEF TypeOK, Machine
  <1>2. \A r \in 0 .. 7 : Gen(r) \in Word
    BY <1>1 DEF Gen
  <1>3. /\ Gen(Ra(w4.ir)) \in Word /\ Gen(Rb(w4.ir)) \in Word
        /\ Gen(Rc(w4.ir)) \in Word
    BY <1>1, <1>2, SelectorType
  <1>4. Imm(w4.ir) \in Word
    BY <1>1, ImmType
  <1>5. Sum \in Word
    BY <1>3, <1>4, WrapType DEF Sum, Word
  <1>6. QED
    BY <1>2, <1>3, <1>4, <1>5

(* The invariant holds initially.                                          *)

LEMMA InitIInv == Init => IInv
  <1> SUFFICES ASSUME Init PROVE IInv
    OBVIOUS
  <1>2. w4 \in Machine
    BY ConstantsAssumption
    DEF Init, Machine, Modes, Kern, User, NoGen, NoSpr, Word, Byte, ExNone, Imr
  <1>3. TypeOK
    BY <1>2, ConstantsAssumption DEF Init, TypeOK, PhysmemType, Stages, Panics
  <1>4. QED
    BY <1>3 DEF Init, IInv, UserEnabled, AssertsHold, RunInv, PendingInv, ModeInv,
                Modes, Kern, ExNone

-----------------------------------------------------------------------------
(* execute()                                                               *)

\* m differs from the machine only in what most instructions may change.
Ordinary(m) ==
  m \in Machine /\ m.mode = w4.mode /\ m.en = w4.en /\ m.run = w4.run

LEMMA OrdinaryIInv ==
  ASSUME IInv, stage \in {"execute", "memory", "writeback"}, w4.mode \in Modes,
         PhysmemType', UNCHANGED dbEnabled, NEW m, Ordinary(m),
         NEW next \in {"memory", "writeback", "check"}, Go(m, next)
  PROVE  IInv'
  <1>1. TypeOK'
    BY DEF IInv, TypeOK, Ordinary, Go, Stages
  <1>2. QED
    BY <1>1, Zenon DEF Ordinary, Go, IInv, UserEnabled, AssertsHold, RunInv,
                PendingInv, ModeInv

LEMMA RaiseOrdinary ==
  ASSUME TypeOK, NEW e \in {ExNone, ExIllegal, ExMemory} \cup Traps
  PROVE  Ordinary(Raise(e))
  BY SMTT(30) DEF TypeOK, Machine, Raise, Ordinary

LEMMA PanicIInv ==
  ASSUME IInv, UNCHANGED <<physmem, dbEnabled>>, NEW p \in Panics, Panic(p),
         p \notin {"double fault in fetch", "decode failure"}
  PROVE  IInv'
  BY Zenon
  DEF Panic, IInv, TypeOK, PhysmemType, Stages, UserEnabled, AssertsHold, RunInv,
      PendingInv, ModeInv

\* Instructions that only compute.
LEMMA ComputeIInv ==
  ASSUME IInv, Ldw \/ Ldb \/ Store \/ Beq \/ Adi \/ Lui \/ Xops \/ LoadYops
               \/ StoreYops \/ Zops
  PROVE  IInv'
  <1>1. /\ stage = "execute" /\ PhysmemType' /\ UNCHANGED dbEnabled
        /\ TypeOK /\ w4 \in Machine /\ w4.mode \in Modes
    BY Zenon
    DEF IInv, TypeOK, PhysmemType, ModeInv, Executing, Ldw, Ldb, Store, Beq, Adi,
        Lui, Xops, LoadYops, StoreYops, Zops
  <1>2. /\ Gen(Ra(w4.ir)) \in Word /\ Gen(Rb(w4.ir)) \in Word
        /\ Gen(Rc(w4.ir)) \in Word /\ Imm(w4.ir) \in Word /\ Sum \in Word
    BY <1>1, Operands
  <1>3. w4.ir \in Word /\ w4.pc \in Word /\ w4.hc \in {0, 1}
    BY <1>1 DEF Machine
  <1>4. CASE Ldw
    <2>1. Ordinary(Raise(ExIllegal))
      BY <1>1, RaiseOrdinary
    <2>2. Ordinary([w4 EXCEPT !.alu = Sum])
      BY <1>1, <1>2, Zenon DEF Ordinary, Machine
    <2>3. QED
      BY <1>1, <1>4, <2>1, <2>2, OrdinaryIInv DEF Ldw
  <1>5. CASE Ldb \/ Adi
    <2>1. Ordinary([w4 EXCEPT !.alu = Sum])
      BY <1>1, <1>2, Zenon DEF Ordinary, Machine
    <2>2. QED
      BY <1>1, <1>5, <2>1, OrdinaryIInv DEF Ldb, Adi
  <1>6. CASE Store
    <2>1. Ordinary([w4 EXCEPT !.alu = Sum, !.sd = Gen(Ra(w4.ir))])
      BY <1>1, <1>2, Zenon DEF Ordinary, Machine
    <2>2. QED
      BY <1>1, <1>6, <2>1, OrdinaryIInv DEF Store
  <1>7. CASE Beq
    <2>1. Wrap(w4.pc + Imm(w4.ir)) \in Word
      BY <1>2, <1>3, WrapType DEF Word
    <2>2. Ordinary([w4 EXCEPT !.pc = Wrap(@ + Imm(w4.ir))]) /\ Ordinary(w4)
      BY <1>1, <2>1, SMTT(30) DEF Ordinary, Machine
    <2>3. QED
      BY <1>1, <1>7, <2>2, OrdinaryIInv DEF Beq
  <1>8. CASE Lui
    <2>1. Ordinary([w4 EXCEPT !.alu = Imm(w4.ir)])
      BY <1>1, <1>2, SMTT(30) DEF Ordinary, Machine
    <2>2. QED
      BY <1>1, <1>8, <2>1, OrdinaryIInv DEF Lui
  <1>9. CASE Xops
    <2> DEFINE alu == Alu3(XopOf(w4.ir), Gen(Rb(w4.ir)), Gen(Rc(w4.ir)), w4.hc)
               hc == Carry3(XopOf(w4.ir), Gen(Rb(w4.ir)), Gen(Rc(w4.ir)), w4.hc)
    <2>1. alu \in Word /\ hc \in {0, 1}
      BY <1>2, <1>3, Alu3Type
    <2>2. Ordinary([w4 EXCEPT !.alu = alu, !.hc = hc])
      BY <1>1, <2>1, Zenon DEF Ordinary, Machine
    <2>3. XopOf(w4.ir) # 7
      <3>1. IsXop(w4.ir)
        BY <1>9, Zenon DEF Xops, Executing
      <3>2. QED
        BY <1>3, <3>1, Decoding
    <2>4. Go([w4 EXCEPT !.alu = alu, !.hc = hc], "memory")
      BY <1>9, <2>3 DEF Xops
    <2>5. QED
      BY <1>1, <2>2, <2>4, OrdinaryIInv
  <1>10. CASE LoadYops
    <2>1. Ordinary([w4 EXCEPT !.alu = Gen(Rb(w4.ir))])
      BY <1>1, <1>2, SMTT(30) DEF Ordinary, Machine
    <2>2. QED
      BY <1>1, <1>10, <2>1, OrdinaryIInv DEF LoadYops
  <1>11. CASE StoreYops
    <2>1. Ordinary([w4 EXCEPT !.alu = Gen(Rb(w4.ir)), !.sd = Gen(Ra(w4.ir))])
      BY <1>1, <1>2, Zenon DEF Ordinary, Machine
    <2>2. QED
      BY <1>1, <1>11, <2>1, OrdinaryIInv DEF StoreYops
  <1>12. CASE Zops
    <2> DEFINE alu == Alu1(ZopOf(w4.ir), Gen(Ra(w4.ir)))
               hc == Carry1(ZopOf(w4.ir), Gen(Ra(w4.ir)))
    <2>1. alu \in Word /\ hc \in {0, 1}
      BY <1>2, Alu1Type
    <2>2. Ordinary([w4 EXCEPT !.alu = alu, !.hc = hc])
      BY <1>1, <2>1, Zenon DEF Ordinary, Machine
    <2>3. ZopOf(w4.ir) # 7
      <3>1. IsZop(w4.ir)
        BY <1>12, Zenon DEF Zops, Executing
      <3>2. QED
        BY <1>3, <3>1, Decoding
    <2>4. Go([w4 EXCEPT !.alu = alu, !.hc = hc], "memory")
      BY <1>12, <2>3 DEF Zops
    <2>5. QED
      BY <1>1, <2>2, <2>4, OrdinaryIInv
  <1>13. QED
    BY <1>4, <1>5, <1>6, <1>7, <1>8, <1>9, <1>10, <1>11, <1>12

\* Instructions that raise exceptions, jump, or belong to the kernel.
LEMMA ControlIInv ==
  ASSUME IInv, Jlr \/ OtherYops \/ Rti \/ Rtl \/ Di \/ Ei \/ Hlt \/ Brk \/ Die
  PROVE  IInv'
  <1>1. /\ stage = "execute" /\ UNCHANGED <<physmem, dbEnabled>> /\ w4.ex = ExNone
        /\ TypeOK /\ w4 \in Machine /\ w4.mode \in Modes /\ w4.run
    BY Zenon
    DEF IInv, TypeOK, ModeInv, RunInv, Executing, Jlr, OtherYops, Rti, Rtl, Di, Ei,
        Hlt, Brk, Die
  <1>2. PhysmemType'
    BY <1>1 DEF TypeOK, PhysmemType
  <1>3. /\ w4.ir \in Word /\ w4.pc \in Word /\ Sum \in Word
        /\ w4.spr \in [Modes -> [0 .. 63 -> Word]]
    BY <1>1, Operands DEF Machine
  <1>4. Ordinary(Raise(ExIllegal))
    BY <1>1, RaiseOrdinary
  <1>5. CASE Jlr
    <2>1. Base(7)
      BY <1>5, Zenon DEF Jlr, Executing
    <2>2. Field(w4.ir, 4096, 16) = 14
      BY <1>3, <2>1, Decoding DEF Base
    <2>3. Imm(w4.ir) \in Traps => Ordinary(Raise(Imm(w4.ir)))
      BY <1>1, RaiseOrdinary, SMTT(30)
    <2>4. Ordinary([w4 EXCEPT !.spr[w4.mode][Link] = w4.pc, !.pc = Sum])
      BY <1>1, <1>3, ZenonT(30) DEF Ordinary, Machine
    <2>5. Ordinary([w4 EXCEPT !.pc = Sum])
      BY <1>1, <1>3, ZenonT(30) DEF Ordinary, Machine
    <2>6. PICK m : Ordinary(m) /\ Go(m, "memory")
      BY <1>4, <1>5, <2>2, <2>3, <2>4, <2>5 DEF Jlr
    <2>7. QED
      BY <1>1, <1>2, <2>6, OrdinaryIInv, SMTT(30)
  <1>6. CASE OtherYops \/ Die
    <2>1. OtherYops => IsYop(w4.ir)
      BY Zenon DEF OtherYops, Executing
    <2>2. OtherYops => YopOf(w4.ir) # 7
      BY <1>3, <2>1, Decoding
    <2>3. Go(Raise(ExIllegal), "memory")
      BY <1>6, <2>2, Zenon DEF OtherYops, Die
    <2>4. QED
      BY <1>1, <1>2, <1>4, <2>3, OrdinaryIInv
  <1>7. CASE Rtl
    <2>1. w4.spr[w4.mode][Link] \in Word
      BY <1>1, <1>3, SMTT(30) DEF Link
    <2>2. Ordinary([w4 EXCEPT !.pc = w4.spr[w4.mode][Link]])
      BY <1>1, <2>1, ZenonT(30) DEF Ordinary, Machine
    <2>3. QED
      BY <1>1, <1>2, <1>7, <2>2, OrdinaryIInv DEF Rtl
  <1>8. CASE Brk
    <2>1. CASE w4.mode = User \/ DumpInBounds(w4)
      <3>1. Ordinary(w4)
        BY <1>1 DEF Ordinary
      <3>2. QED
        BY <1>1, <1>2, <1>4, <1>8, <2>1, <3>1, OrdinaryIInv, Zenon
        DEF Brk, Privileged
    <2>2. CASE ~(w4.mode = User \/ DumpInBounds(w4))
      BY <1>1, <1>8, <2>2, PanicIInv, Zenon DEF Brk, Panics
    <2>3. QED
      BY <2>1, <2>2
  <1>9. CASE (Rti \/ Di \/ Ei \/ Hlt) /\ w4.mode = User
    BY <1>1, <1>2, <1>4, <1>9, OrdinaryIInv DEF Rti, Di, Ei, Hlt, Privileged
  <1>10. CASE (Di \/ Ei \/ Hlt) /\ w4.mode = Kern
    <2>1. \/ w4' = [w4 EXCEPT !.en = FALSE] \/ w4' = [w4 EXCEPT !.en = TRUE]
          \/ w4' = [w4 EXCEPT !.run = FALSE]
      BY <1>10 DEF Di, Ei, Hlt, Privileged, Go, User, Kern
    <2>2. w4' \in Machine /\ w4'.mode = Kern /\ w4'.ex = ExNone
      <3>1. \A b \in BOOLEAN : /\ [w4 EXCEPT !.en = b] \in Machine
                               /\ [w4 EXCEPT !.run = b] \in Machine
        BY <1>1, ZenonT(30) DEF Machine
      <3>2. w4'.mode = w4.mode /\ w4'.ex = w4.ex
        BY <1>1, <2>1, SMTT(30) DEF Machine
      <3>3. QED
        BY <1>1, <1>10, <2>1, <3>1, <3>2, Zenon
    <2>3. stage' = "memory" /\ panic' = panic
      BY <1>10 DEF Di, Ei, Hlt, Go
    <2>4. QED
      BY <1>1, <1>2, <2>2, <2>3, Zenon
      DEF IInv, TypeOK, Stages, UserEnabled, AssertsHold, RunInv, PendingInv,
          ModeInv, Modes
  <1>11. CASE Rti /\ w4.mode = Kern
    <2> DEFINE m == [w4 EXCEPT !.ex = ExNone, !.en = TRUE,
                       !.pc = w4.spr[Kern][Irr], !.spr[Kern][Irr] = 0,
                       !.mode = w4.spr[Kern][Imr] % 256]
    <2>1. /\ w4.spr[Kern][Irr] \in Word /\ w4.spr[Kern][Imr] % 256 \in Byte
          /\ 0 \in Word
      BY <1>3 DEF Irr, Imr, Modes, Word, Byte
    <2>2. [w4.spr EXCEPT ![Kern][Irr] = 0] \in [Modes -> [0 .. 63 -> Word]]
      BY <1>3, <2>1, Zenon
    <2>3. m \in Machine
      BY <1>1, <2>1, <2>2, ZenonT(60) DEF Machine
    <2>4. m.en = TRUE /\ m.ex = ExNone /\ m.run = w4.run /\ m.ir = w4.ir
      BY <1>1, ZenonT(30) DEF Machine
    <2>5. Go(m, "memory") /\ IsVop(w4.ir)
      BY <1>11 DEF Rti, Executing, Vop, Privileged, User, Kern
    <2> HIDE DEF m
    <2>6. w4' \in Machine /\ w4'.en /\ w4'.ex = ExNone /\ w4'.run /\ IsVop(w4'.ir)
      BY <1>1, <2>3, <2>4, <2>5, Zenon DEF Go
    <2>7. stage' = "memory" /\ panic' = panic
      BY <2>5 DEF Go
    <2>8. QED
      BY <1>1, <1>2, <2>6, <2>7, Zenon
      DEF IInv, TypeOK, Stages, UserEnabled, AssertsHold, RunInv, PendingInv, ModeInv
  <1>12. QED
    BY <1>1, <1>5, <1>6, <1>7, <1>8, <1>9, <1>10, <1>11 DEF Modes

LEMMA SkipIInv == ASSUME IInv, Skip PROVE IInv'
  <1>1. w4.mode \in Modes /\ w4 \in Machine
    BY DEF IInv, TypeOK, ModeInv, Skip
  <1>2. PhysmemType' /\ UNCHANGED dbEnabled /\ Ordinary(w4)
    BY <1>1 DEF IInv, TypeOK, PhysmemType, Skip, Ordinary
  <1>3. PICK next \in {"memory", "writeback", "check"} : Go(w4, next)
    BY DEF Skip
  <1>4. stage \in {"execute", "memory", "writeback"}
    BY DEF Skip
  <1>5. QED
    BY <1>1, <1>2, <1>3, <1>4, OrdinaryIInv

-----------------------------------------------------------------------------
(* memory()                                                                *)

\* An address that translate() yields is a natural number.
LEMMA TranslateType ==
  ASSUME NEW m \in Machine, m.mode \in Modes, NEW isData \in BOOLEAN, NEW va \in Word
  PROVE  Translate(m, isData, va) \in Nat
  <1> DEFINE i == (IF isData THEN 48 ELSE 32) + (va \div 4096)
             entry == m.spr[m.mode][i]
  <1>1. i \in 0 .. 63
    BY DEF Word
  <1>2. m.spr \in [Modes -> [0 .. 63 -> Word]]
    BY DEF Machine
  <1>3. entry \in Word
    BY <1>1, <1>2
  <1> HIDE DEF entry
  <1>4. entry % 4096 \in Nat /\ va % 4096 \in Nat
    BY <1>3 DEF Word
  <1>5. (entry % 4096) * 4096 + (va % 4096) \in Nat
    BY <1>4
  <1>6. QED
    BY <1>5 DEF Translate, entry

LEMMA PeekType == ASSUME PhysmemType, NEW a PROVE Peek(a) \in Word
  BY DEF PhysmemType, Peek, Word

LEMMA LatchedOrdinary ==
  ASSUME TypeOK
  PROVE  /\ Ordinary(Latched)
         /\ \A e \in {ExIllegal, ExMemory} : Ordinary(LatchedRaise(e))
  BY ZenonT(30) DEF TypeOK, Machine, Latched, LatchedRaise, Ordinary

LEMMA PokeType ==
  ASSUME PhysmemType, NEW a \in Nat, InBounds(a), NEW v \in Word, Poke(a, v)
  PROVE  PhysmemType'
  <1>1. DOMAIN physmem' = DOMAIN physmem \cup {a}
    BY DEF Poke
  <1>2. \A b \in DOMAIN physmem \cup {a} : physmem'[b] \in Word
    BY DEF Poke, PhysmemType
  <1>3. a \in 0 .. PhysMemSize - 1
    BY ConstantsAssumption DEF InBounds
  <1>4. QED
    BY <1>1, <1>2, <1>3 DEF PhysmemType

LEMMA DataIInv == ASSUME IInv, DataFault \/ Load \/ StoreData PROVE IInv'
  <1>1. /\ stage = "memory" /\ UNCHANGED dbEnabled
        /\ TypeOK /\ w4 \in Machine /\ PhysmemType
    BY Zenon DEF IInv, TypeOK, DataFault, Load, StoreData, InMemory
  <1>2. /\ w4.ir \in Word /\ w4.alu \in Word /\ w4.sd \in Word
        /\ OpOf(w4.ir) \in 0 .. 7
    BY <1>1, SelectorType DEF Machine
  <1>3. w4.mode \in Modes
    <2>1. DataFault => OpOf(w4.ir) < 4
      BY DEF DataFault, InMemory
    <2>2. Load => OpOf(w4.ir) < 2
      BY Zenon DEF Load, InMemory
    <2>3. StoreData => OpOf(w4.ir) \in {2, 3}
      BY Zenon DEF StoreData, InMemory
    <2>4. OpOf(w4.ir) # 7
      BY <1>2, <2>1, <2>2, <2>3
    <2>5. QED
      BY <1>1, <1>2, <2>4, Decoding DEF IInv, ModeInv
  <1>4. DataAddr \in Nat /\ Peek(DataAddr) \in Word
    BY <1>1, <1>2, <1>3, TranslateType, PeekType, Zenon DEF DataAddr
  <1>5. CASE DataFault
    <2>1. PhysmemType'
      BY <1>1, <1>5 DEF DataFault, PhysmemType
    <2>2. QED
      BY <1>1, <1>3, <1>5, <2>1, LatchedOrdinary, OrdinaryIInv DEF DataFault
  <1>6. CASE Load
    <2>1. PhysmemType' /\ UNCHANGED physmem
      BY <1>1, <1>6, Zenon DEF Load, PhysmemType
    <2>2. \A v \in Word : Ordinary([w4 EXCEPT !.wb = v])
      BY <1>1 DEF Ordinary, Machine
    <2>3. Peek(DataAddr) \div 256 \in Word /\ Peek(DataAddr) % 256 \in Word
      BY <1>4 DEF Word
    <2>4. CASE InBounds(DataAddr)
      <3>1. PICK v \in Word : Go([w4 EXCEPT !.wb = v], "writeback")
        BY <1>4, <1>6, <2>3, <2>4 DEF Load
      <3>2. QED
        BY <1>1, <1>3, <2>1, <2>2, <3>1, OrdinaryIInv
    <2>5. CASE ~InBounds(DataAddr)
      BY <1>1, <1>6, <2>1, <2>5, PanicIInv, Zenon DEF Load, Panics
    <2>6. QED
      BY <2>4, <2>5
  <1>7. CASE StoreData
    <2>1. WithByte(Peek(DataAddr)) \in Word
      BY <1>2, <1>4 DEF WithByte, Word
    <2>2. CASE InBounds(DataAddr)
      <3>1. PICK v \in Word : Go(Latched, "writeback") /\ Poke(DataAddr, v)
        BY <1>2, <1>7, <2>1, <2>2 DEF StoreData
      <3>2. PhysmemType'
        BY <1>1, <1>4, <2>2, <3>1, PokeType
      <3>3. QED
        BY <1>1, <1>3, <3>1, <3>2, LatchedOrdinary, OrdinaryIInv
    <2>3. CASE ~InBounds(DataAddr)
      BY <1>1, <1>7, <2>3, PanicIInv, Zenon DEF StoreData, Panics
    <2>4. QED
      BY <2>2, <2>3
  <1>8. QED
    BY <1>5, <1>6, <1>7

LEMMA SpecialIInv == ASSUME IInv, Lsp \/ Ssp PROVE IInv'
  <1>1. /\ stage = "memory" /\ UNCHANGED <<physmem, dbEnabled>>
        /\ TypeOK /\ w4 \in Machine /\ IsYop(w4.ir)
    BY Zenon DEF IInv, TypeOK, Lsp, Ssp, InMemory, Yop
  <1>2. PhysmemType'
    BY <1>1 DEF TypeOK, PhysmemType
  <1>3. /\ w4.ir \in Word /\ w4.alu \in Word /\ w4.sd \in Word /\ w4.pc \in Word
        /\ w4.cyc \in Nat /\ 0 \in Word
        /\ w4.gen \in [Modes -> [0 .. 7 -> Word]]
        /\ w4.spr \in [Modes -> [0 .. 63 -> Word]]
    BY <1>1, ConstantsAssumption DEF Machine, Word
  <1>4. w4.mode \in Modes
    BY <1>1, <1>3, Decoding, SMTT(30) DEF IInv, ModeInv
  <1>5. SprIndex \in 0 .. 63 /\ MmuMode \in Modes /\ Kern \in Modes /\ User \in Modes
    BY <1>3, SMTT(30) DEF SprIndex, MmuMode, Word, Modes
  <1>6. CASE Lsp
    <2>1. LoadSpecial(SprIndex) \in Word
      <3>1. w4.cyc % 65536 \in Word /\ (w4.cyc \div 65536) % 65536 \in Word
        BY <1>3 DEF Word
      <3>2. \A r \in 0 .. 63, m \in Modes : w4.spr[m][r] \in Word
        BY <1>3
      <3>3. SprIndex \in 16 .. 23 => w4.gen[User][SprIndex - 16] \in Word
        BY <1>3, <1>5
      <3>4. QED
        BY <1>3, <1>4, <1>5, <3>1, <3>2, <3>3
        DEF LoadSpecial, Link, Irr, Icr, Imr, MmuCtl1, CCLS, CCMS
    <2>2. \A v \in Word : /\ Ordinary([w4 EXCEPT !.wb = v])
                          /\ Ordinary([w4 EXCEPT !.wb = v, !.ex = ExIllegal])
      BY <1>1, Zenon DEF Ordinary, Machine
    <2>3. \/ Go([w4 EXCEPT !.wb = 0, !.ex = ExIllegal], "writeback")
          \/ Panic("missing case in loadSpecial")
          \/ Go([w4 EXCEPT !.wb = LoadSpecial(SprIndex)], "writeback")
      BY <1>6, Zenon DEF Lsp
    <2>4. QED
      BY <1>1, <1>2, <1>3, <1>4, <2>1, <2>2, <2>3, OrdinaryIInv, PanicIInv,
         ZenonT(30)
      DEF Panics
  <1>7. CASE Ssp
    <2>1. \A r \in 0 .. 63, m \in Modes : Ordinary([Latched EXCEPT !.spr[m][r] = w4.sd])
      <3>1. \A r \in 0 .. 63, m \in Modes :
              [w4.spr EXCEPT ![m][r] = w4.sd] \in [Modes -> [0 .. 63 -> Word]]
        BY <1>3, SMTT(30)
      <3>2. QED
        BY <1>1, <1>3, <3>1, ZenonT(30) DEF Ordinary, Machine, Latched
    <2>2. \A r \in 0 .. 7 : Ordinary([Latched EXCEPT !.gen[User][r] = w4.sd])
      <3>1. \A r \in 0 .. 7 :
              [w4.gen EXCEPT ![User][r] = w4.sd] \in [Modes -> [0 .. 7 -> Word]]
        BY <1>3, <1>5
      <3>2. QED
        BY <1>1, <1>3, <3>1, Zenon DEF Ordinary, Machine, Latched
    <2>3. Ordinary(LatchedRaise(ExIllegal))
      BY <1>1, LatchedOrdinary
    <2>4. Ordinary(StoreSpecial(SprIndex))
      <3>1. CASE w4.mode = User
        BY <1>5, <2>1, <2>3, <3>1, Zenon DEF StoreSpecial, Link
      <3>2. CASE w4.mode # User /\ SprIndex \in 16 .. 23
        <4>1. SprIndex - 16 \in 0 .. 7
          BY <3>2
        <4>2. StoreSpecial(SprIndex) = [Latched EXCEPT !.gen[User][SprIndex - 16] = w4.sd]
          BY <3>2 DEF StoreSpecial, Irr, Icr, Imr, MmuCtl1
        <4>3. QED
          BY <2>2, <4>1, <4>2, Zenon
      <3>3. CASE w4.mode # User /\ SprIndex \notin 16 .. 23
        <4>1. CASE SprIndex \in {Irr, Icr, Imr, 5, MmuCtl1}
          <5>1. StoreSpecial(SprIndex) = [Latched EXCEPT !.spr[Kern][SprIndex] = w4.sd]
            BY <3>3, <4>1 DEF StoreSpecial, Irr, Icr, Imr, MmuCtl1
          <5>2. QED
            BY <1>5, <2>1, <5>1, Zenon
        <4>2. CASE SprIndex = 25
          <5>1. StoreSpecial(SprIndex) = [Latched EXCEPT !.spr[User][Link] = w4.sd]
            BY <3>3, <4>2 DEF StoreSpecial, Irr, Icr, Imr, MmuCtl1
          <5>2. Link \in 0 .. 63
            BY DEF Link
          <5>3. QED
            BY <1>5, <2>1, <5>1, <5>2, Zenon
        <4>3. CASE SprIndex >= 32
          BY <1>5, <2>1, <3>3, <4>3, SMTT(30)
          DEF StoreSpecial, Irr, Icr, Imr, MmuCtl1
        <4>4. CASE SprIndex < 32 /\ SprIndex \notin {Irr, Icr, Imr, 5, MmuCtl1, 25}
          BY <1>5, <2>3, <3>3, <4>4 DEF StoreSpecial
        <4>5. QED
          BY <1>5, <4>1, <4>2, <4>3, <4>4
      <3>4. QED
        BY <3>1, <3>2, <3>3
    <2>5. QED
      BY <1>1, <1>2, <1>4, <1>7, <2>4, OrdinaryIInv DEF Ssp
  <1>8. QED
    BY <1>6, <1>7

LEMMA NoMemoryIInv == ASSUME IInv, NoMemory PROVE IInv'
  <1>1. /\ stage = "memory" /\ UNCHANGED <<physmem, dbEnabled>> /\ w4.ex = ExNone
        /\ TypeOK /\ w4 \in Machine
    BY DEF IInv, TypeOK, NoMemory, InMemory
  <1>2. PhysmemType'
    BY <1>1 DEF TypeOK, PhysmemType
  <1>3. PICK v \in Word : Go([w4 EXCEPT !.wb = v], "writeback")
    <2>1. 0 \in Word /\ w4.alu \in Word
      BY <1>1 DEF Machine, Word
    <2>2. \/ Go([w4 EXCEPT !.wb = 0], "writeback")
          \/ Go([w4 EXCEPT !.wb = w4.alu], "writeback")
      BY DEF NoMemory, Latched
    <2>3. QED
      BY <2>1, <2>2
  <1>4. /\ w4' \in Machine /\ w4'.mode = w4.mode /\ w4'.en = w4.en
        /\ w4'.run = w4.run /\ w4'.ir = w4.ir /\ w4'.ex = w4.ex
    BY <1>1, <1>3 DEF Go, Machine
  <1>5. stage' = "writeback" /\ panic' = panic
    BY <1>3 DEF Go
  <1>6. QED
    BY <1>1, <1>2, <1>4, <1>5, Zenon
    DEF IInv, TypeOK, Stages, UserEnabled, AssertsHold, RunInv, PendingInv, ModeInv

LEMMA WritebackIInv == ASSUME IInv, Writeback PROVE IInv'
  <1>1. /\ stage = "writeback" /\ UNCHANGED <<physmem, dbEnabled>>
        /\ TypeOK /\ w4 \in Machine /\ PhysmemType'
    BY Zenon DEF IInv, TypeOK, PhysmemType, Writeback
  <1>2. CASE w4.mode \notin Modes
    BY <1>1, <1>2, PanicIInv, Zenon DEF Writeback, Panics
  <1>3. CASE w4.mode \in Modes
    <2>1. /\ w4.gen \in [Modes -> [0 .. 7 -> Word]] /\ w4.wb \in Word
          /\ Ra(w4.ir) \in 0 .. 7
      BY <1>1, SelectorType DEF Machine
    <2>2. [w4.gen EXCEPT ![w4.mode][Ra(w4.ir)] = w4.wb] \in [Modes -> [0 .. 7 -> Word]]
      BY <1>3, <2>1, SMTT(30)
    <2>3. Ordinary([w4 EXCEPT !.gen[w4.mode][Ra(w4.ir)] = w4.wb]) /\ Ordinary(w4)
      BY <1>1, <2>2, Zenon DEF Ordinary, Machine
    <2>4. QED
      BY <1>1, <1>3, <2>3, OrdinaryIInv, Zenon DEF Writeback
  <1>4. QED
    BY <1>2, <1>3

-----------------------------------------------------------------------------
(* The loop, the prompt and the signal goroutine                           *)

LEMMA LoopHeadIInv ==
  ASSUME IInv, stage \in {"start", "check", "prompt"},
         w4.ex # ExNone => w4.en,
         UNCHANGED physmem, dbEnabled' \in BOOLEAN,
         NEW r \in BOOLEAN, w4.run => r \/ stage = "prompt",
         LoopHead([w4 EXCEPT !.run = r])
  PROVE  IInv'
  <1>1. w4 \in Machine /\ w4.mode \in Modes /\ w4.cyc \in Nat
    BY ConstantsAssumption DEF IInv, TypeOK, ModeInv, Machine
  <1>2. (w4.cyc + 1) % CycMod \in 0 .. CycMod - 1
    BY <1>1, ConstantsAssumption
  <1>3. w4' = [[w4 EXCEPT !.run = r] EXCEPT !.cyc = (@ + 1) % CycMod]
    BY DEF LoopHead, Go
  <1>4. /\ w4' \in Machine /\ w4'.mode = w4.mode /\ w4'.en = w4.en
        /\ w4'.run = r /\ w4'.ex = w4.ex
    BY <1>1, <1>2, <1>3, ZenonT(30) DEF Machine
  <1>5. stage' = (IF r THEN "fetch" ELSE "exit") /\ panic' = panic
    BY <1>1 DEF LoopHead, Go, Machine
  <1>6. QED
    BY <1>1, <1>4, <1>5, Zenon
    DEF IInv, TypeOK, PhysmemType, Stages, UserEnabled, AssertsHold, RunInv,
        PendingInv, ModeInv

LEMMA EnterPromptIInv ==
  ASSUME IInv, stage \in {"start", "check"}, w4.ex # ExNone => w4.en,
         UNCHANGED <<physmem, dbEnabled>>, EnterPrompt
  PROVE  IInv'
  <1>1. CASE DumpInBounds(w4)
    BY <1>1, Zenon
    DEF EnterPrompt, Go, IInv, TypeOK, PhysmemType, Stages, UserEnabled,
        AssertsHold, RunInv, PendingInv, ModeInv
  <1>2. CASE ~DumpInBounds(w4)
    BY <1>2, PanicIInv, Zenon DEF EnterPrompt, Panics
  <1>3. QED
    BY <1>1, <1>2

LEMMA LoopIInv == ASSUME IInv, Start \/ Check \/ Prompt PROVE IInv'
  <1>1. w4 \in Machine /\ w4.run \in BOOLEAN /\ dbEnabled \in BOOLEAN
    BY DEF IInv, TypeOK, Machine
  <1>2. w4 = [w4 EXCEPT !.run = w4.run]
    BY <1>1 DEF Machine
  <1>3. CASE Start
    <2>1. stage = "start" /\ w4.ex = ExNone /\ UNCHANGED <<physmem, dbEnabled>>
      BY <1>3 DEF Start, IInv, PendingInv
    <2>2. EnterPrompt \/ LoopHead(w4)
      BY <1>3 DEF Start
    <2>3. QED
      BY <1>1, <1>2, <2>1, <2>2, EnterPromptIInv, LoopHeadIInv
  <1>4. CASE Check
    <2>1. stage = "check" /\ UNCHANGED <<physmem, dbEnabled>>
      BY <1>4 DEF Check
    <2>2. CASE w4.ex # ExNone /\ ~w4.en
      <3>1. Go(w4, "exit")
        BY <1>4, <2>2 DEF Check
      <3>2. QED
        BY <2>1, <3>1, Zenon DEF Go, IInv, TypeOK, PhysmemType, Stages, UserEnabled,
                          AssertsHold, RunInv, PendingInv, ModeInv
    <2>3. CASE ~(w4.ex # ExNone /\ ~w4.en)
      <3>1. EnterPrompt \/ LoopHead(w4)
        BY <1>4, <2>3 DEF Check
      <3>2. QED
        BY <1>1, <1>2, <2>1, <2>3, <3>1, EnterPromptIInv, LoopHeadIInv
    <2>4. QED
      BY <2>2, <2>3
  <1>5. CASE Prompt
    <2>1. stage = "prompt" /\ UNCHANGED physmem /\ dbEnabled' \in BOOLEAN
      BY <1>1, <1>5, Zenon DEF Prompt, PromptRun, PromptStep, PromptExit
    <2>2. w4.ex # ExNone => w4.en
      BY <2>1 DEF IInv, PendingInv
    <2>3. LoopHead([w4 EXCEPT !.run = TRUE]) \/ LoopHead([w4 EXCEPT !.run = FALSE])
      BY <1>5 DEF Prompt, PromptRun, PromptStep, PromptExit
    <2>4. QED
      BY <2>1, <2>2, <2>3, LoopHeadIInv, Zenon
  <1>6. QED
    BY <1>3, <1>4, <1>5

LEMMA ExitIInv == ASSUME IInv, Exit PROVE IInv'
  <1>1. CASE Go(w4, "stopped")
    BY <1>1, Zenon
    DEF Exit, Go, IInv, TypeOK, PhysmemType, Stages, UserEnabled, AssertsHold,
        RunInv, PendingInv, ModeInv
  <1>2. CASE Panic("physmem index")
    BY <1>2, PanicIInv, Zenon DEF Exit, Panics
  <1>3. QED
    BY <1>1, <1>2, Zenon DEF Exit

LEMMA SigintIInv == ASSUME IInv, Sigint PROVE IInv'
  BY Zenon DEF Sigint, IInv, TypeOK, PhysmemType, UserEnabled, AssertsHold, RunInv,
         PendingInv, ModeInv

LEMMA FetchIInv == ASSUME IInv, Fetch PROVE IInv'
  <1>1. /\ stage = "fetch" /\ UNCHANGED <<physmem, dbEnabled>> /\ PhysmemType
        /\ w4 \in Machine /\ w4.mode \in Modes /\ w4.run /\ (w4.ex # ExNone => w4.en)
    BY Zenon DEF Fetch, IInv, TypeOK, ModeInv, RunInv, PendingInv
  <1> DEFINE m == TakeException
             addr == Translate(m, FALSE, m.pc)
  <1>2. /\ m \in Machine /\ m.mode \in Modes /\ m.run /\ m.ex = ExNone
        /\ m.mode # Kern => m.en
    <2>1. CASE w4.ex = ExNone
      BY <1>1, <2>1 DEF TakeException, IInv, UserEnabled
    <2>2. CASE w4.ex # ExNone
      <3> DEFINE spr == [w4.spr[Kern] EXCEPT ![Irr] = w4.pc, ![Icr] = w4.ex,
                                             ![Imr] = w4.mode]
      <3>1. w4.ex \in Word /\ w4.pc \in Word /\ w4.mode \in Word
        BY <1>1 DEF Machine, Word, Byte, Traps, ExNone, ExIllegal, ExMemory
      <3>2. w4.spr \in [Modes -> [0 .. 63 -> Word]]
        BY <1>1 DEF Machine
      <3>3. spr \in [0 .. 63 -> Word]
        BY <3>1, <3>2, Zenon DEF Modes
      <3> HIDE DEF spr
      <3>4. [w4.spr EXCEPT ![Kern] = spr] \in [Modes -> [0 .. 63 -> Word]]
        BY <3>2, <3>3, Zenon
      <3>5. m = [w4 EXCEPT !.spr[Kern] = spr, !.mode = Kern, !.pc = w4.ex,
                           !.en = FALSE, !.ex = ExNone]
        BY <2>2 DEF TakeException, spr
      <3>6. Kern \in Byte /\ Kern \in Modes
        BY DEF Kern, Byte, Modes
      <3>7. m \in Machine
        BY <1>1, <3>1, <3>4, <3>5, <3>6, ZenonT(30) DEF Machine
      <3>8. m.mode = Kern /\ m.run = w4.run /\ m.ex = ExNone
        BY <1>1, <3>5, Zenon DEF Machine
      <3>9. QED
        BY <1>1, <3>6, <3>7, <3>8
    <2>3. QED
      BY <2>1, <2>2
  <1> HIDE DEF m
  <1>3. \/ Go([m EXCEPT !.ex = ExMemory], "execute")
        \/ Panic("physmem index")
        \/ Go([m EXCEPT !.ir = Peek(addr), !.pc = Wrap(@ + 1)], "execute")
    BY <1>1, Zenon DEF Fetch, m
  <1>4. CASE Panic("physmem index")
    BY <1>1, <1>4, PanicIInv, Zenon DEF Panics
  <1>5. CASE ~Panic("physmem index")
    <2>1. Peek(addr) \in Word /\ Wrap(m.pc + 1) \in Word
      <3>1. Peek(addr) \in Word
        BY <1>1, PeekType, Zenon
      <3>2. m.pc + 1 \in Int
        BY <1>2 DEF Machine, Word
      <3>3. QED
        BY <3>1, <3>2, WrapType, Zenon
    <2>2. [m EXCEPT !.ex = ExMemory] \in Machine
      BY <1>2, ZenonT(30) DEF Machine
    <2>3. [m EXCEPT !.ir = Peek(addr), !.pc = Wrap(@ + 1)] \in Machine
      BY <1>2, <2>1, ZenonT(30) DEF Machine
    <2>4. /\ w4' \in Machine /\ w4'.mode = m.mode /\ w4'.run = m.run /\ w4'.en = m.en
          /\ stage' = "execute" /\ panic' = panic
      BY <1>2, <1>3, <1>5, <2>2, <2>3, ZenonT(30) DEF Go, Machine
    <2>5. QED
      BY <1>1, <1>2, <2>4, Zenon DEF IInv, TypeOK, PhysmemType, Stages, UserEnabled,
                              AssertsHold, RunInv, PendingInv, ModeInv
  <1>6. QED
    BY <1>4, <1>5, Zenon

-----------------------------------------------------------------------------

\* The inductive invariant holds throughout every run of the emulator: every
\* stage of the cycle, the prompt and the signal goroutine preserve it.
THEOREM Invariance == Spec => []IInv
  <1>1. IInv /\ [Next]_vars => IInv'
    <2> SUFFICES ASSUME IInv, [Next]_vars PROVE IInv'
      OBVIOUS
    <2>1. CASE Execute
      BY <2>1, ComputeIInv, ControlIInv DEF Execute
    <2>2. CASE Memory
      BY <2>2, DataIInv, SpecialIInv, NoMemoryIInv DEF Memory
    <2>3. CASE Start \/ Fetch \/ Skip \/ Writeback \/ Check \/ Exit \/ Prompt \/ Sigint
      BY <2>3, LoopIInv, FetchIInv, SkipIInv, WritebackIInv, ExitIInv, SigintIInv
    <2>4. CASE UNCHANGED vars
      <3>1. TypeOK'
        BY <2>4 DEF vars, IInv, TypeOK, PhysmemType
      <3>2. QED
        BY <2>4, <3>1, Zenon
        DEF vars, IInv, UserEnabled, AssertsHold, RunInv, PendingInv, ModeInv
    <2>5. QED
      BY <2>1, <2>2, <2>3, <2>4 DEF Next, Simulate
  <1>2. QED
    BY <1>1, InitIInv, PTL DEF Spec

\* Every register, latch and flag of the machine keeps to its width and memory
\* is only written inside physmem, for every program and every memory size.
THEOREM TypeCorrect == Spec => []TypeOK
  BY Invariance, PTL DEF IInv

\* Whatever program runs, exceptions are enabled outside kernel mode: no
\* sequence of instructions, faults and debugger commands leaves a user
\* program running with en clear.
THEOREM UserAlwaysEnabled == Spec => []UserEnabled
  BY Invariance, PTL DEF IInv

\* For every program, fetch() never meets a double fault and decode() never
\* sorts a word into a class whose table has no entry for it.
THEOREM AssertionsHold == Spec => []AssertsHold
  BY Invariance, PTL DEF IInv
================================================================================
