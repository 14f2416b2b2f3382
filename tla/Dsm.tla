---------------------------------- MODULE Dsm ----------------------------------
(***************************************************************************)
(* The disassembler (dsm/dsm.go).  A line of its listing is a pair of a    *)
(* mnemonic and the sequence of its operands, registers and numbers alike; *)
(* an empty string, which is not printed, is the line Hidden.  The radix a *)
(* number is printed in is left out, since the assembler reads any.        *)
(***************************************************************************)
EXTENDS Integers, Sequences, FiniteSetsExt

bits(op, hi, lo) == (op \div 2^lo) % 2^(hi - lo + 1)

Hidden == <<"", <<>> >>

\* Mnemonic, number of high bits that identify it, opcode, shape of the operands.
KeyTable ==
  << <<"ldw", 3, 0, "RRI">>, <<"ldb", 3, 8192, "RRI">>, <<"stw", 3, 16384, "RRI">>,
     <<"stb", 3, 24576, "RRI">>, <<"beq", 3, 32768, "RRI">>, <<"adi", 3, 40960, "RRI">>,
     <<"lui", 3, 49152, "RJX">>, <<"jlr", 4, 57344, "RRI">>,
     <<"add", 7, 61440, "RRR">>, <<"adc", 7, 61952, "RRR">>, <<"sub", 7, 62464, "RRR">>,
     <<"sbb", 7, 62976, "RRR">>, <<"bic", 7, 63488, "RRR">>, <<"bis", 7, 64000, "RRR">>,
     <<"xor", 7, 64512, "RRR">>,
     <<"lsp", 10, 65024, "RRX">>, <<"lio", 10, 65088, "RRX">>, <<"ssp", 10, 65152, "RRX">>,
     <<"sio", 10, 65216, "RRX">>, <<"y04", 10, 65280, "RRX">>, <<"y06", 10, 65344, "RRX">>,
     <<"y06", 10, 65408, "XXX">>,
     <<"not", 13, 65472, "RXX">>, <<"neg", 13, 65480, "RXX">>, <<"sxt", 13, 65488, "RXX">>,
     <<"swb", 13, 65496, "RXX">>, <<"lsr", 13, 65504, "RXX">>, <<"lsl", 13, 65512, "RXX">>,
     <<"asr", 13, 65520, "RXX">>,
     <<"rti", 16, 65528, "XXX">>, <<"rtl", 16, 65529, "XXX">>, <<"di", 16, 65530, "XXX">>,
     <<"ei", 16, 65531, "XXX">>, <<"hlt", 16, 65532, "XXX">>, <<"brk", 16, 65533, "XXX">>,
     <<"v06", 16, 65534, "XXX">>, <<"die", 16, 65535, "XXX">> >>

\* The first entry of KeyTable whose high bits are the word's.
Found(op) ==
  LET Matches(i) == LET w == 2^(16 - KeyTable[i][2])
                    IN op \div w = KeyTable[i][3] \div w
  IN KeyTable[Min({i \in DOMAIN KeyTable : Matches(i)})]

\* For a beq it is the target that is shown, in seven bits.
Immediate(op, at) ==
  IF bits(op, 15, 13) = 4 THEN (bits(op, 12, 6) + at + 1) % 128 ELSE bits(op, 12, 6)

decode(op, at) ==
  LET ke == Found(op)
      ra == bits(op, 2, 0)
      rb == bits(op, 5, 3)
  IN <<ke[1], CASE ke[4] = "RRI" -> <<ra, rb, Immediate(op, at)>>
                [] ke[4] = "RJX" -> <<ra, bits(op, 12, 3)>>
                [] ke[4] = "RRR" -> <<ra, rb, bits(op, 8, 6)>>
                [] ke[4] = "RRX" -> <<ra, rb>>
                [] ke[4] = "RXX" -> <<ra>>
                [] ke[4] = "XXX" -> <<>> >>

-----------------------------------------------------------------------------
(* Pass 2: aliases for the mnemonics the assembler does not have.          *)

LuiSeen(prevInst) == bits(prevInst, 15, 13) = 6

\* An adi to the register it adds to, which the assembler may have made from an lli.
IsLli(inst) ==
  bits(inst, 15, 13) = 5 /\ bits(inst, 5, 3) = bits(inst, 2, 0) /\ bits(inst, 2, 0) # 0

IsJlr(inst) == bits(inst, 15, 12) = 14

Full(prevInst, inst) == bits(prevInst, 12, 3) * 64 + bits(inst, 12, 6)

MergeNotHiding(list, at, line) == [list EXCEPT ![at + 1] = line]

\* The word at `at` and the lui before it become one line.
Merge(list, at, line) == [list EXCEPT ![at] = Hidden, ![at + 1] = line]

CondenseLliUnsigned(at, prevInst, inst, list) ==
  [list EXCEPT ![at + 1] = <<"lli", <<bits(inst, 2, 0), bits(inst, 12, 6)>> >>]

CondenseLli(at, prevInst, inst, list) ==
  LET ra == bits(inst, 2, 0)
      imm == bits(inst, 12, 6)
  IN IF bits(inst, 12, 12) = 1 THEN [list EXCEPT ![at + 1] = <<"adi", <<ra, ra, imm>> >>]
     ELSE IF LuiSeen(prevInst)
          THEN Merge(list, at, <<"ldi", <<ra, Full(prevInst, inst)>> >>)
          ELSE [list EXCEPT ![at + 1] = <<"lli", <<ra, imm>> >>]

CondenseJlr(at, prevInst, inst, list) ==
  LET rb == bits(inst, 5, 3)
      imm == bits(inst, 12, 6)
      kind == bits(inst, 2, 0)
      name == IF kind = 1 THEN "jsr" ELSE "jmp"
  IN IF kind > 2 \/ (kind = 0 /\ (rb # 0 \/ imm % 2 = 1))
     THEN [list EXCEPT ![at + 1] = <<"die", <<>> >>]
     ELSE IF kind = 0 THEN [list EXCEPT ![at + 1] = <<"sys", <<imm>> >>]
     ELSE IF LuiSeen(prevInst) /\ rb = bits(prevInst, 2, 0)
     THEN Merge(list, at, <<name, <<rb, Full(prevInst, inst)>> >>)
     ELSE IF imm = 0 /\ rb # 0 THEN [list EXCEPT ![at + 1] = <<name, <<rb>> >>]
     ELSE list

\* `at` counts words from 0; the lines of a listing are numbered from 1.
condense(at, prevInst, inst, list) ==
  IF IsLli(inst) THEN CondenseLli(at, prevInst, inst, list)
  ELSE IF IsJlr(inst) THEN CondenseJlr(at, prevInst, inst, list)
  ELSE IF inst = 65480 THEN [list EXCEPT ![at + 1] = <<"nop", <<>> >>]
  ELSE list
================================================================================
