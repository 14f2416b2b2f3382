---------------------------------- MODULE Y4Asm ----------------------------------
(***************************************************************************)
(* The earlier assembler (SAVE/asm): byte reader with pushback, lexer,     *)
(* symbol table and the line-oriented parser.                              *)
(*                                                                         *)
(* A run of letters or digits is one input item, a word; every other       *)
(* character is an item of its own, named for its class.  `acc` is then    *)
(* the word being accumulated.  A step reads one item, or takes a token    *)
(* that was pushed back, and does all that the parser does with the token  *)
(* that it completes.  Line numbers, which only messages show, are left    *)
(* out.                                                                    *)
(***************************************************************************)
EXTENDS Integers, Sequences, SequencesExt

CONSTANTS Lines,       \* the lines a source is made of: sequences of items, no newline
          Numbers,     \* words that validNumber() accepts and strconv.ParseInt() converts,
          Value,       \* and to what
          Refused,     \* words that validNumber() accepts and ParseInt() does not
          Garbage,     \* words that start with a digit and are no number
          MaxSymbols,
          Faults,      \* bound: reads that fail
          LineCap      \* bound: lines in a source

ASSUME WordsAssumption ==
  /\ Numbers \cap Refused = {} /\ Garbage \cap (Numbers \cup Refused) = {}
  /\ DOMAIN Value = Numbers

VARIABLES line, at, count,   \* the line under the reader, how far it is read, lines so far
          lexer,
          ctx,               \* parserContext and the symbol table
          start,             \* history: ctx when the line began
          failures,          \* reads that have failed
          pc

vars == <<line, at, count, lexer, ctx, start, failures, pc>>

-----------------------------------------------------------------------------
(* asm.go: signatures and the reserved symbols                             *)

sigFor(ra, rb, rc) == rc * 4096 + rb * 256 + ra * 16

numOperands(signature) ==
  IF signature = 0 THEN 0 ELSE IF signature < 256 THEN 1
  ELSE IF signature < 4096 THEN 2 ELSE 3

\* SeReg 1, SeImm6 2, SeImm7 3, SeImm10 4, SeVal16 5, SeSym 6, SeString 7
KeyTable ==
  LET With(sig, names) == [i \in DOMAIN names |-> <<names[i], sig>>]
  IN With(sigFor(1, 1, 3), <<"ldw", "ldb", "stw", "stb", "beq", "adi">>)
     \o With(sigFor(1, 4, 0), <<"lui">>) \o With(sigFor(1, 1, 2), <<"jlr">>)
     \o With(sigFor(1, 1, 1), <<"add", "adc", "sub", "sbb", "bic", "or", "xor">>)
     \o With(sigFor(1, 1, 0), <<"ior", "iow", "FE8", "FEC", "FF0", "FF4", "sys">>)
     \o With(sigFor(1, 0, 0), <<"not", "neg", "swb", "sxt", "lsr", "lsl", "asr">>)
     \o With(0, <<"src", "FF9", "FFA", "FFB", "FFC", "brk", "hlt", "die">>)
     \o With(sigFor(1, 2, 0), <<"lli">>) \o With(0, <<"nop">>)
     \o With(sigFor(1, 5, 0), <<"ldi">>)
     \o With(sigFor(5, 0, 0), <<".align", ".byte", ".word", ".space">>)
     \o With(sigFor(7, 0, 0), <<".string">>) \o With(sigFor(6, 5, 0), <<".set">>)

-----------------------------------------------------------------------------
(* sym.go.  The reserved entries never change but for their negated flags, *)
(* which ctx.negated holds for all entries; ctx.symtab is the rest.        *)

NoValue == 32767

Entry(name, defined, value) == [name |-> name, defined |-> defined, value |-> value]

\* MakeSymbolTable()
Reserved ==
  LET regs == <<"r0", "r1", "r2", "r3", "r4", "r5", "r6", "r7">>
  IN [i \in 1 .. 8 |-> Entry(regs[i], TRUE, i - 1)]
     \o [i \in DOMAIN KeyTable |-> Entry(KeyTable[i][1], TRUE, KeyTable[i][2])]

ReservedIndex ==
  [name \in {e.name : e \in ToSet(Reserved)} |->
     (CHOOSE i \in DOMAIN Reserved : Reserved[i].name = name) - 1]

IsReserved(name) == name \in DOMAIN ReservedIndex
Places(st, name) == {i \in DOMAIN st : st[i].name = name}
Place(st, name) == CHOOSE i \in Places(st, name) : TRUE

Exists(st, name) == IsReserved(name) \/ Places(st, name) # {}
Index(st, name) == IF IsReserved(name) THEN ReservedIndex[name]
                   ELSE Len(Reserved) + Place(st, name) - 1
EntryOf(st, name) == IF IsReserved(name) THEN Reserved[ReservedIndex[name] + 1]
                     ELSE st[Place(st, name)]
Full(st) == Len(Reserved) + Len(st) = MaxSymbols

\* Get() returns no error.
IsDefined(st, name) == Exists(st, name) /\ EntryOf(st, name).defined

\* Whether Define() returns an error, and what it leaves.  The flag of a symbol that
\* has been used is set in a copy of its entry, so nothing is left of that.
DefineFails(st, name) == IF Exists(st, name) THEN IsDefined(st, name) ELSE Full(st)


Define(st, name, value) ==
  IF Exists(st, name) \/ Full(st) THEN st ELSE Append(st, Entry(name, TRUE, value))

UseFails(st, name) == ~Exists(st, name) /\ Full(st)
Use(st, name) == IF Exists(st, name) THEN st ELSE Append(st, Entry(name, FALSE, NoValue))

-----------------------------------------------------------------------------
(* parser.go: a handler gives the context after it.                        *)

report(c) == [c EXCEPT !.state = "StError", !.errorCount = @ + 1]

\* instructions[dot].parts[part] = value, out of range or not.
SetPart(c, part, value) ==
  IF c.dot < Len(c.instructions) /\ part <= 3
  THEN [c EXCEPT !.instructions[c.dot + 1][part] = value]
  ELSE [c EXCEPT !.panicked = TRUE]

doErrorCountsLine(c, t) ==
  IF t.kind = "TkNewline" THEN [c EXCEPT !.state = "StBetweenLines", !.dot = @ + 1] ELSE c

doError(c, t) == IF t.kind = "TkNewline" THEN [c EXCEPT !.state = "StBetweenLines"] ELSE c

doBetweenLines(c, t) ==
  IF t.kind = "TkLabel"
  THEN LET d == IF DefineFails(c.symtab, t.text) THEN report(c) ELSE c
       IN [d EXCEPT !.state = "StNeedKey", !.symtab = Define(@, t.text, c.dot)]
  ELSE IF t.kind = "TkSymbol" THEN [c EXCEPT !.state = "StNeedKey"]
  ELSE IF t.kind = "TkNewline" THEN c
  ELSE report(c)

doNeedKey(c, t) ==
  IF t.kind = "TkSymbol" /\ IsDefined(c.symtab, t.text)
  THEN LET n == numOperands(EntryOf(c.symtab, t.text).value)
           d == [c EXCEPT !.instructions = Append(@, [p \in 0 .. 3 |-> 0])]
       IN [SetPart(d, 0, Index(c.symtab, t.text)) EXCEPT
             !.numoperands = n, !.opindex = 1, !.positive = TRUE,
             !.state = IF n > 0 THEN "StNeedExpression" ELSE "StNeedNewline"]
  ELSE report(c)

\* A number is cut to ten bits and marked with IsValue.
Immediate(v) == 32768 + (v % 1024)


Operand(c, value) ==
  [SetPart(c, c.opindex, value) EXCEPT
     !.positive = TRUE, !.opindex = @ + 1,
     !.state = IF c.opindex + 1 > c.numoperands THEN "StNeedNewline" ELSE @]

doNeedExpression(c, t) ==
  IF t.kind = "TkSymbol" /\ ~UseFails(c.symtab, t.text)
  THEN LET st == Use(c.symtab, t.text)
           index == Index(st, t.text)
       IN Operand([c EXCEPT !.symtab = st,
                            !.negated = IF c.positive THEN @ ELSE @ \cup {index}], index)
  ELSE IF t.kind = "TkNumber" /\ t.text \in Numbers
  THEN Operand(c, Immediate(IF c.positive THEN Value[t.text] ELSE -Value[t.text]))
  ELSE IF t.kind = "TkOperator" /\ t.text = "NEG" THEN [c EXCEPT !.positive = ~@]
  ELSE report(c)

\* What report() does to the state is undone.
doNeedNewline(c, t) ==
  [(IF t.kind = "TkNewline" THEN c ELSE report(c)) EXCEPT
     !.state = "StBetweenLines", !.dot = (@ + 1) % 65536,
     !.opindex = 0, !.numoperands = 0, !.positive = TRUE]

\* One iteration of the loop in Parse().
Iteration(c, t) ==
  IF t.kind = "TkError" THEN report(c)
  ELSE CASE c.state = "StError" -> doError(c, t)
         [] c.state = "StBetweenLines" -> doBetweenLines(c, t)
         [] c.state = "StNeedKey" -> doNeedKey(c, t)
         [] c.state = "StNeedExpression" -> doNeedExpression(c, t)
         [] c.state = "StNeedNewline" -> doNeedNewline(c, t)

Consumed(c, t) == ~(c.state = "StBetweenLines" /\ t.kind = "TkSymbol")

-----------------------------------------------------------------------------
(* lexer.go and pbr.go                                                     *)

NL == "NL"
COLON == "COLON"
isWhiteSpaceChar(b) == b \in {"SP", NL}
isOperatorChar(b) == b \in {"COMMA", COLON, "NEG"}
Marks == {"SP", NL, "COMMA", COLON, "NEG", "QUOTE", "COMMENT", "BAD", "NONASCII"}
isDigitChar(b) == b \in Numbers \cup Refused \cup Garbage
isInitialSymbolChar(b) == ~isDigitChar(b) /\ b \notin Marks
validNumber(acc) == acc \notin Garbage

Token(kind, text) == [kind |-> kind, text |-> text]
NoToken == Token("none", "")
nlToken == Token("TkNewline", NL)
ErrorToken == Token("TkError", "")

\* Unget() as Parse() calls it: its error is ignored.
Unget(lx, t) ==
  IF lx.pbToken = NoToken /\ lx.state = "stBetween"
  THEN [lx EXCEPT !.pbToken = t] ELSE [lx EXCEPT !.state = "stInError"]

\* internalGetToken() returns t with the lexer as lx, and Parse() deals with it.
Deliver(lx, t) ==
  /\ lexer' = IF t.kind = "TkError" \/ Consumed(ctx, t) THEN lx ELSE Unget(lx, t)
  /\ ctx' = Iteration(ctx, t)
  /\ pc' = IF ctx'.panicked THEN "panic" ELSE "parse"

Goto(lx, state) == [lx EXCEPT !.state = state, !.acc = ""]
Fail(lx) == Deliver(Goto(lx, "stInError"), ErrorToken)
Stay(lx) == lexer' = lx /\ UNCHANGED <<ctx, pc>>

UnreadByte(lx, b) == [lx EXCEPT !.pb = b]

InErrorOrComment(lx, b) ==
  /\ lx.state \in {"stInError", "stInComment"}
  /\ IF b = NL THEN Deliver(Goto(lx, "stBetween"), nlToken) ELSE Stay(lx)

Between(lx, b) ==
  /\ lx.state = "stBetween"
  /\ \/ b = NL /\ Deliver(lx, nlToken)
     \/ b = "COMMENT" /\ Stay(Goto(lx, "stInComment"))
     \/ b \in {"SP", "COMMA"} /\ Stay(lx)
     \/ isDigitChar(b) /\ Stay([lx EXCEPT !.state = "stInNumber", !.acc = b])
     \/ isInitialSymbolChar(b) /\ Stay([lx EXCEPT !.state = "stInSymbol", !.acc = b])
     \/ b = "QUOTE" /\ Stay(Goto(lx, "stInString"))
     \/ b \in {COLON, "NEG"} /\ Deliver(lx, Token("TkOperator", b))
     \/ b = "BAD" /\ Fail(lx)

InSymbol(lx, b) ==
  /\ lx.state = "stInSymbol"
  /\ IF b = COLON THEN Deliver(Goto(lx, "stBetween"), Token("TkLabel", lx.acc))
     ELSE IF isWhiteSpaceChar(b) \/ isOperatorChar(b)
     THEN Deliver(UnreadByte(Goto(lx, "stBetween"), b), Token("TkSymbol", lx.acc))
     ELSE Fail(lx)

InString(lx, b) ==
  /\ lx.state = "stInString"
  /\ IF b = "QUOTE" THEN Deliver(Goto(lx, "stBetween"), Token("TkString", ""))
     ELSE IF b = NL THEN Fail(lx) ELSE Stay(lx)

InNumber(lx, b) ==
  /\ lx.state = "stInNumber"
  /\ IF ~isWhiteSpaceChar(b) /\ ~isOperatorChar(b) THEN Fail(lx)
     ELSE IF validNumber(lx.acc)
     THEN Deliver(UnreadByte(Goto(lx, "stBetween"), b), Token("TkNumber", lx.acc))
     ELSE Deliver(UnreadByte(Goto(lx, "stInError"), b), ErrorToken)

internalGetToken(lx, b) ==
  IF b = "NONASCII" THEN Fail(lx)
  ELSE InErrorOrComment(lx, b) \/ Between(lx, b) \/ InSymbol(lx, b)
       \/ InString(lx, b) \/ InNumber(lx, b)

-----------------------------------------------------------------------------
Reading == pc = "parse" /\ lexer.pbToken = NoToken

PushedBackToken ==
  /\ pc = "parse" /\ lexer.pbToken # NoToken
  /\ LET lx == [lexer EXCEPT !.pbToken = NoToken]
     IN IF lx.state = "stBetween" THEN Deliver(lx, lexer.pbToken) ELSE Fail(lx)
  /\ UNCHANGED <<line, at, count, start, failures>>

PushedBackByte ==
  /\ Reading /\ lexer.pb # ""
  /\ internalGetToken([lexer EXCEPT !.pb = ""], lexer.pb)
  /\ UNCHANGED <<line, at, count, start, failures>>

\* The next item of the line, and the newline after the last.
ReadByte ==
  /\ Reading /\ lexer.pb = "" /\ at <= Len(line)
  /\ internalGetToken(lexer, IF at < Len(line) THEN line[at + 1] ELSE NL)
  /\ at' = at + 1
  /\ UNCHANGED <<line, count, start, failures>>

\* All of the line has been dealt with, and the source goes on.
LineDone == Reading /\ lexer.pb = "" /\ at = Len(line) + 1

NextLine ==
  /\ LineDone /\ count < LineCap
  /\ \E l \in Lines : line' = l
  /\ at' = 0 /\ count' = count + 1 /\ start' = ctx
  /\ UNCHANGED <<lexer, ctx, failures, pc>>

EndOfFile ==
  /\ Reading /\ lexer.pb = ""
  /\ lexer' = [lexer EXCEPT !.state = "stEnd"]
  /\ ctx' = IF ctx.state = "StBetweenLines" THEN ctx ELSE report(ctx)
  /\ pc' = IF ctx'.errorCount = 0 THEN "done" ELSE "failed"
  /\ UNCHANGED <<line, at, count, start, failures>>

\* Reading fails and later goes on where it was.
ReadError ==
  /\ failures < Faults /\ Reading /\ lexer.pb = ""
  /\ Fail(lexer)
  /\ failures' = failures + 1
  /\ UNCHANGED <<line, at, count, start>>

Init ==
  /\ line = <<>> /\ at = 1 /\ count = 0 /\ failures = 0 /\ pc = "parse"
  /\ lexer = [state |-> "stBetween", acc |-> "", pb |-> "", pbToken |-> NoToken]
  /\ ctx = [state |-> "StBetweenLines", symtab |-> <<>>, negated |-> {}, instructions |-> <<>>,
            dot |-> 0, opindex |-> 0, numoperands |-> 0, positive |-> FALSE,
            errorCount |-> 0, panicked |-> FALSE]
  /\ start = ctx

Next == PushedBackToken \/ PushedBackByte \/ ReadByte \/ NextLine \/ EndOfFile \/ ReadError

Spec == Init /\ [][Next]_vars

-----------------------------------------------------------------------------
(* Properties.  First what a line means, from the comments on GetToken(),  *)
(* doNeedExpression() and MachineInstruction, with no states.              *)

IsBlank(b) == b \in {"SP", "COMMA"}
Hashes(l) == {i \in DOMAIN l : l[i] = "COMMENT"}
Text(l) == IF Hashes(l) = {} THEN l ELSE SubSeq(l, 1, Min(Hashes(l)) - 1)

\* A comment is preceded by white space; strings have no use; all is ASCII.
WellSpelt(l) ==
  /\ \A i \in DOMAIN Text(l) : Text(l)[i] \notin {"QUOTE", "BAD"} \cup Garbage
  /\ Hashes(l) # {} /\ Text(l) # <<>> => Text(l)[Len(Text(l))] \in Marks
  /\ \A i \in DOMAIN l : l[i] # "NONASCII"

\* Where the colon of a label is, 0 if there is none.
LabelEnd(l) ==
  LET ends == {i \in DOMAIN Text(l) : /\ i > 1 /\ l[i] = COLON /\ isInitialSymbolChar(l[i - 1])
                                      /\ \A j \in 1 .. i - 2 : IsBlank(l[j])}
  IN IF ends = {} THEN 0 ELSE Min(ends)

Statement(l) ==
  SelectSeq(SubSeq(Text(l), LabelEnd(l) + 1, Len(Text(l))), LAMBDA b : ~IsBlank(b))

Operands(l) == Tail(Statement(l))
OperandAt(l) == {i \in DOMAIN Operands(l) : Operands(l)[i] # "NEG"}
Arity(l) == numOperands(EntryOf(ctx.symtab, Statement(l)[1]).value)

NewNames(l) ==
  {b \in ToSet(Text(l)) : isInitialSymbolChar(b) /\ ~Exists(start.symtab, b)}

WellFormed(l) ==
  /\ WellSpelt(l)
  /\ IF Statement(l) = <<>> THEN LabelEnd(l) = 0
     ELSE /\ LabelEnd(l) # 0 => ~IsDefined(start.symtab, l[LabelEnd(l) - 1])
          /\ IsDefined(ctx.symtab, Statement(l)[1])
          /\ \A i \in DOMAIN Operands(l) :
               \/ Operands(l)[i] \in Numbers \cup {"NEG"}
               \/ isInitialSymbolChar(Operands(l)[i])
          /\ Cardinality(OperandAt(l)) = Arity(l)
          /\ Operands(l) # <<>> => Len(Operands(l)) \in OperandAt(l)
          /\ Cardinality(NewNames(l)) + Len(Reserved \o start.symtab) <= MaxSymbols

\* Operand p, with the minus signs before it.
Meaning(l) ==
  LET ops == Operands(l)
      Nth(p) == CHOOSE i \in OperandAt(l) : Cardinality({j \in OperandAt(l) : j <= i}) = p
      Odd(p) == (Nth(p) - (IF p = 1 THEN 0 ELSE Nth(p - 1))) % 2 = 0
      Part(p) == IF p > Arity(l) THEN 0
                 ELSE IF ops[Nth(p)] \notin Numbers THEN Index(ctx.symtab, ops[Nth(p)])
                 ELSE Immediate(IF Odd(p) THEN -Value[ops[Nth(p)]] ELSE Value[ops[Nth(p)]])
  IN [p \in 0 .. 3 |-> IF p = 0 THEN Index(ctx.symtab, Statement(l)[1]) ELSE Part(p)]


\* Whatever the errors so far, and although a line that fails leaves an instruction
\* behind without advancing dot: instructions[dot] and parts[opindex] exist when they
\* are written, and Unget() finds the lexer as it must.
NeverBroken ==
  /\ pc # "panic" /\ ctx.dot <= Len(ctx.instructions)
  /\ ctx.state \in {"StNeedExpression", "StNeedNewline"} =>
       ctx.dot < Len(ctx.instructions) /\ ctx.opindex <= ctx.numoperands + 1
  /\ lexer.pbToken # NoToken => /\ lexer.state = "stBetween" /\ ctx.state = "StNeedKey"
                                /\ lexer.pbToken.kind = "TkSymbol"

================================================================================
