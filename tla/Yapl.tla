---------------------------------- MODULE Yapl ----------------------------------
(***************************************************************************)
(* The YAPL-1 compiler as far as it goes: lexer, string and symbol tables, *)
(* parser (yapl-1).  One step of the model is one byte from Getb(), with   *)
(* all that it leads to: the token it completes, if any, and what the      *)
(* parser does with that token.                                            *)
(*                                                                         *)
(* Tokens, indices and errors are the 16-bit words of the code, bytes are  *)
(* numbers.  The tables are functions on the indices in use.  The nodes of *)
(* the tree are in the order of their allocation, which goes from the end  *)
(* of the array down: node k of `ast` is AstNodes[AstMaxNode - k].         *)
(***************************************************************************)
EXTENDS Integers, Sequences

CONSTANTS SYMTAB_MAX, STRTAB_MAX, SYMLEN_MAX, AstMaxNode,
          Input,      \* the bytes a source may hold
          IoErrors    \* whether reading may fail

ErrBase == 49152
ERR_LEX_INVAL == 49409
ERR_LEX_IO == 49410
ERR_INT_NOSTR == 50945
ERR_INT_NOSYM == 50946
E_EOF == 65535
E_IOERR == 65534

\* The language's own symbols: A B C D E F I P Q V # ; = { } + ?
LangSymbols == <<65, 66, 67, 68, 69, 70, 73, 80, 81, 86, 35, 59, 61, 123, 125, 43, 63>>

\* They fit in the tables, and an index is never taken for an error or a type.
ASSUME TableSizes ==
  /\ SYMTAB_MAX \in Nat /\ 17 < SYMTAB_MAX /\ SYMTAB_MAX <= 16384
  /\ STRTAB_MAX \in Nat /\ SYMLEN_MAX \in Nat /\ 0 < SYMLEN_MAX
  /\ SYMLEN_MAX + 17 < STRTAB_MAX /\ STRTAB_MAX <= ErrBase
  /\ AstMaxNode \in Nat /\ 1 < AstMaxNode /\ AstMaxNode <= ErrBase

ASSUME InputAssumption == Input \subseteq {b \in Nat : b < 256}

VARIABLES pc,          \* the call of GetToken() the parser is in, or where main() is
          symtab, symtabNext, strtab, strtabNext,
          pbt,         \* the token pushed back, or 0
          inComment,   \* of internalGetToken()
          ended,       \* what reading from now on gives: 0, or E_EOF or E_IOERR for ever
          ast,         \* the nodes
          last         \* history: the last byte that made a token, and that token

vars == <<pc, symtab, symtabNext, strtab, strtabNext, pbt, inComment, ended, ast, last>>

-----------------------------------------------------------------------------
(* Tokens (lex.go, error.go)                                               *)

TT_USR == 0
TT_KEY == 16384
TT_NUM == 32768
TT_EOF == E_EOF

\* A type OR-ed to an index; an error has all the type bits already.
Tagged(type, index) == IF index >= ErrBase THEN index ELSE type + index

IsError(w) == w >= ErrBase
IsUsrTok(t) == TRUE            \* t & 0 = 0
TokenAsSymIndex(t) == t % 16384

isHash(b) == b = 35
isWhite(b) == b \in {9, 10, 32}
isDigit(b) == b \in 48 .. 57
isLowerLetter(b) == b \in 97 .. 122
isUpperLetter(b) == b \in 65 .. 90
isPunctuation(b) == b \in {43, 59, 61, 123, 125}
convert(b) == b - 48

-----------------------------------------------------------------------------
(* String and symbol tables (sym.go).  A symbol has length 1, a number 0.  *)

StrtabFull == STRTAB_MAX - strtabNext < SYMLEN_MAX

MatchesButLast(val, len, b) ==
  {i \in 0 .. symtabNext - 2 :
     /\ symtab[i].Len = len
     /\ IF len = 0 THEN symtab[i].Val = val ELSE strtab[symtab[i].Val] = b}

MatchesAnyLen(val, len, b) ==
  {i \in 0 .. symtabNext - 1 :
     IF len = 0 THEN symtab[i].Val = val ELSE symtab[i].Len = 1 /\ strtab[symtab[i].Val] = b}

\* NumLookup() for length 0, else SymLookup() of the one-byte string b.
Matches(val, len, b) ==
  {i \in 0 .. symtabNext - 1 :
     /\ symtab[i].Len = len
     /\ IF len = 0 THEN symtab[i].Val = val ELSE strtab[symtab[i].Val] = b}

IsNew(val, len, b) == Matches(val, len, b) = {} /\ symtabNext < SYMTAB_MAX

\* What SymEnter() returns, and what it does to the tables.  The string is already
\* in its place, at the end of the string table.
SymEnter(val, len, b) ==
  LET found == Matches(val, len, b)
  IN IF found # {} THEN CHOOSE i \in found : \A j \in found : i <= j
     ELSE IF symtabNext >= SYMTAB_MAX THEN ERR_INT_NOSYM ELSE symtabNext

CommitInPlace(val, len, b) ==
  IF IsNew(val, len, b)
  THEN /\ symtab' = [i \in 0 .. symtabNext |->
                       IF i < symtabNext THEN symtab[i] ELSE [Val |-> val, Len |-> len]]
       /\ symtabNext' = symtabNext + 1
       /\ strtab' = [i \in 0 .. strtabNext |-> IF i < strtabNext THEN strtab[i] ELSE b]
       /\ UNCHANGED strtabNext
  ELSE UNCHANGED <<symtab, symtabNext, strtab, strtabNext>>

Commit(val, len, b) ==
  IF IsNew(val, len, b)
  THEN /\ symtab' = [i \in 0 .. symtabNext |->
                       IF i < symtabNext THEN symtab[i] ELSE [Val |-> val, Len |-> len]]
       /\ symtabNext' = symtabNext + 1
       /\ strtab' = [i \in 0 .. strtabNext + len - 1 |->
                       IF i < strtabNext THEN strtab[i] ELSE b]
       /\ strtabNext' = strtabNext + len
  ELSE UNCHANGED <<symtab, symtabNext, strtab, strtabNext>>

tables == <<symtab, symtabNext, strtab, strtabNext>>

F == TT_KEY + 6
P == TT_KEY + 8
V == TT_KEY + 10
SEMI == TT_KEY + 12
EQU == TT_KEY + 13
BCLOSE == TT_KEY + 15

\* SymInit(): one symbol, and the check that it got the index of its constant.
AddLangSymbol ==
  /\ pc = "SymInit"
  /\ LET sym == LangSymbols[symtabNext]
     IN /\ Commit(strtabNext, 1, sym)
        /\ pc' = IF SymEnter(strtabNext, 1, sym) # symtabNext THEN "exit2"
                 ELSE IF symtabNext = Len(LangSymbols) THEN "declaration" ELSE "SymInit"
  /\ UNCHANGED <<pbt, inComment, ended, ast, last>>

-----------------------------------------------------------------------------
(* The parser (parse.go): what it does with the token it has asked for.    *)

Node(sym, size, kind) == [Sym |-> sym, Size |-> size, Kind |-> kind]

AllocAll(node, next) ==
  IF Len(ast) < AstMaxNode THEN ast' = Append(ast, node) /\ pc' = next
                           ELSE pc' = "panic" /\ UNCHANGED ast

\* allocAstNode() keeps node 0 and asserts that there is another.
Alloc(node, next) ==
  IF Len(ast) < AstMaxNode - 1 THEN ast' = Append(ast, node) /\ pc' = next
                               ELSE pc' = "panic" /\ UNCHANGED ast

SyntaxError == Alloc(Node(ErrBase, 1, "error"), "resync")

Goto(next) == pc' = next /\ UNCHANGED ast

declaration(t) ==
  /\ pc = "declaration"
  /\ IF IsError(t) THEN Goto("program")
     ELSE IF t = V THEN Goto("variable")
     ELSE IF t = F THEN Goto("declaration")      \* function() does nothing yet
     ELSE SyntaxError
  /\ pbt' = 0

variable(t) ==
  /\ pc = "variable"
  /\ IF IsError(t) THEN Goto("program")
     ELSE IF ~IsUsrTok(t) THEN SyntaxError
     ELSE Alloc(Node(TokenAsSymIndex(t), 1, "usr"), "afterName")
  /\ pbt' = 0

afterName(t) ==
  /\ pc = "afterName"
  /\ IF IsError(t) THEN Goto("program")
     ELSE IF t \in {SEMI, EQU} THEN Goto("declaration")   \* nor does assign()
     ELSE SyntaxError
  /\ pbt' = 0

resyncPastEnd(t) ==
  /\ pc = "resync"
  /\ IF t \in {SEMI, BCLOSE} THEN Goto("declaration") ELSE Goto("resync")
  /\ pbt' = 0

\* PushbackToken() asserts that no token is pushed back yet.
resync(t) ==
  /\ pc = "resync"
  /\ IF t \in {SEMI, BCLOSE, TT_EOF} THEN Goto("declaration") ELSE Goto("resync")
  /\ pbt' = IF t = TT_EOF THEN t ELSE 0

Got(t) == declaration(t) \/ variable(t) \/ afterName(t) \/ resync(t)

\* The end of program(): its error result is that of the loop's own variable, so
\* the root is made whatever has ended the loop.
Program ==
  /\ pc = "program"
  /\ Alloc(Node(TokenAsSymIndex(P), 1 + Len(ast), "none"), "done")
  /\ UNCHANGED <<tables, pbt, inComment, ended, last>>

-----------------------------------------------------------------------------
(* The lexer (internalGetToken())                                          *)

WantsToken == pc \in {"declaration", "variable", "afterName", "resync"}

Pushback ==
  /\ WantsToken /\ pbt # 0
  /\ Got(pbt)
  /\ UNCHANGED <<tables, inComment, ended, last>>

\* A token is complete.
Return(b, t) ==
  /\ Got(t)
  /\ inComment' = FALSE /\ last' = [byte |-> b, token |-> t]

\* The byte is passed over.
Skips(b) == b = 10 \/ inComment \/ isHash(b) \/ isWhite(b)

Skip(b) ==
  /\ Skips(b)
  /\ inComment' = (b # 10 /\ (inComment \/ isHash(b)))
  /\ UNCHANGED <<pc, pbt, ast, last, tables>>

Number(b) ==
  /\ ~Skips(b) /\ isDigit(b)
  /\ Return(b, Tagged(TT_NUM, SymEnter(convert(b), 0, b)))
  /\ Commit(convert(b), 0, b)

Symbol(b) ==
  /\ ~Skips(b) /\ (isLowerLetter(b) \/ isUpperLetter(b) \/ isPunctuation(b))
  /\ Return(b, Tagged(IF isLowerLetter(b) THEN TT_USR ELSE TT_KEY,
                      SymEnter(strtabNext, 1, b)))
  /\ Commit(strtabNext, 1, b)

Invalid(b) ==
  /\ ~Skips(b) /\ ~isDigit(b) /\ ~isLowerLetter(b) /\ ~isUpperLetter(b) /\ ~isPunctuation(b)
  /\ Return(b, ERR_LEX_INVAL)
  /\ UNCHANGED tables

\* Getb() gives a byte.  When the string table is full, any byte is an error.
Getb(b) ==
  /\ WantsToken /\ pbt = 0 /\ ended = 0
  /\ IF StrtabFull THEN Return(b, ERR_INT_NOSTR) /\ UNCHANGED tables
     ELSE Skip(b) \/ Number(b) \/ Symbol(b) \/ Invalid(b)
  /\ UNCHANGED ended

\* The input is at its end, or cannot be read.
NoByte(e) ==
  /\ WantsToken /\ pbt = 0 /\ ended \in {0, e}
  /\ ended' = e
  /\ Return(e, IF e = E_EOF THEN TT_EOF ELSE ERR_LEX_IO)
  /\ UNCHANGED tables

-----------------------------------------------------------------------------
Init ==
  /\ pc = "SymInit"
  /\ symtab = [i \in {0} |-> [Val |-> 0, Len |-> 0]] /\ symtabNext = 1
  /\ strtab = [i \in {0} |-> 0] /\ strtabNext = 1
  /\ pbt = 0 /\ inComment = FALSE /\ ended = 0 /\ ast = <<>>
  /\ last = [byte |-> E_EOF, token |-> TT_EOF]

EndOfInput == NoByte(E_EOF)
ReadError == IoErrors /\ NoByte(E_IOERR)

Next == \/ AddLangSymbol \/ Program \/ Pushback
        \/ \E b \in Input : Getb(b)
        \/ EndOfInput \/ ReadError

\* Nothing makes the input end; when it has, the compiler goes on by itself.
Spec == Init /\ [][Next]_vars
             /\ WF_vars(AddLangSymbol) /\ WF_vars(Program) /\ WF_vars(Pushback)
             /\ WF_vars(ended = E_EOF /\ EndOfInput)

-----------------------------------------------------------------------------
(* Properties.                                                             *)

Indices == 0 .. symtabNext - 1

SameSymbol(i, j) ==
  /\ symtab[i].Len = symtab[j].Len
  /\ IF symtab[i].Len = 0 THEN symtab[i].Val = symtab[j].Val
     ELSE strtab[symtab[i].Val] = strtab[symtab[j].Val]

\* types.go of the symbol table: "a unique entry for each string symbol or constant
\* value", whatever is entered in whatever order and also when a table is full;
\* so the parser may compare symbols by index (IsMatch(), SEMI, BCLOSE).
Interned == \A i, j \in Indices : SameSymbol(i, j) => i = j

\* SymEnter(): an entry is never changed or moved, and neither is the string it
\* refers to, although the lexer writes each token at the end of the same array.
EntriesStable ==
  [][\A i \in Indices :
       /\ symtab'[i] = symtab[i]
       /\ symtab[i].Len = 1 => strtab'[symtab[i].Val] = strtab[symtab[i].Val]]_vars

\* internalGetToken(): a token that is no error stands, by its type and its entry
\* in the symbol table, for the byte it was made from; the symbols of the language
\* have the indices that the constants A, B, ... of sym.go say.
TokenMeans ==
  LET t == last.token
      b == last.byte
      entry == symtab[TokenAsSymIndex(t)]
      type == IF isDigit(b) THEN TT_NUM ELSE IF isLowerLetter(b) THEN TT_USR ELSE TT_KEY
  IN ~IsError(t) =>
       /\ TokenAsSymIndex(t) \in Indices /\ t = type + TokenAsSymIndex(t)
       /\ IF isDigit(b) THEN entry = [Val |-> convert(b), Len |-> 0]
          ELSE entry.Len = 1 /\ strtab[entry.Val] = b
       /\ \A k \in DOMAIN LangSymbols : b = LangSymbols[k] => t = TT_KEY + k

\* parse.go: the nodes refer to symbols that exist; after an error there is a node
\* for it; the root is made last, and its size takes in exactly the nodes to its
\* right; and the only assertion that fails is that there is another node, when
\* all but node 0 are in use.
AstSound ==
  /\ \A k \in DOMAIN ast : ast[k].Kind = "usr" => ast[k].Sym \in Indices
  /\ pc = "resync" => ast # <<>> /\ ast[Len(ast)].Kind = "error"
  /\ pc = "done" => LET root == ast[Len(ast)]
                    IN root.Sym = TokenAsSymIndex(P) /\ root.Size = Len(ast)
                       /\ \A k \in 1 .. Len(ast) - 1 : ast[k].Size = 1 /\ ast[k].Kind # "none"
  /\ pc = "panic" => Len(ast) = AstMaxNode - 1
  /\ pc # "exit2"

\* program() and resync(): once the input has ended Parse() returns, also when the
\* end comes while tokens are skipped after an error.
ParseEnds == ended = E_EOF ~> pc \in {"done", "panic"}
================================================================================
