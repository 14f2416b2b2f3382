------------------------------- MODULE YaplProofs -------------------------------
(***************************************************************************)
(* Proofs about Yapl, for every size of its tables and every input.        *)
(***************************************************************************)
EXTENDS Yapl, TLAPS

\* The tables: entries are within bounds, refer to strings that exist, and differ.
TableInv ==
  /\ symtabNext \in Nat /\ 0 < symtabNext /\ symtabNext <= SYMTAB_MAX
  /\ strtabNext \in Nat /\ 0 < strtabNext /\ strtabNext <= STRTAB_MAX
  /\ symtab \in [Indices -> [Val : Nat, Len : {0, 1}]]
  /\ strtab \in [0 .. strtabNext - 1 -> Nat]
  /\ \A i \in Indices : symtab[i].Len = 1 => symtab[i].Val < strtabNext
  /\ Interned

\* A step only adds to the tables.
Kept ==
  /\ symtabNext <= symtabNext' /\ strtabNext <= strtabNext'
  /\ \A i \in Indices :
       /\ symtab'[i] = symtab[i]
       /\ symtab[i].Len = 1 => strtab'[symtab[i].Val] = strtab[symtab[i].Val]

\* Index i is that of the string b, or of the number v, after the step.
HasString(i, b) ==
  i \in Indices' /\ symtab'[i].Len = 1 /\ strtab'[symtab'[i].Val] = b
HasNumber(i, v) == i \in Indices' /\ symtab'[i] = [Val |-> v, Len |-> 0]

\* SymEnter() of a one-byte string: the tables stay sound, nothing is lost, and unless
\* the symbol table is full the index returned is that of the string.
LEMMA EnterString ==
  ASSUME TableInv, NEW b \in Nat, strtabNext < STRTAB_MAX, Commit(strtabNext, 1, b)
  PROVE  /\ TableInv' /\ Kept
         /\ \/ SymEnter(strtabNext, 1, b) = ERR_INT_NOSYM
            \/ HasString(SymEnter(strtabNext, 1, b), b)
<1>0. SYMTAB_MAX \in Nat /\ STRTAB_MAX \in Nat
  BY TableSizes
<1>1. CASE ~IsNew(strtabNext, 1, b)
  <2>1. UNCHANGED tables
    BY <1>1 DEF Commit, tables
  <2>2. TableInv' /\ Kept
    BY <2>1 DEF TableInv, Kept, tables, Interned, Indices, SameSymbol
  <2>3. CASE Matches(strtabNext, 1, b) = {}
    <3>1. symtabNext >= SYMTAB_MAX
      BY <1>0, <1>1, <2>3 DEF IsNew, TableInv
    <3> QED BY <2>2, <2>3, <3>1 DEF SymEnter
  <2>4. CASE Matches(strtabNext, 1, b) # {}
    <3>1. PICK i \in Matches(strtabNext, 1, b) : TRUE
      BY <2>4
    <3>2. \A j \in Matches(strtabNext, 1, b) : j = i
      BY <3>1 DEF Matches, TableInv, Interned, SameSymbol, Indices
    <3>3. i \in Nat
      BY <3>1 DEF Matches, TableInv
    <3>4. SymEnter(strtabNext, 1, b) = i
      <4> DEFINE found == Matches(strtabNext, 1, b)
                 least == CHOOSE k \in found : \A j \in found : k <= j
      <4>1. \A j \in found : i <= j
        BY <3>2, <3>3
      <4>2. least \in found
        BY <3>1, <4>1
      <4> QED BY <2>4, <3>2, <4>2 DEF SymEnter
    <3> QED BY <2>1, <2>2, <3>1, <3>4 DEF HasString, Matches, Indices, tables
  <2> QED BY <2>2, <2>3, <2>4
<1>2. CASE IsNew(strtabNext, 1, b)
  <2>1. /\ symtab' = [i \in 0 .. symtabNext |->
                        IF i < symtabNext THEN symtab[i] ELSE [Val |-> strtabNext, Len |-> 1]]
        /\ symtabNext' = symtabNext + 1
        /\ strtab' = [i \in 0 .. strtabNext |-> IF i < strtabNext THEN strtab[i] ELSE b]
        /\ strtabNext' = strtabNext + 1
    BY <1>2 DEF Commit, TableInv
  <2>2. /\ symtabNext < SYMTAB_MAX
        /\ \A i \in Indices : ~(symtab[i].Len = 1 /\ strtab[symtab[i].Val] = b)
    BY <1>2 DEF IsNew, Matches, Indices
  <2>3. Kept
    BY <2>1 DEF Kept, TableInv, Indices
  <2>4. /\ symtab' \in [Indices' -> [Val : Nat, Len : {0, 1}]]
        /\ strtab' \in [0 .. strtabNext' - 1 -> Nat]
        /\ \A i \in Indices' : symtab'[i].Len = 1 => symtab'[i].Val < strtabNext'
    BY <2>1 DEF TableInv, Indices
  <2>5. Interned'
    <3> SUFFICES ASSUME NEW i \in Indices', NEW j \in Indices', SameSymbol(i, j)'
                 PROVE i = j
      BY DEF Interned
    <3>1. CASE i < symtabNext /\ j < symtabNext
      BY <2>1, <2>3, <3>1 DEF TableInv, Interned, SameSymbol, Indices, Kept
    <3>2. CASE i < symtabNext /\ j = symtabNext
      BY <2>1, <2>2, <2>3, <3>2 DEF TableInv, SameSymbol, Indices, Kept
    <3>3. CASE i = symtabNext /\ j < symtabNext
      BY <2>1, <2>2, <2>3, <3>3 DEF TableInv, SameSymbol, Indices, Kept
    <3> QED BY <2>1, <3>1, <3>2, <3>3 DEF Indices, TableInv
  <2>6. TableInv'
    <3>1. /\ symtabNext' \in Nat /\ 0 < symtabNext' /\ symtabNext' <= SYMTAB_MAX
          /\ strtabNext' \in Nat /\ 0 < strtabNext' /\ strtabNext' <= STRTAB_MAX
      BY <1>0, <2>1, <2>2 DEF TableInv
    <3> QED BY <2>4, <2>5, <3>1 DEF TableInv
  <2>7. SymEnter(strtabNext, 1, b) = symtabNext
    <3>1. Matches(strtabNext, 1, b) = {}
      BY <1>2 DEF IsNew
    <3>2. ~(symtabNext >= SYMTAB_MAX)
      BY <1>0, <2>2 DEF TableInv
    <3> QED BY <3>1, <3>2 DEF SymEnter
  <2>8. HasString(symtabNext, b)
    BY <2>1 DEF HasString, Indices, TableInv
  <2> QED BY <2>3, <2>6, <2>7, <2>8
<1> QED BY <1>1, <1>2

\* The same of a number, for which the string table is left alone.
LEMMA EnterNumber ==
  ASSUME TableInv, NEW v \in Nat, NEW b, Commit(v, 0, b)
  PROVE  /\ TableInv' /\ Kept
         /\ \/ SymEnter(v, 0, b) = ERR_INT_NOSYM
            \/ HasNumber(SymEnter(v, 0, b), v)
<1>0. SYMTAB_MAX \in Nat /\ STRTAB_MAX \in Nat
  BY TableSizes
<1>1. CASE ~IsNew(v, 0, b)
  <2>1. UNCHANGED tables
    BY <1>1 DEF Commit, tables
  <2>2. TableInv' /\ Kept
    BY <2>1 DEF TableInv, Kept, tables, Interned, Indices, SameSymbol
  <2>3. CASE Matches(v, 0, b) = {}
    <3>1. symtabNext >= SYMTAB_MAX
      BY <1>0, <1>1, <2>3 DEF IsNew, TableInv
    <3> QED BY <2>2, <2>3, <3>1 DEF SymEnter
  <2>4. CASE Matches(v, 0, b) # {}
    <3>1. PICK i \in Matches(v, 0, b) : TRUE
      BY <2>4
    <3>2. \A j \in Matches(v, 0, b) : j = i
      BY <3>1 DEF Matches, TableInv, Interned, SameSymbol, Indices
    <3>3. i \in Nat
      BY <3>1 DEF Matches, TableInv
    <3>4. SymEnter(v, 0, b) = i
      <4> DEFINE found == Matches(v, 0, b)
                 least == CHOOSE k \in found : \A j \in found : k <= j
      <4>1. \A j \in found : i <= j
        BY <3>2, <3>3
      <4>2. least \in found
        BY <3>1, <4>1
      <4> QED BY <2>4, <3>2, <4>2 DEF SymEnter
    <3>5. i \in Indices /\ symtab[i] = [Val |-> v, Len |-> 0]
      BY <3>1 DEF Matches, TableInv, Indices
    <3> QED BY <2>1, <2>2, <3>4, <3>5 DEF HasNumber, Indices, tables
  <2> QED BY <2>2, <2>3, <2>4
<1>2. CASE IsNew(v, 0, b)
  <2>1. /\ symtab' = [i \in 0 .. symtabNext |->
                        IF i < symtabNext THEN symtab[i] ELSE [Val |-> v, Len |-> 0]]
        /\ symtabNext' = symtabNext + 1
        /\ strtab' = [i \in 0 .. strtabNext - 1 |-> IF i < strtabNext THEN strtab[i] ELSE b]
        /\ strtabNext' = strtabNext
    BY <1>2 DEF Commit, TableInv
  <2>2. /\ symtabNext < SYMTAB_MAX
        /\ \A i \in Indices : ~(symtab[i].Len = 0 /\ symtab[i].Val = v)
    BY <1>2 DEF IsNew, Matches, Indices
  <2>3. Kept
    BY <2>1 DEF Kept, TableInv, Indices
  <2>4. /\ symtab' \in [Indices' -> [Val : Nat, Len : {0, 1}]]
        /\ strtab' \in [0 .. strtabNext' - 1 -> Nat]
        /\ \A i \in Indices' : symtab'[i].Len = 1 => symtab'[i].Val < strtabNext'
    BY <2>1 DEF TableInv, Indices
  <2>5. Interned'
    <3> SUFFICES ASSUME NEW i \in Indices', NEW j \in Indices', SameSymbol(i, j)'
                 PROVE i = j
      BY DEF Interned
    <3>1. CASE i < symtabNext /\ j < symtabNext
      BY <2>1, <2>3, <3>1 DEF TableInv, Interned, SameSymbol, Indices, Kept
    <3>2. CASE i < symtabNext /\ j = symtabNext
      BY <2>1, <2>2, <2>3, <3>2 DEF TableInv, SameSymbol, Indices, Kept
    <3>3. CASE i = symtabNext /\ j < symtabNext
      BY <2>1, <2>2, <2>3, <3>3 DEF TableInv, SameSymbol, Indices, Kept
    <3> QED BY <2>1, <3>1, <3>2, <3>3 DEF Indices, TableInv
  <2>6. TableInv'
    <3>1. /\ symtabNext' \in Nat /\ 0 < symtabNext' /\ symtabNext' <= SYMTAB_MAX
          /\ strtabNext' \in Nat /\ 0 < strtabNext' /\ strtabNext' <= STRTAB_MAX
      BY <1>0, <2>1, <2>2 DEF TableInv
    <3> QED BY <2>4, <2>5, <3>1 DEF TableInv
  <2>7. SymEnter(v, 0, b) = symtabNext
    <3>1. Matches(v, 0, b) = {}
      BY <1>2 DEF IsNew
    <3>2. ~(symtabNext >= SYMTAB_MAX)
      BY <1>0, <2>2 DEF TableInv
    <3> QED BY <3>1, <3>2 DEF SymEnter
  <2>8. HasNumber(symtabNext, v)
    BY <2>1 DEF HasNumber, Indices, TableInv
  <2> QED BY <2>3, <2>6, <2>7, <2>8
<1> QED BY <1>1, <1>2

-----------------------------------------------------------------------------
\* What the language's symbols are: bytes, all different, neither digits nor lower case.
LEMMA LangSymbolsAre ==
  /\ \A k \in 1 .. 17 : /\ LangSymbols[k] \in Nat
                         /\ ~isDigit(LangSymbols[k]) /\ ~isLowerLetter(LangSymbols[k])
  /\ \A j, k \in 1 .. 17 : LangSymbols[j] = LangSymbols[k] => j = k
  /\ DOMAIN LangSymbols = 1 .. 17 /\ Len(LangSymbols) = 17
<1>1. /\ LangSymbols[1] = 65 /\ LangSymbols[2] = 66 /\ LangSymbols[3] = 67
      /\ LangSymbols[4] = 68 /\ LangSymbols[5] = 69 /\ LangSymbols[6] = 70
      /\ LangSymbols[7] = 73 /\ LangSymbols[8] = 80 /\ LangSymbols[9] = 81
      /\ LangSymbols[10] = 86 /\ LangSymbols[11] = 35 /\ LangSymbols[12] = 59
      /\ LangSymbols[13] = 61 /\ LangSymbols[14] = 123 /\ LangSymbols[15] = 125
      /\ LangSymbols[16] = 43 /\ LangSymbols[17] = 63
  BY DEF LangSymbols
<1>2. DOMAIN LangSymbols = 1 .. 17 /\ Len(LangSymbols) = 17
  BY DEF LangSymbols
<1> HIDE DEF LangSymbols
<1>3. \A k \in 1 .. 17 : \/ k = 1 \/ k = 2 \/ k = 3 \/ k = 4 \/ k = 5 \/ k = 6 \/ k = 7 \/ k = 8 \/ k = 9
                        \/ k = 10 \/ k = 11 \/ k = 12 \/ k = 13 \/ k = 14 \/ k = 15 \/ k = 16 \/ k = 17
  OBVIOUS
<1>4. \A k \in 1 .. 17 : /\ LangSymbols[k] \in Nat
                         /\ ~isDigit(LangSymbols[k]) /\ ~isLowerLetter(LangSymbols[k])
  BY <1>1, <1>3 DEF isDigit, isLowerLetter
<1>5. \A j, k \in 1 .. 17 : LangSymbols[j] = LangSymbols[k] => j = k
  BY <1>1, <1>3
<1> QED BY <1>2, <1>4, <1>5, Zenon

\* The first n symbols of the language are in the tables, at their places.
Entered(n) == \A k \in 1 .. n : /\ symtab[k] = [Val |-> k, Len |-> 1]
                                /\ strtab[k] = LangSymbols[k]

\* While SymInit() runs there is nothing else; from then on all of them are there.
LangInv ==
  IF pc = "SymInit"
  THEN symtabNext = strtabNext /\ symtabNext <= 17 /\ Entered(symtabNext - 1)
       /\ symtab[0].Len = 0
  ELSE symtabNext > 17 /\ strtabNext > 17 /\ Entered(17)

\* A step that only adds to the tables leaves the language's symbols where they are.
LEMMA KeptKeepsLang ==
  ASSUME TableInv, LangInv, pc # "SymInit", Kept, TableInv', pc' # "SymInit"
  PROVE  LangInv'
<1>1. /\ symtabNext > 17 /\ strtabNext > 17 /\ Entered(17)
      /\ symtabNext' > 17 /\ strtabNext' > 17
  BY DEF LangInv, Kept, TableInv
<1>2. Entered(17)'
  <2> SUFFICES ASSUME NEW k \in 1 .. 17
               PROVE  symtab'[k] = [Val |-> k, Len |-> 1] /\ strtab'[k] = LangSymbols[k]
    BY DEF Entered, LangSymbols
  <2>1. k \in Indices
    <3>1. symtabNext \in Nat /\ symtabNext > 17
      BY <1>1 DEF TableInv
    <3> QED BY <3>1 DEF Indices
  <2>2. symtab[k] = [Val |-> k, Len |-> 1] /\ strtab[k] = LangSymbols[k]
    BY <1>1 DEF Entered
  <2>3. symtab'[k] = symtab[k] /\ (symtab[k].Len = 1 => strtab'[symtab[k].Val] = strtab[symtab[k].Val])
    BY <2>1 DEF Kept
  <2> QED BY <2>2, <2>3
<1> QED BY <1>1, <1>2 DEF LangInv

\* One step of SymInit(): the symbol is new, so it gets the next index, its constant.
LEMMA AddLangStep ==
  ASSUME TableInv, LangInv, AddLangSymbol
  PROVE  TableInv' /\ LangInv' /\ Kept /\ pc' # "exit2"
<1>a. PICK n \in 1 .. 17 : n = symtabNext
  BY DEF AddLangSymbol, LangInv, TableInv
<1> DEFINE sym == LangSymbols[n]
<1>0. SYMTAB_MAX \in Nat /\ STRTAB_MAX \in Nat /\ 17 < SYMTAB_MAX /\ 17 < STRTAB_MAX
  BY TableSizes
<1>1. /\ pc = "SymInit" /\ symtabNext = n /\ strtabNext = n /\ Entered(n - 1)
      /\ symtab[0].Len = 0 /\ symtab \in [0 .. n - 1 -> [Val : Nat, Len : {0, 1}]]
  BY <1>a DEF AddLangSymbol, Indices, LangInv, TableInv
<1>2. sym \in Nat /\ strtabNext < STRTAB_MAX
  <2>1. sym \in Nat
    BY LangSymbolsAre
  <2>2. strtabNext < STRTAB_MAX
    BY <1>0, <1>1
  <2> QED BY <2>1, <2>2
<1>3. Matches(strtabNext, 1, sym) = {}
  <2> SUFFICES ASSUME NEW i \in 0 .. n - 1, symtab[i].Len = 1, strtab[symtab[i].Val] = sym
               PROVE  FALSE
    BY <1>1 DEF Matches
  <2>0. i # 0
    BY <1>1
  <2>1. i \in 1 .. n - 1 /\ i \in 1 .. 17 /\ i # n
    BY <2>0
  <2>2. LangSymbols[i] = LangSymbols[n]
    <3>1. symtab[i] = [Val |-> i, Len |-> 1] /\ strtab[i] = LangSymbols[i]
      BY <1>1, <2>1 DEF Entered
    <3> QED BY <3>1
  <2> QED BY <2>1, <2>2, LangSymbolsAre
<1>4. IsNew(strtabNext, 1, sym) /\ SymEnter(strtabNext, 1, sym) = n
  BY <1>0, <1>1, <1>3 DEF IsNew, SymEnter
<1>5. Commit(strtabNext, 1, sym)
  BY <1>a DEF AddLangSymbol
<1>6. TableInv' /\ Kept
  BY <1>2, <1>5, EnterString
<1>7. pc' = IF n = 17 THEN "declaration" ELSE "SymInit"
  BY <1>a, <1>4, LangSymbolsAre DEF AddLangSymbol
<1>8. /\ symtabNext' = n + 1 /\ strtabNext' = n + 1
      /\ symtab' = [i \in 0 .. n |-> IF i < n THEN symtab[i] ELSE [Val |-> n, Len |-> 1]]
      /\ strtab' = [i \in 0 .. n |-> IF i < n THEN strtab[i] ELSE sym]
  BY <1>1, <1>4, <1>5 DEF Commit
<1>9. Entered(n)'
  <2> SUFFICES ASSUME NEW k \in 1 .. n
               PROVE  symtab'[k] = [Val |-> k, Len |-> 1] /\ strtab'[k] = LangSymbols[k]
    BY <1>8 DEF Entered, LangSymbols
  <2>1. CASE k = n
    BY <1>1, <1>8, <2>1
  <2>2. CASE k < n
    BY <1>1, <1>8, <2>2 DEF Entered
  <2> QED BY <1>1, <2>1, <2>2
<1>10. symtab'[0].Len = 0
  BY <1>1, <1>8
<1>11. CASE n = 17
  BY <1>6, <1>7, <1>8, <1>9, <1>11 DEF LangInv
<1>12. CASE n # 17
  <2>1. pc' = "SymInit" /\ symtabNext' = strtabNext' /\ symtabNext' <= 17 /\ symtabNext' - 1 = n
    BY <1>7, <1>8, <1>12
  <2>2. Entered(symtabNext - 1)'
    BY <1>9, <2>1 DEF Entered
  <2> QED BY <1>6, <1>10, <2>1, <2>2 DEF LangInv
<1> QED BY <1>11, <1>12

-----------------------------------------------------------------------------
(* Tokens.                                                                 *)

TokInv == last.byte \in Nat /\ last.token \in Nat /\ TokenMeans

\* With a larger bound there are no fewer indices.
LEMMA RangeGrows ==
  ASSUME NEW m \in Nat, NEW n \in Nat, m <= n PROVE 0 .. m - 1 \subseteq 0 .. n - 1
OBVIOUS

\* An index in use fits below the bits of a type, so it is never taken for an error.
LEMMA IndexBounds ==
  ASSUME TableInv', NEW i, i \in Indices' PROVE i \in Nat /\ i < 16384
<1>1. PICK m \in Nat : m = symtabNext' /\ m <= 16384
  BY TableSizes DEF TableInv
<1>2. Indices' = 0 .. m - 1
  BY <1>1 DEF Indices
<1>3. m <= 16384
  BY <1>1
<1>4. \A j \in 0 .. m - 1 : j \in Nat /\ j < 16384
  BY <1>3
<1> QED BY <1>2, <1>4

\* SymEnter() only adds entries: an index in use stays in use.
LEMMA IndicesGrow ==
  ASSUME TableInv, TableInv', Kept
  PROVE  Indices \subseteq Indices'
<1>1. symtabNext \in Nat /\ symtabNext' \in Nat /\ symtabNext <= symtabNext'
  BY DEF Kept, TableInv
<1> QED BY <1>1, RangeGrows DEF Indices

\* The last token goes on meaning its byte when the tables only grow.
LEMMA TokenKept ==
  ASSUME TableInv, TableInv', TokInv, Kept, UNCHANGED last
  PROVE  TokInv'
<1> DEFINE t == last.token
           i == TokenAsSymIndex(t)
<1>1. CASE IsError(t)
  BY <1>1 DEF TokInv, TokenMeans, IsError, ErrBase
<1>2. CASE ~IsError(t)
  <2>1. i \in Indices /\ i \in Indices' /\ symtab'[i] = symtab[i]
        /\ (symtab[i].Len = 1 => strtab'[symtab[i].Val] = strtab[symtab[i].Val])
    <3>1. i \in Indices
      BY <1>2 DEF TokInv, TokenMeans
    <3>2. Indices \subseteq Indices'
      BY IndicesGrow
    <3> QED BY <3>1, <3>2 DEF Kept
  <2> QED BY <1>2, <2>1 DEF TokInv, TokenMeans, TokenAsSymIndex, IsError, ErrBase, isDigit,
                            isLowerLetter, convert, TT_NUM, TT_USR, TT_KEY, LangSymbols
<1> QED BY <1>1, <1>2

\* A token that is an error means nothing.
LEMMA TokenOfError ==
  ASSUME NEW b \in Nat, NEW t \in Nat, t >= ErrBase, last' = [byte |-> b, token |-> t]
  PROVE  TokInv'
BY DEF TokInv, TokenMeans, IsError, ErrBase

\* A tag and an index below 16384 can be told apart again.
LEMMA TagSplits ==
  ASSUME NEW type \in {TT_USR, TT_KEY, TT_NUM}, NEW i \in Nat, i < 16384
  PROVE  /\ Tagged(type, i) = type + i /\ Tagged(type, i) \in Nat
         /\ ~IsError(Tagged(type, i)) /\ TokenAsSymIndex(Tagged(type, i)) = i
BY DEF Tagged, IsError, TokenAsSymIndex, TT_USR, TT_KEY, TT_NUM, ErrBase

\* The error for a full symbol table stays an error when a type is added to it.
LEMMA TagOfError ==
  ASSUME NEW type PROVE Tagged(type, ERR_INT_NOSYM) = ERR_INT_NOSYM
BY DEF Tagged, ERR_INT_NOSYM, ErrBase

\* The token internalGetToken() makes for a digit means that digit.
LEMMA NumberToken ==
  ASSUME TableInv, LangInv, NEW b \in Nat, isDigit(b), Commit(convert(b), 0, b),
         last' = [byte |-> b, token |-> Tagged(TT_NUM, SymEnter(convert(b), 0, b))]
  PROVE  TableInv' /\ Kept /\ TokInv'
<1> DEFINE v == convert(b)
           i == SymEnter(v, 0, b)
<1>0. v \in Nat
  BY DEF convert, isDigit
<1>1. TableInv' /\ Kept /\ (i = ERR_INT_NOSYM \/ HasNumber(i, v))
  BY <1>0, EnterNumber
<1>2. CASE i = ERR_INT_NOSYM
  <2>1. last' = [byte |-> b, token |-> ERR_INT_NOSYM]
    BY <1>2, TagOfError
  <2> QED BY <1>1, <2>1, TokenOfError DEF ERR_INT_NOSYM, ErrBase
<1>3. CASE HasNumber(i, v)
  <2>1. i \in Nat /\ i < 16384 /\ i \in Indices' /\ symtab'[i] = [Val |-> v, Len |-> 0]
    BY <1>1, <1>3, TableSizes DEF HasNumber, Indices, TableInv
  <2> DEFINE t == Tagged(TT_NUM, i)
  <2>2. t = TT_NUM + i /\ t \in Nat /\ ~IsError(t) /\ TokenAsSymIndex(t) = i
    BY <2>1, TagSplits
  <2>3. \A k \in DOMAIN LangSymbols : b # LangSymbols[k]
    BY LangSymbolsAre
  <2>4. last'.byte = b /\ last'.token = t
    OBVIOUS
  <2> HIDE DEF t, i
  <2>5. TokenMeans'
    BY <2>1, <2>2, <2>3, <2>4 DEF TokenMeans, TokenAsSymIndex, IsError, ErrBase, isDigit,
         isLowerLetter, convert, TT_NUM, TT_USR, TT_KEY, LangSymbols
  <2> QED BY <1>1, <2>2, <2>4, <2>5 DEF TokInv
<1> QED BY <1>1, <1>2, <1>3

\* The token it makes for a letter or a punctuation mark means that byte.
LEMMA SymbolToken ==
  ASSUME TableInv, LangInv, LangInv', NEW b \in Nat, ~isDigit(b), pc' # "SymInit",
         strtabNext < STRTAB_MAX, Commit(strtabNext, 1, b), NEW type,
         type = (IF isLowerLetter(b) THEN TT_USR ELSE TT_KEY),
         last' = [byte |-> b, token |-> Tagged(type, SymEnter(strtabNext, 1, b))]
  PROVE  TokInv'
<1>0. PICK i : i = SymEnter(strtabNext, 1, b)
  OBVIOUS
<1>1. TableInv' /\ (i = ERR_INT_NOSYM \/ HasString(i, b))
  BY <1>0, EnterString
<1>2. CASE i = ERR_INT_NOSYM
  <2>1. last' = [byte |-> b, token |-> ERR_INT_NOSYM]
    BY <1>0, <1>2, TagOfError
  <2> QED BY <2>1, TokenOfError DEF ERR_INT_NOSYM, ErrBase
<1>3. CASE HasString(i, b)
  <2>1. i \in Nat /\ i < 16384 /\ i \in Indices' /\ symtab'[i].Len = 1 /\ strtab'[symtab'[i].Val] = b
    <3>2. i \in Indices' /\ symtab'[i].Len = 1 /\ strtab'[symtab'[i].Val] = b
      BY <1>3 DEF HasString
    <3>3. i \in Nat /\ i < 16384
      BY <1>1, <3>2, IndexBounds
    <3> QED BY <3>2, <3>3
  <2> DEFINE t == Tagged(type, i)
  <2>2. t = type + i /\ t \in Nat /\ ~IsError(t) /\ TokenAsSymIndex(t) = i
    BY <2>1, TagSplits
  <2>3. \A k \in 1 .. 17 : b = LangSymbols[k] => t = TT_KEY + k
    <3> SUFFICES ASSUME NEW k \in 1 .. 17, b = LangSymbols[k] PROVE t = TT_KEY + k
      OBVIOUS
    <3>1. ~isLowerLetter(b)
      BY LangSymbolsAre
    <3>2. symtab'[k] = [Val |-> k, Len |-> 1] /\ strtab'[k] = LangSymbols[k] /\ symtabNext' > 17
      BY DEF LangInv, Entered, LangSymbols
    <3>3. k \in Indices'
      <4>1. symtabNext' \in Nat
        BY <1>1 DEF TableInv
      <4> QED BY <3>2, <4>1 DEF Indices
    <3>4. SameSymbol(i, k)'
      BY <2>1, <3>2 DEF SameSymbol
    <3>5. i = k
      BY <1>1, <2>1, <3>3, <3>4 DEF TableInv, Interned
    <3> QED BY <2>2, <3>1, <3>5
  <2>4. last'.byte = b /\ last'.token = t
    BY <1>0
  <2> HIDE DEF t
  <2>5. TokenMeans'
    BY <2>1, <2>2, <2>3, <2>4 DEF TokenMeans, TokenAsSymIndex, IsError, ErrBase, isDigit,
         isLowerLetter, convert, TT_NUM, TT_USR, TT_KEY, LangSymbols
  <2> QED BY <2>2, <2>4, <2>5 DEF TokInv
<1> QED BY <1>1, <1>2, <1>3

-----------------------------------------------------------------------------
(* The tree.                                                               *)

NodeType == [Sym : Nat, Size : Nat, Kind : {"usr", "error", "none"}]

\* The nodes below the root; until the root is made there are no others.
Leaves == \A k \in 1 .. Len(ast) : ast[k].Size = 1 /\ ast[k].Kind # "none"

AInv ==
  /\ ast \in Seq(NodeType) /\ Len(ast) <= AstMaxNode - 1
  /\ pbt \in {0, TT_EOF}
  /\ pc # "done" => Leaves
  /\ AstSound

\* Nothing is allocated.
LEMMA GotoStep ==
  ASSUME AInv, Indices \subseteq Indices', UNCHANGED ast, pbt' \in {0, TT_EOF}, pc # "done",
         pc' \notin {"done", "panic", "exit2"}, pc' = "resync" => pc = "resync"
  PROVE  AInv'
BY DEF AInv, AstSound, Leaves, TT_EOF, E_EOF

\* A leaf is allocated, or the assertion fails.
LEMMA AllocStep ==
  ASSUME AInv, Indices \subseteq Indices', pbt' \in {0, TT_EOF}, pc # "done",
         NEW sym \in Nat, NEW kind \in {"usr", "error"}, NEW next,
         Alloc(Node(sym, 1, kind), next), kind = "usr" => sym \in Indices',
         next \notin {"done", "panic", "exit2"}, next = "resync" => kind = "error"
  PROVE  AInv'
<1> DEFINE node == Node(sym, 1, kind)
<1>0. AstMaxNode \in Nat /\ Len(ast) \in Nat /\ node \in NodeType /\ Leaves /\ ast \in Seq(NodeType)
  BY TableSizes DEF AInv, Node, NodeType
<1>1. CASE Len(ast) < AstMaxNode - 1
  <2>1. ast' = Append(ast, node) /\ pc' = next
    BY <1>1 DEF Alloc
  <2>2. /\ ast' \in Seq(NodeType) /\ Len(ast') = Len(ast) + 1
        /\ \A k \in 1 .. Len(ast) : ast'[k] = ast[k]
        /\ ast'[Len(ast) + 1] = node
    BY <1>0, <2>1
  <2>3. Leaves'
    BY <1>0, <2>2 DEF Leaves, Node
  <2>4. \A k \in DOMAIN ast' : ast'[k].Kind = "usr" => ast'[k].Sym \in Indices'
    BY <1>0, <2>2 DEF AInv, AstSound, Node
  <2>5. ast' # <<>> /\ (next = "resync" => ast'[Len(ast')].Kind = "error")
    BY <1>0, <2>2 DEF Node
  <2>6. AstSound'
    BY <2>1, <2>4, <2>5 DEF AstSound
  <2>7. Len(ast') <= AstMaxNode - 1
    BY <1>0, <1>1, <2>2
  <2> QED BY <2>2, <2>3, <2>6, <2>7 DEF AInv, TT_EOF, E_EOF
<1>2. CASE ~(Len(ast) < AstMaxNode - 1)
  <2>1. pc' = "panic" /\ ast' = ast
    BY <1>2 DEF Alloc
  <2>2. Len(ast) = AstMaxNode - 1
    BY <1>0, <1>2 DEF AInv
  <2>3. AstSound'
    BY <2>1, <2>2 DEF AInv, AstSound
  <2> QED BY <1>0, <2>1, <2>2, <2>3 DEF AInv, Leaves, TT_EOF, E_EOF
<1> QED BY <1>1, <1>2

\* What the parser does with a token.
LEMMA GotStep ==
  ASSUME AInv, Indices \subseteq Indices', NEW t \in Nat, Got(t),
         ~IsError(t) => TokenAsSymIndex(t) \in Indices'
  PROVE  AInv' /\ pc' # "SymInit"
<1>0. ErrBase \in Nat /\ TokenAsSymIndex(t) \in Nat
  BY DEF ErrBase, TokenAsSymIndex
<1>1. ASSUME SyntaxError, pc # "done", pbt' \in {0, TT_EOF}
      PROVE  AInv' /\ pc' # "SymInit"
  <2>1. AInv'
    BY <1>0, <1>1, AllocStep DEF SyntaxError
  <2> QED BY <1>1, <2>1 DEF SyntaxError, Alloc
<1>2. ASSUME NEW next \in {"declaration", "variable", "afterName", "program"}, Goto(next), pc # "done",
             pbt' \in {0, TT_EOF}
      PROVE  AInv' /\ pc' # "SymInit"
  <2>1. pc' = next /\ UNCHANGED ast
    BY <1>2 DEF Goto
  <2> QED BY <1>2, <2>1, GotoStep
<1>3. CASE declaration(t)
  <2>1. pc = "declaration" /\ pbt' = 0
    BY <1>3 DEF declaration
  <2>2. SyntaxError \/ Goto("program") \/ Goto("variable") \/ Goto("declaration")
    BY <1>3 DEF declaration
  <2> QED BY <1>1, <1>2, <2>1, <2>2
<1>4. CASE variable(t)
  <2>1. pc = "variable" /\ pbt' = 0
    BY <1>4 DEF variable
  <2>2. CASE IsError(t)
    <3>1. Goto("program")
      BY <1>4, <2>2 DEF variable
    <3> QED BY <1>2, <2>1, <3>1
  <2>3. CASE ~IsError(t)
    <3>1. Alloc(Node(TokenAsSymIndex(t), 1, "usr"), "afterName")
      BY <1>4, <2>3 DEF variable, IsUsrTok
    <3>2. AInv'
      BY <1>0, <2>1, <2>3, <3>1, AllocStep
    <3> QED BY <3>1, <3>2 DEF Alloc
  <2> QED BY <2>2, <2>3
<1>5. CASE afterName(t)
  <2>1. pc = "afterName" /\ pbt' = 0
    BY <1>5 DEF afterName
  <2>2. SyntaxError \/ Goto("program") \/ Goto("declaration")
    BY <1>5 DEF afterName
  <2> QED BY <1>1, <1>2, <2>1, <2>2
<1>6. CASE resync(t)
  <2>1. pc = "resync" /\ pbt' \in {0, TT_EOF}
    BY <1>6 DEF resync
  <2>2. CASE Goto("declaration")
    BY <1>2, <2>1, <2>2
  <2>3. CASE Goto("resync")
    <3>1. pc' = "resync" /\ UNCHANGED ast
      BY <2>3 DEF Goto
    <3> QED BY <2>1, <3>1, GotoStep
  <2> QED BY <1>6, <2>2, <2>3 DEF resync
<1> QED BY <1>3, <1>4, <1>5, <1>6 DEF Got

\* The root is made.
LEMMA ProgramStep ==
  ASSUME AInv, Program
  PROVE  AInv' /\ pc' # "SymInit"
<1> DEFINE node == Node(TokenAsSymIndex(P), 1 + Len(ast), "none")
<1>0. /\ AstMaxNode \in Nat /\ Len(ast) \in Nat /\ node \in NodeType /\ ast \in Seq(NodeType)
      /\ Leaves /\ pc = "program" /\ UNCHANGED <<symtabNext, pbt>> /\ pbt \in {0, TT_EOF}
      /\ Alloc(node, "done")
  BY TableSizes DEF AInv, Program, Node, NodeType, TokenAsSymIndex, P, TT_KEY, tables
<1>1. CASE Len(ast) < AstMaxNode - 1
  <2>1. ast' = Append(ast, node) /\ pc' = "done"
    BY <1>0, <1>1 DEF Alloc
  <2>2. /\ ast' \in Seq(NodeType) /\ Len(ast') = Len(ast) + 1
        /\ \A k \in 1 .. Len(ast) : ast'[k] = ast[k]
        /\ ast'[Len(ast) + 1] = node
    BY <1>0, <2>1
  <2>3. \A k \in DOMAIN ast' : ast'[k].Kind = "usr" => ast'[k].Sym \in Indices'
    <3>1. Indices' = Indices
      BY <1>0 DEF Indices
    <3> QED BY <1>0, <2>2, <3>1 DEF AInv, AstSound, Node
  <2>4. ast'[Len(ast')].Sym = TokenAsSymIndex(P) /\ ast'[Len(ast')].Size = Len(ast')
    BY <1>0, <2>2 DEF Node
  <2>5. \A k \in 1 .. Len(ast') - 1 : ast'[k].Size = 1 /\ ast'[k].Kind # "none"
    BY <1>0, <2>2 DEF Leaves
  <2>6. AstSound'
    BY <2>1, <2>3, <2>4, <2>5 DEF AstSound, TokenAsSymIndex, P, TT_KEY
  <2>7. Len(ast') <= AstMaxNode - 1
    BY <1>0, <1>1, <2>2
  <2> QED BY <1>0, <2>1, <2>2, <2>6, <2>7 DEF AInv, TT_EOF, E_EOF
<1>2. CASE ~(Len(ast) < AstMaxNode - 1)
  <2>1. pc' = "panic" /\ ast' = ast
    BY <1>0, <1>2 DEF Alloc
  <2>2. Len(ast) = AstMaxNode - 1
    BY <1>0, <1>2 DEF AInv
  <2>3. AstSound'
    BY <1>0, <2>1, <2>2 DEF AInv, AstSound, Indices
  <2> QED BY <1>0, <2>1, <2>2, <2>3 DEF AInv, Leaves, TT_EOF, E_EOF
<1> QED BY <1>1, <1>2

-----------------------------------------------------------------------------
YInv == TableInv /\ LangInv /\ TokInv /\ AInv

\* Empty tables, no token and no tree.
LEMMA YInit == Init => YInv
<1> SUFFICES ASSUME Init PROVE YInv
  OBVIOUS
<1>0. Indices = {0} /\ symtab[0] = [Val |-> 0, Len |-> 0]
  BY DEF Init, Indices
<1>1. TableInv
  <2>1. symtab \in [Indices -> [Val : Nat, Len : {0, 1}]] /\ strtab \in [0 .. strtabNext - 1 -> Nat]
    BY <1>0 DEF Init
  <2>2. Interned
    BY <1>0 DEF Interned
  <2> QED BY <1>0, <2>1, <2>2, TableSizes DEF TableInv, Init
<1>2. LangInv
  BY <1>0 DEF Init, LangInv, Entered
<1>3. TokInv
  BY DEF Init, TokInv, TokenMeans, IsError, ErrBase, TT_EOF, E_EOF
<1>4. AInv
  BY TableSizes DEF Init, AInv, AstSound, Leaves
<1> QED BY <1>1, <1>2, <1>3, <1>4 DEF YInv

\* A step that leaves the tables alone.
LEMMA SameTables ==
  ASSUME YInv, UNCHANGED tables
  PROVE  TableInv' /\ Kept /\ Indices' = Indices
<1>1. UNCHANGED <<symtab, symtabNext, strtab, strtabNext>>
  BY DEF tables
<1> QED BY <1>1 DEF YInv, TableInv, Kept, Indices, Interned, SameSymbol

\* Return() of an error.
LEMMA ErrorStep ==
  ASSUME YInv, WantsToken, UNCHANGED tables, NEW b \in Nat, NEW t \in Nat, t >= ErrBase, Return(b, t)
  PROVE  YInv' /\ Kept
<1>1. TableInv' /\ Kept /\ Indices' = Indices
  BY SameTables
<1>2. Got(t) /\ last' = [byte |-> b, token |-> t] /\ IsError(t) /\ pc # "SymInit"
  BY DEF Return, IsError, WantsToken
<1>3. AInv' /\ pc' # "SymInit"
  BY <1>1, <1>2, GotStep DEF YInv
<1>4. TokInv'
  BY <1>2, TokenOfError
<1>5. LangInv'
  BY <1>1, <1>2, <1>3, KeptKeepsLang DEF YInv
<1> QED BY <1>1, <1>3, <1>4, <1>5 DEF YInv

\* Return() of the token for a digit.
LEMMA NumberStep ==
  ASSUME YInv, WantsToken, NEW b \in Nat, Number(b)
  PROVE  YInv' /\ Kept
<1> DEFINE t == Tagged(TT_NUM, SymEnter(convert(b), 0, b))
<1>1. /\ isDigit(b) /\ Commit(convert(b), 0, b) /\ Got(t) /\ last' = [byte |-> b, token |-> t]
      /\ pc # "SymInit"
  BY DEF Number, Return, WantsToken
<1>2. TableInv' /\ Kept /\ TokInv'
  BY <1>1, NumberToken DEF YInv
<1>3. t \in Nat /\ (~IsError(t) => TokenAsSymIndex(t) \in Indices')
  <2>1. last'.token = t
    BY <1>1
  <2> HIDE DEF t
  <2> QED BY <1>2, <2>1 DEF TokInv, TokenMeans, IsError, ErrBase, TokenAsSymIndex
<1>4. Indices \subseteq Indices'
  BY <1>2, IndicesGrow DEF YInv
<1>5. AInv' /\ pc' # "SymInit"
  BY <1>1, <1>3, <1>4, GotStep DEF YInv
<1>6. LangInv'
  BY <1>1, <1>2, <1>5, KeptKeepsLang DEF YInv
<1> QED BY <1>2, <1>5, <1>6 DEF YInv

\* Return() of the token for a letter or a punctuation mark.
LEMMA SymbolStep ==
  ASSUME YInv, WantsToken, NEW b \in Nat, ~StrtabFull, Symbol(b)
  PROVE  YInv' /\ Kept
<1> DEFINE type == IF isLowerLetter(b) THEN TT_USR ELSE TT_KEY
           t == Tagged(type, SymEnter(strtabNext, 1, b))
<1>1. /\ ~isDigit(b) /\ Commit(strtabNext, 1, b) /\ Got(t) /\ last' = [byte |-> b, token |-> t]
      /\ pc # "SymInit"
  BY DEF Symbol, Return, WantsToken, isDigit, isLowerLetter, isUpperLetter, isPunctuation
<1>2. strtabNext < STRTAB_MAX
  BY TableSizes DEF StrtabFull, YInv, TableInv
<1>3. TableInv' /\ Kept
  BY <1>1, <1>2, EnterString DEF YInv
<1>4. pc' # "SymInit"
  BY <1>1 DEF Got, declaration, variable, afterName, resync, Goto, SyntaxError, Alloc
<1>5. LangInv'
  BY <1>1, <1>3, <1>4, KeptKeepsLang DEF YInv
<1>6. TokInv'
  <2> HIDE DEF type
  <2>1. type = (IF isLowerLetter(b) THEN TT_USR ELSE TT_KEY)
    BY DEF type
  <2> QED BY <1>1, <1>2, <1>4, <1>5, <2>1, SymbolToken DEF YInv
<1>7. t \in Nat /\ (~IsError(t) => TokenAsSymIndex(t) \in Indices')
  <2>1. last'.token = t
    BY <1>1
  <2> HIDE DEF t
  <2> QED BY <1>6, <2>1 DEF TokInv, TokenMeans, IsError, ErrBase, TokenAsSymIndex
<1>8. Indices \subseteq Indices'
  BY <1>3, IndicesGrow DEF YInv
<1>9. AInv'
  BY <1>1, <1>7, <1>8, GotStep DEF YInv
<1> QED BY <1>3, <1>5, <1>6, <1>9 DEF YInv

\* A step of the parser that enters nothing and reads nothing.
LEMMA QuietStep ==
  ASSUME YInv, UNCHANGED <<tables, last>>, AInv', pc # "SymInit", pc' # "SymInit"
  PROVE  YInv' /\ Kept
<1>1. TableInv' /\ Kept
  BY SameTables
<1>2. LangInv'
  BY <1>1, KeptKeepsLang DEF YInv
<1>3. TokInv'
  BY <1>1, TokenKept DEF YInv
<1> QED BY <1>1, <1>2, <1>3 DEF YInv

\* Every step keeps the invariant, and adds to the tables at most.
LEMMA YStep == YInv /\ [Next]_vars => YInv' /\ Kept
<1> SUFFICES ASSUME YInv, [Next]_vars PROVE YInv' /\ Kept
  OBVIOUS
<1>1. CASE AddLangSymbol
  <2>1. TableInv' /\ LangInv' /\ Kept /\ pc' # "exit2"
    BY <1>1, AddLangStep DEF YInv
  <2>2. UNCHANGED <<ast, pbt, last>> /\ pc = "SymInit" /\ pc' \in {"SymInit", "declaration"}
    BY <1>1, <2>1 DEF AddLangSymbol
  <2>3. Indices \subseteq Indices'
    BY <2>1, IndicesGrow DEF YInv
  <2>4. AInv'
    BY <2>2, <2>3, GotoStep DEF YInv, AInv
  <2>5. TokInv'
    BY <2>1, <2>2, TokenKept DEF YInv
  <2> QED BY <2>1, <2>4, <2>5 DEF YInv
<1>2. CASE Program
  <2>1. AInv' /\ pc' # "SymInit" /\ pc # "SymInit" /\ UNCHANGED <<tables, last>>
    BY <1>2, ProgramStep DEF YInv, Program
  <2> QED BY <2>1, QuietStep
<1>3. CASE Pushback
  <2>1. /\ UNCHANGED <<tables, last>> /\ Got(TT_EOF) /\ pc # "SymInit"
        /\ TT_EOF \in Nat /\ IsError(TT_EOF)
    BY <1>3 DEF Pushback, YInv, AInv, WantsToken, TT_EOF, E_EOF, IsError, ErrBase
  <2>2. Indices' = Indices
    BY <2>1, SameTables
  <2>3. AInv' /\ pc' # "SymInit"
    BY <2>1, <2>2, GotStep DEF YInv
  <2> QED BY <2>1, <2>3, QuietStep
<1>4. ASSUME NEW b \in Input, Getb(b) PROVE YInv' /\ Kept
  <2>0. b \in Nat /\ WantsToken
    BY <1>4, InputAssumption DEF Getb
  <2>1. CASE StrtabFull
    <3>1. Return(b, ERR_INT_NOSTR) /\ UNCHANGED tables
      BY <1>4, <2>1 DEF Getb
    <3>2. ERR_INT_NOSTR \in Nat /\ ERR_INT_NOSTR >= ErrBase
      BY DEF ERR_INT_NOSTR, ErrBase
    <3> QED BY <2>0, <3>1, <3>2, ErrorStep
  <2>2. CASE ~StrtabFull /\ Skip(b)
    <3>1. UNCHANGED <<tables, last>> /\ UNCHANGED <<pc, pbt, ast>> /\ pc # "SymInit"
      BY <2>0, <2>2 DEF Skip, WantsToken
    <3>2. Indices' = Indices
      BY <3>1, SameTables
    <3>3. AInv'
      BY <2>0, <3>1, <3>2, GotoStep DEF YInv, AInv, WantsToken
    <3> QED BY <3>1, <3>3, QuietStep
  <2>3. CASE ~StrtabFull /\ Number(b)
    BY <2>0, <2>3, NumberStep
  <2>4. CASE ~StrtabFull /\ Symbol(b)
    BY <2>0, <2>4, SymbolStep
  <2>5. CASE ~StrtabFull /\ Invalid(b)
    <3>1. Return(b, ERR_LEX_INVAL) /\ UNCHANGED tables
      BY <2>5 DEF Invalid
    <3>2. ERR_LEX_INVAL \in Nat /\ ERR_LEX_INVAL >= ErrBase
      BY DEF ERR_LEX_INVAL, ErrBase
    <3> QED BY <2>0, <3>1, <3>2, ErrorStep
  <2> QED BY <1>4, <2>1, <2>2, <2>3, <2>4, <2>5 DEF Getb
<1>5. CASE EndOfInput \/ ReadError
  <2>1. PICK e \in {E_EOF, E_IOERR} : NoByte(e)
    BY <1>5 DEF EndOfInput, ReadError
  <2>2. PICK t \in {TT_EOF, ERR_LEX_IO} : WantsToken /\ UNCHANGED tables /\ Return(e, t)
    BY <2>1 DEF NoByte
  <2>3. e \in Nat /\ t \in Nat /\ t >= ErrBase
    BY DEF E_EOF, E_IOERR, TT_EOF, ERR_LEX_IO, ErrBase
  <2> QED BY <2>2, <2>3, ErrorStep
<1>6. CASE UNCHANGED vars
  <2>1. UNCHANGED <<tables, last, pc, ast, pbt>>
    BY <1>6 DEF vars, tables
  <2>2. TableInv' /\ Kept /\ Indices' = Indices
    BY <2>1, SameTables
  <2>3. TokInv'
    BY <2>1, <2>2, TokenKept DEF YInv
  <2>4. LangInv'
    <3>1. UNCHANGED <<symtab, symtabNext, strtab, strtabNext, pc>>
      BY <2>1 DEF tables
    <3> QED BY <3>1 DEF YInv, LangInv, Entered, LangSymbols
  <2>5. AInv'
    <3>1. AstSound'
      BY <2>1, <2>2 DEF YInv, AInv, AstSound, TokenAsSymIndex, P, TT_KEY
    <3> QED BY <2>1, <3>1 DEF YInv, AInv, Leaves, TT_EOF, E_EOF
  <2> QED BY <2>2, <2>3, <2>4, <2>5 DEF YInv
<1> QED BY <1>1, <1>2, <1>3, <1>4, <1>5, <1>6 DEF Next

\* The inductive invariant of the lexer, the tables and the parser.
THEOREM YaplInvariance == Spec => []YInv
<1>1. YInv /\ [Next]_vars => YInv'
  BY YStep
<1> QED BY YInit, <1>1, PTL DEF Spec

\* SymEnter() and its callers: there is one entry for a symbol or number, for every
\* size of the tables and every source.
THEOREM SymbolsInterned == Spec => []Interned
<1>1. YInv => Interned
  BY DEF YInv, TableInv
<1> QED BY YaplInvariance, <1>1, PTL

\* internalGetToken(): a token stands for the byte it was made from.
THEOREM TokensMean == Spec => []TokenMeans
<1>1. YInv => TokenMeans
  BY DEF YInv, TokInv
<1> QED BY YaplInvariance, <1>1, PTL

\* parse.go: the tree is sound.
THEOREM TreeSound == Spec => []AstSound
<1>1. YInv => AstSound
  BY DEF YInv, AInv
<1> QED BY YaplInvariance, <1>1, PTL

\* SymEnter() and the lexer's writes at the end of the string table: entries stay.
THEOREM EntriesStay == Spec => EntriesStable
<1>1. YInv /\ [Next]_vars =>
        [\A i \in Indices :
           /\ symtab'[i] = symtab[i]
           /\ symtab[i].Len = 1 => strtab'[symtab[i].Val] = strtab[symtab[i].Val]]_vars
  BY YStep DEF Kept
<1> QED BY YaplInvariance, <1>1, PTL DEF Spec, EntriesStable
================================================================================
