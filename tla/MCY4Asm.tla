--------------------------------- MODULE MCY4Asm ---------------------------------
(***************************************************************************)
(* Lines for Y4Asm: with and without a label, keys with 0, 1 and 2         *)
(* operands, keys that are labels, too few and too many operands, signs,   *)
(* every kind of number and of misspelling.  There is room for one symbol  *)
(* beside the reserved ones.                                               *)
(***************************************************************************)
EXTENDS Y4Asm

MCValue == [n \in {"5", "1025"} |-> IF n = "5" THEN 5 ELSE 1025]

Labelled == {<<>>, <<"x", "COLON">>}
Heads == {<<"nop">>, <<"not", "SP">>, <<"lui", "SP">>, <<"x", "SP">>}
Args == {<<>>, <<"x">>, <<"NEG", "NEG", "y", "NEG", "1025">>}

Statements == {l \o h \o a : l \in Labelled, h \in Heads, a \in Args}

Odd == {<<>>, <<"x", "COLON">>, <<"x", "SP", "COLON">>, <<"x", "COLON", "y", "COLON", "nop">>,
        <<"SP", "y", "COLON", "lui", "SP", "r1", "COMMA", "5">>,
        <<"nop", "COMMENT">>, <<"nop", "SP", "COMMENT", "BAD">>, <<"SP", "COMMENT", "NONASCII">>,
        <<"QUOTE", "x">>, <<"not", "SP", "QUOTE", "x", "QUOTE">>, <<"BAD", "nop">>,
        <<"not", "SP", "08">>, <<"not", "SP", "3F">>, <<"not", "SP", "5", "BAD">>,
        <<"not", "SP", "NEG">>, <<"5">>, <<"nop", "SP", "nop">>, <<"nop", "NEG">>,
        <<"not", "SP", "5", "COLON">>}

MCLines == {l \in Statements \cup Odd :
              \A i \in 1 .. Len(l) - 1 : l[i] \in Marks \/ l[i + 1] \in Marks}
================================================================================
