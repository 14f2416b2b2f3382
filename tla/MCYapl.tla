--------------------------------- MODULE MCYapl ---------------------------------
(***************************************************************************)
(* Every source over V F x y 0 1 ; = # ? and newline, of any length: the   *)
(* symbol table has room for three new symbols, the string table for two   *)
(* new strings, and the tree for three nodes.                              *)
(***************************************************************************)
EXTENDS Yapl

MCInput == {86, 70, 120, 121, 48, 49, 59, 61, 35, 63, 10}
================================================================================
