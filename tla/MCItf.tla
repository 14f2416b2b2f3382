---------------------------------- MODULE MCItf ----------------------------------
(***************************************************************************)
(* Sources for the round trip test: every rule of the assembler with a few *)
(* operands, alone and in pairs; runs of the lines that the second pass    *)
(* condenses; and every word, with some of the registers, by itself.       *)
(***************************************************************************)
EXTENDS Itf

Rr == {0, 3}

Condensed ==
  {<<"lui", <<r, i>> >> : r \in {0, 3, 5}, i \in {1, 1023}}
  \cup {<<"adi", <<r, r, i>> >> : r \in {0, 3, 5}, i \in {-1, 0, 33}}
  \cup {<<n, <<3>> >> : n \in {"jsr", "jmp"}}
  \cup {<<n, <<3, i>> >> : n \in {"jsr", "jmp", "ldi"}, i \in {5, 49153}}
  \cup {<<"sys", <<62>> >>, <<"nop", <<>> >>, <<"jmp", <<0>> >>}
  \cup {<<"#d16", <<w>> >> : w \in {57344 + 3 * 8 + 1, 57344 + 64 * 3 + 8 * 3 + 2, 57345,
                                    57344 + 64 + 3 * 8 + 1}}

Lines ==
  Condensed
  \cup {<<n, <<ra, rb, i>> >> : n \in DOMAIN Base, ra \in Rr, rb \in Rr, i \in {-64, 0, 127}}
  \cup {<<"beq", <<ra, 3, i>> >> : ra \in Rr, i \in {-20, 1, 300}}
  \cup {<<n, <<1, 2, 7>> >> : n \in DOMAIN Xops}
  \cup {<<n, <<ra, 4>> >> : n \in DOMAIN Yops, ra \in Rr}
  \cup {<<n, <<ra>> >> : n \in DOMAIN Zops, ra \in Rr}
  \cup {<<n, <<>> >> : n \in DOMAIN Vops}
  \cup {<<n, <<5, i>> >> : n \in {"lli", "lsi"}, i \in {0, 63}}
  \cup {<<n, <<4, 5, 8>> >> : n \in {"ior", "iow", "srr", "srw"}}
  \cup {<<"#bank data", <<7>> >>}

SomeWords == {w \in 0 .. 65535 : w >= 65024 \/ w % 64 \in {0, 1, 2, 3, 8, 9, 10, 27, 63}}

MCSources ==
  {<<l>> : l \in Lines} \cup (Lines \X Lines) \cup (Condensed \X Condensed \X Condensed)
  \cup {<< <<"#d16", <<w>> >> >> : w \in SomeWords}
================================================================================
