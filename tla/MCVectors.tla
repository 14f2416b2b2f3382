-------------------------------- MODULE MCVectors --------------------------------
(***************************************************************************)
(* Vector files: up to four lines, among them vectors that differ in every *)
(* field, clocked ones, too long and too short ones, and misplaced socket  *)
(* statements; one file or two.                                            *)
(***************************************************************************)
EXTENDS Vectors

Skip == [kind |-> "skip"]
Plcc == [kind |-> "socket", arg |-> "PLCC"]
Zif == [kind |-> "socket", arg |-> "ZIF"]
Dip == [kind |-> "socket", arg |-> "DIP"]

Tok(ch) == <<ch, 0>>
Bits(bs) == [i \in DOMAIN bs |-> Tok(IF bs[i] = 1 THEN "1" ELSE "0")]

\* A vector as the README's example writes it, for one test case.  A clocked one
\* has a placeholder after the C, without which it is refused.
Vec(a, clk, flags, c3, f, c9, b) ==
  [kind |-> "vector",
   tokens |-> << <<"%", a>> >> \o clk \o <<Tok("V"), Tok("G")>>
              \o [i \in 1 .. 5 |-> Tok(flags[i])] \o Bits(c3) \o << <<"@", f>> >>
              \o Bits(c9) \o << <<"%", b>> >>,
   case |-> [a |-> a, b |-> b, f |-> f, flags |-> flags, clocked |-> Tok("C") \in Range(clk),
             ctl |-> [pin \in 25 .. 27 \cup 44 .. 52 |->
                        IF pin < 28 THEN c3[pin - 24] ELSE c9[pin - 43]]]]

Add == Vec(65535, <<Tok("1")>>, <<"H", "X", "X", "L", "L">>, <<1, 1, 0>>, 65534,
           <<0, 1, 1, 0, 1, 1, 1, 1, 1>>, 65535)
Strict == Vec(513, <<Tok("0")>>, <<"H", "L", "H", "L", "L">>, <<0, 0, 1>>, 4660,
              <<1, 0, 0, 1, 0, 1, 0, 0, 0>>, 49153)
Clocked == Vec(4660, <<Tok("C"), Tok("1")>>, <<"L", "L", "X", "L", "H">>, <<0, 1, 0>>, 65534,
               <<0, 0, 1, 0, 0, 0, 1, 0, 0>>, 1)

NoCase(tokens) == [kind |-> "vector", tokens |-> tokens, case |-> Strict.case]
OneC == NoCase(Vec(1, <<Tok("C")>>, <<"L", "L", "L", "L", "L">>, <<0, 0, 0>>, 0,
                   <<0, 0, 0, 0, 0, 0, 0, 0, 0>>, 0).tokens)
TooLong == NoCase(Strict.tokens \o <<Tok("0"), Tok("1"), Tok("L"), Tok("H"), Tok("X")>>)
LongBy16 == NoCase(Strict.tokens \o << <<"%", 15>> >>)
Wide == NoCase(Strict.tokens \o << <<"@", 1>> >>)
Malformed == {NoCase(<<Tok("short")>>), NoCase(<< <<"Q", 0>> >>), OneC, TooLong, LongBy16, Wide}
ForZif == NoCase([i \in 1 .. 24 |-> Tok("1")])

File1 == {<<s, u, v, w>> : s \in {Plcc}, u \in {Add, Strict, Clocked},
                           v \in {Strict, Clocked, Skip, Plcc} \cup Malformed,
                           w \in {Add, Strict, Clocked}}
File2 == {<<Plcc, v, w>> : v \in {Add, Clocked, Strict}, w \in {Strict, Skip}}
         \cup {<<Zif, ForZif, ForZif>>, <<Zif, Strict>>, <<Dip>>, <<Skip, Strict>>, <<>>}

MCFiles == {<<f>> : f \in File1} \cup {<<f, g>> : f \in File2, g \in File2}

\* The right results of the vectors above, and results that differ in one half
\* of F or in some of the flags.
MCOutputs == {[f |-> 65534, flags |-> 1], [f |-> 4660, flags |-> 5], [f |-> 4661, flags |-> 5],
              [f |-> 13330, flags |-> 4], [f |-> 65534, flags |-> 22]}
================================================================================
