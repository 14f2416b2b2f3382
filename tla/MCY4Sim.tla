--------------------------------- MODULE MCY4Sim ---------------------------------
(***************************************************************************)
(* Circuits of two registers and a mux, a zero generator and one external  *)
(* component, wired in all the ways that have no loop of muxes, in both    *)
(* orders; some with an input missing or of the wrong width.               *)
(***************************************************************************)
EXTENDS Y4Sim, TLC

MCWorlds == [enable : [Registers -> BOOLEAN], source : [Sources -> {0, 1}]]

Widths == [c \in Components |-> IF c = "zw" THEN 4 ELSE 1]

Wired(order, a, b, k, d0, d1) ==
  [state |-> order, width |-> Widths,
   input |-> ("a" :> a @@ "b" :> b), control |-> ("m" :> k),
   data |-> ("m" :> (0 :> d0 @@ 1 :> d1))]

MCCircuits ==
  {Wired(order, a, b, k, d0, d1) :
     order \in {<<"a", "b">>, <<"b", "a">>}, a \in {"b", "m", "s"}, b \in {"a", "m", "z"},
     k \in {"s", "a"}, d0 \in {"a", "b", "z"}, d1 \in {"b", "s"}}
  \cup {Wired(<<"a", "b">>, a, "m", k, "z", d1) :
          a \in {"s", "zw", None}, k \in {"s", "zw", None}, d1 \in {"b", "zw", None}}
================================================================================
