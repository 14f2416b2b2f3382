------------------------------ MODULE Wut4History ------------------------------
(***************************************************************************)
(* The emulator of module Wut4 with two history variables, for properties  *)
(* that relate the end of a cycle, or of an exception handler, to its      *)
(* beginning; and the mapping by which the emulator implements Protection. *)
(***************************************************************************)
EXTENDS Wut4

VARIABLES
  fetched,  \* what an instruction can change, as it was once it was fetched
  trapped   \* the context a trap interrupted, until the handler returns or
            \* itself changes part of that context

hvars == <<w4, physmem, dbEnabled, stage, panic, fetched, trapped>>

Visible == <<w4.pc, w4.gen, w4.spr, w4.hc, w4.en, w4.run, physmem>>

Context == <<w4.pc, w4.mode, w4.gen[User], w4.spr[User]>>

\* An ssp to Irr, Imr, the user's registers or the user's MMU, or an rti.
TouchesContext ==
  /\ w4.ex = ExNone
  /\ \/ stage = "execute" /\ Vop(0)
     \/ /\ stage = "memory" /\ Yop(2)
        /\ \/ SprIndex \in {Irr, Imr, 25} \cup (16 .. 23)
           \/ SprIndex >= 32 /\ MmuMode = User

None == <<>>

HInit == Init /\ fetched = Visible /\ trapped = None

HNext ==
  /\ Next
  /\ fetched' = IF stage = "fetch" THEN Visible' ELSE fetched
  /\ trapped' = IF panic' # "none" \/ TouchesContext THEN None
                ELSE IF stage = "fetch" /\ w4.ex # ExNone THEN Context
                ELSE trapped

HSpec == HInit /\ [][HNext]_hvars

\* The main goroutine keeps running; the user need not press or answer.
HFairSpec == HSpec /\ WF_vars(Simulate)

\* Exceptions are precise: when a cycle ends with an exception pending, the
\* instruction has changed no register, no special register, no memory word
\* and neither flag, and pc is where fetch() left it, although jlr and ssp
\* write before memory() and writeback() decide whether anything may be kept.
PreciseExceptions ==
  stage = "check" /\ w4.ex # ExNone => Visible = fetched


P == INSTANCE Protection WITH
  mode <- IF w4.mode = Kern THEN "kernel" ELSE "user",
  enabled <- w4.en,
  pending <- w4.ex # ExNone,
  owned <- <<w4.gen[Kern],
             [r \in 0 .. 63 \ {Irr, Icr, Imr} |-> w4.spr[Kern][r]],
             [r \in 32 .. 63 |-> w4.spr[User][r]]>>,
  frame <- [r \in {Irr, Icr, Imr} |-> w4.spr[Kern][r]],
  attention <- stage = "prompt",
  stopped <- stage \in {"exit", "stopped", "crashed"},
  broken <- panic # "none"

\* The emulator keeps user programs in their place: every step of every stage
\* is a step that Protection allows, or changes nothing that it speaks of.
ImplementsProtection == P!PSpec
================================================================================
