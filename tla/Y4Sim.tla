---------------------------------- MODULE Y4Sim ----------------------------------
(***************************************************************************)
(* The earlier cycle simulator (SAVE/sim): a circuit of registers, muxes   *)
(* and zero generators is built, checked and simulated.  Evaluate() of a   *)
(* component calls Evaluate() of others, so the calls are on a stack.      *)
(*                                                                         *)
(* A Bits is its value, or Undef, whose value field is 0.  What a circuit  *)
(* may hold besides, other combinational components and the functions that *)
(* enable clocks, is external: `world` is what they show in this cycle.    *)
(***************************************************************************)
EXTENDS Integers, Sequences, FiniteSets

CONSTANTS Registers, Muxes, Zeros, Sources,
          Circuits,   \* what Build() may have been asked for
          Worlds, nCycles,
          None        \* an input that was never added

Components == Registers \cup Muxes \cup Zeros \cup Sources
Undef == -1
value(bits) == IF bits = Undef THEN 0 ELSE bits

VARIABLES circuit, world,
          visible, cached, cacheValid, clockEnabled,   \* fields of the components
          pc, next,     \* the loop of Simulate(), and the index of its register
          cycle,        \* CycleCounter
          stack, ret    \* calls of Evaluate() under way, and what the last one returned

vars == <<circuit, world, visible, cached, cacheValid, clockEnabled, pc, next, cycle, stack, ret>>
fields == <<visible, cached, cacheValid, clockEnabled>>
loop == <<circuit, world, next, cycle>>

state == circuit.state   \* the registers, in the order in which they were made

-----------------------------------------------------------------------------
(* Build() and Check()                                                     *)

\* AddInput() and AddData() refuse an input of another width; AddControl() wants at
\* most 3 bits, and AddData() a control that can select the input.
AddInput(r) == circuit.input[r] # None => circuit.width[circuit.input[r]] = circuit.width[r]

AddControlAndData(m) ==
  /\ circuit.control[m] # None => circuit.width[circuit.control[m]] <= 3
  /\ \A i \in {k \in DOMAIN circuit.data[m] : circuit.data[m][k] # None} :
       /\ circuit.width[circuit.data[m][i]] = circuit.width[m]
       /\ circuit.control[m] # None /\ i < 2 ^ circuit.width[circuit.control[m]]

CheckRegister(r) == circuit.input[r] # None

\* A mux has as many inputs as its control can name.
CheckMux(m) ==
  /\ circuit.control[m] # None
  /\ \A i \in 0 .. 2 ^ circuit.width[circuit.control[m]] - 1 :
       i \in DOMAIN circuit.data[m] /\ circuit.data[m][i] # None

Init ==
  /\ circuit \in Circuits /\ world \in Worlds
  /\ visible = [r \in Registers |-> Undef]
  /\ cached = [c \in Registers \cup Muxes |-> Undef]
  /\ cacheValid = [c \in Registers \cup Muxes |-> FALSE]
  /\ clockEnabled = [r \in Registers |-> FALSE]
  /\ pc = "check" /\ next = 1 /\ cycle = 0 /\ stack = <<>> /\ ret = Undef

Check ==
  /\ pc = "check"
  /\ pc' = IF /\ \A r \in Registers : AddInput(r) /\ CheckRegister(r)
              /\ \A m \in Muxes : AddControlAndData(m) /\ CheckMux(m)
           THEN "reset" ELSE "fatal"
  /\ UNCHANGED <<fields, loop, stack, ret>>

-----------------------------------------------------------------------------
(* Simulate()                                                              *)

\* The loop over the registers goes to the next one, or to the next loop.
Advance(to) ==
  IF next < Len(state) THEN next' = next + 1 /\ UNCHANGED pc
                       ELSE next' = 1 /\ pc' = to

Reset ==
  /\ pc = "reset"
  /\ visible' = [visible EXCEPT ![state[next]] = Undef]
  /\ cacheValid' = [cacheValid EXCEPT ![state[next]] = FALSE]
  /\ clockEnabled' = [clockEnabled EXCEPT ![state[next]] = FALSE]
  /\ Advance("prepare")
  /\ UNCHANGED <<cached, circuit, world, cycle, stack, ret>>

\* Prepare() of every component, in a new cycle of the world.
Prepare ==
  /\ pc = "prepare" /\ cycle < nCycles
  /\ cacheValid' = [c \in DOMAIN cacheValid |-> FALSE]
  /\ world' \in Worlds /\ pc' = "evaluate"
  /\ UNCHANGED <<visible, cached, clockEnabled, circuit, next, cycle, stack, ret>>

Finish ==
  /\ pc = "prepare" /\ cycle = nCycles
  /\ pc' = "done"
  /\ UNCHANGED <<fields, loop, stack, ret>>

-----------------------------------------------------------------------------
(* Evaluate().  A frame is a component and where its call is.              *)

Frame(c, at) == [comp |-> c, at |-> at]
Top == stack[Len(stack)]
Below == SubSeq(stack, 1, Len(stack) - 1)
TopIs(kind, at) == pc = "evaluate" /\ stack # <<>> /\ Top.comp \in kind /\ Top.at = at

\* A call that returns to the frame as `at`, unless there is no stack left.
Call(at, c) ==
  IF Len(stack) > Cardinality(Components)
  THEN pc' = "overflow" /\ UNCHANGED <<stack, ret>>
  ELSE /\ stack' = Append(Append(Below, Frame(Top.comp, at)), Frame(c, "call"))
       /\ UNCHANGED <<pc, ret>>

Return(bits) == stack' = Below /\ ret' = bits /\ UNCHANGED pc

\* ZeroGenerator.Evaluate(), and any other component without inputs.
EvaluateSource ==
  /\ TopIs(Zeros \cup Sources, "call")
  /\ Return(IF Top.comp \in Zeros THEN 0 ELSE world.source[Top.comp])
  /\ UNCHANGED <<fields, loop>>

\* Register.Evaluate(), to the evaluation of its input,
EvaluateRegister ==
  /\ TopIs(Registers, "call")
  /\ LET r == Top.comp
     IN IF cacheValid[r] THEN Return(visible[r]) /\ UNCHANGED fields
        ELSE /\ clockEnabled' = [clockEnabled EXCEPT ![r] = world.enable[r]]
             /\ IF world.enable[r] THEN Call("input", circuit.input[r]) /\ UNCHANGED cacheValid
                ELSE /\ cacheValid' = [cacheValid EXCEPT ![r] = TRUE]
                     /\ Return(visible[r])
             /\ UNCHANGED <<visible, cached>>
  /\ UNCHANGED loop

LatchedThrough ==
  /\ TopIs(Registers, "input")
  /\ cached' = [cached EXCEPT ![Top.comp] = ret]
  /\ cacheValid' = [cacheValid EXCEPT ![Top.comp] = TRUE]
  /\ Return(ret)
  /\ UNCHANGED <<visible, clockEnabled, loop>>

\* and from there.
Latched ==
  /\ TopIs(Registers, "input")
  /\ cached' = [cached EXCEPT ![Top.comp] = ret]
  /\ cacheValid' = [cacheValid EXCEPT ![Top.comp] = TRUE]
  /\ Return(visible[Top.comp])
  /\ UNCHANGED <<visible, clockEnabled, loop>>

\* Mux.Evaluate()
EvaluateMux ==
  /\ TopIs(Muxes, "call")
  /\ IF cacheValid[Top.comp] THEN Return(cached[Top.comp])
     ELSE Call("control", circuit.control[Top.comp])
  /\ UNCHANGED <<fields, loop>>

Select ==
  /\ TopIs(Muxes, "control")
  /\ Call("data", circuit.data[Top.comp][value(ret)])
  /\ UNCHANGED <<fields, loop>>

Selected ==
  /\ TopIs(Muxes, "data")
  /\ cached' = [cached EXCEPT ![Top.comp] = ret]
  /\ cacheValid' = [cacheValid EXCEPT ![Top.comp] = TRUE]
  /\ Return(ret)
  /\ UNCHANGED <<visible, clockEnabled, loop>>

\* Simulate() calls Evaluate() of a register; Evaluated is when that has returned.
Evaluate ==
  /\ pc = "evaluate" /\ stack = <<>> /\ next <= Len(state)
  /\ stack' = <<Frame(state[next], "call")>> /\ next' = next + 1
  /\ UNCHANGED <<fields, circuit, world, cycle, pc, ret>>

Evaluated ==
  /\ pc = "evaluate" /\ stack = <<>> /\ next > Len(state)
  /\ pc' = "edge" /\ next' = 1
  /\ UNCHANGED <<fields, circuit, world, cycle, stack, ret>>

PositiveEdgeUncounted ==
  /\ pc = "edge"
  /\ LET r == state[next]
     IN visible' = IF clockEnabled[r] THEN [visible EXCEPT ![r] = cached[r]] ELSE visible
  /\ Advance("prepare")
  /\ UNCHANGED <<cached, cacheValid, clockEnabled, circuit, world, cycle, stack, ret>>

PositiveEdge ==
  /\ pc = "edge"
  /\ LET r == state[next]
     IN visible' = IF clockEnabled[r] THEN [visible EXCEPT ![r] = cached[r]] ELSE visible
  /\ Advance("prepare")
  /\ cycle' = IF next = Len(state) THEN cycle + 1 ELSE cycle
  /\ UNCHANGED <<cached, cacheValid, clockEnabled, circuit, world, stack, ret>>

Next == \/ Check \/ Reset \/ Prepare \/ Finish \/ Evaluate \/ Evaluated \/ PositiveEdge
        \/ EvaluateSource \/ EvaluateRegister \/ Latched \/ EvaluateMux \/ Select \/ Selected

\* One thread, which runs.
Spec == Init /\ [][Next]_vars /\ WF_vars(Next)

-----------------------------------------------------------------------------
(* Properties.                                                             *)

\* While the registers are clocked one by one, those still to come count as clocked.
Regs ==
  [r \in Registers |->
     IF pc = "edge" /\ clockEnabled[r] /\ \E i \in next .. Len(state) : state[i] = r
     THEN cached[r] ELSE visible[r]]

\* The edge happens when the first register is clocked.
Edges == IF pc = "edge" THEN cycle + 1 ELSE cycle

Sync == INSTANCE Y4Sync WITH regs <- Regs, cycles <- Edges

\* sim.go: "We have to be extremely careful not to introduce any ordering
\* dependencies."  For every circuit, and every order in which its registers were made,
\* a cycle does what a clock edge does: all registers change at once, from the values
\* they had, and there is one edge for each cycle that is counted.
ImplementsSync == Sync!Spec

\* A call of Evaluate() that waits for itself: a register that is enabled and whose
\* input depends, through muxes as they stand, on the register.
Feedback == \E i, j \in DOMAIN stack : i < j /\ stack[i].comp = stack[j].comp

\* Every simulation comes to its end, or is refused by Check(), unless there is such a
\* loop; in particular no missing input is evaluated.
Completes == <>(pc \in {"done", "fatal"} \/ Feedback)
================================================================================
