---------------------------------- MODULE Y4Sync ----------------------------------
(***************************************************************************)
(* Abstract: a clocked circuit.  In a cycle every register whose clock is  *)
(* enabled takes, all at once, what its input shows for the registers as   *)
(* they were and the outside world of the cycle.  There is no order of     *)
(* evaluation, no cache and no stack.  Y4Sim implements it.                *)
(***************************************************************************)
EXTENDS Integers

CONSTANTS Registers, Muxes, Zeros, Worlds

VARIABLES circuit, regs, world, cycles

Undef == -1

RECURSIVE Out(_)
Out(c) ==
  IF c \in Registers THEN regs[c]
  ELSE IF c \in Muxes
  THEN LET selector == Out(circuit.control[c])
       IN Out(circuit.data[c][IF selector = Undef THEN 0 ELSE selector])
  ELSE IF c \in Zeros THEN 0 ELSE world.source[c]

Init == regs = [r \in Registers |-> Undef] /\ world \in Worlds /\ cycles = 0

Cycle ==
  /\ regs' = [r \in Registers |->
                IF world.enable[r] THEN Out(circuit.input[r]) ELSE regs[r]]
  /\ cycles' = cycles + 1
  /\ UNCHANGED <<circuit, world>>

NewWorld == world' \in Worlds /\ UNCHANGED <<circuit, regs, cycles>>

Spec == Init /\ [][NewWorld \/ Cycle]_<<circuit, regs, world, cycles>>
================================================================================
