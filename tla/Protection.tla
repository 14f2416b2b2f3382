------------------------------- MODULE Protection -------------------------------
(***************************************************************************)
(* What the two modes of the WUT-4 are for, with instructions, registers   *)
(* and memory left out: a user program computes, can only leave user mode  *)
(* through an enabled trap, cannot touch the state that is the kernel's,   *)
(* and cannot stop the machine.                                            *)
(***************************************************************************)

VARIABLES
  mode,       \* "kernel" or "user"
  enabled,    \* whether a trap can be taken
  pending,    \* whether a trap has been raised
  owned,      \* what only the kernel may change: its registers and both MMUs
  frame,      \* where a trap saves the interrupted context
  attention,  \* whether an operator is at the debugger prompt
  stopped,    \* whether the machine has left its loop
  broken      \* whether the process that runs it has died

pvars == <<mode, enabled, pending, owned, frame, attention, stopped, broken>>

PInit ==
  /\ mode = "kernel"
  /\ ~enabled /\ ~pending /\ ~attention /\ ~stopped /\ ~broken

\* A step of a user program may raise a trap and may change nothing else here.
UserStep ==
  /\ mode = "user" /\ ~stopped
  /\ ~pending /\ pending' \in BOOLEAN
  /\ UNCHANGED <<mode, enabled, owned, frame, attention, stopped, broken>>

\* The kernel may do anything but enter user mode with traps disabled.
KernelStep ==
  /\ mode = "kernel" /\ ~pending /\ ~stopped
  /\ mode' \in {"kernel", "user"}
  /\ mode' = "user" => enabled' /\ owned' = owned /\ ~pending'
  /\ UNCHANGED <<attention, stopped, broken>>

\* A trap enters the kernel with traps disabled; fetching the first
\* instruction of the handler may itself raise one.
Trap ==
  /\ pending /\ enabled /\ ~stopped
  /\ mode' = "kernel" /\ ~enabled' /\ pending' \in BOOLEAN
  /\ UNCHANGED <<owned, attention, stopped, broken>>

\* A trap that cannot be taken stops the machine.
DoubleFault ==
  /\ pending /\ ~enabled /\ ~stopped
  /\ stopped'
  /\ UNCHANGED <<mode, enabled, pending, owned, frame, attention, broken>>

\* The halt instruction is the kernel's.
Halt ==
  /\ mode = "kernel" /\ ~stopped
  /\ stopped'
  /\ UNCHANGED <<mode, enabled, pending, owned, frame, attention, broken>>

\* The operator comes to the prompt, and there lets the machine go on or not.
Operator ==
  /\ ~stopped
  /\ attention' # attention
  /\ stopped' => attention
  /\ UNCHANGED <<mode, enabled, pending, owned, frame, broken>>

\* A panic of the host process ends it where it is; nothing else is undone.
Break ==
  /\ ~broken
  /\ broken' /\ stopped'
  /\ UNCHANGED <<mode, enabled, pending, owned, frame, attention>>

PNext ==
  UserStep \/ KernelStep \/ Trap \/ DoubleFault \/ Halt \/ Operator \/ Break

PSpec == PInit /\ [][PNext]_pvars
================================================================================
