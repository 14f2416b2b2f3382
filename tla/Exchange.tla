-------------------------------- MODULE Exchange --------------------------------
(***************************************************************************)
(* What the serial link promises the user of the exerciser, without bytes, *)
(* buffers or polls: a command that returns has been carried out exactly   *)
(* once, on the registers as they were at some moment during the call, and *)
(* one that fails ends the session having been carried out at most once.   *)
(***************************************************************************)
EXTENDS Ports, Sequences

CONSTANT Commands

VARIABLES
  session,  \* "connecting", "open" or "over"
  call,     \* the command that has been given and not returned
  count,    \* how many times it has been carried out
  result,   \* what it read, once it has
  reply,    \* what the last command to return returned
  device    \* the registers

evars == <<session, call, count, result, reply, device>>

None == <<>>

Reads(c) == c[1] \in {248, 249}

InRange(c) == (IF c[1] = 240 THEN c[3] ELSE c[2]) < 16

Effect(c, p) ==
  CASE c[1] = 240 -> Toggled(p, c[3], c[2])
    [] c[1] = 244 -> nanoSetRegister(p, c[2], c[3])
    [] c[1] = 245 -> nanoSetRegister(p, c[2], reverse_byte(c[3]))
    [] OTHER -> nanoGetRegister(p, c[2])

Value(c, p) ==
  IF c[1] = 249 THEN reverse_byte(GetValue(p, c[2])) ELSE GetValue(p, c[2])

EInit ==
  /\ session = "connecting" /\ call = None /\ count = 0 /\ reply = None
  /\ device = callAfterPostInit(PowerUp)

Open ==
  /\ session = "connecting" /\ session' = "open"
  /\ UNCHANGED <<call, count, result, reply, device>>

Close ==
  /\ session' = "over"
  /\ UNCHANGED <<call, count, result, reply, device>>

Give ==
  /\ session = "open" /\ call = None
  /\ call' \in Commands /\ count' = 0 /\ reply' = None
  /\ session' \in {"open", "over"}
  /\ UNCHANGED <<result, device>>

Perform ==
  /\ call # None /\ count = 0 /\ count' = 1
  /\ device' = Effect(call, device)
  /\ result' = IF Reads(call) THEN Value(call, device) ELSE result
  /\ UNCHANGED <<session, call, reply>>

Return ==
  /\ session = "open" /\ call # None /\ count = 1 /\ InRange(call)
  /\ reply' = <<call, IF Reads(call) THEN <<result>> ELSE <<>>>>
  /\ call' = None
  /\ UNCHANGED <<session, count, result, device>>

\* The firmware restarts.
Restart ==
  /\ device' = callAfterPostInit(device)
  /\ UNCHANGED <<session, call, count, result, reply>>

ENext == Open \/ Close \/ Give \/ Perform \/ Return \/ Restart

ESpec == EInit /\ [][ENext]_evars
================================================================================
