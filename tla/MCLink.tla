---------------------------------- MODULE MCLink ----------------------------------
(***************************************************************************)
(* Commands and messages for the link.                                     *)
(***************************************************************************)
EXTENDS Link

MCReset == <<65, 66, 67, 68, 69>>
MCHeartbeat == <<97, 98, 99>>

\* Clock the chip, latch its count, read it straight and reversed, set a
\* register straight and reversed.
MCCommands ==
  {<<240, 1, 8>>, <<240, 1, 0>>, <<248, 1>>, <<249, 1>>, <<244, 2, 248>>, <<245, 10, 225>>}

\* For liveness, one command with a response and one without.
MCFewCommands == {<<240, 1, 8>>, <<248, 1>>}
================================================================================
