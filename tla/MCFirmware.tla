------------------------------- MODULE MCFirmware -------------------------------
(***************************************************************************)
(* Messages for the firmware's log.                                        *)
(***************************************************************************)
EXTENDS Firmware

MCReset == <<65, 66, 67, 68, 69>>
MCHeartbeat == <<97, 98, 99>>
================================================================================
