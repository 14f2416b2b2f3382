\* Two late answers, lost bytes, failed writes or resets anywhere; two commands.
CONSTANTS
  RING_BUF_SIZE = 5
  LOG_QUEUE_SIZE = 2
  POLL_BUF_MAX_DATA = 8
  ResetMessage <- MCReset
  HeartbeatMessage <- MCHeartbeat
  ChipMod = 3
  Floating = 0
  Commands <- MCCommands
  MaxCalls = 2
  MaxDrain = 4
  MaxFaults = 2
SPECIFICATION Spec
INVARIANTS    FirstSyncConnects
PROPERTIES  SessionLasts
