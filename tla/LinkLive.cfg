\* Liveness with one fault and one command.
CONSTANTS
  RING_BUF_SIZE = 5
  LOG_QUEUE_SIZE = 2
  POLL_BUF_MAX_DATA = 8
  ResetMessage <- MCReset
  HeartbeatMessage <- MCHeartbeat
  ChipMod = 3
  Floating = 0
  Commands <- MCFewCommands
  MaxCalls = 1
  MaxDrain = 4
  MaxFaults = 1
SPECIFICATION FairSpec
PROPERTIES HostNeverHangs DesyncEnds PollEnds
