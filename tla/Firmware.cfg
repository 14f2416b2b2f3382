\* Syncs, polls, an unimplemented command and gets with ids out of range, in any
\* order; the log queue holds one message, which is longer than the ring.
CONSTANTS
  RING_BUF_SIZE = 4
  LOG_QUEUE_SIZE = 2
  POLL_BUF_MAX_DATA = 8
  ResetMessage <- MCReset
  HeartbeatMessage <- MCHeartbeat
  ChipMod = 2
  Floating = 0
  HostBytes = {225, 227, 228, 248}
  MaxInFlight = 1
SPECIFICATION Spec
INVARIANTS TypeOK PollBufferOwned OnlyFullRingPanics UnsyncIsEmpty DesyncKeepsByte
