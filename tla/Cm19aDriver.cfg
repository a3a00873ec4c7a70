SPECIFICATION FairSpec
CONSTANTS
  Slots = {1}
  Threads = {"a", "b"}
  Files = {1, 2}
  ReadBufSz = 3
  ReadLens = {1, 2}
  MaxBytes = 3
INVARIANTS
  TypeOK
  SlotsInUse
  OneOpener
  BufferIsUnread
  BusyIsSending
PROPERTY
  ReadersWake
CHECK_DEADLOCK FALSE
