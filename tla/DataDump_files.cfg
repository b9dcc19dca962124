\* Packs of three bytes in a stream of eight, with every choice of options; and every pack of
\* eight bytes whose half bytes have two values.
SPECIFICATION DumpSpec
CONSTANTS
  P = 3
  Idle = 1
  MaxBytes = 8
  ExitTime = 2
  R = 2
INVARIANTS
  DumpTypeOK
  BytesAccounted
  FilesAgree
  LinesArePacks
PROPERTIES
  Shifted
  PatientTimeOut
  DumpEnds
\* the dump exits
CHECK_DEADLOCK FALSE
