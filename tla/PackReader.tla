----------------------------- MODULE PackReader -----------------------------
(***************************************************************************)
(* comet_datarecv (daqb/lib/comet_wsf_datarecv.cc): its constructor, which *)
(* opens /dev/axidmard, and readPack, called again and again by the send   *)
(* daemon of TcpServer.                                                    *)
(*                                                                         *)
(* The device delivers a stream of bytes, numbered from 0.  A pack is P    *)
(* consecutive bytes of it, so the model names a pack by the number of its *)
(* first byte.  read() returns any part of what is there and asked for;    *)
(* bytes and time may come between a read() and the look at the clock.     *)
(* The clock is kept as the time left to tp_timeout_idel, so it needs no   *)
(* bound.                                                                  *)
(***************************************************************************)
EXTENDS Integers, Sequences

CONSTANTS P,         \* size_buf, the bytes of a pack (8)
          Idle,      \* timeout_idel, in ticks
          MaxBytes   \* bound: bytes the device delivers

ASSUME PackSize == P \in Nat \ {0}
ASSUME IdleTime == Idle \in Nat
ASSUME ReaderBound == MaxBytes \in Nat

VARIABLES
  pc,          \* "new", "out" of readPack, "read", "clock", "terminated"
  fd,          \* fd_rx: what open() returned
  arrived,     \* bytes the device has delivered
  consumed,    \* bytes read() has handed over
  filled,      \* size_filled
  canTimeOut,  \* can_time_out
  left,        \* ticks until the clock is past tp_timeout_idel
  quiet,       \* history: ticks since the call or its last bytes, at most
               \* Idle + 1
  packs,       \* history: first byte of each pack returned
  lost         \* history: bytes given up with an incomplete pack

vars == <<pc, fd, arrived, consumed, filled, canTimeOut, left, quiet,
          packs, lost>>

Init ==
  /\ pc = "new" /\ fd = 0
  /\ arrived = 0 /\ consumed = 0 /\ filled = 0
  /\ canTimeOut = FALSE /\ left = 0 /\ quiet = 0
  /\ packs = << >> /\ lost = 0

\* The constructor gives up only on descriptor 0, which open() does not
\* return to a process with a standard input; a failure is -1, and the
\* object is constructed all the same.
Open ==
  /\ pc = "new"
  /\ fd' \in {-1, 3}
  /\ pc' = IF fd' = 0 THEN "terminated" ELSE "out"
  /\ UNCHANGED <<arrived, consumed, filled, canTimeOut, left, quiet,
                 packs, lost>>

Call ==
  /\ pc = "out" /\ pc' = "read"
  /\ filled' = 0 /\ canTimeOut' = FALSE /\ quiet' = 0
  /\ UNCHANGED <<fd, arrived, consumed, left, packs, lost>>

\* read() hands over n bytes; the pack is returned once `full' are there.
Get(n, full) ==
  /\ pc = "read" /\ fd >= 0
  /\ consumed + n <= arrived
  /\ consumed' = consumed + n
  /\ filled' = filled + n /\ quiet' = 0
  /\ IF filled + n >= full
       THEN pc' = "out" /\ packs' = Append(packs, consumed - filled)
       ELSE UNCHANGED <<pc, packs>>
  /\ UNCHANGED <<fd, arrived, left, lost>>

\* Mutant: the idle timer is not stopped when bytes come.
ReadBytesTiming ==
  (\E n \in 1 .. P - filled : Get(n, P)) /\ UNCHANGED canTimeOut

\* Mutant: the loop ends a byte early.
ReadBytesShort ==
  (\E n \in 1 .. P - filled : Get(n, P - 1)) /\ canTimeOut' = FALSE

\* Mutant: read() is asked for a whole pack again.
ReadBytesOver ==
  (\E n \in 1 .. P : Get(n, P)) /\ canTimeOut' = FALSE

\* read() > 0: the idle timer stops; a full buffer is returned.
ReadBytes ==
  (\E n \in 1 .. P - filled : Get(n, P)) /\ canTimeOut' = FALSE

\* read() = 0 or EAGAIN
ReadEmpty ==
  /\ pc = "read" /\ fd >= 0 /\ consumed = arrived
  /\ pc' = "clock"
  /\ UNCHANGED <<fd, arrived, consumed, filled, canTimeOut, left, quiet,
                 packs, lost>>

\* Any other error: `throw;` with no exception ends the process.
ReadError ==
  /\ pc = "read"
  /\ pc' = "terminated"
  /\ UNCHANGED <<fd, arrived, consumed, filled, canTimeOut, left, quiet,
                 packs, lost>>

\* The first empty read starts the idle timer.
StartTimer ==
  /\ pc = "clock" /\ ~canTimeOut
  /\ pc' = "read"
  /\ canTimeOut' = TRUE /\ left' = Idle + 1
  /\ UNCHANGED <<fd, arrived, consumed, filled, quiet, packs, lost>>

\* Mutant: every empty read starts the timer anew.
ReadAgainAnew ==
  /\ pc = "clock" /\ canTimeOut /\ left > 0
  /\ pc' = "read" /\ left' = Idle + 1
  /\ UNCHANGED <<fd, arrived, consumed, filled, canTimeOut, quiet, packs, lost>>

ReadAgain ==
  /\ pc = "clock" /\ canTimeOut /\ left > 0
  /\ pc' = "read"
  /\ UNCHANGED <<fd, arrived, consumed, filled, canTimeOut, left, quiet,
                 packs, lost>>

\* Mutant: the bytes given up are those that were still missing.
TimeOutMissing ==
  /\ pc = "clock" /\ canTimeOut /\ left = 0
  /\ pc' = "out"
  /\ lost' = lost + (P - filled) /\ filled' = 0
  /\ UNCHANGED <<fd, arrived, consumed, canTimeOut, left, quiet, packs>>

\* The empty string is returned, and the bytes of an incomplete pack are
\* gone with the buffer.
TimeOut ==
  /\ pc = "clock" /\ canTimeOut /\ left = 0
  /\ pc' = "out"
  /\ lost' = lost + filled /\ filled' = 0
  /\ UNCHANGED <<fd, arrived, consumed, canTimeOut, left, quiet, packs>>

ReadPack == ReadBytes \/ ReadEmpty \/ StartTimer \/ ReadAgain \/ TimeOut

Deliver ==
  /\ arrived < MaxBytes /\ pc # "terminated"
  /\ arrived' = arrived + 1
  /\ UNCHANGED <<pc, fd, consumed, filled, canTimeOut, left, quiet, packs, lost>>

Tick ==
  /\ pc # "terminated"
  /\ left' = IF left > 0 THEN left - 1 ELSE 0
  /\ quiet' = IF quiet > Idle THEN quiet ELSE quiet + 1
  /\ UNCHANGED <<pc, fd, arrived, consumed, filled, canTimeOut, packs, lost>>

Next == Open \/ Call \/ ReadPack \/ ReadError \/ Deliver \/ Tick

\* readPack polls without waiting, read() always answers, the clock goes on.
Fairness == /\ WF_vars(ReadPack) /\ WF_vars(fd < 0 /\ ReadError)
            /\ WF_vars(Tick)

Spec == Init /\ [][Next]_vars /\ Fairness
----------------------------------------------------------------------------
TypeOK ==
  /\ pc \in {"new", "out", "read", "clock", "terminated"}
  /\ fd \in Int
  /\ arrived \in Nat /\ consumed \in Nat /\ filled \in 0 .. P
  /\ canTimeOut \in BOOLEAN /\ left \in 0 .. Idle + 1
  /\ quiet \in 0 .. Idle + 1 /\ packs \in Seq(Nat) /\ lost \in Nat

InPack == pc \in {"read", "clock", "terminated"}

\* Every byte read() handed over is in exactly one pack that was returned,
\* in the incomplete pack of the present call, or was given up with an
\* incomplete pack.
BytesAccounted ==
  consumed = P * Len(packs) + lost + (IF InPack THEN filled ELSE 0)

\* Packs are disjoint pieces of the stream, in order; the bytes between them
\* are only those given up, so that with nothing given up every pack starts
\* at a multiple of P.
PacksInStream ==
  /\ \A k \in 1 .. Len(packs) :
       /\ P * (k - 1) <= packs[k] /\ packs[k] <= P * (k - 1) + lost
       /\ packs[k] + P <= consumed
  /\ \A k \in 1 .. Len(packs) - 1 : packs[k] + P <= packs[k + 1]

\* Once bytes have been given up, the stream does not come back into step by
\* itself: the next pack starts `lost' bytes late.
Shifted ==
  [][packs' # packs => packs'[Len(packs')] = P * Len(packs) + lost]_vars

\* readPack gives up only after more than Idle ticks without a byte.
PatientTimeOut ==
  [][pc = "clock" /\ pc' = "out" => quiet > Idle]_vars
=============================================================================
