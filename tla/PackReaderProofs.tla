-------------------------- MODULE PackReaderProofs --------------------------
(***************************************************************************)
(* Where the packs of readPack come from in the device's stream, for every *)
(* pack size, timeout and pattern of bytes and pauses; and, around it,     *)
(* what the files of the dump tool hold of them.                           *)
(***************************************************************************)
EXTENDS DataDump, SequenceTheorems, TLAPS

\* The bytes of the present call.
Current == IF InPack THEN filled ELSE 0

\* While a call runs its buffer is not full, and an armed timer leaves at
\* least the rest of the idle time.
Calling ==
  /\ InPack => filled < P
  /\ pc \in {"read", "clock"} /\ canTimeOut => quiet + left >= Idle + 1

\* PacksInStream, with the packs before the present call's bytes.
PackPlaces ==
  /\ \A k \in 1 .. Len(packs) :
       /\ P * (k - 1) <= packs[k] /\ packs[k] <= P * (k - 1) + lost
       /\ packs[k] + P <= consumed - Current
  /\ \A k \in 1 .. Len(packs) - 1 : packs[k] + P <= packs[k + 1]

RInv == TypeOK /\ Calling /\ BytesAccounted /\ PackPlaces

LEMMA ReaderInit == Init => RInv
<1> SUFFICES ASSUME Init PROVE RInv
  OBVIOUS
<1> USE PackSize, IdleTime DEF Init
<1>1. TypeOK
  <2>1. canTimeOut \in BOOLEAN
    BY Zenon
  <2>2. pc \in {"new", "out", "read", "clock", "terminated"} /\ packs \in Seq(Nat)
    OBVIOUS
  <2>3. fd \in Int /\ filled \in 0 .. P /\ left \in 0 .. Idle + 1 /\ quiet \in 0 .. Idle + 1
    OBVIOUS
  <2> QED
    BY <2>1, <2>2, <2>3 DEF TypeOK
<1>2. Calling /\ BytesAccounted /\ PackPlaces
  BY DEF Calling, BytesAccounted, PackPlaces, InPack
<1> QED
  BY <1>1, <1>2 DEF RInv

\* Bytes that do not fill the buffer, or that do.
LEMMA GetInv == ASSUME RInv, ReadBytes PROVE RInv'
<1> USE PackSize, IdleTime DEF RInv
<1>1. PICK n \in 1 .. P - filled : Get(n, P)
  BY DEF ReadBytes
<1>2. canTimeOut' = FALSE
  BY DEF ReadBytes
<1>3. /\ pc = "read" /\ n \in Nat /\ filled \in Nat /\ filled + n <= P
      /\ consumed' = consumed + n /\ filled' = filled + n /\ quiet' = 0
      /\ UNCHANGED <<fd, arrived, left, lost>>
  BY <1>1 DEF Get, TypeOK
<1>4. /\ consumed' \in Nat /\ filled' \in 0 .. P /\ quiet' \in 0 .. Idle + 1
      /\ arrived' \in Nat /\ left' \in 0 .. Idle + 1 /\ lost' \in Nat
      /\ fd' \in Int /\ canTimeOut' \in BOOLEAN
  <2>1. canTimeOut' \in BOOLEAN
    BY <1>2, Zenon
  <2> QED
    BY <2>1, <1>3 DEF TypeOK
<1>7. consumed - filled = P * Len(packs) + lost
  BY <1>3 DEF BytesAccounted, InPack, TypeOK
<1>5. CASE filled + n < P
  <2>1. pc' = pc /\ packs' = packs
    BY <1>1, <1>3, <1>5 DEF Get
  <2>2. TypeOK'
    BY <1>3, <1>4, <2>1 DEF TypeOK
  <2>3. Calling'
    BY <1>2, <1>3, <1>5, <2>1 DEF Calling
  <2>4. BytesAccounted'
    BY <1>3, <2>1 DEF BytesAccounted, InPack, TypeOK
  <2>5. PackPlaces'
    <3>1. consumed' - Current' = consumed - Current
      BY <1>3, <2>1 DEF Current, InPack, TypeOK
    <3> QED
      BY <1>3, <2>1, <3>1 DEF PackPlaces
  <2> QED
    BY <2>2, <2>3, <2>4, <2>5
<1>6. CASE filled + n = P
  <2> DEFINE len == Len(packs)
             at == consumed - filled
  <2>1. pc' = "out" /\ packs' = Append(packs, at)
    BY <1>1, <1>3, <1>6 DEF Get
  <2>2. len \in Nat /\ at \in Nat /\ at = P * len + lost /\ P * len \in Nat
    BY <1>7 DEF TypeOK
  <2>3. /\ packs' \in Seq(Nat) /\ Len(packs') = len + 1
        /\ packs'[len + 1] = at
        /\ \A k \in 1 .. len : packs'[k] = packs[k]
    BY <2>1, <2>2, AppendProperties DEF TypeOK
  <2>4. TypeOK'
    BY <1>4, <2>1, <2>3 DEF TypeOK
  <2>5. Calling'
    BY <2>1 DEF Calling, InPack
  <2>6. P * (len + 1) = P * len + P
    BY <2>2
  <2>7. BytesAccounted'
    <3>1. consumed' = P * (len + 1) + lost
      BY <1>3, <1>6, <2>2, <2>6 DEF TypeOK
    <3> QED
      BY <1>3, <2>1, <2>3, <3>1 DEF BytesAccounted, InPack, TypeOK
  <2>8. Current = filled /\ Current' = 0 /\ consumed' = at + P
    BY <1>3, <1>6, <2>1 DEF Current, InPack, TypeOK
  <2>9. ASSUME NEW k \in 1 .. len + 1
        PROVE  /\ P * (k - 1) <= packs'[k] /\ packs'[k] <= P * (k - 1) + lost'
               /\ packs'[k] + P <= consumed' - Current'
    <3>1. CASE k = len + 1
      <4>1. P * (k - 1) = P * len
        BY <3>1, <2>2
      <4> QED
        BY <1>3, <2>2, <2>3, <2>8, <3>1, <4>1 DEF TypeOK
    <3>2. CASE k \in 1 .. len
      <4>1. /\ P * (k - 1) <= packs[k] /\ packs[k] <= P * (k - 1) + lost
            /\ packs[k] + P <= at /\ packs[k] \in Nat
        BY <3>2, <2>8 DEF PackPlaces, TypeOK
      <4> QED
        BY SMTT(30), <1>3, <2>2, <2>3, <2>8, <3>2, <4>1
    <3> QED
      BY <2>2, <3>1, <3>2
  <2>10. ASSUME NEW k \in 1 .. len
         PROVE  packs'[k] + P <= packs'[k + 1]
    <3>1. CASE k = len
      BY <3>1, <2>2, <2>3, <2>8 DEF PackPlaces
    <3>2. CASE k \in 1 .. len - 1
      <4>1. packs[k] + P <= packs[k + 1]
        BY <3>2 DEF PackPlaces
      <4>2. k + 1 \in 1 .. len
        BY <2>2, <3>2
      <4> QED
        BY <2>3, <4>1, <4>2
    <3> QED
      BY <2>2, <3>1, <3>2
  <2>11. PackPlaces'
    BY <2>2, <2>3, <2>9, <2>10 DEF PackPlaces
  <2> QED
    BY <2>4, <2>5, <2>7, <2>11
<1> QED
  BY <1>3, <1>5, <1>6

\* Giving up moves the present call's bytes to those lost.
LEMMA TimeOutInv == ASSUME RInv, TimeOut PROVE RInv'
<1> USE PackSize, IdleTime DEF RInv, TimeOut
<1>1. TypeOK'
  BY DEF TypeOK
<1>2. Calling'
  BY DEF Calling, InPack
<1>3. BytesAccounted'
  BY DEF BytesAccounted, InPack, TypeOK
<1>4. PackPlaces'
  <2>1. /\ lost <= lost' /\ lost \in Nat /\ lost' \in Nat
        /\ consumed - Current <= consumed' - Current'
        /\ consumed - Current \in Int /\ consumed' - Current' \in Int
    BY DEF Current, InPack, TypeOK
  <2>2. ASSUME NEW k \in 1 .. Len(packs)
        PROVE  /\ P * (k - 1) <= packs[k] /\ packs[k] <= P * (k - 1) + lost'
               /\ packs[k] + P <= consumed' - Current'
    <3>1. /\ P * (k - 1) <= packs[k] /\ packs[k] <= P * (k - 1) + lost
          /\ packs[k] + P <= consumed - Current
      BY DEF PackPlaces
    <3>2. packs[k] \in Nat /\ P * (k - 1) \in Int
      BY DEF TypeOK
    <3> QED
      BY <2>1, <3>1, <3>2
  <2> QED
    BY <2>2 DEF PackPlaces
<1> QED
  BY <1>1, <1>2, <1>3, <1>4

\* Steps that read nothing and return nothing keep the places.
LEMMA QuietInv ==
  ASSUME RInv,
         Open \/ Call \/ ReadEmpty \/ ReadError \/ StartTimer \/ ReadAgain
           \/ Deliver \/ Tick
  PROVE  RInv'
<1> USE PackSize, IdleTime DEF RInv
<1>1. /\ UNCHANGED <<packs, consumed, lost>> /\ Current' = Current
      /\ InPack' => filled' < P
  BY DEF Open, Call, ReadEmpty, ReadError, StartTimer, ReadAgain, Deliver,
         Tick, Current, InPack, Calling, TypeOK
<1>2. TypeOK'
  <2>1. canTimeOut' \in BOOLEAN
    BY Zenon DEF Open, Call, ReadEmpty, ReadError, StartTimer, ReadAgain,
                 Deliver, Tick, TypeOK
  <2>2. CASE Open \/ Call \/ ReadEmpty \/ ReadError \/ StartTimer \/ ReadAgain
             \/ Deliver
    <3>1. /\ fd' \in Int /\ arrived' \in Nat /\ filled' \in 0 .. P
          /\ left' \in 0 .. Idle + 1 /\ quiet' \in 0 .. Idle + 1
      BY SMTT(30), <2>2 DEF Open, Call, ReadEmpty, ReadError, StartTimer, ReadAgain,
                  Deliver, TypeOK
    <3>2. pc' \in {"new", "out", "read", "clock", "terminated"}
      BY <2>2 DEF Open, Call, ReadEmpty, ReadError, StartTimer, ReadAgain,
                  Deliver, TypeOK
    <3> QED
      BY <1>1, <2>1, <3>1, <3>2 DEF TypeOK
  <2>3. CASE Tick
    BY <2>3 DEF Tick, TypeOK
  <2> QED
    BY <2>2, <2>3
<1>3. Calling'
  <2>1. CASE Open \/ Call \/ ReadError
    BY <1>1, <2>1 DEF Open, Call, ReadError, Calling
  <2>2. CASE ReadEmpty \/ StartTimer \/ ReadAgain \/ Deliver
    BY <1>1, <2>2 DEF ReadEmpty, StartTimer, ReadAgain, Deliver, Calling, TypeOK
  <2>3. CASE Tick
    BY <1>1, <2>3 DEF Tick, Calling, TypeOK
  <2> QED
    BY <2>1, <2>2, <2>3
<1>4. BytesAccounted'
  BY <1>1 DEF BytesAccounted, Current
<1>5. PackPlaces'
  BY <1>1 DEF PackPlaces
<1> QED
  BY <1>2, <1>3, <1>4, <1>5

LEMMA ReaderStep == RInv /\ [Next]_vars => RInv'
<1> SUFFICES ASSUME RInv, [Next]_vars PROVE RInv'
  OBVIOUS
<1>1. CASE UNCHANGED vars
  BY <1>1 DEF vars, RInv, TypeOK, Calling, BytesAccounted, PackPlaces,
              InPack, Current
<1>2. CASE Next
  BY <1>2, GetInv, TimeOutInv, QuietInv DEF Next, ReadPack
<1> QED
  BY <1>1, <1>2

LEMMA ReaderInvariance == Spec => []RInv
  BY ReaderInit, ReaderStep, PTL DEF Spec

----------------------------------------------------------------------------
\* The reader's variables stay in their types: size_filled never exceeds the
\* buffer.
THEOREM ReaderTypes == Spec => []TypeOK
<1>1. RInv => TypeOK
  BY DEF RInv
<1> QED
  BY <1>1, ReaderInvariance, PTL

\* Every byte read is in one pack, in the present call's buffer, or lost with
\* an incomplete pack.
THEOREM EveryByte == Spec => []BytesAccounted
<1>1. RInv => BytesAccounted
  BY DEF RInv
<1> QED
  BY <1>1, ReaderInvariance, PTL

\* Packs are disjoint, in stream order, and displaced only by lost bytes.
THEOREM PacksPlaced == Spec => []PacksInStream
<1>1. RInv => PacksInStream
  <2> SUFFICES ASSUME RInv, NEW k \in 1 .. Len(packs)
               PROVE  packs[k] + P <= consumed
    BY DEF RInv, PackPlaces, PacksInStream
  <2>1. packs[k] + P <= consumed - Current /\ packs[k] \in Nat
    BY DEF RInv, PackPlaces, TypeOK
  <2>2. Current \in Nat /\ consumed \in Nat
    BY DEF RInv, TypeOK, Current
  <2> QED
    BY <2>1, <2>2, PackSize
<1> QED
  BY <1>1, ReaderInvariance, PTL

LEMMA ShiftedStep ==
  RInv /\ [Next]_vars
    => [packs' # packs => packs'[Len(packs')] = P * Len(packs) + lost]_vars
<1> SUFFICES ASSUME RInv, Next, packs' # packs
             PROVE  packs'[Len(packs')] = P * Len(packs) + lost
  BY DEF vars
<1>1. ReadBytes
  BY DEF Next, ReadPack, Open, Call, ReadEmpty, ReadError, StartTimer,
         ReadAgain, TimeOut, Deliver, Tick
<1>2. pc = "read" /\ packs' = Append(packs, consumed - filled)
  BY <1>1 DEF ReadBytes, Get
<1>3. /\ consumed - filled = P * Len(packs) + lost
      /\ packs \in Seq(Nat) /\ P * Len(packs) + lost \in Nat
  <2>1. P * Len(packs) \in Nat /\ lost \in Nat /\ packs \in Seq(Nat)
    BY PackSize DEF RInv, TypeOK
  <2>2. consumed = P * Len(packs) + lost + filled
    BY <1>2 DEF RInv, BytesAccounted, InPack
  <2> QED
    BY <2>1, <2>2 DEF RInv, TypeOK
<1> QED
  BY <1>2, <1>3, AppendProperties

LEMMA PatienceStep ==
  RInv /\ [Next]_vars => [pc = "clock" /\ pc' = "out" => quiet > Idle]_vars
<1> SUFFICES ASSUME RInv, Next, pc = "clock", pc' = "out" PROVE quiet > Idle
  BY DEF vars
<1>1. TimeOut
  BY DEF Next, ReadPack, Open, Call, ReadBytes, Get, ReadEmpty, ReadError,
         StartTimer, ReadAgain, Deliver, Tick
<1> QED
  BY <1>1, IdleTime DEF TimeOut, RInv, Calling, TypeOK

\* A pack returned after `lost' bytes were given up starts `lost' bytes late.
THEOREM StaysShifted == Spec => Shifted
  BY ReaderInvariance, ShiftedStep, PTL DEF Spec, Shifted

\* readPack gives up only after more than Idle ticks without a byte.
THEOREM Patience == Spec => PatientTimeOut
  BY ReaderInvariance, PatienceStep, PTL DEF Spec, PatientTimeOut
----------------------------------------------------------------------------
\* The dump tool around the reader.

Opening == {"rawFile", "hitFile", "device"}
Saving == {"saveHit", "saveRaw"}

\* What main is about to do, and where the reader is
Standing ==
  /\ pc = "new" => filled = 0
  /\ step \in Opening => pc \in {"new", "terminated"} /\ packs = << >>
  /\ step = "pack" => pc \in {"read", "clock", "terminated"}
  /\ step \notin Opening \cup {"pack"} => pc = "out"
  /\ step \in Saving => packs # << >>

\* FilesAgree, and nothing is left in the buffer of a closed file.
Files ==
  /\ opts.raw = "new" => raw = IF step \in Saving THEN Front(packs) ELSE packs
  /\ opts.hit = "new" =>
       hit \o pending = IF step = "saveHit" THEN Front(packs) ELSE packs
  /\ step \in {"join", "exited"} => pending = << >>

DInv == RInv /\ DumpTypeOK /\ Standing /\ Files

LEMMA FrontLast ==
  ASSUME NEW s \in Seq(Nat)
  PROVE  /\ \A x \in Nat : Front(Append(s, x)) = s
         /\ s # << >> => /\ Append(Front(s), Last(s)) = s /\ Last(s) \in Nat
                         /\ Front(s) \in Seq(Nat)
<1>1. ASSUME NEW x \in Nat PROVE Front(Append(s, x)) = s
  <2> DEFINE t == Append(s, x)
  <2>1. /\ t \in Seq(Nat) /\ Len(t) = Len(s) + 1
        /\ \A i \in 1 .. Len(s) : t[i] = s[i]
    BY AppendProperties
  <2>2. Len(s) \in Nat
    OBVIOUS
  <2> HIDE DEF t
  <2>3. /\ Front(t) = SubSeq(t, 1, Len(s))
    BY <2>1, <2>2 DEF Front
  <2>4. /\ SubSeq(t, 1, Len(s)) \in Seq(Nat) /\ Len(SubSeq(t, 1, Len(s))) = Len(s)
        /\ \A i \in 1 .. Len(s) : SubSeq(t, 1, Len(s))[i] = s[i]
    BY <2>1, <2>2
  <2>5. SubSeq(t, 1, Len(s)) = s
    BY <2>2, <2>4, SeqEqual
  <2> QED
    BY <2>3, <2>5 DEF t
<1>2. ASSUME s # << >>
      PROVE  /\ Append(Front(s), Last(s)) = s /\ Last(s) \in Nat
             /\ Front(s) \in Seq(Nat)
  <2>1. Len(s) \in Nat /\ Len(s) > 0
    BY <1>2
  <2> DEFINE t == SubSeq(s, 1, Len(s) - 1)
  <2>2. /\ t \in Seq(Nat) /\ Len(t) = Len(s) - 1
        /\ \A i \in 1 .. Len(s) - 1 : t[i] = s[i]
    <3> DEFINE l == Len(s) - 1
    <3>1. l \in Nat /\ l \in Int /\ 1 \in Int /\ \A i \in 1 .. l : s[i] \in Nat
      BY <2>1
    <3> HIDE DEF l
    <3>2. /\ SubSeq(s, 1, l) \in Seq(Nat)
          /\ Len(SubSeq(s, 1, l)) = IF 1 <= l THEN l - 1 + 1 ELSE 0
          /\ \A i \in 1 .. l - 1 + 1 : SubSeq(s, 1, l)[i] = s[1 + i - 1]
      BY <3>1, SubSeqProperties
    <3>3. Len(SubSeq(s, 1, l)) = l
      BY <3>1, <3>2
    <3>4. \A i \in 1 .. l : SubSeq(s, 1, l)[i] = s[i]
      <4>1. l - 1 + 1 = l /\ \A i \in 1 .. l : 1 + i - 1 = i
        BY <3>1
      <4> QED
        BY <3>2, <4>1
    <3> QED
      BY <3>2, <3>3, <3>4 DEF l
  <2>3. Front(s) = t /\ Last(s) = s[Len(s)] /\ s[Len(s)] \in Nat
    BY <2>1 DEF Front, Last
  <2> HIDE DEF t
  <2>4. /\ Append(t, s[Len(s)]) \in Seq(Nat)
        /\ Len(Append(t, s[Len(s)])) = Len(s)
        /\ \A i \in 1 .. Len(s) : Append(t, s[Len(s)])[i] = s[i]
    BY <2>1, <2>2, <2>3
  <2>5. Append(t, s[Len(s)]) = s
    BY <2>4, SeqEqual
  <2> QED
    BY <2>2, <2>3, <2>5
<1> QED
  BY <1>1, <1>2

\* A line more, in the buffer or in the file
Longer(h, q, x) ==
  /\ h \o q \in Seq(Nat) /\ Append(q, x) \in Seq(Nat)
  /\ h \o Append(q, x) = Append(h \o q, x)
  /\ (h \o q) \o <<x>> = Append(h \o q, x)

LEMMA OneMore ==
  ASSUME NEW h \in Seq(Nat), NEW q \in Seq(Nat), NEW x \in Nat
  PROVE  Longer(h, q, x)
  BY DEF Longer

LEMMA DumpInitial == DumpInit => DInv
<1> SUFFICES ASSUME DumpInit PROVE DInv
  OBVIOUS
<1>1. RInv
  BY ReaderInit DEF DumpInit
<1>2. /\ opts \in [raw : FileOption, hit : FileOption, limited : BOOLEAN]
      /\ step = "rawFile" /\ gDone = FALSE /\ exitLeft = 0 /\ watch = "none"
      /\ raw = << >> /\ hit = << >> /\ pending = << >> /\ packs = << >>
      /\ pc = "new" /\ filled = 0
  BY DEF DumpInit, Init
<1>3. DumpTypeOK
  <2>1. gDone \in BOOLEAN /\ TypeOK
    BY <1>1, <1>2, Zenon DEF RInv
  <2>2. exitLeft \in 0 .. ExitTime + 1 /\ << >> \in Seq(Nat)
    BY <1>2, ExitTimeSecond
  <2> QED
    BY <1>2, <2>1, <2>2 DEF DumpTypeOK
<1>4. Standing /\ Files
  BY <1>2 DEF Standing, Files, Opening, Saving
<1> QED
  BY <1>1, <1>3, <1>4 DEF DInv

\* A step of the tool is one of the reader, or the `throw;' at a file.
Thrown ==
  /\ step \in Opening /\ pc' = "terminated"
  /\ UNCHANGED <<fd, arrived, consumed, filled, canTimeOut, left, quiet, packs, lost>>

LEMMA DumpStep == [DumpNext]_dumpVars => [Next]_vars \/ Thrown
<1> SUFFICES ASSUME [DumpNext]_dumpVars PROVE [Next]_vars \/ Thrown
  OBVIOUS
<1>1. CASE OpenRaw \/ OpenHit
  BY <1>1 DEF OpenRaw, OpenHit, OpenFile, At, Opening, Thrown, vars
<1>2. CASE Start \/ Loop \/ Pack \/ PackError \/ Bytes \/ Clock
  BY <1>2 DEF Start, Loop, Pack, PackError, Bytes, Clock, Next
<1>3. CASE SaveHit \/ SaveRaw \/ Close \/ Join \/ WatchDog \/ Interrupt
  BY <1>3 DEF SaveHit, SaveRaw, Close, Join, WatchDog, Interrupt
<1>4. CASE UNCHANGED dumpVars
  BY <1>4 DEF dumpVars
<1> QED
  BY <1>1, <1>2, <1>3, <1>4 DEF DumpNext, Main

LEMMA ThrownInv == DInv /\ Thrown => RInv'
<1> SUFFICES ASSUME DInv, Thrown PROVE RInv'
  OBVIOUS
<1>1. RInv /\ pc \in {"new", "terminated"} /\ (pc = "new" => filled = 0)
  BY DEF DInv, Standing, Thrown
<1>2. CASE pc = "terminated"
  BY <1>1, <1>2 DEF Thrown, RInv, TypeOK, Calling, BytesAccounted, PackPlaces,
                    InPack, Current
<1>3. CASE pc = "new"
  <2>1. /\ filled = 0 /\ filled' = 0 /\ pc' = "terminated"
        /\ UNCHANGED <<fd, arrived, consumed, canTimeOut, left, quiet, packs, lost>>
    BY <1>1, <1>3 DEF Thrown
  <2>2. Current = 0 /\ Current' = 0
    BY <1>3, <2>1 DEF Current, InPack
  <2>3. TypeOK' /\ Calling'
    BY <1>1, <2>1, PackSize DEF RInv, TypeOK, Calling, InPack
  <2>4. BytesAccounted' /\ PackPlaces'
    BY <1>1, <2>1, <2>2 DEF RInv, BytesAccounted, PackPlaces, Current
  <2> QED
    BY <2>3, <2>4 DEF RInv
<1> QED
  BY <1>1, <1>2, <1>3

LEMMA DumpReader == DInv /\ [DumpNext]_dumpVars => RInv'
  BY DumpStep, ThrownInv, ReaderStep DEF DInv

\* Whatever of the reader moves, the files and the options stay.
LEMMA FilesStand ==
  ASSUME DInv, RInv', UNCHANGED <<opts, disk, packs>>,
         gDone' \in BOOLEAN, exitLeft' \in 0 .. ExitTime + 1,
         watch' \in {"none", "run", "ended"},
         step' \in {"rawFile", "hitFile", "device", "loop", "pack", "saveHit",
               "saveRaw", "close", "join", "exited"},
         step' = step \/ ({step, step'} \cap {"saveHit", "saveRaw", "exited", "join"} = {}),
         Standing'
  PROVE  DInv'
<1>1. TypeOK'
  BY DEF RInv
<1>2. DumpTypeOK'
  BY <1>1 DEF DInv, DumpTypeOK, disk
<1>3. Files'
  BY DEF DInv, Files, disk, Saving
<1> QED
  BY <1>2, <1>3 DEF DInv

LEMMA DumpInvariance == DInv /\ [DumpNext]_dumpVars => DInv'
<1> SUFFICES ASSUME DInv, [DumpNext]_dumpVars PROVE DInv'
  OBVIOUS
<1> USE DEF Opening, Saving
<1>1. RInv' /\ TypeOK'
  BY DumpReader DEF RInv
<1>2. /\ RInv /\ Standing /\ Files
      /\ packs \in Seq(Nat) /\ raw \in Seq(Nat) /\ hit \in Seq(Nat)
      /\ pending \in Seq(Nat)
      /\ gDone \in BOOLEAN /\ exitLeft \in 0 .. ExitTime + 1 /\ ExitTime \in Nat
      /\ watch \in {"none", "run", "ended"}
      /\ step \in {"rawFile", "hitFile", "device", "loop", "pack", "saveHit",
               "saveRaw", "close", "join", "exited"}
      /\ opts \in [raw : FileOption, hit : FileOption, limited : BOOLEAN]
  BY ExitTimeSecond DEF DInv, DumpTypeOK, RInv, TypeOK
<1>3. CASE OpenRaw \/ OpenHit
  <2>1. /\ UNCHANGED <<opts, disk, packs, gDone, exitLeft, watch, filled>>
        /\ step \in {"rawFile", "hitFile"} /\ step' \in {step, "hitFile", "device"}
        /\ pc' \in {pc, "terminated"}
    BY <1>3 DEF OpenRaw, OpenHit, OpenFile, At
  <2>2. Standing'
    BY <1>2, <2>1 DEF Standing
  <2> QED
    BY <1>1, <1>2, <2>1, <2>2, FilesStand
<1>4. CASE Start
  <2>1. /\ UNCHANGED <<opts, disk, packs, gDone>> /\ exitLeft' = ExitTime + 1
        /\ watch' = "run" /\ step = "device" /\ step' = "loop" /\ pc' = "out"
    BY <1>4 DEF Start, Open, At
  <2>2. Standing'
    BY <1>2, <2>1 DEF Standing
  <2> QED
    BY <1>1, <1>2, <2>1, <2>2, FilesStand
<1>5. CASE Loop
  <2>1. /\ UNCHANGED <<opts, disk, packs, gDone, exitLeft, watch>>
        /\ step = "loop" /\ pc = "out"
        /\ \/ step' = "close" /\ pc' = pc
           \/ step' = "pack" /\ pc' = "read"
    BY <1>2, <1>5 DEF Loop, Call, At, vars, Standing
  <2>2. Standing'
    BY <1>2, <2>1 DEF Standing
  <2> QED
    BY <1>1, <1>2, <2>1, <2>2, FilesStand
<1>6. CASE Pack
  <2>1. /\ UNCHANGED <<opts, disk, gDone, exitLeft, watch>>
        /\ step = "pack" /\ ReadPack /\ Returned /\ Running
    BY <1>6 DEF Pack, At
  <2>2. pc \in {"read", "clock"}
    BY <1>2, <2>1 DEF Standing, Running
  <2>3. CASE packs' = packs
    <3>1. pc' \in {"read", "clock", "out"}
      BY <2>1, <2>2 DEF ReadPack, ReadBytes, Get, ReadEmpty, StartTimer, ReadAgain,
           TimeOut
    <3>2. step' = IF pc' = "out" THEN "loop" ELSE "pack"
      BY <2>1, <2>3 DEF Returned
    <3>3. Standing'
      BY <1>2, <2>3, <3>1, <3>2 DEF Standing
    <3> QED
      BY <1>1, <1>2, <2>1, <2>3, <3>2, <3>3, FilesStand
  <2>4. CASE packs' # packs
    <3>1. PICK x \in Nat : packs' = Append(packs, x) /\ pc' = "out"
      <4>1. ReadBytes
        BY <2>1, <2>4 DEF ReadPack, ReadEmpty, StartTimer, ReadAgain, TimeOut
      <4>2. pc' = "out" /\ packs' = Append(packs, consumed - filled) /\ pc = "read"
        BY <2>4, <4>1 DEF ReadBytes, Get
      <4>3. consumed - filled \in Nat
        <5>1. consumed = P * Len(packs) + lost + filled
          BY <1>2, <4>2 DEF RInv, BytesAccounted, InPack
        <5>2. P * Len(packs) \in Nat /\ lost \in Nat /\ filled \in Nat
          BY <1>2, PackSize DEF RInv, TypeOK
        <5> QED
          BY <5>1, <5>2
      <4> QED
        BY <4>2, <4>3
    <3>2. step' = "saveHit"
      BY <2>1, <2>4, <3>1 DEF Returned
    <3>3. Front(packs') = packs /\ packs' # << >>
      <4>1. Front(packs') = packs
        BY <1>2, <3>1, FrontLast
      <4>2. Len(packs') = Len(packs) + 1 /\ Len(packs) \in Nat
        BY <1>2, <3>1
      <4> QED
        BY <4>1, <4>2
    <3>4. Standing'
      BY <3>1, <3>2, <3>3 DEF Standing
    <3>5. Files'
      BY <1>2, <2>1, <3>2, <3>3 DEF Files, disk
    <3>6. DumpTypeOK'
      BY <1>1, <1>2, <2>1, <3>2 DEF DumpTypeOK, disk
    <3> QED
      BY <1>1, <3>4, <3>5, <3>6 DEF DInv
  <2> QED
    BY <2>3, <2>4
<1>7. CASE PackError
  <2>1. /\ UNCHANGED <<opts, disk, packs, gDone, exitLeft, watch, step>>
        /\ step = "pack" /\ pc' = "terminated"
    BY <1>7 DEF PackError, ReadError, At
  <2>2. Standing'
    BY <1>2, <2>1 DEF Standing
  <2> QED
    BY <1>1, <1>2, <2>1, <2>2, FilesStand
\* The line that is written is the last pack.
<1>8. CASE SaveHit
  <2>1. /\ UNCHANGED <<opts, raw, packs, gDone, exitLeft, watch, pc, filled>>
        /\ step = "saveHit" /\ step' = "saveRaw"
    BY <1>8 DEF SaveHit, At, vars
  <2>2. /\ packs # << >> /\ Append(Front(packs), Last(packs)) = packs
        /\ Last(packs) \in Nat
    BY <1>2, <2>1, FrontLast DEF Standing
  <2>3. Standing'
    BY <1>2, <2>1 DEF Standing
  <2>4. \/ opts.hit # "new" /\ hit' = hit /\ pending' = pending
        \/ /\ opts.hit = "new"
           /\ \/ pending' = Append(pending, Last(packs)) /\ hit' = hit
              \/ pending' = <<Last(packs)>> /\ hit' = hit \o pending
    BY <1>8 DEF SaveHit
  <2>5. /\ hit' \in Seq(Nat) /\ pending' \in Seq(Nat)
        /\ opts.hit = "new" => hit' \o pending' = packs
    <3>1. CASE opts.hit # "new" /\ hit' = hit /\ pending' = pending
      BY <1>2, <3>1
    <3>2. CASE opts.hit = "new"
      <4>1. hit \o pending = Front(packs)
        BY <1>2, <2>1, <3>2 DEF Files
      <4>a. hit \in Seq(Nat) /\ pending \in Seq(Nat)
        BY <1>2
      <4> DEFINE x == Last(packs)
      <4>2. x \in Nat /\ Append(hit \o pending, x) = packs
        BY <2>2, <4>1
      <4>3. \/ pending' = Append(pending, x) /\ hit' = hit
            \/ pending' = <<x>> /\ hit' = hit \o pending
        BY <2>4, <3>2
      <4> HIDE DEF x
      <4>4. Longer(hit, pending, x)
        BY <4>a, <4>2, OneMore
      <4>5. <<x>> \in Seq(Nat)
        BY <4>2
      <4> QED
        BY <4>a, <4>2, <4>3, <4>4, <4>5 DEF Longer
    <3> QED
      BY <2>4, <3>1, <3>2
  <2>6. DumpTypeOK'
    BY <1>1, <1>2, <2>1, <2>5 DEF DumpTypeOK
  <2>7. Files'
    BY <1>2, <2>1, <2>5 DEF Files
  <2> QED
    BY <1>1, <2>3, <2>6, <2>7 DEF DInv
<1>9. CASE SaveRaw
  <2>1. /\ UNCHANGED <<opts, hit, pending, packs, gDone, exitLeft, watch, pc, filled>>
        /\ step = "saveRaw" /\ step' = "loop"
        /\ raw' = IF opts.raw = "new" THEN Append(raw, Last(packs)) ELSE raw
    BY <1>9 DEF SaveRaw, At, vars
  <2>2. /\ packs # << >> /\ Append(Front(packs), Last(packs)) = packs
        /\ Last(packs) \in Nat
    BY <1>2, <2>1, FrontLast DEF Standing
  <2>3. Standing'
    BY <1>2, <2>1 DEF Standing
  <2>4. raw' \in Seq(Nat) /\ (opts.raw = "new" => raw' = packs)
    BY <1>2, <2>1, <2>2 DEF Files
  <2>5. DumpTypeOK'
    BY <1>1, <1>2, <2>1, <2>4 DEF DumpTypeOK
  <2>6. Files'
    BY <1>2, <2>1, <2>4 DEF Files
  <2> QED
    BY <1>1, <2>3, <2>5, <2>6 DEF DInv
<1>10. CASE Close
  <2>1. /\ UNCHANGED <<opts, raw, packs, exitLeft, watch, pc, filled>>
        /\ step = "close" /\ step' = "join" /\ gDone' = TRUE
        /\ hit' = hit \o pending /\ pending' = << >>
    BY <1>10 DEF Close, At, vars
  <2>2. Standing'
    BY <1>2, <2>1 DEF Standing
  <2>3. hit' \in Seq(Nat) /\ pending' \in Seq(Nat) /\ hit' \o pending' = hit \o pending
    BY <1>2, <2>1
  <2>4. DumpTypeOK'
    BY <1>1, <1>2, <2>1, <2>3 DEF DumpTypeOK
  <2>5. Files'
    BY <1>2, <2>1, <2>3 DEF Files
  <2> QED
    BY <1>1, <2>2, <2>4, <2>5 DEF DInv
<1>11. CASE Join
  <2>1. /\ UNCHANGED <<opts, disk, packs, gDone, exitLeft, watch, pc, filled>>
        /\ step = "join" /\ step' = "exited"
    BY <1>11 DEF Join, At, vars
  <2>2. Standing'
    BY <1>2, <2>1 DEF Standing
  <2>3. DumpTypeOK'
    BY <1>1, <1>2, <2>1 DEF DumpTypeOK, disk
  <2>4. Files'
    BY <1>2, <2>1 DEF Files, disk
  <2> QED
    BY <1>1, <2>2, <2>3, <2>4 DEF DInv
<1>12. CASE WatchDog \/ Interrupt \/ Bytes \/ Clock
  <2>1. /\ UNCHANGED <<opts, disk, packs, step, pc, filled>>
        /\ gDone' \in {gDone, TRUE} /\ watch' \in {watch, "run", "ended"}
        /\ exitLeft' \in {exitLeft, IF exitLeft > 0 THEN exitLeft - 1 ELSE 0}
    BY <1>12 DEF WatchDog, Interrupt, Bytes, Clock, Deliver, Tick, vars
  <2>2. Standing'
    BY <1>2, <2>1 DEF Standing
  <2>3. exitLeft' \in 0 .. ExitTime + 1
    BY <1>2, <2>1
  <2>4. gDone' \in BOOLEAN
    BY <1>2, <2>1, Zenon
  <2> QED
    BY <1>1, <1>2, <2>1, <2>2, <2>3, <2>4, FilesStand
<1>13. CASE UNCHANGED dumpVars
  <2>1. UNCHANGED <<opts, disk, packs, step, pc, filled, gDone, watch, exitLeft>>
    BY <1>13 DEF dumpVars, vars
  <2>2. Standing'
    BY <1>2, <2>1 DEF Standing
  <2> QED
    BY <1>1, <1>2, <2>1, <2>2, FilesStand
<1> QED
  BY <1>3, <1>4, <1>5, <1>6, <1>7, <1>8, <1>9, <1>10, <1>11, <1>12, <1>13
     DEF DumpNext, Main

LEMMA DumpAlways == DumpSpec => []DInv
  BY DumpInitial, DumpInvariance, PTL DEF DumpSpec

\* The state of the dump tool and of its reader stays in its ranges.
THEOREM DumpTypes == DumpSpec => []DumpTypeOK
<1>1. DInv => DumpTypeOK
  BY DEF DInv
<1> QED
  BY <1>1, DumpAlways, PTL

\* Whenever the dump tool is stopped, and by whatever, its raw file has every
\* pack but the one that main is at work on and its hit file a beginning of
\* the packs; after an exit both have all.
THEOREM FilesHold == DumpSpec => []FilesAgree
<1>1. DInv => FilesAgree
  <2> SUFFICES ASSUME DInv PROVE FilesAgree
    OBVIOUS
  <2>1. step = "exited" /\ opts.hit = "new" => hit = packs
    <3> SUFFICES ASSUME step = "exited", opts.hit = "new" PROVE hit = packs
      OBVIOUS
    <3>1. hit \o << >> = packs /\ hit \in Seq(Nat)
      BY DEF DInv, Files, DumpTypeOK
    <3> QED
      BY <3>1
  <2> QED
    BY <2>1 DEF DInv, Files, FilesAgree, Saving
<1> QED
  BY <1>1, DumpAlways, PTL

\* In the dump tool, too, no byte is unaccounted for, packs are as late as
\* bytes were given up, and readPack gives up only after Idle ticks.
THEOREM DumpReads == DumpSpec => []BytesAccounted /\ Shifted /\ PatientTimeOut
<1>1. DInv => BytesAccounted
  BY DEF DInv, RInv
<1>2. DInv /\ [DumpNext]_dumpVars
        => [packs' # packs => packs'[Len(packs')] = P * Len(packs) + lost]_vars
  <2>1. Thrown => packs' = packs
    BY DEF Thrown
  <2> QED
    BY <2>1, DumpStep, ShiftedStep DEF DInv
<1>3. DInv /\ [DumpNext]_dumpVars
        => [pc = "clock" /\ pc' = "out" => quiet > Idle]_vars
  <2>1. Thrown => pc' # "out"
    BY DEF Thrown
  <2> QED
    BY <2>1, DumpStep, PatienceStep DEF DInv
<1> QED
  BY <1>1, <1>2, <1>3, DumpAlways, PTL DEF DumpSpec, Shifted, PatientTimeOut
=============================================================================
