-------------------------- MODULE EventRingProofs --------------------------
(***************************************************************************)
(* What the event buffer keeps, for every ring size, number of messages,   *)
(* number of runs and interleaving of the single accesses: in the runs of  *)
(* a careful caller (CarefulSpec), whatever the counters of a new daqb,    *)
(* and in the client's one run (RunSpec) when they were benign.            *)
(***************************************************************************)
EXTENDS EventRing, SequenceTheorems, TLAPS

(* Counters taken modulo the size n of the ring: m_count_ring_write %      *)
(* m_size_ring.                                                            *)

\* A counter is a number of whole turns and an index below n.
LEMMA Division ==
  ASSUME NEW n \in Nat \ {0}, NEW a \in Nat
  PROVE  /\ a = (n * (a \div n)) + (a % n)
         /\ a \div n \in Nat
         /\ a % n \in 0 .. n - 1
  BY SMT

\* The turns and the index are unique.
LEMMA UniqueIndex ==
  ASSUME NEW n \in Nat \ {0}, NEW p \in Int, NEW q \in Int,
         NEW r \in 0 .. n - 1, NEW s \in 0 .. n - 1,
         (n * p) + r = (n * q) + s
  PROVE  r = s
<1>1. n * (p - q) = s - r
  OBVIOUS
<1>2. CASE p - q >= 1
  <2>1. n * (p - q) >= n
    BY <1>2
  <2> QED
    BY <2>1, <1>1
<1>3. CASE p - q <= -1
  <2>1. n * (p - q) <= -n
    BY <1>3
  <2> QED
    BY <2>1, <1>1
<1>4. CASE p = q
  BY <1>4, <1>1
<1> QED
  BY <1>2, <1>3, <1>4

\* A whole turn more gives the same index.
LEMMA WholeTurn ==
  ASSUME NEW n \in Nat \ {0}, NEW a \in Nat
  PROVE  (a + n) % n = a % n
<1> DEFINE b == a + n
<1>1. b \in Nat
  OBVIOUS
<1>2. /\ a = (n * (a \div n)) + (a % n)
      /\ a \div n \in Nat /\ a % n \in 0 .. n - 1
  BY Division
<1>3. /\ b = (n * (b \div n)) + (b % n)
      /\ b \div n \in Nat /\ b % n \in 0 .. n - 1
  BY <1>1, Division
<1> DEFINE p == (a \div n) + 1
           q == b \div n
           r == a % n
           s == b % n
<1>4. p \in Int /\ q \in Int /\ r \in 0 .. n - 1 /\ s \in 0 .. n - 1
  BY <1>2, <1>3
<1>5. n * ((a \div n) + 1) = (n * (a \div n)) + n
  BY <1>2
<1>6. (n * p) + r = (n * q) + s
  BY <1>2, <1>3, <1>5
<1> HIDE DEF p, q, r, s
<1>7. r = s
  BY <1>4, <1>6, UniqueIndex
<1> QED
  BY <1>7 DEF b, r, s

\* Two counters less than a turn apart give different indices.
LEMMA WithinTurn ==
  ASSUME NEW n \in Nat \ {0}, NEW a \in Nat, NEW b \in Nat,
         a < b, b < a + n
  PROVE  a % n # b % n
<1> SUFFICES ASSUME a % n = b % n PROVE FALSE
  OBVIOUS
<1> DEFINE d == (b \div n) - (a \div n)
<1>1. /\ a = (n * (a \div n)) + (a % n)
      /\ a \div n \in Nat /\ a % n \in 0 .. n - 1
  BY Division
<1>2. /\ b = (n * (b \div n)) + (b % n)
      /\ b \div n \in Nat /\ b % n \in 0 .. n - 1
  BY Division
<1>3. n * d = b - a
  BY <1>1, <1>2
<1>4. d \in Int /\ 0 < n * d /\ n * d < n
  BY <1>1, <1>2, <1>3
<1> HIDE DEF d
<1>5. CASE d >= 1
  <2>1. n * d >= n
    BY <1>5, <1>4
  <2> QED
    BY <2>1, <1>4
<1>6. CASE d <= 0
  <2>1. n * d <= 0
    BY <1>6, <1>4
  <2> QED
    BY <2>1, <1>4
<1> QED
  BY <1>4, <1>5, <1>6
----------------------------------------------------------------------------
\* The uninitialised write counter of a new daqb happens to be 0; or the ring
\* at least does not look filled.
Benign == \A c \in InitCounts : c[1] = 0
Unfilled == \A c \in InitCounts : c[1] <= c[2]

\* The two ways to use a ring that keep it in order: a careful caller's runs,
\* and the client's one run from a write counter that was 0.
InOrder == CarefulSpec \/ (Benign /\ RunSpec)
----------------------------------------------------------------------------
(* The inductive invariant.                                                *)

Cleared == mpc \in {"zeroWrite", "zeroRead", "hotTail", "zeroStats", "accept"}
Live == mpc \in {"running", "stopped", "clearVec"}

\* The packs of earlier runs: the counters begin again with every start, the
\* histories do not.
Base == Len(stored) - wr

\* No callback is under way, no saver, and every pack was taken.
Quiet == rpc = "idle" /\ spc = "off" /\ wr <= rd

\* Data is accepted in a run only; no thread is at work where the vector may
\* be empty or is about to be cleared.
Resting ==
  /\ accept => mpc = "running"
  /\ (mpc = "clearVec" \/ (Live /\ ~sized) \/ (mpc = "stopped" /\ spc = "off"))
       => mpc # "running" /\ Quiet

\* Between two runs, and before the first, nothing moves: the receiver drops
\* what arrives, a saver, if there is one, sees a write counter of 0, and
\* every pack published is in the file.
Dormant ==
  ~Live =>
    /\ rpc = "idle"
    /\ spc = "off" \/ (wr = 0 /\ spc \in {"front", "compare"})
    /\ saved = stored
    /\ Cleared => sized
    /\ mpc \in {"zeroRead", "hotTail", "zeroStats", "accept"} => wr = 0
    /\ mpc \in {"hotTail", "zeroStats", "accept"} => rd = 0
    /\ mpc \in {"zeroStats", "accept"} => hot = N - 1
    /\ mpc = "accept" => nInput = 0 /\ nOverflow = 0

\* The saver holds the slot of the front pack, or it stands behind it.
Held == spc \in {"copy", "pop", "popCompare", "popIndex", "popMark",
                 "reset", "advance", "advanced"}
Busy == Held \/ spc \in {"index", "mark"}
Room == IF Held THEN N ELSE N - 1
\* The slot of the front pack was reset and the pack not taken yet.
Emptied == spc \in {"advance", "advanced"}

\* The counters are never more than a ring apart, and the hot slot is the
\* slot of the front pack while the saver holds it, the one before otherwise.
Counters ==
  Live =>
    /\ wr <= Len(stored)
    /\ rd <= wr /\ wr <= rd + Room
    /\ Busy => rd < wr
    /\ hot = IF Held THEN rd % N ELSE (rd + (N - 1)) % N
    /\ spc \in {"mark", "copy", "popMark", "reset", "advance", "advanced"}
         => slot = rd % N

\* What the saver has loaded is no longer the write counter, but it was, and
\* it is still the read counter.
Loaded ==
  /\ spc = "compare" => seen <= wr
  /\ spc = "popCompare" => rd < seen
  /\ spc = "advanced" => seen = rd

\* A receiver past its check has a free slot ahead of it.
Writing ==
  /\ rpc \in {"check", "store", "publish"} => idx = wr % N
  /\ rpc \in {"store", "publish"} => wr < rd + Room
  /\ rpc # "idle" => arrived \in 1 .. MaxMsgs
  /\ rpc = "publish" => ring[idx] = arrived

\* The slots between the counters hold the packs not yet taken, in order.
Contents ==
  Live =>
    \A i \in Nat : (rd <= i /\ i < wr /\ ~(i = rd /\ Emptied))
                     => ring[i % N] = stored[Base + i + 1]

\* The saver's copy and the file.
Copied ==
  Live =>
    /\ spc \in {"pop", "popCompare", "popIndex", "popMark", "reset",
                "advance", "advanced"}
         => pack = stored[Base + rd + 1]
    /\ spc = "save" => rd > 0 /\ pack = stored[Base + rd]
    /\ Len(saved) = Base + (IF spc = "save" THEN rd - 1 ELSE rd)
    /\ \A k \in 1 .. Len(saved) : saved[k] = stored[k]

Numbered ==
  /\ arrived <= MaxMsgs
  /\ \A k \in 1 .. Len(stored) : stored[k] \in Packs

\* InputAccounted, also while the ring is being cleared.
AllAccounted ==
  Live => nInput = wr + nOverflow
                   + (IF rpc \in {"index", "check", "store", "publish"}
                      THEN 1 ELSE 0)

IInv ==
  /\ TypeOK /\ Numbered /\ Resting /\ Dormant /\ Counters /\ Loaded
  /\ Writing /\ Contents /\ Copied /\ AllAccounted

\* In the client's run the saver is launched while the write counter is still
\* 0, and never ends.
FirstRun ==
  /\ mpc = "idle" => wr = 0
  /\ mpc # "idle" => spc # "off"

\* All the client's run needs not to leave the vector: before the counters
\* are zeroed the saver finds nothing, afterwards the vector has its slots.
FirstBounds ==
  /\ wr \in Nat /\ rd \in Nat /\ seen \in Nat
  /\ accept => mpc = "running"
  /\ mpc \in {"idle", "resize", "zeroWrite", "zeroRead"} =>
       /\ wr <= rd /\ rpc = "idle"
       /\ spc \in {"off", "front", "compare"} /\ (spc = "compare" => seen <= rd)
  /\ mpc \notin {"idle", "resize"} => sized
  /\ mpc # "clearVec"
----------------------------------------------------------------------------
(* Indices.                                                                *)

\* The slot of a counter is a slot of the ring.
LEMMA SlotOf == ASSUME NEW a \in Nat PROVE a % N \in Slots
  BY SizeAssumption, Division DEF Slots

\* Counters less than a ring apart have different slots.
LEMMA Apart ==
  ASSUME NEW a \in Nat, NEW b \in Nat, a < b, b < a + N
  PROVE  a % N # b % N
  BY SizeAssumption, WithinTurn

\* The slot behind the next front is the present front's; the slot behind
\* slot 0 is the tail.
LEMMA Behind ==
  /\ \A a \in Nat : ((a + 1) + (N - 1)) % N = a % N
  /\ (0 + (N - 1)) % N = N - 1
<1>1. ASSUME NEW a \in Nat
      PROVE  ((a + 1) + (N - 1)) % N = a % N
  <2>1. (a + 1) + (N - 1) = a + N
    BY SizeAssumption
  <2> QED
    BY <2>1, SizeAssumption, WholeTurn
<1>2. (0 + (N - 1)) % N = N - 1
  BY SizeAssumption
<1> QED
  BY <1>1, <1>2
----------------------------------------------------------------------------
(* The invariant holds initially and no step breaks it.                    *)

\* A new daqb satisfies the invariant, whatever its counters.
LEMMA InitInv == Init => IInv
<1> SUFFICES ASSUME Init PROVE IInv
  OBVIOUS
<1> USE SizeAssumption DEF Init
<1>1. wr \in Nat /\ rd \in Nat
  BY CountsAssumption
<1>2. TypeOK
  <2>1. ring \in [Slots -> Nat]
    BY DEF EmptyRing, NoPack
  <2>2. idx \in Slots /\ slot \in Slots /\ hot \in Slots
    BY DEF Slots
  <2>3. stored \in Seq(Nat) /\ saved \in Seq(Nat)
    OBVIOUS
  <2> QED
    BY <1>1, <2>1, <2>2, <2>3 DEF TypeOK, NoPack
<1>3. Numbered
  BY BoundAssumption DEF Numbered
<1>4. Resting /\ Dormant
  BY <1>1 DEF Resting, Dormant, Quiet, Live, Cleared
<1>5. Counters /\ Contents /\ Copied
  BY DEF Counters, Base, Contents, Copied, Live
<1>6. Writing /\ AllAccounted /\ Loaded
  BY DEF Writing, AllAccounted, Loaded, Live
<1> QED
  BY <1>2, <1>3, <1>4, <1>5, <1>6 DEF IInv

\* The receiver's steps: the ring is only written in the free slot that the
\* check found, and the write counter is at most a ring ahead.
LEMMA ReceiverInv == ASSUME IInv, Receiver PROVE IInv'
<1> USE SizeAssumption DEF shared, receiver, saver, counters
<1>0. TypeOK /\ Numbered /\ Resting /\ Dormant /\ Counters
      /\ Loaded /\ Writing /\ Contents /\ Copied /\ AllAccounted
  BY DEF IInv
<1>1. CASE RGate
  <2> USE <1>0, <1>1 DEF RGate
  <2>1. TypeOK'
    BY DEF TypeOK
  <2>2. Numbered'
    BY BoundAssumption DEF Numbered, TypeOK
  <2>3. Resting' /\ Dormant' /\ Counters' /\ Loaded' /\ Contents' /\ Copied'
    BY DEF Resting, Dormant, Quiet, Counters, Loaded, Emptied, Base, Contents,
           Copied, Live, Cleared, Held, Busy, Room
  <2>4. Writing'
    BY BoundAssumption DEF Writing, TypeOK, Resting, Dormant, Quiet
  <2>5. AllAccounted'
    BY DEF AllAccounted, Live
  <2> QED
    BY <2>1, <2>2, <2>3, <2>4, <2>5 DEF IInv
<1>2. CASE RCount
  <2> USE <1>0, <1>2 DEF RCount
  <2>1. TypeOK'
    BY DEF TypeOK
  <2>2. /\ Numbered' /\ Resting' /\ Dormant' /\ Counters'
        /\ Loaded' /\ Contents' /\ Copied' /\ Writing'
    BY DEF Numbered, Resting, Dormant, Quiet, Counters, Loaded, Emptied, Base,
           Contents, Copied, Writing, Live, Cleared, Held, Busy, Room
  <2>3. AllAccounted'
    BY DEF AllAccounted, Live, TypeOK
  <2> QED
    BY <2>1, <2>2, <2>3 DEF IInv
<1>3. CASE RIndex
  <2> USE <1>0, <1>3 DEF RIndex
  <2>1. TypeOK'
    <3>1. wr % N \in Slots
      BY SlotOf DEF TypeOK
    <3> QED
      BY <3>1, ZenonT(60) DEF TypeOK
  <2>2. /\ Numbered' /\ Resting' /\ Dormant' /\ Counters'
        /\ Loaded' /\ Contents' /\ Copied' /\ Writing'
    BY DEF Numbered, Resting, Dormant, Quiet, Counters, Loaded, Emptied, Base,
           Contents, Copied, Writing, Live, Cleared, Held, Busy, Room
  <2>3. AllAccounted'
    BY DEF AllAccounted, Live
  <2> QED
    BY <2>1, <2>2, <2>3 DEF IInv
<1>4. CASE ROverflow
  <2> USE <1>0, <1>4 DEF ROverflow
  <2>1. TypeOK'
    BY DEF TypeOK
  <2>2. /\ Numbered' /\ Resting' /\ Dormant' /\ Counters'
        /\ Loaded' /\ Contents' /\ Copied' /\ Writing'
    BY DEF Numbered, Resting, Dormant, Quiet, Counters, Loaded, Emptied, Base,
           Contents, Copied, Writing, Live, Cleared, Held, Busy, Room
  <2>3. AllAccounted'
    BY DEF AllAccounted, Live, TypeOK
  <2> QED
    BY <2>1, <2>2, <2>3 DEF IInv
<1>5. CASE RRoom
  <2> USE <1>0, <1>5 DEF RRoom
  <2>1. TypeOK'
    BY DEF TypeOK
  <2>2. /\ Numbered' /\ Resting' /\ Dormant' /\ Counters' /\ Loaded'
        /\ Contents' /\ Copied'
    BY DEF Numbered, Resting, Dormant, Quiet, Counters, Loaded, Emptied, Base,
           Contents, Copied, Live, Cleared, Held, Busy, Room
  <2>3. wr < rd + Room
    <3>1. Live /\ wr \in Nat /\ rd \in Nat /\ idx = wr % N /\ idx # hot
      BY DEF Resting, Dormant, Quiet, Writing, TypeOK
    <3>2. CASE Held
      <4>1. wr <= rd + N /\ wr % N # rd % N
        BY <3>1, <3>2 DEF Counters, Room
      <4>2. (rd + N) % N = rd % N
        BY <3>1, WholeTurn
      <4> QED
        BY <3>1, <3>2, <4>1, <4>2 DEF Room
    <3>3. CASE ~Held
      BY <3>1, <3>3 DEF Counters, Room
    <3> QED
      BY <3>2, <3>3
  <2>4. Writing'
    BY <2>3 DEF Writing, Room, Held
  <2>5. AllAccounted'
    BY DEF AllAccounted, Live
  <2> QED
    BY <2>1, <2>2, <2>4, <2>5 DEF IInv
<1>6. CASE RStore
  <2> USE <1>0, <1>6 DEF RStore
  <2>1. TypeOK'
    BY DEF TypeOK
  <2>2. Numbered' /\ Resting' /\ Dormant' /\ Counters' /\ Loaded' /\ Copied'
    BY DEF Numbered, Resting, Dormant, Quiet, Counters, Loaded, Emptied, Base,
           Copied, Live, Cleared, Held, Busy, Room
  <2>3. Writing'
    BY DEF Writing, TypeOK, Room, Held
  <2>4. Contents'
    <3>1. Live /\ wr \in Nat /\ rd \in Nat /\ idx = wr % N /\ wr < rd + N
      BY DEF Resting, Dormant, Quiet, Writing, Room, TypeOK
    <3>2. ASSUME NEW i \in Nat, rd <= i, i < wr
          PROVE  i % N # idx /\ i % N \in Slots
      <4>1. i < wr /\ wr < i + N
        BY <3>1, <3>2
      <4>2. i % N # wr % N
        BY <3>1, <4>1, Apart
      <4> QED
        BY <3>1, <4>2, SlotOf
    <3> QED
      BY <3>1, <3>2 DEF Base, Contents, Live, Emptied, TypeOK
  <2>5. AllAccounted'
    BY DEF AllAccounted, Live
  <2> QED
    BY <2>1, <2>2, <2>3, <2>4, <2>5 DEF IInv
<1>7. CASE RPublish
  <2> USE <1>0, <1>7 DEF RPublish
  <2>1. /\ Live /\ wr \in Nat /\ rd \in Nat /\ arrived \in Packs
        /\ wr <= Len(stored) /\ wr < rd + Room /\ ring[wr % N] = arrived
        /\ sized /\ mpc # "clearVec"
    BY DEF Resting, Dormant, Quiet, Writing, Counters, TypeOK, Packs
  <2>2. /\ stored \in Seq(Nat) /\ stored' \in Seq(Nat) /\ Len(stored) \in Nat
        /\ Len(stored') = Len(stored) + 1 /\ stored'[Len(stored) + 1] = arrived
        /\ \A k \in 1 .. Len(stored) : stored'[k] = stored[k]
    BY <2>1 DEF TypeOK, Packs
  <2>3. TypeOK'
    BY <2>1, <2>2 DEF TypeOK
  <2>4. Numbered'
    BY <2>1, <2>2 DEF Numbered
  <2>5. Resting' /\ Dormant' /\ Writing'
    BY <2>1 DEF Resting, Dormant, Quiet, Live, Writing
  <2>6. Counters'
    <3>1. Held' = Held /\ Room' = Room /\ Busy' = Busy
      BY DEF Held, Room, Busy
    <3>2. wr' <= rd + Room /\ rd <= wr' /\ (Busy => rd < wr')
      <4>1. Room \in Nat
        BY DEF Room
      <4> QED
        BY <2>1, <4>1 DEF Counters
    <3> QED
      BY <2>1, <2>2, <3>1, <3>2 DEF Counters, Live
  <2>7. Base \in Nat /\ Base' = Base /\ Base + wr = Len(stored)
    BY <2>1, <2>2 DEF Base
  <2>8. Contents'
    <3>1. ASSUME NEW i \in Nat, rd <= i, i < wr + 1,
                 ~(i = rd /\ Emptied)
          PROVE  ring[i % N] = stored'[Base + i + 1]
      <4>1. CASE i = wr
        BY <4>1, <2>1, <2>2, <2>7
      <4>2. CASE i < wr
        <5>1. Base + i + 1 \in 1 .. Len(stored)
          BY <2>1, <2>2, <2>7, <4>2
        <5>2. ring[i % N] = stored[Base + i + 1]
          BY <2>1, <3>1, <4>2 DEF Contents
        <5> QED
          BY <5>1, <5>2, <2>2
      <4>3. i = wr \/ i < wr
        BY <3>1, <2>1
      <4> QED
        BY <4>1, <4>2, <4>3
    <3>2. wr' = wr + 1 /\ rd' = rd /\ Emptied' = Emptied /\ ring' = ring
      BY DEF Emptied
    <3> QED
      BY <3>1, <3>2, <2>7, Zenon DEF Contents
  <2>9. Copied'
    <3>1. rd <= wr /\ (Held => rd < wr)
      BY <2>1 DEF Counters, Busy
    <3>2. Len(saved) <= Len(stored) /\ Len(saved) \in Nat
      <4>1. Len(saved) = Base + (IF spc = "save" THEN rd - 1 ELSE rd)
        BY <2>1 DEF Copied
      <4>2. Len(saved) \in Nat
        BY DEF TypeOK
      <4> QED
        BY <2>1, <2>7, <3>1, <4>1, <4>2
    <3>3. /\ spc \in {"pop", "popCompare", "popIndex", "popMark", "reset",
                     "advance", "advanced"}
               => pack = stored'[Base + rd + 1]
          /\ spc = "save" => rd > 0 /\ pack = stored'[Base + rd]
      <4>1. rd < wr => Base + rd + 1 \in 1 .. Len(stored)
        BY <2>1, <2>7
      <4>2. rd > 0 => Base + rd \in 1 .. Len(stored)
        BY <2>1, <2>7, <3>1
      <4> QED
        BY <2>1, <2>2, <3>1, <4>1, <4>2 DEF Copied, Held
    <3>4. \A k \in 1 .. Len(saved) : saved[k] = stored'[k]
      BY <2>1, <2>2, <3>1, <3>2 DEF Copied
    <3> QED
      BY <2>1, <2>7, <3>3, <3>4 DEF Copied, Live
  <2>10. AllAccounted' /\ Loaded'
    BY <2>1, <2>2 DEF AllAccounted, Loaded, Live, TypeOK
  <2> QED
    BY <2>3, <2>4, <2>5, <2>6, <2>8, <2>9, <2>10 DEF IInv
<1> QED
  BY <1>1, <1>2, <1>3, <1>4, <1>5, <1>6, <1>7 DEF Receiver, Store

\* The saver's steps: it takes the front pack only while it holds its slot.
LEMMA SaverInv == ASSUME IInv, Saver PROVE IInv'
<1> USE SizeAssumption DEF shared, receiver, saver, counters
<1>0. TypeOK /\ Numbered /\ Resting /\ Dormant /\ Counters
      /\ Loaded /\ Writing /\ Contents /\ Copied /\ AllAccounted
  BY DEF IInv
<1>1. CASE SFront
  <2> USE <1>0, <1>1 DEF SFront
  <2>1. wr \in Nat
    BY DEF TypeOK
  <2>2. TypeOK'
    BY DEF TypeOK
  <2>3. /\ Numbered' /\ Resting' /\ Dormant' /\ Counters' /\ Loaded'
        /\ Contents' /\ Copied' /\ Writing'
    BY <2>1 DEF Numbered, Resting, Dormant, Quiet, Base, Contents, Writing,
                Counters, Loaded, Copied, Live, Cleared, Held, Busy, Room,
                Emptied
  <2>4. AllAccounted'
    BY DEF AllAccounted, Live
  <2> QED
    BY <2>2, <2>3, <2>4 DEF IInv
<1>2. CASE SCompare
  <2> USE <1>0, <1>2 DEF SCompare
  <2>1. /\ wr \in Nat /\ rd \in Nat /\ seen \in Nat /\ seen <= wr
        /\ ~Live => wr = 0
    BY DEF Dormant, Loaded, TypeOK
  <2>2. spc' \in {"index", "front"} /\ (spc' = "index" => Live /\ rd < wr)
    BY <2>1
  <2>3. TypeOK'
    BY <2>2 DEF TypeOK
  <2>4. /\ Numbered' /\ Resting' /\ Dormant' /\ Counters' /\ Loaded'
        /\ Contents' /\ Copied' /\ Writing'
    BY <2>1, <2>2
       DEF Numbered, Resting, Dormant, Quiet, Base, Contents, Writing,
           Counters, Loaded, Copied, Live, Cleared, Held, Busy, Room, Emptied
  <2>5. AllAccounted'
    BY DEF AllAccounted, Live
  <2> QED
    BY <2>3, <2>4, <2>5 DEF IInv
<1>3. CASE SIndex
  <2> USE <1>0, <1>3 DEF SIndex
  <2>1. Live /\ rd \in Nat /\ rd < wr
    BY DEF Dormant, Counters, Busy, TypeOK
  <2>2. TypeOK'
    BY SlotOf, <2>1 DEF TypeOK
  <2>3. /\ Numbered' /\ Resting' /\ Dormant' /\ Counters' /\ Loaded'
        /\ Contents' /\ Copied' /\ Writing'
    BY <2>1 DEF Numbered, Resting, Dormant, Quiet, Base, Contents, Writing,
                Counters, Loaded, Copied, Live, Held, Busy, Room, Emptied,
                TypeOK
  <2>4. AllAccounted'
    BY DEF AllAccounted, Live
  <2> QED
    BY <2>2, <2>3, <2>4 DEF IInv
<1>4. CASE SMark
  <2> USE <1>0, <1>4 DEF SMark
  <2>1. Live /\ wr \in Nat /\ rd \in Nat /\ rd < wr
    BY DEF Dormant, Counters, Busy, TypeOK
  <2>2. TypeOK'
    BY DEF TypeOK
  <2>3. /\ Numbered' /\ Resting' /\ Dormant' /\ Contents' /\ Copied'
        /\ Loaded'
    BY <2>1 DEF Numbered, Resting, Dormant, Quiet, Base, Contents, Copied,
                Loaded, Live, Emptied
  <2>4. Counters'
    BY <2>1 DEF Counters, Live, Held, Busy, Room
  <2>5. Writing'
    BY DEF Writing, Room, Held, TypeOK
  <2>6. AllAccounted'
    BY DEF AllAccounted, Live
  <2> QED
    BY <2>2, <2>3, <2>4, <2>5, <2>6 DEF IInv
<1>5. CASE SCopy
  <2> USE <1>0, <1>5 DEF SCopy
  <2>1. /\ Live /\ rd \in Nat /\ wr \in Nat /\ rd < wr /\ slot = rd % N
        /\ wr <= Len(stored)
    BY DEF Dormant, Counters, Busy, Held, TypeOK
  <2>2. ring[slot] = stored[Base + rd + 1]
    BY <2>1 DEF Contents, Emptied
  <2>3. pack' = stored[Base + rd + 1] /\ spc' = "pop"
    <3>1. Base + rd + 1 \in 1 .. Len(stored)
      BY <2>1 DEF Base, TypeOK
    <3>2. stored[Base + rd + 1] # NoPack
      BY <3>1 DEF Numbered, Packs, NoPack
    <3> QED
      BY <2>2, <3>2
  <2>4. TypeOK'
    <3>1. ring[slot] \in Nat
      BY DEF TypeOK
    <3> QED
      BY <2>3, <3>1, ZenonT(60) DEF TypeOK
  <2>5. /\ Numbered' /\ Resting' /\ Dormant' /\ Contents' /\ Writing'
        /\ Counters' /\ Loaded'
    BY <2>1, <2>3 DEF Numbered, Resting, Dormant, Quiet, Base, Contents,
                      Writing, Counters, Loaded, Live, Held, Busy, Room,
                      Emptied
  <2>6. Copied'
    BY <2>1, <2>3 DEF Base, Copied, Live
  <2>7. AllAccounted'
    BY DEF AllAccounted, Live
  <2> QED
    BY <2>4, <2>5, <2>6, <2>7 DEF IInv
<1>6. CASE SPop
  <2> USE <1>0, <1>6 DEF SPop
  <2>1. Live /\ rd \in Nat /\ wr \in Nat /\ rd < wr
    BY DEF Dormant, Counters, Busy, Held, TypeOK
  <2>2. TypeOK'
    BY <2>1 DEF TypeOK
  <2>3. /\ Numbered' /\ Resting' /\ Dormant' /\ Counters' /\ Loaded'
        /\ Contents' /\ Copied' /\ Writing'
    BY <2>1 DEF Numbered, Resting, Dormant, Quiet, Base, Contents, Writing,
                Counters, Loaded, Copied, Live, Held, Busy, Room, Emptied,
                TypeOK
  <2>4. AllAccounted'
    BY DEF AllAccounted, Live
  <2> QED
    BY <2>2, <2>3, <2>4 DEF IInv
<1>7. CASE SPopCompare
  <2> USE <1>0, <1>7 DEF SPopCompare
  <2>1. Live /\ rd \in Nat /\ seen \in Nat /\ rd < seen
    BY DEF Dormant, Loaded, TypeOK
  <2>2. spc' = "popIndex"
    BY <2>1
  <2>3. TypeOK'
    BY <2>2 DEF TypeOK
  <2>4. /\ Numbered' /\ Resting' /\ Dormant' /\ Counters' /\ Loaded'
        /\ Contents' /\ Copied' /\ Writing'
    BY <2>1, <2>2
       DEF Numbered, Resting, Dormant, Quiet, Base, Contents, Writing,
           Counters, Loaded, Copied, Live, Held, Busy, Room, Emptied
  <2>5. AllAccounted'
    BY DEF AllAccounted, Live
  <2> QED
    BY <2>3, <2>4, <2>5 DEF IInv
<1>8. CASE SPopIndex
  <2> USE <1>0, <1>8 DEF SPopIndex
  <2>1. Live /\ rd \in Nat
    BY DEF Dormant, TypeOK
  <2>2. TypeOK'
    BY SlotOf, <2>1 DEF TypeOK
  <2>3. /\ Numbered' /\ Resting' /\ Dormant' /\ Counters' /\ Loaded'
        /\ Contents' /\ Copied' /\ Writing'
    BY <2>1 DEF Numbered, Resting, Dormant, Quiet, Base, Contents, Writing,
                Counters, Loaded, Copied, Live, Held, Busy, Room, Emptied,
                TypeOK
  <2>4. AllAccounted'
    BY DEF AllAccounted, Live
  <2> QED
    BY <2>2, <2>3, <2>4 DEF IInv
<1>9. CASE SPopMark
  <2> USE <1>0, <1>9 DEF SPopMark
  <2>1. Live /\ hot = slot
    BY DEF Dormant, Counters, Held
  <2>2. TypeOK'
    BY <2>1 DEF TypeOK
  <2>3. /\ Numbered' /\ Resting' /\ Dormant' /\ Counters' /\ Loaded'
        /\ Contents' /\ Copied' /\ Writing'
    BY <2>1 DEF Numbered, Resting, Dormant, Quiet, Base, Contents, Writing,
                Counters, Loaded, Copied, Live, Held, Busy, Room, Emptied,
                TypeOK
  <2>4. AllAccounted'
    BY DEF AllAccounted, Live
  <2> QED
    BY <2>2, <2>3, <2>4 DEF IInv
<1>10. CASE SReset
  <2> USE <1>0, <1>10 DEF SReset
  <2>1. /\ Live /\ rd \in Nat /\ wr \in Nat /\ rd < wr /\ wr <= rd + N
        /\ slot = rd % N
    BY DEF Dormant, Counters, Busy, Held, Room, TypeOK
  <2>2. ASSUME NEW i \in Nat, rd < i, i < rd + N
        PROVE  ring'[i % N] = ring[i % N]
    BY <2>1, <2>2, Apart, SlotOf DEF TypeOK
  <2>3. TypeOK'
    BY DEF TypeOK, NoPack
  <2>4. /\ Numbered' /\ Resting' /\ Dormant' /\ Counters' /\ Loaded'
        /\ Copied'
    BY <2>1 DEF Numbered, Resting, Dormant, Quiet, Counters, Loaded, Base,
                Copied, Live, Held, Busy, Room
  <2>5. Contents'
    <3>1. ASSUME NEW i \in Nat, rd <= i, i < wr, i # rd
          PROVE  ring'[i % N] = stored[Base + i + 1]
      <4>1. rd < i /\ i < rd + N
        BY <2>1, <3>1
      <4>2. ring'[i % N] = ring[i % N]
        BY <2>2, <4>1, Zenon
      <4>3. ring[i % N] = stored[Base + i + 1]
        BY <2>1, <3>1 DEF Contents, Emptied
      <4> QED
        BY <4>2, <4>3
    <3>2. wr' = wr /\ rd' = rd /\ Emptied' /\ stored' = stored
      BY DEF Emptied
    <3> QED
      BY <3>1, <3>2, Zenon DEF Base, Contents
  <2>6. Writing'
    <3>1. rpc = "publish" => wr < rd + N /\ idx = wr % N
      BY DEF Writing, Room, Held
    <3>2. rpc = "publish" => ring'[idx] = arrived
      BY <2>1, <2>2, <3>1 DEF Writing
    <3> QED
      BY <3>2 DEF Writing, Room, Held
  <2>7. AllAccounted'
    BY DEF AllAccounted, Live
  <2> QED
    BY <2>3, <2>4, <2>5, <2>6, <2>7 DEF IInv
<1>11. CASE SAdvance
  <2> USE <1>0, <1>11 DEF SAdvance
  <2>1. Live /\ rd \in Nat
    BY DEF Dormant, TypeOK
  <2>2. TypeOK'
    BY <2>1 DEF TypeOK
  <2>3. /\ Numbered' /\ Resting' /\ Dormant' /\ Counters' /\ Loaded'
        /\ Contents' /\ Copied' /\ Writing'
    BY <2>1 DEF Numbered, Resting, Dormant, Quiet, Base, Contents, Writing,
                Counters, Loaded, Copied, Live, Held, Busy, Room, Emptied,
                TypeOK
  <2>4. AllAccounted'
    BY DEF AllAccounted, Live
  <2> QED
    BY <2>2, <2>3, <2>4 DEF IInv
<1>12. CASE SAdvanced
  <2> USE <1>0, <1>12 DEF SAdvanced
  <2>1. /\ Live /\ rd \in Nat /\ wr \in Nat /\ rd < wr /\ wr <= rd + N
        /\ hot = rd % N /\ rd' = rd + 1
    BY DEF Dormant, Counters, Loaded, Busy, Held, Room, TypeOK
  <2>2. TypeOK'
    BY <2>1 DEF TypeOK
  <2>3. Numbered' /\ Resting' /\ Dormant' /\ Loaded'
    BY <2>1 DEF Numbered, Resting, Dormant, Quiet, Loaded, Live
  <2>4. Counters'
    <3>1. hot = (rd' + (N - 1)) % N
      BY <2>1, Behind
    <3>2. rd' <= wr /\ wr <= rd' + (N - 1)
      BY <2>1
    <3> QED
      BY <3>1, <3>2 DEF Counters, Live, Held, Busy, Room
  <2>5. Contents'
    <3>1. ASSUME NEW i \in Nat, rd' <= i, i < wr
          PROVE  ring[i % N] = stored[Base + i + 1]
      BY <2>1, <3>1 DEF Contents, Emptied
    <3> QED
      BY <3>1 DEF Base, Contents
  <2>6. Writing'
    <3>1. rpc \in {"store", "publish"} => wr < rd' + (N - 1)
      BY <2>1 DEF Writing, Room, Held
    <3> QED
      BY <3>1 DEF Writing, Room, Held
  <2>7. Copied'
    <3>1. Base \in Nat /\ Base' = Base /\ Base + (rd + 1) = Base + rd + 1
      BY <2>1 DEF Base, TypeOK, Counters
    <3> QED
      BY <2>1, <3>1 DEF Copied, Live
  <2>8. AllAccounted'
    BY DEF AllAccounted, Live
  <2> QED
    BY <2>2, <2>3, <2>4, <2>5, <2>6, <2>7, <2>8 DEF IInv
<1>13. CASE SSave
  <2> USE <1>0, <1>13 DEF SSave
  <2> DEFINE n == Base + rd
  <2>1. /\ Live /\ rd \in Nat /\ rd > 0 /\ pack = stored[n]
        /\ Len(saved) = n - 1 /\ n \in Nat \ {0}
        /\ Base' = Base /\ Base \in Nat
    <3>1. Live /\ rd \in Nat
      BY DEF Dormant, TypeOK
    <3>2. Base \in Nat /\ Base' = Base
      BY <3>1 DEF Counters, Base, TypeOK
    <3>3. rd > 0 /\ pack = stored[n] /\ Len(saved) = Base + (rd - 1)
      BY <3>1 DEF Copied
    <3> QED
      BY <3>1, <3>2, <3>3
  <2>2. /\ saved' \in Seq(Nat) /\ Len(saved') = n /\ saved'[n] = pack
        /\ \A k \in 1 .. n - 1 : saved'[k] = saved[k]
    BY <2>1 DEF TypeOK
  <2>3. TypeOK'
    BY <2>2 DEF TypeOK
  <2>4. /\ Numbered' /\ Resting' /\ Dormant' /\ Contents' /\ Writing'
        /\ Counters' /\ Loaded'
    BY <2>1 DEF Numbered, Resting, Dormant, Quiet, Contents, Writing,
                Counters, Loaded, Live, Held, Busy, Room, Emptied
  <2>5. Copied'
    <3>1. ASSUME NEW k \in 1 .. n PROVE saved'[k] = stored[k]
      <4>1. CASE k = n
        BY <4>1, <2>1, <2>2
      <4>2. CASE k \in 1 .. n - 1
        BY <4>2, <2>1, <2>2 DEF Copied
      <4>3. k = n \/ k \in 1 .. n - 1
        BY <2>1
      <4> QED
        BY <4>1, <4>2, <4>3
    <3>2. /\ wr' = wr /\ rd' = rd /\ stored' = stored /\ spc' = "front"
          /\ Len(saved') = Base + rd
      BY <2>2
    <3> QED
      BY <2>1, <2>2, <3>1, <3>2 DEF Copied
  <2>6. AllAccounted'
    BY DEF AllAccounted, Live
  <2> QED
    BY <2>3, <2>4, <2>5, <2>6 DEF IInv
<1> QED
  BY <1>1, <1>2, <1>3, <1>4, <1>5, <1>6, <1>7, <1>8, <1>9, <1>10, <1>11,
     <1>12, <1>13 DEF Saver

\* Main's steps: the start finds every thread at rest, and data is accepted
\* only when the counters, the hot slot and the vector are in place.
LEMMA MainInv ==
  ASSUME IInv, MClear("idle") \/ MStart \/ (spc # "off" /\ MStop)
  PROVE  IInv'
<1> USE SizeAssumption DEF shared, receiver, saver, counters
<1>0. TypeOK /\ Numbered /\ Resting /\ Dormant /\ Counters
      /\ Loaded /\ Writing /\ Contents /\ Copied /\ AllAccounted
  BY DEF IInv
<1>1. CASE MAccept
  <2> USE <1>0, <1>1 DEF MAccept
  <2>1. /\ ~Live /\ Live' /\ sized /\ wr = 0 /\ rd = 0 /\ hot = N - 1
        /\ rpc = "idle" /\ spc \in {"off", "front", "compare"}
        /\ saved = stored /\ nInput = 0 /\ nOverflow = 0
    BY DEF Dormant, Live, Cleared
  <2>2. TypeOK' /\ Numbered' /\ Writing' /\ AllAccounted'
    BY <2>1 DEF TypeOK, Numbered, Writing, AllAccounted
  <2>3. Resting' /\ Dormant' /\ Contents' /\ Loaded'
    BY <2>1 DEF Resting, Dormant, Live, Contents, Loaded
  <2>4. Copied'
    <3>1. Base' = Len(stored) /\ Len(stored) \in Nat
      BY <2>1 DEF Base, TypeOK
    <3> QED
      BY <2>1, <3>1 DEF Copied
  <2>5. Counters'
    <3>1. /\ wr' = 0 /\ rd' = 0 /\ Len(stored') \in Nat
          /\ hot' = (rd' + (N - 1)) % N
      BY <2>1, Behind DEF TypeOK
    <3>2. ~Held' /\ ~Busy' /\ Room' = N - 1
          /\ spc' \notin {"mark", "copy", "popMark", "reset", "advance",
                         "advanced"}
      BY <2>1 DEF Held, Busy, Room
    <3> QED
      BY <3>1, <3>2 DEF Counters
  <2> QED
    BY <2>2, <2>3, <2>4, <2>5 DEF IInv
<1>2. CASE spc # "off" /\ MStop
  <2> USE <1>0, <1>2 DEF MStop
  <2>1. Live /\ Live' /\ Base' = Base
    BY DEF Live, Base
  <2>2. TypeOK' /\ Numbered'
    BY DEF TypeOK, Numbered
  <2>3. Resting' /\ Dormant'
    BY <2>1 DEF Resting, Dormant, Live
  <2>4. Loaded' /\ Writing' /\ AllAccounted'
    BY <2>1 DEF Loaded, Writing, AllAccounted, Held, Room
  <2>5. Counters' /\ Contents' /\ Copied'
    BY <2>1 DEF Counters, Contents, Copied, Held, Busy, Room, Emptied
  <2> QED
    BY <2>2, <2>3, <2>4, <2>5 DEF IInv
<1>3. CASE MClear("idle") \/ MResize \/ MZeroWrite \/ MZeroRead
           \/ MHotTail \/ MZeroStats
  <2> USE <1>0, <1>3 DEF MClear, MResize, MZeroWrite, MZeroRead,
                         MHotTail, MZeroStats
  <2>1. ~Live /\ ~Live'
    BY DEF Live
  <2>2. TypeOK'
    <3>1. EmptyRing \in [Slots -> Nat] /\ N - 1 \in Slots
      BY DEF EmptyRing, NoPack, Slots
    <3>2. ring' \in [Slots -> Nat] /\ hot' \in Slots /\ sized' \in BOOLEAN
      BY <3>1 DEF TypeOK
    <3>3. wr' \in Nat /\ rd' \in Nat /\ nInput' \in Nat /\ nOverflow' \in Nat
      <4>1. /\ wr' = wr \/ wr' = 0
            /\ rd' = rd \/ rd' = 0
            /\ nInput' = nInput \/ nInput' = 0
            /\ nOverflow' = nOverflow \/ nOverflow' = 0
        BY Zenon
      <4>2. wr \in Nat /\ rd \in Nat /\ nInput \in Nat /\ nOverflow \in Nat
        BY DEF TypeOK
      <4> HIDE <1>0, <1>3 DEF MClear, MResize, MZeroWrite, MZeroRead, MHotTail,
                              MZeroStats
      <4> QED
        BY <4>1, <4>2
    <3>4. mpc' \in {"resize", "zeroWrite", "zeroRead", "hotTail",
                    "zeroStats", "accept"}
      OBVIOUS
    <3>5. UNCHANGED <<accept, receiver, saver>>
      OBVIOUS
    <3> QED
      BY <3>2, <3>3, <3>4, <3>5 DEF TypeOK
  <2>3. Numbered' /\ Counters' /\ Contents' /\ Copied'
    BY <2>1 DEF Numbered, Counters, Contents, Copied
  <2>4. /\ rpc = "idle" /\ rpc' = "idle" /\ saved' = stored'
        /\ spc' = spc /\ seen' = seen
        /\ spc = "off" \/ (wr = 0 /\ wr' = 0 /\ spc \in {"front", "compare"})
    BY <2>1 DEF Dormant
  <2>5. Resting' /\ Dormant'
    BY <2>1, <2>4 DEF Resting, Dormant, Cleared, Live
  <2>6. Loaded' /\ Writing' /\ AllAccounted'
    BY <2>1, <2>4 DEF Loaded, Writing, AllAccounted
  <2> QED
    BY <2>2, <2>3, <2>5, <2>6 DEF IInv
<1> QED
  BY <1>1, <1>2, <1>3 DEF MStart

\* A saver launched before the start finds a write counter of 0, one launched
\* after it a ring in order.
LEMMA LaunchInv ==
  ASSUME IInv, (MLaunch("idle") /\ wr = 0) \/ MLaunch("running")
  PROVE  IInv'
<1> USE DEF MLaunch, shared, receiver, counters
<1>0. TypeOK /\ Numbered /\ Resting /\ Dormant /\ Counters
      /\ Loaded /\ Writing /\ Contents /\ Copied /\ AllAccounted
  BY DEF IInv
<1> USE <1>0
<1>1. spc = "off" /\ spc' = "front" /\ mpc' = mpc /\ mpc \in {"idle", "running"}
  OBVIOUS
<1>2. TypeOK' /\ Numbered'
  BY <1>1 DEF TypeOK, Numbered
<1>3. Resting' /\ Dormant'
  BY <1>1 DEF Resting, Dormant, Live, Cleared
<1>4. Counters' /\ Loaded' /\ Writing'
  BY <1>1 DEF Counters, Loaded, Writing, Held, Busy, Room, Live
<1>5. Contents' /\ Copied' /\ AllAccounted'
  BY <1>1 DEF Contents, Copied, AllAccounted, Base, Emptied, Live
<1> QED
  BY <1>2, <1>3, <1>4, <1>5 DEF IInv

\* A saver that is ended leaves a ring at rest.
LEMMA JoinInv == ASSUME IInv, MJoin PROVE IInv'
<1> USE DEF MJoin, shared, receiver, counters
<1>0. TypeOK /\ Numbered /\ Resting /\ Dormant /\ Counters
      /\ Loaded /\ Writing /\ Contents /\ Copied /\ AllAccounted
  BY DEF IInv
<1> USE <1>0
<1>1. /\ spc = "front" /\ spc' = "off" /\ mpc' = mpc /\ mpc = "stopped"
      /\ Quiet'
  BY DEF Quiet
<1>2. TypeOK' /\ Numbered'
  BY <1>1 DEF TypeOK, Numbered
<1>3. Resting' /\ Dormant'
  BY <1>1 DEF Resting, Dormant, Live
<1>4. Counters' /\ Loaded' /\ Writing'
  BY <1>1 DEF Counters, Loaded, Writing, Held, Busy, Room, Live
<1>5. Contents' /\ Copied' /\ AllAccounted'
  BY <1>1 DEF Contents, Copied, AllAccounted, Base, Emptied, Live
<1> QED
  BY <1>2, <1>3, <1>4, <1>5 DEF IInv

\* In a quiet ring every pack has been taken and is in the file.
LEMMA AllTaken ==
  ASSUME IInv, Live, Quiet
  PROVE  wr = rd /\ saved = stored
<1>1. /\ wr \in Nat /\ rd \in Nat /\ wr = rd /\ spc = "off"
      /\ stored \in Seq(Nat) /\ saved \in Seq(Nat)
  BY DEF IInv, Counters, Quiet, TypeOK
<1>2. /\ Len(saved) = Len(stored)
      /\ \A k \in 1 .. Len(saved) : saved[k] = stored[k]
  BY <1>1 DEF IInv, Copied, Base
<1> QED
  BY <1>1, <1>2, SeqEqual

\* A caller that has ended its saver finds the threads as they were before
\* the first start.
LEMMA AgainInv == ASSUME IInv, Again PROVE IInv'
<1> USE SizeAssumption DEF shared, receiver, saver, counters
<1>0. TypeOK /\ Numbered /\ Resting /\ Dormant /\ Counters
      /\ Loaded /\ Writing /\ Contents /\ Copied /\ AllAccounted
  BY DEF IInv
<1>1. CASE MClear("idle")
  BY <1>1, MainInv
<1>2. CASE MClear("stopped")
  <2> USE <1>0, <1>2 DEF MClear
  <2>1. Quiet /\ Live /\ ~Live'
    BY DEF Again, Resting, Live
  <2>2. wr = rd /\ saved = stored
    BY <2>1, AllTaken
  <2>3. TypeOK' /\ Numbered' /\ Loaded' /\ Writing' /\ AllAccounted'
    BY <2>1 DEF TypeOK, Numbered, Loaded, Writing, AllAccounted, Quiet
  <2>4. Resting' /\ Dormant'
    BY <2>1, <2>2 DEF Resting, Dormant, Quiet, Cleared
  <2>5. Counters' /\ Contents' /\ Copied'
    BY <2>1 DEF Counters, Contents, Copied
  <2> QED
    BY <2>3, <2>4, <2>5 DEF IInv
<1>3. CASE MClearCount \/ MClearVec
  <2> USE <1>0, <1>3 DEF MClearCount, MClearVec
  <2>1. Quiet /\ Live /\ Live'
    BY DEF Again, Resting, Live
  <2>2. wr = rd /\ wr' = wr /\ rd' = rd /\ Base' = Base
    BY <2>1, AllTaken DEF Base
  <2>3. TypeOK' /\ Numbered' /\ Loaded' /\ Writing' /\ AllAccounted'
    BY <2>1, <2>2 DEF TypeOK, Numbered, Loaded, Writing, AllAccounted, Quiet
  <2>4. Resting' /\ Dormant'
    BY <2>1, <2>2 DEF Resting, Dormant, Quiet
  <2>5. Counters' /\ Contents' /\ Copied'
    BY <2>1, <2>2 DEF Counters, Contents, Copied, Held, Busy, Room, Emptied
  <2> QED
    BY <2>3, <2>4, <2>5 DEF IInv
<1> QED
  BY <1>1, <1>2, <1>3 DEF Again

\* No step at all keeps what it says of the present state.
LEMMA StutterInv == ASSUME IInv, UNCHANGED vars PROVE IInv'
  BY DEF vars, shared, receiver, saver, counters, IInv, TypeOK, Numbered,
         Resting, Dormant, Quiet, Counters, Loaded, Writing, Base, Contents,
         Copied, AllAccounted, Live, Cleared, Held, Busy, Room, Emptied

\* A careful caller's runs keep the invariant, whatever the counters of a new
\* daqb.
LEMMA CarefulInv == CarefulSpec => []IInv
<1>1. Init => IInv
  BY InitInv
<1>2. IInv /\ [CarefulNext]_vars => IInv'
  BY ReceiverInv, SaverInv, MainInv, LaunchInv, JoinInv, AgainInv, StutterInv
     DEF CarefulNext
<1> QED
  BY <1>1, <1>2, PTL DEF CarefulSpec

\* The client's run keeps it when the write counter was 0.
LEMMA RunInv == Benign /\ RunSpec => [](IInv /\ FirstRun)
<1>1. Benign /\ Init => IInv /\ FirstRun
  BY InitInv, CountsAssumption DEF Init, Benign, FirstRun
<1>2. IInv /\ FirstRun /\ [RunNext]_vars => (IInv /\ FirstRun)'
  <2> SUFFICES ASSUME IInv, FirstRun, [RunNext]_vars
               PROVE  IInv' /\ FirstRun'
    OBVIOUS
  <2>1. MLaunch("idle") => wr = 0
    BY DEF MLaunch, FirstRun
  <2>2. MStop => spc # "off"
    BY DEF MStop, FirstRun
  <2>3. IInv'
    BY <2>1, <2>2, ReceiverInv, SaverInv, MainInv, LaunchInv, StutterInv
       DEF RunNext
  <2>4. FirstRun'
    <3> USE DEF FirstRun, shared, receiver, saver, counters
    <3>1. CASE UNCHANGED vars
      BY <3>1 DEF vars
    <3>2. CASE Receiver
      <4>1. rpc = "idle" \/ Live
        BY DEF IInv, Dormant
      <4> QED
        BY <4>1, <3>2 DEF Receiver, Store, RGate, RCount, RIndex, ROverflow,
                          RRoom, RStore, RPublish, Live
    <3>3. CASE Saver
      BY <3>3 DEF Saver, SFront, SCompare, SIndex, SMark, SCopy, SPop,
                  SPopCompare, SPopIndex, SPopMark, SReset, SAdvance,
                  SAdvanced, SSave
    <3>4. CASE MLaunch("idle")
      BY <3>4 DEF MLaunch
    <3>5. CASE spc # "off" /\ MClear("idle")
      BY <3>5 DEF MClear
    <3>6. CASE MStart \/ MStop
      BY <3>6 DEF MStart, MResize, MZeroWrite, MZeroRead, MHotTail,
                  MZeroStats, MAccept, MStop
    <3> QED
      BY <3>1, <3>2, <3>3, <3>4, <3>5, <3>6 DEF RunNext
  <2> QED
    BY <2>3, <2>4
<1> QED
  BY <1>1, <1>2, PTL DEF RunSpec

\* The invariant holds in every state of either.
THEOREM Invariance == InOrder => []IInv
<1>1. CarefulSpec => []IInv
  BY CarefulInv
<1>2. Benign /\ RunSpec => []IInv
  BY RunInv, PTL
<1> QED
  BY <1>1, <1>2 DEF InOrder
----------------------------------------------------------------------------
(* What the invariant says of the code.                                    *)

\* No step of the client's run lets a thread leave the vector: a saver that
\* has loaded the old write counter compares it with the old read counter, or
\* with 0, and then the vector has its slots.
LEMMA FirstBoundsKept ==
  ASSUME FirstBounds, [RunNext]_vars
  PROVE  FirstBounds'
<1> USE DEF FirstBounds, shared, receiver, saver, counters
<1>1. CASE UNCHANGED vars
  BY <1>1 DEF vars
<1>2. CASE Receiver
  BY <1>2 DEF Receiver, Store, RGate, RCount, RIndex, ROverflow, RRoom,
              RStore, RPublish
<1>3. CASE SFront \/ SCompare
  BY <1>3 DEF SFront, SCompare
<1>4. CASE SIndex \/ SMark \/ SCopy \/ SPop \/ SPopCompare \/ SPopIndex
           \/ SPopMark \/ SReset \/ SAdvance \/ SAdvanced \/ SSave
  BY <1>4 DEF SIndex, SMark, SCopy, SPop, SPopCompare, SPopIndex, SPopMark,
              SReset, SAdvance, SAdvanced, SSave
<1>5. CASE MLaunch("idle") \/ MClear("idle")
  BY <1>5 DEF MLaunch, MClear
<1>6. CASE MStart \/ MStop
  BY <1>6 DEF MStart, MResize, MZeroWrite, MZeroRead, MHotTail, MZeroStats,
              MAccept, MStop
<1> QED
  BY <1>1, <1>2, <1>3, <1>4, <1>5, <1>6 DEF RunNext, Saver

\* Every variable stays in its type.
THEOREM TypeCorrect == InOrder => []TypeOK
<1>1. IInv => TypeOK
  BY DEF IInv
<1> QED
  BY <1>1, Invariance, PTL

\* The hot slot does what its comment says (daqb.cc:154, 166): the receiver
\* never stores into the slot the saver copies or resets.
THEOREM NoOverlap == InOrder => []NoWriteOverlapping
<1>1. IInv => NoWriteOverlapping
  <2> SUFFICES ASSUME IInv, rpc = "store", spc \in {"copy", "reset"},
                      idx = slot
               PROVE  FALSE
    BY DEF NoWriteOverlapping
  <2>1. /\ Live /\ rd \in Nat /\ wr \in Nat /\ rd < wr /\ wr < rd + N
        /\ slot = rd % N /\ idx = wr % N
    BY DEF IInv, Resting, Dormant, Quiet, Counters, Writing, TypeOK, Held,
           Busy, Room
  <2> QED
    BY <2>1, Apart
<1> QED
  BY <1>1, Invariance, PTL

\* No thread indexes the vector while it has no slots: in a careful caller's
\* runs always, in the client's when the ring did not look filled at first.
THEOREM IndexInBounds == CarefulSpec \/ (Unfilled /\ RunSpec) => []InBounds
<1>1. CarefulSpec => []InBounds
  <2>1. IInv => InBounds
    BY DEF IInv, Resting, Dormant, Quiet, InBounds
  <2> QED
    BY <2>1, CarefulInv, PTL
<1>2. Unfilled /\ RunSpec => []InBounds
  <2>1. Unfilled /\ Init => FirstBounds
    BY CountsAssumption DEF Unfilled, Init, FirstBounds
  <2>2. FirstBounds /\ [RunNext]_vars => FirstBounds'
    BY FirstBoundsKept
  <2>3. FirstBounds => InBounds
    BY DEF FirstBounds, InBounds
  <2> QED
    BY <2>1, <2>2, <2>3, PTL DEF RunSpec
<1> QED
  BY <1>1, <1>2

\* Every message let in is published, counted as lost, or being handled.
THEOREM Accounting == InOrder => []InputAccounted
<1>1. IInv => InputAccounted
  BY DEF IInv, AllAccounted, InputAccounted, Live
<1> QED
  BY <1>1, Invariance, PTL

\* The file holds the published packs, each once and in order.
THEOREM FileInOrder == InOrder => []SavedInOrder
<1>1. IInv => SavedInOrder
  <2> SUFFICES ASSUME IInv PROVE SavedInOrder
    OBVIOUS
  <2>1. CASE ~Live
    BY <2>1 DEF IInv, TypeOK, Dormant, SavedInOrder
  <2>2. CASE Live
    <3>1. /\ Len(saved) = Base + (IF spc = "save" THEN rd - 1 ELSE rd)
          /\ \A k \in 1 .. Len(saved) : saved[k] = stored[k]
      BY <2>2 DEF IInv, Copied
    <3>2. /\ rd \in Nat /\ wr \in Nat /\ rd <= wr
          /\ Base + wr = Len(stored) /\ Base \in Nat
      BY <2>2 DEF IInv, TypeOK, Counters, Base
    <3> QED
      BY <3>1, <3>2 DEF SavedInOrder
  <2> QED
    BY <2>1, <2>2
<1> QED
  BY <1>1, Invariance, PTL
----------------------------------------------------------------------------
(* The ring implements the bounded queue.                                  *)

FifoSafe == Fifo!Init /\ [][Fifo!Next]_(Fifo!vars)

\* The packs taken in all runs together.
Taken == Base + rd

\* The queue's length and its packs, in a run.
QueueShape ==
  Live => /\ AbsQueue \in Seq(Nat) /\ Len(AbsQueue) = wr - rd
          /\ \A i \in 1 .. wr - rd : AbsQueue[i] = stored[Taken + i]

LEMMA QueueIs == IInv => QueueShape
<1> SUFFICES ASSUME IInv, Live
             PROVE  /\ AbsQueue \in Seq(Nat) /\ Len(AbsQueue) = wr - rd
                    /\ \A i \in 1 .. wr - rd : AbsQueue[i] = stored[Taken + i]
  BY DEF QueueShape
<1>1. /\ rd \in Nat /\ wr \in Nat /\ rd <= wr /\ Len(stored) = Base + wr
      /\ Base \in Nat /\ Taken = Base + rd /\ stored \in Seq(Nat)
  BY DEF IInv, Counters, Base, Taken, TypeOK
<1>2. ASSUME NEW i \in 1 .. wr - rd
      PROVE  (IF i = 1 /\ Emptied THEN pack
              ELSE ring[(rd + i - 1) % N]) = stored[Taken + i]
  <2>1. CASE i = 1 /\ Emptied
    <3>1. pack = stored[Taken + 1]
      BY <2>1 DEF IInv, Copied, Taken, Emptied
    <3> QED
      BY <3>1, <2>1
  <2>2. CASE ~(i = 1 /\ Emptied)
    <3> DEFINE j == rd + i - 1
    <3>1. j \in Nat /\ rd <= j /\ j < wr /\ ~(j = rd /\ Emptied)
          /\ Base + j + 1 = Taken + i
      BY <1>1, <2>2
    <3> QED
      BY <3>1, <2>2 DEF IInv, Contents
  <2> QED
    BY <2>1, <2>2
<1>3. AbsQueue = [i \in 1 .. wr - rd |-> stored[Taken + i]]
  <2>1. (IF Zeroed /\ wr > rd THEN wr - rd ELSE 0) = wr - rd
    BY <1>1 DEF Zeroed, Live
  <2> QED
    BY <2>1, <1>2, Zenon DEF AbsQueue, Emptied
<1>4. \A i \in 1 .. wr - rd : stored[Taken + i] \in Nat
  BY <1>1
<1> QED
  BY <1>1, <1>3, <1>4

\* A queue without packs.
LEMMA EmptyQueue == ~(Zeroed /\ wr > rd) => AbsQueue = << >>
  BY DEF AbsQueue

\* A step from an empty queue to an empty queue.
LEMMA StaysEmpty ==
  ~(Zeroed /\ wr > rd) /\ ~(Zeroed /\ wr > rd)' => AbsQueue' = AbsQueue
  BY DEF AbsQueue

\* Between runs the queue is empty.
EmptyShape == ~Live => AbsQueue = << >> /\ AbsOut = saved

LEMMA QueueEmpty == IInv => EmptyShape
<1> SUFFICES ASSUME IInv, ~Live PROVE AbsQueue = << >> /\ AbsOut = saved
  BY DEF EmptyShape
<1>1. ~(Zeroed /\ wr > rd) /\ spc # "save"
  BY DEF IInv, Dormant, Live, Zeroed, TypeOK
<1> QED
  BY <1>1, EmptyQueue DEF AbsOut

LEMMA QueueIsNext == IInv' => QueueShape'
  BY QueueIs, PTL

LEMMA QueueEmptyNext == IInv' => EmptyShape'
  BY QueueEmpty, PTL

\* A step that leaves the counters and the published packs alone leaves the
\* queue alone, whatever it does to the ring.
LEMMA Stutter ==
  ASSUME IInv, IInv', Live, Live', UNCHANGED <<wr, rd, stored>>
  PROVE  AbsQueue' = AbsQueue
<1>1. /\ AbsQueue \in Seq(Nat) /\ Len(AbsQueue) = wr - rd
      /\ \A i \in 1 .. wr - rd : AbsQueue[i] = stored[Taken + i]
  BY QueueIs DEF QueueShape
<1>2. /\ AbsQueue' \in Seq(Nat) /\ Len(AbsQueue') = wr - rd
      /\ \A i \in 1 .. wr - rd : AbsQueue'[i] = stored[Taken + i]
  <2>1. /\ AbsQueue' \in Seq(Nat) /\ Len(AbsQueue') = wr' - rd'
        /\ \A i \in 1 .. wr' - rd' : AbsQueue'[i] = stored'[Taken' + i]
    BY QueueIsNext, Zenon DEF QueueShape
  <2>2. Taken' = Taken
    BY DEF Taken, Base
  <2> QED
    BY <2>1, <2>2
<1> QED
  BY <1>1, <1>2, SeqEqual

\* A sequence with an element more.
LEMMA Appended ==
  ASSUME NEW s \in Seq(Nat), NEW e \in Nat
  PROVE  /\ Append(s, e) \in Seq(Nat)
         /\ Len(Append(s, e)) = Len(s) + 1
         /\ Append(s, e)[Len(s) + 1] = e
         /\ \A i \in 1 .. Len(s) : Append(s, e)[i] = s[i]
  BY AppendProperties

\* Publishing a pack is the queue's Put.
LEMMA PublishPuts ==
  ASSUME IInv, IInv', RPublish
  PROVE  Fifo!Put
<1>1. /\ Live /\ Live' /\ wr \in Nat /\ rd \in Nat /\ rd <= wr /\ wr < rd + N
      /\ arrived \in Packs /\ Taken \in Nat /\ Len(stored) = Taken + (wr - rd)
      /\ stored \in Seq(Nat)
  <2>1. rpc = "publish" /\ mpc' = mpc
    BY DEF RPublish
  <2>2. /\ wr \in Nat /\ rd \in Nat
        /\ stored \in Seq(Nat) /\ Len(stored) \in Nat
    BY DEF IInv, TypeOK
  <2>3. Live /\ Live'
    BY <2>1 DEF IInv, Dormant, Quiet, Live
  <2>4. rd <= wr /\ wr <= Len(stored)
    BY <2>3 DEF IInv, Counters
  <2>5. arrived \in Packs /\ wr < rd + Room
    BY <2>1 DEF IInv, Writing, Packs
  <2>6. N \in Nat /\ Room \in {N, N - 1}
    BY SizeAssumption DEF Room
  <2>7. wr < rd + N
    BY <2>2, <2>5, <2>6
  <2>8. Taken \in Nat /\ Len(stored) = Taken + (wr - rd)
    BY <2>2, <2>4 DEF Taken, Base
  <2> QED
    BY <2>2, <2>3, <2>4, <2>5, <2>7, <2>8
<1>2. /\ wr' = wr + 1 /\ rd' = rd /\ stored' = Append(stored, arrived)
      /\ UNCHANGED <<AbsOut, nOverflow>>
  BY DEF RPublish, counters, receiver, saver, AbsOut
<1>0. Taken' = Taken
  <2>1. arrived \in Nat
    BY <1>1 DEF Packs
  <2>2. Len(Append(stored, arrived)) = Len(stored) + 1
    BY <1>1, <2>1, AppendProperties
  <2>3. Len(stored') = Len(stored) + 1
    BY <1>2, <2>2
  <2> QED
    BY <1>1, <1>2, <2>3 DEF Taken, Base
<1>3. /\ AbsQueue \in Seq(Nat) /\ Len(AbsQueue) = wr - rd
      /\ \A i \in 1 .. wr - rd : AbsQueue[i] = stored[Taken + i]
  BY <1>1, QueueIs DEF QueueShape
<1>4. /\ AbsQueue' \in Seq(Nat) /\ Len(AbsQueue') = wr + 1 - rd
      /\ \A i \in 1 .. wr + 1 - rd : AbsQueue'[i] = stored'[Taken + i]
  <2>1. /\ AbsQueue' \in Seq(Nat) /\ Len(AbsQueue') = wr' - rd'
        /\ \A i \in 1 .. wr' - rd' : AbsQueue'[i] = stored'[Taken' + i]
    BY <1>1, QueueIsNext, Zenon DEF QueueShape
  <2>2. wr' = wr + 1 /\ rd' = rd /\ wr \in Nat /\ rd \in Nat
    BY <1>1, <1>2
  <2>3. Len(AbsQueue') = wr + 1 - rd
    BY <2>1, <2>2
  <2>4. ASSUME NEW i \in 1 .. wr + 1 - rd
        PROVE  AbsQueue'[i] = stored'[Taken + i]
    <3>1. i \in 1 .. wr' - rd'
      BY <2>2
    <3>2. AbsQueue'[i] = stored'[Taken' + i]
      BY <2>1, <3>1
    <3> QED
      BY <1>0, <3>2
  <2> QED
    BY <2>1, <2>3, <2>4
<1>5. AbsQueue' = Append(AbsQueue, arrived)
  <2>1. arrived \in Nat
    BY <1>1 DEF Packs
  <2>2. /\ Append(AbsQueue, arrived) \in Seq(Nat)
        /\ Len(Append(AbsQueue, arrived)) = wr + 1 - rd
        /\ Append(AbsQueue, arrived)[wr + 1 - rd] = arrived
        /\ \A i \in 1 .. wr - rd : Append(AbsQueue, arrived)[i] = AbsQueue[i]
    <3>1. /\ Append(AbsQueue, arrived) \in Seq(Nat)
          /\ Len(Append(AbsQueue, arrived)) = Len(AbsQueue) + 1
          /\ Append(AbsQueue, arrived)[Len(AbsQueue) + 1] = arrived
          /\ \A i \in 1 .. Len(AbsQueue) :
               Append(AbsQueue, arrived)[i] = AbsQueue[i]
      BY <1>3, <2>1, Appended, Zenon
    <3>2. Len(AbsQueue) + 1 = wr + 1 - rd
      BY <1>1, <1>3
    <3> QED
      BY <1>3, <3>1, <3>2
  <2>3. /\ stored'[Len(stored) + 1] = arrived
        /\ \A k \in 1 .. Len(stored) : stored'[k] = stored[k]
    BY <1>1, <1>2, <2>1, Appended, Zenon
  <2>4. ASSUME NEW i \in 1 .. wr + 1 - rd
        PROVE  AbsQueue'[i] = Append(AbsQueue, arrived)[i]
    <3>1. CASE i = wr + 1 - rd
      <4>1. Taken + i = Len(stored) + 1
        BY <1>1, <3>1
      <4> QED
        BY <4>1, <1>4, <2>2, <2>3, <3>1
    <3>2. CASE i \in 1 .. wr - rd
      <4>1. Taken + i \in 1 .. Len(stored)
        BY <1>1, <3>2
      <4> QED
        BY <4>1, <1>3, <1>4, <2>2, <2>3, <3>2
    <3>3. i = wr + 1 - rd \/ i \in 1 .. wr - rd
      BY <1>1
    <3> QED
      BY <3>1, <3>2, <3>3
  <2> QED
    BY <1>4, <2>2, <2>4, SeqEqual
<1> QED
  BY <1>1, <1>2, <1>3, <1>5, SizeAssumption DEF Fifo!Put

\* A pack is given up only when at least N - 1 packs wait.
LEMMA OverflowDrops ==
  ASSUME IInv, IInv', ROverflow
  PROVE  Fifo!Drop
<1>1. /\ Live /\ Live' /\ wr \in Nat /\ rd \in Nat /\ rd <= wr
      /\ wr <= rd + Room /\ (Held => rd < wr)
      /\ wr % N = IF Held THEN rd % N ELSE (rd + (N - 1)) % N
  BY DEF IInv, Dormant, Quiet, Counters, Writing, TypeOK, Busy,
         ROverflow, Live
<1>2. wr - rd >= N - 1
  <2>1. CASE Held
    <3>1. ~(wr < rd + N)
      BY <1>1, <2>1, Apart
    <3> QED
      BY <3>1, <1>1, SizeAssumption
  <2>2. CASE ~Held
    <3> DEFINE cap == rd + (N - 1)
    <3>1. cap \in Nat /\ wr <= cap /\ cap < wr + N
      BY <1>1, <2>2, SizeAssumption DEF Room
    <3>2. ~(wr < cap)
      BY <3>1, <1>1, <2>2, Apart
    <3> QED
      BY <3>1, <3>2, <1>1, SizeAssumption
  <2> QED
    BY <2>1, <2>2
<1>3. Len(AbsQueue) = wr - rd
  BY <1>1, QueueIs DEF QueueShape
<1>4. AbsQueue' = AbsQueue
  BY <1>1, Stutter DEF ROverflow, counters, receiver
<1> QED
  BY <1>2, <1>3, <1>4 DEF Fifo!Drop, ROverflow, AbsOut, saver

\* Storing the read counter is the queue's Take.
LEMMA AdvanceTakes ==
  ASSUME IInv, IInv', SAdvanced
  PROVE  Fifo!Take
<1>1. /\ Live /\ Live' /\ wr \in Nat /\ rd \in Nat /\ rd < wr
      /\ pack = stored[Taken + 1] /\ Taken \in Nat
      /\ Len(stored) = Taken + (wr - rd) /\ stored \in Seq(Nat)
  BY DEF IInv, Dormant, Counters, Copied, TypeOK, Busy, Held, SAdvanced,
         Live, Taken, Base
<1>2. /\ wr' = wr /\ rd' = rd + 1 /\ stored' = stored
      /\ spc = "advanced" /\ spc' = "save"
      /\ UNCHANGED <<saved, pack, nOverflow>>
  BY DEF IInv, Loaded, SAdvanced, counters, receiver
<1>0. Taken' = Taken + 1
  BY <1>1, <1>2 DEF Taken, Base, IInv, TypeOK
<1>3. /\ AbsQueue \in Seq(Nat) /\ Len(AbsQueue) = wr - rd
      /\ \A i \in 1 .. wr - rd : AbsQueue[i] = stored[Taken + i]
  BY <1>1, QueueIs DEF QueueShape
<1>4. /\ AbsQueue' \in Seq(Nat) /\ Len(AbsQueue') = wr - (rd + 1)
      /\ \A i \in 1 .. wr - (rd + 1) : AbsQueue'[i] = stored[(Taken + 1) + i]
  <2>1. /\ AbsQueue' \in Seq(Nat) /\ Len(AbsQueue') = wr' - rd'
        /\ \A i \in 1 .. wr' - rd' : AbsQueue'[i] = stored'[Taken' + i]
    BY <1>1, QueueIsNext, Zenon DEF QueueShape
  <2>2. /\ wr' = wr /\ rd' = rd + 1 /\ Taken' = Taken + 1 /\ stored' = stored
        /\ wr \in Nat /\ rd \in Nat
    BY <1>0, <1>1, <1>2
  <2>3. Len(AbsQueue') = wr - (rd + 1)
    BY <2>1, <2>2
  <2>4. ASSUME NEW i \in 1 .. wr - (rd + 1)
        PROVE  AbsQueue'[i] = stored[(Taken + 1) + i]
    <3>1. i \in 1 .. wr' - rd'
      BY <2>2
    <3>2. AbsQueue'[i] = stored'[Taken' + i]
      BY <2>1, <3>1
    <3> QED
      BY <2>2, <3>2
  <2> QED
    BY <2>1, <2>3, <2>4
<1>5. Head(AbsQueue) = pack /\ AbsQueue # << >>
  <2>1. 1 \in 1 .. wr - rd
    BY <1>1
  <2>2. AbsQueue[1] = pack
    BY <1>1, <1>3, <2>1
  <2> QED
    BY <1>3, <2>1, <2>2
<1>6. AbsQueue' = Tail(AbsQueue)
  <2>1. /\ Tail(AbsQueue) \in Seq(Nat) /\ Len(Tail(AbsQueue)) = wr - rd - 1
        /\ \A i \in 1 .. wr - rd - 1 : Tail(AbsQueue)[i] = AbsQueue[i + 1]
    BY <1>1, <1>3, <1>5, HeadTailProperties
  <2>2. \A i \in 1 .. wr - rd - 1 : AbsQueue'[i] = Tail(AbsQueue)[i]
    <3>1. ASSUME NEW i \in 1 .. wr - rd - 1
          PROVE  AbsQueue'[i] = Tail(AbsQueue)[i]
      <4>1. i + 1 \in 1 .. wr - rd /\ Taken + (i + 1) = (Taken + 1) + i
            /\ i \in 1 .. wr - (rd + 1)
        BY <1>1
      <4> QED
        BY <2>1, <1>3, <1>4, <4>1
    <3> QED
      BY <3>1
  <2>3. wr - (rd + 1) = wr - rd - 1
    BY <1>1
  <2> QED
    BY <1>4, <2>1, <2>2, <2>3, SeqEqual
<1>7. AbsOut' = Append(AbsOut, pack)
  BY <1>2 DEF AbsOut
<1> QED
  BY <1>2, <1>5, <1>6, <1>7 DEF Fifo!Take

\* A step of the ring is a step of the bounded queue, or none of it.
LEMMA StepImplements ==
  ASSUME IInv, IInv', [CarefulNext \/ RunNext]_vars
  PROVE  Fifo!Next \/ UNCHANGED <<AbsQueue, AbsOut, nOverflow>>
<1>1. CASE RPublish \/ ROverflow \/ SAdvanced
  BY <1>1, PublishPuts, OverflowDrops, AdvanceTakes DEF Fifo!Next
<1>2. CASE UNCHANGED vars
  BY <1>2 DEF vars, shared, receiver, saver, AbsQueue, AbsOut, Zeroed
<1>3. CASE RGate \/ RCount \/ RIndex \/ RRoom \/ RStore
  <2>1. UNCHANGED <<wr, rd, stored, saved, AbsOut, nOverflow, mpc>>
    BY <1>3 DEF RGate, RCount, RIndex, RRoom, RStore, shared, saver,
                counters, AbsOut
  <2>2. CASE Live
    BY <2>1, <2>2, Stutter DEF Live
  <2>3. CASE ~Live
    BY <2>1, <2>3, QueueEmpty, QueueEmptyNext DEF Live, EmptyShape
  <2> QED
    BY <2>2, <2>3
<1>4. CASE SFront \/ SCompare \/ MLaunch("idle") \/ MLaunch("running") \/ MJoin
  <2>1. UNCHANGED <<wr, rd, stored, saved, AbsOut, nOverflow, mpc>>
    BY <1>4 DEF SFront, SCompare, MLaunch, MJoin, shared, receiver, counters,
                AbsOut
  <2>2. CASE Live
    BY <2>1, <2>2, Stutter DEF Live
  <2>3. CASE ~Live
    BY <2>1, <2>3, QueueEmpty, QueueEmptyNext DEF Live, EmptyShape
  <2> QED
    BY <2>2, <2>3
<1>5. CASE SIndex \/ SMark \/ SCopy \/ SPop \/ SPopCompare \/ SPopIndex
           \/ SPopMark \/ SReset \/ SAdvance
  <2>1. /\ UNCHANGED <<wr, rd, stored, saved, nOverflow, mpc>>
        /\ spc \in {"index", "mark", "copy", "pop", "popCompare", "popIndex",
                    "popMark", "reset", "advance"}
    BY <1>5 DEF SIndex, SMark, SCopy, SPop, SPopCompare, SPopIndex, SPopMark,
                SReset, SAdvance, shared, receiver, counters
  <2>2. Live
    BY <2>1 DEF IInv, Dormant
  <2>3. spc = "popCompare" => seen > rd
    BY DEF IInv, Loaded, TypeOK
  <2>4. spc' # "save"
    BY <2>3, <1>5 DEF SIndex, SMark, SCopy, SPop, SPopCompare, SPopIndex,
                      SPopMark, SReset, SAdvance
  <2> QED
    BY <2>1, <2>2, <2>4, Stutter DEF AbsOut, Live
<1>6. CASE SSave
  <2>1. Live /\ UNCHANGED <<wr, rd, stored, nOverflow, mpc, AbsOut>>
    BY <1>6 DEF SSave, IInv, Dormant, shared, receiver, AbsOut
  <2> QED
    BY <2>1, Stutter DEF Live
<1>7. CASE MClear("idle") \/ MResize \/ MZeroWrite \/ MZeroRead \/ MHotTail
  <2>1. ~Live /\ ~Live' /\ UNCHANGED <<saved, nOverflow>>
    BY <1>7 DEF Live, MClear, MResize, MZeroWrite, MZeroRead, MHotTail,
                counters, saver
  <2> QED
    BY <2>1, QueueEmpty, QueueEmptyNext DEF EmptyShape
<1>8. CASE MZeroStats
  <2>1. ~Live /\ ~Live' /\ saved' = saved /\ nOverflow' = 0
    BY <1>8 DEF Live, MZeroStats, saver
  <2> QED
    BY <2>1, QueueEmpty, QueueEmptyNext
       DEF EmptyShape, Fifo!Next, Fifo!Restart
<1>9. CASE MAccept
  <2>1. /\ ~Live /\ mpc = "accept"
        /\ UNCHANGED <<wr, rd, spc, saved, pack, nOverflow>>
    BY <1>9 DEF Live, MAccept, counters, saver
  <2>2. wr = 0 /\ rd = 0
    BY <2>1 DEF IInv, Dormant
  <2> QED
    BY <2>1, <2>2, StaysEmpty DEF AbsOut
<1>10. CASE MStop
  <2>1. Live /\ Live' /\ UNCHANGED <<wr, rd, stored, nOverflow, AbsOut>>
    BY <1>10 DEF Live, MStop, counters, receiver, saver, AbsOut
  <2> QED
    BY <2>1, Stutter
<1>11. CASE Again
  <2>1. UNCHANGED <<rd, stored, saved, nOverflow, spc, pack>> /\ spc = "off"
    BY <1>11 DEF Again, MClear, MClearCount, MClearVec, counters, receiver,
                 saver
  <2>2. CASE MClear("idle")
    BY <2>2, <1>7
  <2>3. CASE MClear("stopped")
    <3>1. Quiet /\ ~Live' /\ wr \in Nat /\ rd \in Nat
      BY <2>1, <2>3 DEF MClear, IInv, Resting, Live, TypeOK
    <3>2. AbsQueue = << >> /\ AbsOut = saved
      BY <2>1, <3>1, EmptyQueue DEF Quiet, AbsOut
    <3> QED
      BY <2>1, <3>1, <3>2, QueueEmptyNext DEF EmptyShape
  <2>4. CASE MClearCount \/ MClearVec
    <3>1. Quiet /\ Live /\ Live'
      BY <2>1, <2>4 DEF MClearCount, MClearVec, IInv, Resting, Live
    <3>2. wr' = wr
      BY <2>4, <3>1, AllTaken DEF MClearCount, MClearVec
    <3> QED
      BY <2>1, <3>1, <3>2, Stutter DEF AbsOut
  <2> QED
    BY <1>11, <2>2, <2>3, <2>4 DEF Again
<1> QED
  BY <1>1, <1>2, <1>3, <1>4, <1>5, <1>6, <1>7, <1>8, <1>9, <1>10, <1>11
     DEF CarefulNext, RunNext, Receiver, Store, Saver, MStart

\* Every sequence of runs is a run of the bounded queue: nothing it holds is
\* lost, repeated or reordered, it refuses a pack only when it holds N - 1,
\* and it is started again only when it is empty.
THEOREM Implements == InOrder => FifoSafe
<1>1. Init => Fifo!Init
  <2> SUFFICES ASSUME Init PROVE Fifo!Init
    OBVIOUS
  <2>1. ~Live
    BY DEF Init, Live
  <2> QED
    BY <2>1, InitInv, QueueEmpty DEF Init, EmptyShape, Fifo!Init
<1>2. IInv /\ IInv' /\ [CarefulNext]_vars => [Fifo!Next]_(Fifo!vars)
  BY StepImplements DEF Fifo!vars
<1>3. IInv /\ IInv' /\ [RunNext]_vars => [Fifo!Next]_(Fifo!vars)
  BY StepImplements DEF Fifo!vars
<1>4. CarefulSpec => FifoSafe
  BY <1>1, <1>2, CarefulInv, PTL DEF CarefulSpec, FifoSafe
<1>5. Benign /\ RunSpec => FifoSafe
  BY <1>1, <1>3, RunInv, PTL DEF RunSpec, FifoSafe
<1> QED
  BY <1>4, <1>5 DEF InOrder
=============================================================================
