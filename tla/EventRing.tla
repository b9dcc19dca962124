----------------------------- MODULE EventRing -----------------------------
(***************************************************************************)
(* The event buffer of comet_wsf::daqb (remote/lib/daqb.hh, daqb.cc): a    *)
(* ring of m_size_ring shared pointers and three threads that share it     *)
(* without a lock.                                                         *)
(*                                                                         *)
(*   receiver  the connection's receive thread, in perConnProcessRecvMesg: *)
(*             gates a message, finds a slot, stores the pack, publishes.  *)
(*   saver     AsyncDataSave of the client: Front(), PopFront(), print.    *)
(*   main      the command loop: it launches the saver and calls           *)
(*             daq_start_run() (which empties and re-initialises the       *)
(*             ring), daq_stop_run() and ClearBuffer().                    *)
(*                                                                         *)
(* One action per access to a shared member, in the order of the code: an  *)
(* action's program counter names the access it is about to make, and what *)
(* a thread has loaded and not yet used is a variable of its own.  The     *)
(* write counter, the hot slot and the statistics are std::atomic with     *)
(* sequentially consistent accesses; m_count_ring_read, m_isDataAccept and *)
(* the vector are plain and are modelled by the values a thread reads from *)
(* memory in that same order.  Of a comparison the left side is loaded     *)
(* first, and the read counter once for the comparison and once for the    *)
(* index; a build that keeps it in a register has some of the behaviours.  *)
(*                                                                         *)
(* A pack is named by the number of its message in the order of arrival,   *)
(* NoPack is the empty daqb_packSP.                                        *)
(***************************************************************************)
EXTENDS Integers, Sequences

CONSTANTS N,          \* m_size_ring, the number of slots (200000 in the code)
          MaxMsgs,    \* bound: messages that arrive on the connection
          InitCounts  \* values <<m_count_ring_write, m_count_ring_read>> may
                      \* have in a new daqb: neither member is initialised

ASSUME SizeAssumption == N \in Nat \ {0}
ASSUME BoundAssumption == MaxMsgs \in Nat
ASSUME CountsAssumption == InitCounts \subseteq Nat \X Nat

VARIABLES
  ring,       \* m_vec_ring_ev, slot by slot
  sized,      \* TRUE while m_vec_ring_ev has its N slots, FALSE while empty
  wr,         \* m_count_ring_write
  rd,         \* m_count_ring_read
  hot,        \* m_hot_p_read, the slot the receiver may not enter
  accept,     \* m_isDataAccept
  nInput,     \* m_st_n_ev_input_now
  nOverflow,  \* m_st_n_ev_overflow_now
  rpc, idx,   \* receiver: its next access; next_p_ring_write
  spc, slot,  \* saver: its next access; next_p_ring_read
  seen,       \* saver: the counter it has loaded, 0 when it needs none
  pack,       \* saver: its copy of the front pack
  mpc,        \* main: its next access
  arrived,    \* history: messages the connection has delivered
  stored,     \* history: the packs published in the ring, in order
  saved       \* history: the packs printed to the data file, in order

counters == <<nInput, nOverflow>>
shared == <<ring, sized, wr, rd, hot, accept, nInput, nOverflow>>
receiver == <<rpc, idx, arrived, stored>>
saver == <<spc, slot, seen, pack, saved>>
vars == <<shared, receiver, saver, mpc>>

Slots == 0 .. N - 1
NoPack == 0
Packs == 1 .. MaxMsgs
EmptyRing == [s \in Slots |-> NoPack]

Init ==
  /\ ring = EmptyRing /\ sized = FALSE
  /\ \E c \in InitCounts : wr = c[1] /\ rd = c[2]
  /\ hot \in Slots
  /\ accept = FALSE
  /\ nInput = 0 /\ nOverflow = 0
  /\ rpc = "idle" /\ idx = 0
  /\ spc = "off" /\ slot = 0 /\ seen = 0 /\ pack = NoPack
  /\ mpc = "idle"
  /\ arrived = 0 /\ stored = << >> /\ saved = << >>
----------------------------------------------------------------------------
(* The receiver: perConnProcessRecvMesg, called once per message.          *)

\* A message arrives; it is dropped unless data is accepted.
RGate ==
  /\ rpc = "idle" /\ arrived < MaxMsgs
  /\ arrived' = arrived + 1
  /\ rpc' = IF accept THEN "count" ELSE "idle"
  /\ UNCHANGED <<shared, idx, stored, saver, mpc>>

RCount ==
  /\ rpc = "count" /\ rpc' = "index"
  /\ nInput' = nInput + 1
  /\ UNCHANGED <<ring, sized, wr, rd, hot, accept, nOverflow,
                 idx, arrived, stored, saver, mpc>>

\* Mutant: the write counter is used as an index without the modulus.
RIndexNoMod ==
  /\ rpc = "index" /\ rpc' = "check"
  /\ idx' = wr
  /\ UNCHANGED <<shared, arrived, stored, saver, mpc>>

RIndex ==
  /\ rpc = "index" /\ rpc' = "check"
  /\ idx' = wr % N
  /\ UNCHANGED <<shared, arrived, stored, saver, mpc>>

\* Mutant: a pack that finds the ring full is given up without being counted.
ROverflowUncounted ==
  /\ rpc = "check" /\ idx = hot /\ rpc' = "idle"
  /\ UNCHANGED <<shared, idx, arrived, stored, saver, mpc>>

\* Buffer full: the pack is lost and counted.
ROverflow ==
  /\ rpc = "check" /\ idx = hot /\ rpc' = "idle"
  /\ nOverflow' = nOverflow + 1
  /\ UNCHANGED <<ring, sized, wr, rd, hot, accept, nInput,
                 idx, arrived, stored, saver, mpc>>

\* Mutant: the slot is not compared with the hot slot.
RRoomUnchecked ==
  /\ rpc = "check" /\ rpc' = "store"
  /\ UNCHANGED <<shared, idx, arrived, stored, saver, mpc>>

RRoom ==
  /\ rpc = "check" /\ idx # hot /\ rpc' = "store"
  /\ UNCHANGED <<shared, idx, arrived, stored, saver, mpc>>

RStore ==
  /\ rpc = "store" /\ rpc' = "publish"
  /\ ring' = [ring EXCEPT ![idx] = arrived]
  /\ UNCHANGED <<sized, wr, rd, hot, accept, counters,
                 idx, arrived, stored, saver, mpc>>

RPublish ==
  /\ rpc = "publish" /\ rpc' = "idle"
  /\ wr' = wr + 1
  /\ stored' = Append(stored, arrived)
  /\ UNCHANGED <<ring, sized, rd, hot, accept, counters,
                 idx, arrived, saver, mpc>>

\* The steps of a callback that is under way.
Store == RCount \/ RIndex \/ ROverflow \/ RRoom \/ RStore \/ RPublish
Receiver == RGate \/ Store
----------------------------------------------------------------------------
(* The saver: the loop of AsyncDataSave, with Front() and PopFront().      *)

\* Front() loads the write counter ...
SFront ==
  /\ spc = "front" /\ spc' = "compare"
  /\ seen' = wr
  /\ UNCHANGED <<shared, receiver, slot, pack, saved, mpc>>

\* Mutant: equal counters count as a filled ring.
SCompareEqual ==
  /\ spc = "compare"
  /\ spc' = IF seen >= rd THEN "index" ELSE "front"
  /\ seen' = 0
  /\ UNCHANGED <<shared, receiver, slot, pack, saved, mpc>>

\* ... and then the read counter; when it finds nothing it returns
\* m_ring_end, and the thread sleeps and polls.
SCompare ==
  /\ spc = "compare"
  /\ spc' = IF seen > rd THEN "index" ELSE "front"
  /\ seen' = 0
  /\ UNCHANGED <<shared, receiver, slot, pack, saved, mpc>>

SIndex ==
  /\ spc = "index" /\ spc' = "mark"
  /\ slot' = rd % N
  /\ UNCHANGED <<shared, receiver, seen, pack, saved, mpc>>

\* "keep hot read to prevent write-overlapping"
SMark ==
  /\ spc = "mark" /\ spc' = "copy"
  /\ hot' = slot
  /\ UNCHANGED <<ring, sized, wr, rd, accept, counters,
                 receiver, slot, seen, pack, saved, mpc>>

\* The thread copies the pointer; an empty one sends it back to sleep.
SCopy ==
  /\ spc = "copy"
  /\ pack' = ring[slot]
  /\ spc' = IF ring[slot] = NoPack THEN "front" ELSE "pop"
  /\ UNCHANGED <<shared, receiver, slot, seen, saved, mpc>>

\* PopFront() makes the same two loads; when they compare as empty it does
\* nothing.
SPop ==
  /\ spc = "pop" /\ spc' = "popCompare"
  /\ seen' = wr
  /\ UNCHANGED <<shared, receiver, slot, pack, saved, mpc>>

SPopCompare ==
  /\ spc = "popCompare"
  /\ spc' = IF seen > rd THEN "popIndex" ELSE "save"
  /\ seen' = 0
  /\ UNCHANGED <<shared, receiver, slot, pack, saved, mpc>>

SPopIndex ==
  /\ spc = "popIndex" /\ spc' = "popMark"
  /\ slot' = rd % N
  /\ UNCHANGED <<shared, receiver, seen, pack, saved, mpc>>

SPopMark ==
  /\ spc = "popMark" /\ spc' = "reset"
  /\ hot' = slot
  /\ UNCHANGED <<ring, sized, wr, rd, accept, counters,
                 receiver, slot, seen, pack, saved, mpc>>

SReset ==
  /\ spc = "reset" /\ spc' = "advance"
  /\ ring' = [ring EXCEPT ![slot] = NoPack]
  /\ UNCHANGED <<sized, wr, rd, hot, accept, counters,
                 receiver, slot, seen, pack, saved, mpc>>

\* m_count_ring_read ++ of a plain member: a load ...
SAdvance ==
  /\ spc = "advance" /\ spc' = "advanced"
  /\ seen' = rd
  /\ UNCHANGED <<shared, receiver, slot, pack, saved, mpc>>

\* ... and a store.
SAdvanced ==
  /\ spc = "advanced" /\ spc' = "save"
  /\ rd' = seen + 1 /\ seen' = 0
  /\ UNCHANGED <<ring, sized, wr, hot, accept, counters,
                 receiver, slot, pack, saved, mpc>>

SSave ==
  /\ spc = "save" /\ spc' = "front"
  /\ saved' = Append(saved, pack)
  /\ UNCHANGED <<shared, receiver, slot, seen, pack, mpc>>

Saver == \/ SFront \/ SCompare \/ SIndex \/ SMark \/ SCopy
         \/ SPop \/ SPopCompare \/ SPopIndex \/ SPopMark
         \/ SReset \/ SAdvance \/ SAdvanced \/ SSave
----------------------------------------------------------------------------
(* Main: it launches the saver and calls daq_start_run(), daq_stop_run()   *)
(* and ClearBuffer().                                                      *)

\* std::async(AsyncDataSave), before or after the ring is started
MLaunch(at) ==
  /\ mpc = at /\ spc = "off" /\ spc' = "front"
  /\ UNCHANGED <<shared, receiver, slot, seen, pack, saved, mpc>>

\* A caller of the library ends its saver after a stop, when no callback is
\* under way and every pack was taken.
MJoin ==
  /\ mpc = "stopped" /\ rpc = "idle" /\ wr <= rd
  /\ spc = "front" /\ spc' = "off"
  /\ UNCHANGED <<shared, receiver, slot, seen, pack, saved, mpc>>

\* m_vec_ring_ev.clear(), the first statement of daq_start_run
MClear(from) ==
  /\ mpc = from /\ mpc' = "resize"
  /\ sized' = FALSE
  /\ UNCHANGED <<ring, wr, rd, hot, accept, counters, receiver, saver>>

\* Mutant: the vector reserves its slots instead of creating them.
MReserve ==
  /\ mpc = "resize" /\ mpc' = "zeroWrite"
  /\ UNCHANGED <<shared, receiver, saver>>

MResize ==
  /\ mpc = "resize" /\ mpc' = "zeroWrite"
  /\ sized' = TRUE /\ ring' = EmptyRing
  /\ UNCHANGED <<wr, rd, hot, accept, counters, receiver, saver>>

MZeroWrite ==
  /\ mpc = "zeroWrite" /\ mpc' = "zeroRead"
  /\ wr' = 0
  /\ UNCHANGED <<ring, sized, rd, hot, accept, counters, receiver, saver>>

\* Mutant: the read counter keeps its old value.
MKeepRead ==
  /\ mpc = "zeroRead" /\ mpc' = "hotTail"
  /\ UNCHANGED <<shared, receiver, saver>>

MZeroRead ==
  /\ mpc = "zeroRead" /\ mpc' = "hotTail"
  /\ rd' = 0
  /\ UNCHANGED <<ring, sized, wr, hot, accept, counters, receiver, saver>>

\* Mutant: the hot slot starts at the head of the ring.
MHotHead ==
  /\ mpc = "hotTail" /\ mpc' = "zeroStats"
  /\ hot' = 0
  /\ UNCHANGED <<ring, sized, wr, rd, accept, counters, receiver, saver>>

MHotTail ==
  /\ mpc = "hotTail" /\ mpc' = "zeroStats"
  /\ hot' = N - 1
  /\ UNCHANGED <<ring, sized, wr, rd, accept, counters, receiver, saver>>

MZeroStats ==
  /\ mpc = "zeroStats" /\ mpc' = "accept"
  /\ nInput' = 0 /\ nOverflow' = 0
  /\ UNCHANGED <<ring, sized, wr, rd, hot, accept, receiver, saver>>

MAccept ==
  /\ mpc = "accept" /\ mpc' = "running"
  /\ accept' = TRUE
  /\ UNCHANGED <<ring, sized, wr, rd, hot, counters, receiver, saver>>

MStop ==
  /\ mpc = "running" /\ mpc' = "stopped"
  /\ accept' = FALSE
  /\ UNCHANGED <<ring, sized, wr, rd, hot, counters, receiver, saver>>

MStart == \/ MResize \/ MZeroWrite \/ MZeroRead
          \/ MHotTail \/ MZeroStats \/ MAccept

\* ClearBuffer: m_count_ring_write = m_count_ring_read, then clear().
MClearCount ==
  /\ mpc = "stopped" /\ mpc' = "clearVec"
  /\ wr' = rd
  /\ UNCHANGED <<ring, sized, rd, hot, accept, counters, receiver, saver>>

MClearVec ==
  /\ mpc = "clearVec" /\ mpc' = "stopped"
  /\ sized' = FALSE
  /\ UNCHANGED <<ring, wr, rd, hot, accept, counters, receiver, saver>>
----------------------------------------------------------------------------
(* One run, as the client has it: the saver is launched first, the daqb    *)
(* started once and stopped at any time.                                   *)
RunNext == \/ Receiver \/ Saver \/ MLaunch("idle")
           \/ (spc # "off" /\ MClear("idle")) \/ MStart \/ MStop

\* Threads inside a callback or the saver's loop are always scheduled again;
\* messages, start and stop may never come.
Fairness == WF_vars(Store) /\ WF_vars(Saver)

RunSpec == Init /\ [][RunNext]_vars /\ Fairness

(* Several runs: a caller of the library may start again after a stop, and *)
(* may call ClearBuffer.  Neither waits for a callback or a saver that is  *)
(* under way, so a careful caller has a saver only from the end of         *)
(* daq_start_run to its next call: it launches it after the one and ends   *)
(* it before the other.                                                    *)
Again == spc = "off" /\ (MClear("idle") \/ MClear("stopped")
                           \/ MClearCount \/ MClearVec)

CarefulNext == \/ Receiver \/ Saver \/ Again \/ MStart \/ MLaunch("running")
               \/ (spc # "off" /\ MStop) \/ MJoin

CarefulSpec == /\ Init /\ [][CarefulNext]_vars
               /\ Fairness /\ WF_vars(MLaunch("running"))
----------------------------------------------------------------------------
TypeOK ==
  /\ ring \in [Slots -> Nat] /\ sized \in BOOLEAN
  /\ wr \in Nat /\ rd \in Nat /\ hot \in Slots
  /\ accept \in BOOLEAN
  /\ nInput \in Nat /\ nOverflow \in Nat
  /\ rpc \in {"idle", "count", "index", "check", "store", "publish"}
  /\ idx \in Slots
  /\ spc \in {"off", "front", "compare", "index", "mark", "copy",
              "pop", "popCompare", "popIndex", "popMark",
              "reset", "advance", "advanced", "save"}
  /\ slot \in Slots /\ seen \in Nat /\ pack \in Nat
  /\ mpc \in {"idle", "resize", "zeroWrite", "zeroRead", "hotTail",
              "zeroStats", "accept", "running", "stopped", "clearVec"}
  /\ arrived \in Nat
  /\ stored \in Seq(Nat) /\ saved \in Seq(Nat)

\* The code's comment on m_hot_p_read (daqb.cc:154 and 166): the receiver
\* never writes the shared pointer of a slot that the saver is about to copy
\* or to reset, whatever the interleaving and however full the ring is.
NoWriteOverlapping ==
  ~(rpc = "store" /\ spc \in {"copy", "reset"} /\ idx = slot)

\* No thread indexes m_vec_ring_ev while the vector is empty.
InBounds == (rpc = "store" \/ spc \in {"copy", "reset"}) => sized

\* perConnProcessRecvMesg accounts for every message it lets in: in a run
\* the input counter is the number of packs published, plus those counted as
\* overflow, plus the one being handled.
InputAccounted ==
  mpc \in {"running", "stopped"} =>
    nInput = wr + nOverflow
             + (IF rpc \in {"index", "check", "store", "publish"} THEN 1 ELSE 0)

\* The data file holds a prefix of the published packs, each once and in
\* order: nothing is lost, repeated or reordered between ring and file.
SavedInOrder ==
  /\ Len(saved) <= Len(stored)
  /\ \A k \in 1 .. Len(saved) : saved[k] = stored[k]

\* Every published pack reaches the data file, also after a stop.
AllSaved ==
  \A k \in 1 .. MaxMsgs : (Len(stored) >= k) ~> (Len(saved) >= k)

\* The ring, with the pack the saver holds, is the bounded queue of
\* BoundedFifo: storing the read counter is the moment a pack is taken.
\* Until daq_start_run has zeroed the counters there is no queue to speak of.
Zeroed == mpc \notin {"idle", "resize", "zeroWrite", "zeroRead"}
AbsQueue ==
  [i \in 1 .. (IF Zeroed /\ wr > rd THEN wr - rd ELSE 0) |->
     IF i = 1 /\ spc \in {"advance", "advanced"}
       THEN pack ELSE ring[(rd + i - 1) % N]]
AbsOut == IF spc = "save" THEN Append(saved, pack) ELSE saved

Fifo == INSTANCE BoundedFifo
          WITH queue <- AbsQueue, out <- AbsOut, dropped <- nOverflow,
               Capacity <- N, Event <- Packs

FifoSpec == Fifo!Spec
=============================================================================
