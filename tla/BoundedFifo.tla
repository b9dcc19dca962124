---------------------------- MODULE BoundedFifo ----------------------------
(***************************************************************************)
(* What the event buffer of comet_wsf::daqb promises to its two users, the *)
(* receive callback that fills it and the thread that drains it: a         *)
(* first-in first-out queue of at most Capacity packs.  A pack that finds  *)
(* the queue full, or one short of full, is given up and counted           *)
(* ("buffer full, permanent data lose", daqb.cc:135); every other pack     *)
(* comes out exactly once, in the order of arrival.                        *)
(***************************************************************************)
EXTENDS Naturals, Sequences

CONSTANTS Capacity,  \* slots of the buffer (daqb::m_size_ring)
          Event      \* the packs

VARIABLES queue,     \* packs stored and not yet taken
          out,       \* packs taken, in the order they were taken
          dropped    \* number of packs given up

vars == <<queue, out, dropped>>

Init == /\ queue = << >>
        /\ out = << >>
        /\ dropped = 0

\* A pack is stored.
Put == /\ Len(queue) < Capacity
       /\ \E e \in Event : queue' = Append(queue, e)
       /\ UNCHANGED <<out, dropped>>

\* A pack is given up, which is only allowed when the queue is full or holds
\* one pack less than it has slots (the slot behind the reader is kept free).
Drop == /\ Len(queue) >= Capacity - 1
        /\ dropped' = dropped + 1
        /\ UNCHANGED <<queue, out>>

\* The oldest pack is taken.
Take == /\ queue # << >>
        /\ out' = Append(out, Head(queue))
        /\ queue' = Tail(queue)
        /\ UNCHANGED dropped

\* The queue is started again, which is only allowed when it is empty: the
\* count of lost packs begins anew.
Restart == /\ queue = << >>
           /\ dropped' = 0
           /\ UNCHANGED <<queue, out>>

Next == Put \/ Drop \/ Take \/ Restart

Spec == Init /\ [][Next]_vars /\ WF_vars(Take)
=============================================================================
