---------------------------- MODULE MCEventRing ----------------------------
(***************************************************************************)
(* Instances of EventRing for TLC.                                         *)
(***************************************************************************)
EXTENDS EventRing

\* The values <<write, read>> a new daqb may find in its two uninitialised
\* counters: all ways they can compare with each other and with 0, ...
AnyCounts == {<<0, 0>>, <<0, 1>>, <<1, 0>>, <<1, 1>>}
\* ... and an empty ring whose write counter is not 0.
StaleCounts == {<<1, 1>>}

\* A careful caller's runs, the first of which may be as the client has it,
\* when the write counter happens to be 0: the saver launched first, then
\* the ring started under it.  It has every behaviour of CarefulSpec, and
\* every one of RunSpec from such a counter.
FirstLaunch == wr = 0 /\ MLaunch("idle")
FirstStart == spc # "off" /\ MClear("idle")
InOrderNext == CarefulNext \/ FirstLaunch \/ FirstStart
InOrderSpec == /\ Init /\ [][InOrderNext]_vars
               /\ Fairness /\ WF_vars(MLaunch("running"))
=============================================================================
