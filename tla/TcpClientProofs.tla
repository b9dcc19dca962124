-------------------------- MODULE TcpClientProofs --------------------------
(***************************************************************************)
(* What the client keeps up whatever its operator types and its            *)
(* connections do, for any number of commands, runs and connections.       *)
(*                                                                         *)
(* The argument turns on the join that never returns (JoinEnds fails): a   *)
(* saver ends only after g_watch_done, which main sets only after it has   *)
(* waited for the saver.  So no saver ever ends, main gets no further than *)
(* one run, and the ring is emptied only once, before any data is          *)
(* accepted.  That it has one reader needs more: a second start launches a *)
(* saver before it waits, unless the data file of the first stops it.      *)
(***************************************************************************)
EXTENDS TcpClient, FiniteSetTheorems, TLAPS

\* What is still to come fits into the bounds.
Bounded ==
  /\ pc = "connect" => conns < MaxConns
  /\ pc \in {"open", "spawn"} => runs < MaxRuns
  /\ watches <= runs
  /\ pc \in {"assign", "ring", "sendStart", "watch"} => watches < runs

\* A client that quits does nothing else any more.
Quitting ==
  /\ quitting => pc \in {"dataDone", "join", "watchDone", "drop", "joinRecv",
                         "unwatch", "joinWatch"} \cup Over
  /\ watchDone => quitting /\ runs = 0
  /\ pc = "watchDone" => runs = 0 /\ quitting
  /\ pc \in {"drop", "joinRecv"} /\ quitting => watchDone

\* No saver ends, and a second start gets no further than its assignment.
SaverStays ==
  /\ \A t \in Threads : saver[t] = IF t <= runs THEN "run" ELSE "none"
  /\ futData <= runs
  /\ pc \notin Over =>
       /\ runs = 0 \/ futData # 0 \/ pc = "assign"
       /\ runs <= 1 \/ (pc = "assign" /\ futData # 0)

\* Only the connection main has, and the one it is destroying, have a
\* receive thread, and none is destroyed while data is accepted.
Receivers ==
  /\ \A c \in Conns :
       recv[c] \in {"new", "top", "recv", "feed"} => c \in {conn, dying}
  /\ dying # 0 => pc \in {"drop", "joinRecv"} \cup Over
  /\ pc \in {"connect", "drop", "joinRecv", "sendReset", "sendStop"} => ~accept
  /\ pc = "sendStart" => accept

Feeding(c) == recv[c] = "feed"

\* Data is accepted, and fed to the ring, only after the ring was emptied,
\* by one thread.
Feeders ==
  /\ accept => futData # 0 /\ pc # "ring"
  /\ \A c \in Conns : Feeding(c) => futData # 0 /\ pc # "ring"
  /\ \A c, d \in Conns : Feeding(c) /\ Feeding(d) => c = d

CInv == TypeOK /\ Bounded /\ Quitting /\ SaverStays /\ Receivers /\ Feeders

\* Where nobody moves the data file, it is there from the first start on, and
\* a second one does not get past it.
OneFile ==
  /\ pc = "spawn" => file /\ runs = 0
  /\ runs # 0 => file /\ runs = 1

LEMMA ClientInit == Init => CInv
<1> SUFFICES ASSUME Init PROVE CInv
  OBVIOUS
<1> USE ClientBounds DEF Init, Conns, Threads, Over
<1>1. alive \in [Conns -> BOOLEAN]
  BY Zenon
<1>2. /\ quitting \in BOOLEAN /\ accept \in BOOLEAN /\ file \in BOOLEAN
      /\ watching \in BOOLEAN /\ dataDone \in BOOLEAN /\ watchDone \in BOOLEAN
  BY Zenon
<1>3. TypeOK
  BY <1>1, <1>2 DEF TypeOK
<1>4. Bounded /\ Quitting /\ SaverStays /\ Receivers /\ Feeders
  BY DEF Bounded, Quitting, SaverStays, Receivers, Feeders, Feeding
<1> QED
  BY <1>3, <1>4 DEF CInv

\* The operator types a command.
LEMMA OperatorStep == ASSUME CInv, Operator \/ MoveFile PROVE CInv'
<1> USE ClientBounds
    DEF CInv, TypeOK, Bounded, Quitting, SaverStays, Receivers, Feeders,
        Feeding, Conns, Threads, Over, link, files, dogs, flags
<1>1. CASE CmdReset
  <2>1. TypeOK'
    <3>1. accept' \in BOOLEAN
      BY <1>1, Zenon DEF CmdReset
    <3> QED
      BY <1>1, <3>1 DEF CmdReset, Command
  <2>2. Bounded'
    BY <1>1 DEF CmdReset, Command
  <2>3. Quitting'
    BY <1>1 DEF CmdReset, Command
  <2>4. SaverStays'
    BY <1>1 DEF CmdReset, Command
  <2>5. Receivers'
    BY <1>1 DEF CmdReset, Command
  <2>6. Feeders'
    BY <1>1 DEF CmdReset, Command
  <2> QED
    BY <2>1, <2>2, <2>3, <2>4, <2>5, <2>6 DEF CInv
<1>2. CASE CmdConf
  BY <1>2 DEF CmdConf, Command
<1>3. CASE CmdStart
  BY <1>3 DEF CmdStart, Command
<1>4. CASE CmdStop
  <2>1. TypeOK'
    <3>1. accept' \in BOOLEAN
      BY <1>4, Zenon DEF CmdStop
    <3> QED
      BY <1>4, <3>1 DEF CmdStop, Command
  <2>2. Bounded'
    BY <1>4 DEF CmdStop, Command
  <2>3. Quitting'
    BY <1>4 DEF CmdStop, Command
  <2>4. SaverStays'
    BY <1>4 DEF CmdStop, Command
  <2>5. Receivers'
    BY <1>4 DEF CmdStop, Command
  <2>6. Feeders'
    BY <1>4 DEF CmdStop, Command
  <2> QED
    BY <2>1, <2>2, <2>3, <2>4, <2>5, <2>6 DEF CInv
<1>5. CASE Quit
  BY <1>5 DEF Quit
<1>6. CASE MoveFile
  BY ZenonT(60), <1>6 DEF MoveFile
<1> QED
  BY <1>1, <1>2, <1>3, <1>4, <1>5, <1>6
     DEF Operator

\* main connects, sends, and destroys connections.
LEMMA LinkStep ==
  ASSUME CInv,
         \/ Connect \/ Drop \/ JoinRecv \/ JoinFailed \/ SendReset
         \/ SendConf \/ SendStart \/ SendStop \/ SendPipe
  PROVE  CInv'
<1> USE ClientBounds
    DEF CInv, TypeOK, Bounded, Quitting, SaverStays, Receivers, Feeders,
        Feeding, Conns, Threads, Over, link, files, dogs, flags
<1>1. CASE Connect
  <2>1. TypeOK'
    <3>1. /\ conns' \in 0 .. MaxConns /\ conn' \in 0 .. MaxConns
          /\ dying' \in 0 .. MaxConns
      BY <1>1 DEF Connect
    <3>2. recv' \in [Conns -> {"none", "new", "top", "recv", "feed", "ended",
                             "failed"}]
      BY <1>1 DEF Connect
    <3>3. alive' \in [Conns -> BOOLEAN]
      BY <1>1 DEF Connect
    <3>4. pc' \in {"sendReset", "drop"}
      BY <1>1 DEF Connect
    <3> QED
      BY <1>1, <3>1, <3>2, <3>3, <3>4 DEF Connect
  <2>2. Bounded'
    BY <1>1 DEF Connect
  <2>3. Quitting'
    BY <1>1 DEF Connect
  <2>4. SaverStays'
    BY <1>1 DEF Connect
  <2>5. Receivers'
    BY SMTT(30), <1>1 DEF Connect
  <2>6. Feeders'
    BY ZenonT(60), <1>1 DEF Connect
  <2> QED
    BY <2>1, <2>2, <2>3, <2>4, <2>5, <2>6 DEF CInv
<1>2. CASE Drop
  BY ZenonT(60), <1>2 DEF Drop
<1>3. CASE JoinRecv
  BY <1>3 DEF JoinRecv
<1>4. CASE JoinFailed
  BY <1>4 DEF JoinFailed
<1>5. CASE SendReset
  BY <1>5 DEF SendReset, Deliver
<1>6. CASE SendConf
  BY <1>6 DEF SendConf, Deliver
<1>7. CASE SendStart
  BY <1>7 DEF SendStart, Deliver
<1>8. CASE SendStop
  BY <1>8 DEF SendStop, Deliver
<1>9. CASE SendPipe
  BY <1>9 DEF SendPipe
<1> QED
  BY <1>1, <1>2, <1>3, <1>4, <1>5, <1>6, <1>7, <1>8, <1>9
     DEF Over

\* main starts and ends runs.
LEMMA RunStep ==
  ASSUME CInv,
         \/ Open \/ Spawn \/ Assign \/ Ring \/ Watch \/ AssignWatch
         \/ Unwatch \/ JoinWatch \/ DataDone \/ Join \/ WatchDone
  PROVE  CInv'
<1> USE ClientBounds
    DEF CInv, TypeOK, Bounded, Quitting, SaverStays, Receivers, Feeders,
        Feeding, Conns, Threads, Over, link, files, dogs, flags
<1>1. CASE Open
  BY ZenonT(60), <1>1 DEF Open
<1>2. CASE Spawn
  BY <1>2 DEF Spawn
<1>3. CASE Assign
  BY <1>3 DEF Assign
<1>4. CASE Ring
  BY <1>4 DEF Ring
<1>5. CASE Watch
  BY <1>5 DEF Watch
<1>6. CASE AssignWatch
  BY <1>6 DEF AssignWatch
<1>7. CASE Unwatch
  BY ZenonT(60), <1>7 DEF Unwatch
<1>8. CASE JoinWatch
  BY <1>8 DEF JoinWatch
<1>9. CASE DataDone
  BY <1>9 DEF DataDone
<1>10. CASE Join
  BY <1>10 DEF Join
<1>11. CASE WatchDone
  BY <1>11 DEF WatchDone
<1> QED
  BY <1>1, <1>2, <1>3, <1>4, <1>5, <1>6, <1>7, <1>8, <1>9, <1>10, <1>11
     DEF Over

\* A saver or a watchdog moves.
LEMMA ThreadStep == ASSUME CInv, NEW t \in Threads, Thread(t) PROVE CInv'
<1> USE ClientBounds
    DEF CInv, TypeOK, Bounded, Quitting, SaverStays, Receivers, Feeders,
        Feeding, Conns, Threads, Over, link, files, dogs, flags
<1>1. CASE SaverLoop(t)
  <2>1. TypeOK'
    BY <1>1 DEF SaverLoop
  <2>2. Bounded'
    BY <1>1 DEF SaverLoop
  <2>3. Quitting'
    BY <1>1 DEF SaverLoop
  <2>4. SaverStays'
    BY <1>1 DEF SaverLoop
  <2>5. Receivers'
    BY <1>1 DEF SaverLoop
  <2>6. Feeders'
    BY <1>1 DEF SaverLoop
  <2> QED
    BY <2>1, <2>2, <2>3, <2>4, <2>5, <2>6 DEF CInv
<1>2. CASE WatchBegins(t)
  BY <1>2 DEF WatchBegins
<1>3. CASE WatchLoop(t)
  BY <1>3 DEF WatchLoop
<1> QED
  BY <1>1, <1>2, <1>3 DEF Thread

\* A receive thread moves.
LEMMA RecvStep == ASSUME CInv, NEW c \in Conns, RecvRuns(c) \/ RecvPeer(c) PROVE CInv'
<1> USE ClientBounds
    DEF CInv, TypeOK, Bounded, Quitting, SaverStays, Receivers, Feeders,
        Feeding, Conns, Threads, Over, link, files, dogs, flags,
        RecvTo
<1>1. CASE RecvBegin(c)
  BY SMTT(30), <1>1 DEF RecvBegin
<1>2. CASE RecvTop(c)
  BY SMTT(30), <1>2 DEF RecvTop
<1>3. CASE RecvNothing(c)
  BY SMTT(30), <1>3 DEF RecvNothing
<1>4. CASE RecvFed(c)
  BY <1>4 DEF RecvFed
<1>5. CASE RecvData(c)
  <2>1. TypeOK'
    BY <1>5 DEF RecvData
  <2>2. Bounded'
    BY <1>5 DEF RecvData
  <2>3. Quitting'
    BY <1>5 DEF RecvData
  <2>4. SaverStays'
    BY <1>5 DEF RecvData
  <2>5. Receivers'
    BY <1>5 DEF RecvData
  <2>6. Feeders'
    <3>1. CASE accept
      <4>1. dying = 0
        BY <1>5, <3>1 DEF RecvData
      <4>2. \A d \in Conns : Feeding(d) => d = c
        BY <1>5, <4>1 DEF RecvData
      <4> QED
        BY <1>5, <3>1, <4>2 DEF RecvData
    <3>2. CASE ~accept
      <4>1. recv' = [recv EXCEPT ![c] = "recv"] /\ UNCHANGED <<accept, futData, pc>>
        BY <1>5, <3>2 DEF RecvData
      <4> QED
        BY SMTT(30), <4>1
    <3> QED
      BY <3>1, <3>2
  <2> QED
    BY <2>1, <2>2, <2>3, <2>4, <2>5, <2>6 DEF CInv
<1>6. CASE RecvClosed(c)
  BY SMTT(30), <1>6 DEF RecvClosed
<1>7. CASE RecvWild(c)
  <2>1. /\ UNCHANGED <<alive, cmds, quitting, accept, conns, conn, dying, told>>
        /\ UNCHANGED <<file, runs, saver, futData>>
        /\ UNCHANGED <<watch, watches, watching, futWatch, dataDone, watchDone>>
        /\ recv[c] = "recv" /\ pc \notin Over
    BY <1>7 DEF RecvWild
  <2>2. CASE recv' = [recv EXCEPT ![c] = "ended"] /\ pc' = "crashed"
    BY SMTT(30), <2>1, <2>2
  <2>3. CASE recv' = [recv EXCEPT ![c] = "failed"] /\ pc' = pc
    BY SMTT(30), <2>1, <2>3
  <2> QED
    BY <1>7, <2>2, <2>3 DEF RecvWild
<1> QED
  BY <1>1, <1>2, <1>3, <1>4, <1>5, <1>6, <1>7 DEF RecvRuns, RecvPeer

LEMMA ClientStep == CInv /\ [Next]_vars => CInv'
<1> SUFFICES ASSUME CInv, [Next]_vars PROVE CInv'
  OBVIOUS
<1>1. CASE Next
  BY <1>1, OperatorStep, LinkStep, RunStep, ThreadStep, RecvStep DEF Next, Main
<1>2. CASE UNCHANGED vars
  BY <1>2 DEF vars, link, files, dogs, flags, CInv, TypeOK, Bounded, Quitting,
              SaverStays, Receivers, Feeders, Feeding
<1> QED
  BY <1>1, <1>2

\* No step of main or of a thread takes the file away or opens it twice.
LEMMA FileStep == ~Moving /\ OneFile /\ [Next]_vars => OneFile'
<1> SUFFICES ASSUME ~Moving, OneFile, [Next]_vars PROVE OneFile'
  OBVIOUS
<1>1. CASE Open
  BY <1>1 DEF Open, OneFile
<1>2. CASE Spawn
  BY <1>2 DEF Spawn, OneFile
<1>3. CASE [Next]_vars /\ ~Open /\ ~Spawn
  <2>1. \/ UNCHANGED <<file, runs>> /\ pc' # "spawn"
        \/ UNCHANGED <<pc, file, runs>>
    BY <1>3
       DEF Next, Main, vars, link, files, dogs, flags, Connect, Drop, JoinRecv,
           JoinFailed, SendReset, SendConf, Deliver, Assign, Ring, SendStart,
           Watch, AssignWatch, SendStop, Unwatch, JoinWatch, DataDone, Join,
           WatchDone, SendPipe, Operator, Command, CmdReset, CmdConf, CmdStart,
           CmdStop, Quit, MoveFile, Thread, SaverLoop, WatchBegins, WatchLoop,
           RecvRuns, RecvPeer, RecvBegin, RecvTop, RecvNothing, RecvFed,
           RecvData, RecvClosed, RecvWild, RecvTo
  <2> QED
    BY <2>1 DEF OneFile
<1> QED
  BY <1>1, <1>2, <1>3

\* With one file there is one saver.
LEMMA OneUser == CInv /\ OneFile => OneSaver
<1> SUFFICES ASSUME CInv, OneFile PROVE OneSaver
  OBVIOUS
<1>1. runs <= 1 /\ runs \in Nat
  BY ClientBounds DEF CInv, OneFile, TypeOK
<1>2. Savers \subseteq {1}
  BY <1>1, ClientBounds DEF CInv, SaverStays, Savers, Threads
<1> QED
  BY <1>2 DEF OneSaver

\* What the invariant says of the ring's other users: what passes the gate is
\* drained; the ring is written by one receive thread at a time, and by none
\* while it is emptied.
LEMMA RingUsers == CInv => AcceptHasSaver /\ OneFeeder
<1> SUFFICES ASSUME CInv PROVE AcceptHasSaver /\ OneFeeder
  OBVIOUS
<1>1. AcceptHasSaver
  <2> SUFFICES ASSUME accept PROVE Savers # {}
    BY DEF AcceptHasSaver
  <2>1. futData \in Threads /\ futData <= runs
    BY ClientBounds DEF CInv, Feeders, SaverStays, TypeOK, Threads
  <2>2. saver[futData] = "run"
    BY <2>1 DEF CInv, SaverStays
  <2> QED
    BY <2>1, <2>2 DEF Savers
<1>2. OneFeeder
  <2> DEFINE feeders == {c \in Conns : recv[c] = "feed"}
  <2>1. pc = "ring" => feeders = {}
    BY DEF CInv, Feeders, Feeding
  <2>2. Cardinality(feeders) <= 1
    <3>1. CASE feeders = {}
      BY <3>1, FS_EmptySet
    <3>2. CASE feeders # {}
      <4>1. PICK c \in Conns : recv[c] = "feed"
        BY <3>2
      <4>2. feeders = {c}
        BY <4>1 DEF CInv, Feeders, Feeding
      <4> QED
        BY <4>2, FS_Singleton
    <3> QED
      BY <3>1, <3>2
  <2> QED
    BY <2>1, <2>2 DEF OneFeeder
<1> QED
  BY <1>1, <1>2

\* A step that tells the server something keeps to the order.
LEMMA ToldStep ==
  CInv /\ [Next]_vars
    => [told' # told => /\ told' = "start" => accept
                        /\ told' = "stop" => ~accept]_vars
<1> SUFFICES ASSUME CInv, Next, told' # told
             PROVE  /\ told' = "start" => accept
                    /\ told' = "stop" => ~accept
  BY DEF vars, link
<1>1. \/ SendReset \/ SendConf \/ SendStart \/ SendStop
  BY DEF Next, Main, Connect, Drop, JoinRecv, JoinFailed, Open, Spawn, Assign,
         Ring, Watch, AssignWatch, Unwatch, JoinWatch, DataDone, Join,
         WatchDone, SendPipe, Operator, CmdReset, CmdConf, CmdStart, CmdStop,
         Quit, MoveFile, Thread, SaverLoop, WatchBegins, WatchLoop, RecvRuns,
         RecvPeer, RecvBegin, RecvTop, RecvNothing, RecvFed, RecvData,
         RecvClosed, RecvWild, RecvTo, link
<1>2. CASE SendReset \/ SendConf
  BY <1>2 DEF SendReset, SendConf, Deliver
<1>3. CASE SendStart
  BY <1>3 DEF SendStart, Deliver, CInv, Receivers
<1>4. CASE SendStop
  BY <1>4 DEF SendStop, Deliver, CInv, Receivers
<1> QED
  BY <1>1, <1>2, <1>3, <1>4

LEMMA ClientAlways == Spec => []CInv
<1> QED
  BY ClientInit, ClientStep, PTL DEF Spec
----------------------------------------------------------------------------
\* Types of the client's state, for any bounds: no thread is launched that
\* the model has no room for.
THEOREM ClientTypes == Spec => []TypeOK
<1>1. CInv => TypeOK
  BY DEF CInv
<1> QED
  BY <1>1, ClientAlways, PTL

\* OneSaver for any session in which nobody moves the data file: at most one
\* saver reads the ring, in every state.
THEOREM OneReader == ~Moving /\ Spec => []OneSaver
<1> SUFFICES ASSUME ~Moving PROVE Spec => []OneSaver
  OBVIOUS
<1>1. Init => OneFile
  BY DEF Init, OneFile
<1>2. OneFile /\ [Next]_vars => OneFile'
  BY FileStep
<1> QED
  BY <1>1, <1>2, OneUser, ClientAlways, PTL DEF Spec

\* AcceptHasSaver for any session: what passes the gate is drained.
THEOREM AcceptedIsDrained == Spec => []AcceptHasSaver
  BY RingUsers, ClientAlways, PTL

\* OneFeeder for any session: the ring is written by one receive thread at a
\* time, whichever connections overlap at a reset, and by none while it is
\* emptied.
THEOREM OneWriter == Spec => []OneFeeder
  BY RingUsers, ClientAlways, PTL

\* ToldInOrder for any session: the server is told to start after the client
\* has begun to accept, and to stop after it has ceased to.
THEOREM ToldRight == Spec => ToldInOrder
  BY ToldStep, ClientAlways, PTL DEF Spec, ToldInOrder
=============================================================================
