-------------------------- MODULE TcpServerProofs --------------------------
(***************************************************************************)
(* Which threads run on which connection of the server, for any number of  *)
(* clients and commands and whether or not launched threads are prompt and *)
(* commands throw.                                                         *)
(***************************************************************************)
EXTENDS TcpServer, SequenceTheorems, TLAPS

\* accept is called without a connection, the send daemon waited for after
\* the receive thread, and a receive thread at work has something to do.
Stages ==
  /\ mgr = "accept" => conn = 0
  /\ mgr = "joinSend" => recv[conn] = "ended"
  /\ \A c \in Clients : recv[c] = "busy" => batch[c] > 0

SInv == TypeOK /\ Stages /\ OnlyConn

LEMMA NobodyWaits == << >> \in Seq(Clients) /\ Len(<< >>) <= Backlog
<1> QED
  BY EmptySeq, ServerBounds

LEMMA ServerInit == Init => SInv
<1> SUFFICES ASSUME Init PROVE SInv
  OBVIOUS
<1>1. TypeOK
  <2>1. backlog \in Seq(Clients) /\ Len(backlog) <= Backlog
    BY NobodyWaits DEF Init
  <2>2. isActive \in BOOLEAN /\ listening \in BOOLEAN /\ alive \in [Clients -> BOOLEAN]
    BY Zenon DEF Init
  <2> QED
    BY <2>1, <2>2, ServerBounds DEF Init, TypeOK
<1>2. Stages /\ OnlyConn
  BY DEF Init, Stages, OnlyConn, Running
<1> QED
  BY <1>1, <1>2 DEF SInv

\* The steps of main
LEMMA MainStep == ASSUME SInv, Main PROVE SInv'
<1> USE DEF SInv, TypeOK, Stages, OnlyConn, Running, mgrVars, client
<1>1. CASE Close
  BY <1>1 DEF Close
<1>2. CASE Joined
  BY <1>2 DEF Joined
<1>3. CASE Interrupt
  BY <1>3 DEF Interrupt
<1> QED
  BY <1>1, <1>2, <1>3 DEF Main

\* A new connection: there is none, so no thread runs on another.
LEMMA AcceptStep == ASSUME SInv, MgrAccept PROVE SInv'
<1> USE DEF SInv, TypeOK, MgrAccept, MgrAt
<1>1. conn' \in Clients /\ backlog' \in Seq(Clients) /\ Len(backlog') <= Backlog
  BY HeadTailProperties, ServerBounds
<1>2. TypeOK'
  BY <1>1
<1>3. conn = 0
  BY DEF Stages
<1>4. \A c \in Clients : ~Running(c)
  BY <1>3, NoClientIsNull DEF OnlyConn
<1>5. OnlyConn'
  BY <1>1, <1>4 DEF OnlyConn, Running
<1>6. Stages'
  BY <1>1 DEF Stages
<1> QED
  BY <1>2, <1>5, <1>6

\* The manager gives the connection up: both of its threads have ended.
LEMMA CloseStep == ASSUME SInv, MgrClose PROVE SInv'
<1> USE DEF SInv, MgrClose, MgrAt, client
<1>1. TypeOK'
  BY DEF TypeOK
<1>2. Stages'
  BY DEF Stages
<1>3. \A c \in Clients : ~Running(c)
  BY DEF Stages, OnlyConn, Running
<1>4. OnlyConn'
  BY <1>3 DEF OnlyConn, Running
<1> QED
  BY <1>1, <1>2, <1>4

\* The other steps of the manager
LEMMA ManagerStep == ASSUME SInv, Manager PROVE SInv'
<1> USE DEF SInv, TypeOK, Stages, OnlyConn, Running, mgrVars, client, MgrAt, Die
<1>1. CASE MgrBegin
  BY <1>1 DEF MgrBegin
<1>2. CASE MgrSocket
  BY <1>2 DEF MgrSocket
<1>3. CASE MgrTop
  BY <1>3 DEF MgrTop
<1>4. CASE MgrNobody
  BY <1>4 DEF MgrNobody
<1>5. CASE MgrSleep
  BY <1>5 DEF MgrSleep
<1>6. CASE MgrLeave
  <2>1. backlog' \in Seq(Clients) /\ Len(backlog') <= Backlog
    BY <1>6, NobodyWaits DEF MgrLeave
  <2> QED
    BY <1>6, <2>1 DEF MgrLeave
<1>7. CASE MgrDestroy
  BY <1>7 DEF MgrDestroy
<1>8. CASE MgrJoinRecv
  BY <1>8 DEF MgrJoinRecv
<1>9. CASE MgrJoinFailed
  BY <1>9 DEF MgrJoinFailed
<1> QED
  BY <1>1, <1>2, <1>3, <1>4, <1>5, <1>6, <1>7, <1>8, <1>9, AcceptStep, CloseStep
     DEF Manager

\* The receive thread of a connection moves.
LEMMA RecvStep == ASSUME SInv, NEW c \in Clients, Recv(c) PROVE SInv'
<1> USE ServerBounds
    DEF SInv, TypeOK, Stages, OnlyConn, Running, mgrVars, client, RecvAt, Die
<1>1. CASE RecvBegin(c)
  BY <1>1 DEF RecvBegin
<1>2. CASE RecvTop(c)
  BY <1>2 DEF RecvTop
<1>3. CASE RecvNothing(c)
  BY <1>3 DEF RecvNothing
<1>4. CASE RecvSome(c)
  BY <1>4 DEF RecvSome
<1>5. CASE RecvClosed(c)
  BY <1>5 DEF RecvClosed
<1>6. CASE RecvWild(c)
  BY <1>6 DEF RecvWild
<1>7. CASE Process(c)
  BY <1>7 DEF Process
<1>8. CASE ProcessDies(c)
  BY <1>8 DEF ProcessDies
<1>9. CASE ProcessThrows(c)
  BY <1>9 DEF ProcessThrows
<1> QED
  BY <1>1, <1>2, <1>3, <1>4, <1>5, <1>6, <1>7, <1>8, <1>9 DEF Recv

\* The send daemon of a connection moves.
LEMMA SendStep == ASSUME SInv, NEW c \in Clients, Send(c) PROVE SInv'
<1> USE DEF SInv, TypeOK, Stages, OnlyConn, Running, mgrVars, client, SendAt, Die
<1>1. CASE SendTop(c)
  BY <1>1 DEF SendTop
<1>2. CASE SendRead(c)
  BY <1>2 DEF SendRead
<1>3. CASE SendReadDies(c)
  BY <1>3 DEF SendReadDies
<1>4. CASE SendRaw(c)
  BY <1>4 DEF SendRaw
<1>5. CASE SendPipe(c)
  BY <1>5 DEF SendPipe
<1> QED
  BY <1>1, <1>2, <1>3, <1>4, <1>5 DEF Send

\* A client connects, sends, closes or resets.
LEMMA ClientStep == ASSUME SInv, NEW c \in Clients, Client(c) PROVE SInv'
<1> USE ServerBounds DEF SInv, TypeOK, Stages, OnlyConn, Running, mgrVars, client
<1>1. CASE Connect(c)
  <2>1. backlog' \in Seq(Clients) /\ Len(backlog') <= Backlog
    BY <1>1, AppendProperties DEF Connect
  <2> QED
    BY <1>1, <2>1 DEF Connect
<1>2. CASE SendMsg(c)
  BY <1>2 DEF SendMsg
<1>3. CASE CloseClient(c)
  BY <1>3 DEF CloseClient
<1>4. CASE ResetClient(c)
  BY <1>4 DEF ResetClient
<1> QED
  BY <1>1, <1>2, <1>3, <1>4 DEF Client

LEMMA ServerStep == SInv /\ [Next]_vars => SInv'
<1> SUFFICES ASSUME SInv, [Next]_vars PROVE SInv'
  OBVIOUS
<1>1. CASE Next
  BY <1>1, MainStep, ManagerStep, RecvStep, SendStep, ClientStep DEF Next
<1>2. CASE UNCHANGED vars
  BY <1>2 DEF vars, mgrVars, client, SInv, TypeOK, Stages, OnlyConn, Running
<1> QED
  BY <1>1, <1>2

LEMMA ServerAlways == Spec => []SInv
<1> QED
  BY ServerInit, ServerStep, PTL DEF Spec

\* Types of the server's state, for any clients: in particular the loop over
\* a batch of messages ends with the batch.
THEOREM ServerTypes == Spec => []TypeOK
<1>1. SInv => TypeOK
  BY DEF SInv
<1> QED
  BY <1>1, ServerAlways, PTL

\* OnlyConn for any clients: no thread of the server runs on a connection
\* that has been destroyed or beside that of another one, though the manager
\* looks at connections once a second only and threads fail or are slow.
THEOREM OneConnection == Spec => []OnlyConn
<1>1. SInv => OnlyConn
  BY DEF SInv
<1> QED
  BY <1>1, ServerAlways, PTL
=============================================================================
