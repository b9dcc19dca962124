-------------------------- MODULE DaqSystemProofs --------------------------
(***************************************************************************)
(* The client and the server together carry out the orders in the order in *)
(* which they were given, for any number of runs, commands and connections *)
(* and whether or not launched threads are prompt.                         *)
(*                                                                         *)
(* The argument: the bytes between the two are the orders not carried out  *)
(* yet, ascending along a connection and from one connection to the next.  *)
(* The client writes only to its newest connection, which is last in the   *)
(* server's queue; the server gives a connection up only when the client   *)
(* has closed it and all was read, or when it will accept no other.        *)
(*                                                                         *)
(* And each side is, within the system, what its own module says: what     *)
(* TcpClient lets a server do at any time, and TcpServer its clients,      *)
(* covers what the two do to each other. What was proved of either alone   *)
(* therefore holds of it in the system.                                    *)
(***************************************************************************)
EXTENDS DaqSystem, SequenceTheorems, TLAPS

Item == [conn : Conns, order : Order]

\* The client writes to no connection but the newest.
ClientSide ==
  /\ conns \in 0 .. MaxConns /\ conn \in {0, conns}
  /\ pc = "connect" => conns < MaxConns

Types ==
  /\ main \in {"up", "dead"}
  /\ listening \in BOOLEAN /\ sConn \in Conns \cup {0}
  /\ backlog \in Seq(Conns)
  /\ sAlive \in [Conns -> BOOLEAN]
  /\ sRecv \in [Conns -> {"none", "new", "top", "recv", "busy", "ended",
                           "failed"}]
  /\ peer \in [Conns -> {"idle", "open", "closed", "reset"}]
  /\ batch \in [Conns -> Nat] /\ inbox \in [Conns -> Nat]
  /\ orders \in Seq(Item) /\ executed \in Seq(Item)
  /\ waiting \in [Conns -> Seq(Nat)]

\* The server's receive threads run on the connection it has.
Receivers ==
  /\ \A c \in Conns :
       /\ sRecv[c] \in {"new", "top", "recv", "busy"} => c = sConn
       /\ IF sRecv[c] = "busy" THEN batch[c] > 0 ELSE batch[c] = 0
  /\ mgr = "accept" => sConn = 0
  /\ mgr = "joinSend" => sRecv[sConn] = "ended"

\* While it listens, the server gives up only a connection that the client
\* has closed or reset and that is read to its end.
Ending ==
  listening /\ sConn # 0
      /\ (~sAlive[sConn] \/ mgr \in {"destroy", "joinRecv", "joinSend"})
    => /\ sRecv[sConn] = "ended" /\ inbox[sConn] = 0
       /\ peer[sConn] \in {"closed", "reset"}

\* The connections come to the server in the order in which they were made.
Queue ==
  /\ ~listening => backlog = << >>
  /\ sConn <= conns
  /\ \A i \in DOMAIN backlog :
       sConn < backlog[i] /\ backlog[i] <= conns /\ sRecv[backlog[i]] = "none"
  /\ \A i, j \in DOMAIN backlog : i < j => backlog[i] < backlog[j]
  /\ \A c \in Conns : c > conns => sRecv[c] = "none" /\ waiting[c] = << >>
  /\ mgr \in {"new", "socket"} =>
       ~listening /\ sConn = 0 /\ \A c \in Conns : waiting[c] = << >>

\* What waits is what was not carried out yet, ascending.
Numbers ==
  /\ \A c \in Conns : Len(waiting[c]) = inbox[c] + batch[c]
  /\ \A c \in Conns : \A i \in DOMAIN waiting[c] :
       waiting[c][i] \in Len(executed) + 1 .. Len(orders)
  /\ \A c \in Conns : \A i, j \in DOMAIN waiting[c] :
       i < j => waiting[c][i] < waiting[c][j]
  /\ \A c, d \in Conns : c < d =>
       \A i \in DOMAIN waiting[c], j \in DOMAIN waiting[d] :
         waiting[c][i] < waiting[d][j]
  /\ \A k \in Len(executed) + 1 .. Len(orders) :
       \E c \in Conns : \E i \in DOMAIN waiting[c] : waiting[c][i] = k

Queued(c) == c = sConn \/ \E i \in DOMAIN backlog : c = backlog[i]

\* It waits where the server will still find it, and nothing waits before
\* the connection the server has.
Place ==
  /\ listening => \A c \in Conns : waiting[c] = << >> \/ Queued(c)
  /\ \A c \in Conns : c < sConn => waiting[c] = << >>

Prefix ==
  /\ Len(executed) <= Len(orders)
  /\ \A i \in DOMAIN executed : executed[i] = orders[i]

Inv == /\ ClientSide /\ Types /\ Receivers /\ Ending /\ Queue /\ Numbers
       /\ Place /\ Prefix

LEMMA SystemInit == Init => Inv
<1> SUFFICES ASSUME Init PROVE Inv
  OBVIOUS
<1> USE SystemBounds DEF Init, C!Init, S!Init, Conns
<1>1. << >> \in Seq(Nat) /\ << >> \in Seq(Conns) /\ << >> \in Seq(Item)
      /\ Len(<< >>) = 0 /\ DOMAIN << >> = {}
  BY EmptySeq
<1>2. Types
  <2>1. sAlive \in [Conns -> BOOLEAN] /\ listening \in BOOLEAN
    BY Zenon
  <2> QED
    BY <1>1, <2>1 DEF Types
<1>3. Prefix /\ Queue /\ Place /\ Ending /\ Receivers /\ ClientSide
  BY <1>1 DEF Prefix, Queue, Place, Ending, Receivers, ClientSide
<1>4. Numbers
  BY <1>1 DEF Numbers
<1> QED
  BY <1>2, <1>3, <1>4 DEF Inv

\* The client makes no connection and gives no order.
ClientQuiet ==
  /\ conns' = conns /\ conn' \in {conn, 0}
  /\ pc' = "connect" => conns < MaxConns

\* All that the client does but connect
LEMMA ClientAlone ==
  ASSUME ClientSide,
         \/ UNCHANGED client \/ C!JoinRecv
         \/ C!SendReset \/ C!SendConf \/ C!SendStart \/ C!SendStop \/ C!SendPipe
         \/ C!Drop \/ C!JoinFailed \/ C!Open \/ C!Spawn \/ C!Assign \/ C!Ring
         \/ C!Watch \/ C!AssignWatch \/ C!Unwatch \/ C!JoinWatch \/ C!DataDone
         \/ C!Join \/ C!WatchDone
         \/ C!Operator
         \/ \E t \in C!Threads : C!Thread(t)
         \/ \E c \in Conns : \/ C!RecvRuns(c) \/ C!RecvNothing(c) \/ C!RecvData(c)
                             \/ C!RecvClosed(c) \/ C!RecvWild(c)
  PROVE  ClientQuiet
<1> USE DEF ClientSide, ClientQuiet, C!Command, C!Deliver, C!Over,
            C!files, C!dogs, C!link, C!flags, C!vars
<1>1. CASE UNCHANGED client
  BY <1>1 DEF client
<1>2. CASE C!JoinRecv \/ C!Drop \/ C!JoinFailed \/ C!WatchDone
  BY <1>2 DEF C!JoinRecv, C!Drop, C!JoinFailed, C!WatchDone
<1>3. CASE C!SendReset \/ C!SendConf \/ C!SendStart \/ C!SendStop \/ C!SendPipe
  BY <1>3 DEF C!SendReset, C!SendConf, C!SendStart, C!SendStop, C!SendPipe
<1>4. CASE C!Open \/ C!Spawn \/ C!Assign \/ C!Ring \/ C!Watch
  BY <1>4 DEF C!Open, C!Spawn, C!Assign, C!Ring, C!Watch
<1>5. CASE C!AssignWatch \/ C!Unwatch \/ C!JoinWatch \/ C!DataDone \/ C!Join
  BY <1>5 DEF C!AssignWatch, C!Unwatch, C!JoinWatch, C!DataDone, C!Join
<1>6. CASE C!Operator
  BY <1>6 DEF C!Operator, C!CmdReset, C!CmdConf, C!CmdStart, C!CmdStop, C!Quit
<1>7. CASE \E t \in C!Threads : C!Thread(t)
  BY <1>7 DEF C!Thread, C!SaverLoop, C!WatchBegins, C!WatchLoop
<1>8. CASE \E c \in Conns : \/ C!RecvRuns(c) \/ C!RecvNothing(c) \/ C!RecvData(c)
                            \/ C!RecvClosed(c) \/ C!RecvWild(c)
  BY <1>8 DEF C!RecvRuns, C!RecvNothing, C!RecvData, C!RecvClosed, C!RecvWild,
              C!RecvBegin, C!RecvTop, C!RecvFed, C!RecvTo
<1> QED
  BY <1>1, <1>2, <1>3, <1>4, <1>5, <1>6, <1>7, <1>8

\* What stays when the history and the places of messages do.
LEMMA HistoryStays ==
  ASSUME Inv, UNCHANGED history
  PROVE  /\ Prefix'
         /\ UNCHANGED <<inbox, batch>> => Numbers'
         /\ UNCHANGED <<listening, sConn, backlog>> => Place'
  BY DEF Inv, history, Prefix, Numbers, Place, Queued

\* Nothing that matters to the orders happens on the client's side.
Calm == ClientQuiet /\ UNCHANGED history

LEMMA CalmClient == ASSUME Inv, Calm PROVE ClientSide'
  BY SystemBounds DEF Inv, Calm, ClientSide, ClientQuiet

\* The client alone.
LEMMA ClientStep == ASSUME Inv, Calm, UNCHANGED server PROVE Inv'
<1> USE DEF server, Calm, ClientQuiet, history
<1>1. ClientSide'
  BY CalmClient
<1>2. Types' /\ Receivers' /\ Ending' /\ Queue'
  BY DEF Inv, Types, Receivers, Ending, Queue
<1> QED
  BY <1>1, <1>2, HistoryStays DEF Inv

LEMMA ManagerStep == ASSUME Inv, Calm, S!Manager, ~S!MgrAccept PROVE Inv'
<1> USE DEF S!MgrAt, S!Over, S!Die, S!mgrVars, S!client
<1>1. CASE S!MgrBegin \/ S!MgrSocket \/ S!MgrTop \/ S!MgrNobody \/ S!MgrSleep
           \/ S!MgrDestroy \/ S!MgrJoinRecv \/ S!MgrJoinFailed
  <2> USE <1>1 DEF S!MgrBegin, S!MgrSocket, S!MgrTop, S!MgrNobody, S!MgrSleep,
         S!MgrDestroy, S!MgrJoinRecv, S!MgrJoinFailed
  <2>1. Types'
    BY DEF Inv, Types, Calm, history
  <2>2. Receivers'
    BY DEF Inv, Types, Receivers
  <2>3. Ending'
    BY DEF Inv, Types, Ending, Queue
  <2>4. Queue'
    BY DEF Inv, Queue, Calm, ClientQuiet, history
  <2>5. Numbers'
    BY HistoryStays DEF Calm
  <2>6. Place'
    BY HistoryStays DEF Calm, Inv, Queue, Place, history, Queued
  <2> QED
    BY <2>1, <2>2, <2>3, <2>4, <2>5, <2>6, CalmClient, HistoryStays DEF Inv, Calm
<1>2. CASE S!MgrLeave
  <2> USE <1>2 DEF S!MgrLeave
  <2>0. << >> \in Seq(Conns) /\ DOMAIN << >> = {}
    BY EmptySeq
  <2>1. Types'
    BY <2>0 DEF Inv, Types, Calm, history
  <2>2. Receivers' /\ Ending'
    BY DEF Inv, Types, Receivers, Ending
  <2>3. Queue'
    BY <2>0 DEF Inv, Types, Queue, Calm, ClientQuiet, history
  <2>4. Place'
    BY DEF Inv, Types, Place, Calm, history
  <2> QED
    BY <2>1, <2>2, <2>3, <2>4, CalmClient, HistoryStays DEF Inv, Calm
<1>3. CASE S!MgrClose
  <2> USE <1>3 DEF S!MgrClose
  <2>0. \A c \in Conns : sRecv[c] \notin {"new", "top", "recv", "busy"}
    BY DEF Inv, Receivers
  <2>1. Types'
    BY DEF Inv, Types, Calm, history
  <2>2. Receivers' /\ Ending'
    BY <2>0 DEF Inv, Types, Receivers, Ending
  <2>3. Queue'
    BY SystemBounds DEF Inv, Types, ClientSide, Queue, Calm, ClientQuiet,
       history, Conns
  <2>4. Place'
    <3>1. ASSUME listening, sConn # 0 PROVE waiting[sConn] = << >>
      <4>1. batch[sConn] = 0 /\ inbox[sConn] = 0
        BY <3>1 DEF Inv, Types, Ending, Receivers
      <4>2. Len(waiting[sConn]) = 0 /\ waiting[sConn] \in Seq(Nat)
        BY <3>1, <4>1 DEF Inv, Types, Numbers
      <4> QED
        BY <4>2, EmptySeq
    <3> QED
      BY <3>1 DEF Inv, Types, Place, Calm, history, Queued, Conns
  <2> QED
    BY <2>1, <2>2, <2>3, <2>4, CalmClient, HistoryStays DEF Inv, Calm
<1> QED
  BY <1>1, <1>2, <1>3 DEF S!Manager

\* accept takes the head of the queue: what waits is in no earlier connection.
LEMMA AcceptStep == ASSUME Inv, Calm, S!MgrAccept PROVE Inv'
<1> USE DEF S!MgrAccept, S!MgrAt, S!Over
<1>1. /\ sConn = 0 /\ listening /\ sConn' = backlog[1] /\ sConn' \in Conns
      /\ backlog' \in Seq(Conns) /\ Len(backlog) \in Nat /\ 1 \in DOMAIN backlog
      /\ DOMAIN backlog = 1 .. Len(backlog)
      /\ DOMAIN backlog' = 1 .. Len(backlog) - 1
      /\ \A i \in DOMAIN backlog' :
           i + 1 \in DOMAIN backlog /\ backlog'[i] = backlog[i + 1]
  BY SMTT(30), HeadTailProperties DEF Inv, Types, Queue, Receivers
<1>2. \A i \in DOMAIN backlog' : sConn' < backlog'[i]
  BY <1>1 DEF Inv, Queue
<1>3. Types'
  BY <1>1 DEF Inv, Types, Calm, history
<1>4. Receivers' /\ Ending'
  BY <1>1 DEF Inv, Types, Receivers, Ending, Queue, Conns
<1>5. Queue'
  <2>1. /\ ~listening' => backlog' = << >>
        /\ sConn' <= conns'
        /\ \A i, j \in DOMAIN backlog' : i < j => backlog'[i] < backlog'[j]
        /\ mgr' \notin {"new", "socket"}
    BY <1>1 DEF Inv, Types, Queue, Calm, ClientQuiet
  <2>2. \A i \in DOMAIN backlog' : backlog'[i] <= conns' /\ sRecv'[backlog'[i]] = "none"
    BY <1>1, <1>2 DEF Inv, Types, Queue, Calm, ClientQuiet, Conns
  <2>3. \A c \in Conns : c > conns' => sRecv'[c] = "none" /\ waiting'[c] = << >>
    BY <1>1, <2>1, SystemBounds DEF Inv, Types, ClientSide, Queue, Calm,
       ClientQuiet, history, Conns
  <2> QED
    BY <1>2, <2>1, <2>2, <2>3 DEF Queue
<1>6. Place'
  <2>1. \A c \in Conns : waiting[c] # << >> => \E i \in DOMAIN backlog : c = backlog[i]
    BY <1>1 DEF Inv, Place, Queued, Conns
  <2>2. \A i \in DOMAIN backlog : i # 1 => i - 1 \in DOMAIN backlog' /\ backlog[i] = backlog'[i - 1]
    <3> SUFFICES ASSUME NEW i \in DOMAIN backlog, i # 1
                 PROVE  i - 1 \in DOMAIN backlog' /\ backlog[i] = backlog'[i - 1]
      OBVIOUS
    <3>1. i \in Nat /\ i - 1 \in DOMAIN backlog'
      BY <1>1
    <3>2. (i - 1) + 1 = i
      BY <3>1
    <3> QED
      BY <1>1, <3>1, <3>2
  <2>3. \A c \in Conns : waiting[c] # << >> => Queued(c)'
    <3> SUFFICES ASSUME NEW c \in Conns, waiting[c] # << >> PROVE Queued(c)'
      OBVIOUS
    <3>1. PICK i \in DOMAIN backlog : c = backlog[i]
      BY <2>1
    <3>2. CASE i = 1
      BY <1>1, <3>1, <3>2 DEF Queued
    <3>3. CASE i # 1
      <4>1. i - 1 \in DOMAIN backlog' /\ c = backlog'[i - 1]
        BY <2>2, <3>1, <3>3
      <4> QED
        BY <4>1 DEF Queued
    <3> QED
      BY <3>2, <3>3
  <2>4. \A c \in Conns : c < sConn' => waiting[c] = << >>
    BY <1>1, <1>2, <2>3 DEF Queued, Conns
  <2> QED
    BY <2>3, <2>4 DEF Place, Calm, history
<1> QED
  BY <1>3, <1>4, <1>5, <1>6, CalmClient, HistoryStays DEF Inv, Calm

\* The receive threads, but for the orders they carry out
LEMMA RecvStep ==
  ASSUME Inv, Calm, NEW c \in Conns,
         \/ S!RecvBegin(c) \/ S!RecvTop(c) \/ S!RecvNothing(c) \/ S!RecvSome(c)
         \/ S!RecvClosed(c) \/ S!RecvWild(c) \/ S!ProcessDies(c)
  PROVE  Inv'
<1> USE DEF S!RecvAt, S!Over, S!Die, S!mgrVars, S!client
<1>1. CASE \/ S!RecvBegin(c) \/ S!RecvTop(c) \/ S!RecvNothing(c)
           \/ S!RecvClosed(c) \/ S!RecvWild(c) \/ S!ProcessDies(c)
  <2> USE <1>1 DEF S!RecvBegin, S!RecvTop, S!RecvNothing, S!RecvClosed,
         S!RecvWild, S!ProcessDies
  <2>1. Types'
    BY DEF Inv, Types, Calm, history
  <2>2. Receivers'
    BY DEF Inv, Types, Receivers
  <2>0. sRecv[c] \in {"new", "top", "recv", "busy"} /\ c = sConn /\ sConn # 0 /\ sConn \in Conns
    BY DEF Inv, Receivers, Conns
  <2>3. Ending'
    <3> USE <2>0 DEF Inv, Types, Ending
    <3>1. CASE S!RecvBegin(c)
      BY <3>1
    <3>2. CASE S!RecvTop(c)
      BY <3>2
    <3>3. CASE S!RecvNothing(c)
      BY <3>3
    <3>4. CASE S!RecvClosed(c)
      BY <3>4
    <3>5. CASE S!RecvWild(c)
      BY <3>5
    <3>6. CASE S!ProcessDies(c)
      BY <3>6
    <3> QED
      BY <1>1, <3>1, <3>2, <3>3, <3>4, <3>5, <3>6
  <2>4. Queue'
    <3>1. \A i \in DOMAIN backlog : backlog[i] \in Conns /\ sRecv[backlog[i]] = "none"
      BY DEF Inv, Types, Queue
    <3>2. \A d \in Conns : d # c => sRecv'[d] = sRecv[d]
      BY DEF Inv, Types
    <3>3. \A i \in DOMAIN backlog : sRecv'[backlog[i]] = "none"
      BY <2>0, <3>1, <3>2
    <3>4. \A d \in Conns : d > conns => sRecv'[d] = "none"
      BY <2>0, <3>2 DEF Inv, Queue
    <3>5. UNCHANGED <<listening, backlog, sConn, conns, waiting, mgr>>
      BY DEF Calm, ClientQuiet, history
    <3> HIDE DEF S!RecvBegin, S!RecvTop, S!RecvNothing, S!RecvClosed,
           S!RecvWild, S!ProcessDies
    <3> HIDE <1>1
    <3> QED
      BY <3>3, <3>4, <3>5 DEF Inv, Queue
  <2> QED
    BY <2>1, <2>2, <2>3, <2>4, CalmClient, HistoryStays DEF Inv, Calm
<1>2. CASE S!RecvSome(c)
  <2> USE <1>2 DEF S!RecvSome
  <2>0. PICK n \in 1 .. inbox[c] : /\ batch' = [batch EXCEPT ![c] = n]
                                   /\ inbox' = [inbox EXCEPT ![c] = @ - n]
    OBVIOUS
  <2>1. Types'
    BY SMTT(30), <2>0 DEF Inv, Types, Calm, history
  <2>2. Receivers'
    BY <2>0 DEF Inv, Types, Receivers
  <2>3. Ending'
    BY <2>0 DEF Inv, Types, Receivers, Ending
  <2>4. Queue'
    <3>1. \A d \in Conns : d # c => sRecv'[d] = sRecv[d]
      BY DEF Inv, Types
    <3>2. /\ sRecv[c] = "recv" /\ \A i \in DOMAIN backlog : backlog[i] \in Conns
          /\ UNCHANGED <<listening, backlog, sConn, conns, waiting, mgr>>
      BY DEF Inv, Types, Calm, ClientQuiet, history
    <3> HIDE DEF S!RecvSome
    <3> HIDE <1>2
    <3> QED
      BY <3>1, <3>2 DEF Inv, Queue
  <2>5. Place'
    BY HistoryStays DEF Calm
  <2>6. Numbers'
    <3>1. \A d \in Conns : inbox'[d] + batch'[d] = inbox[d] + batch[d]
      <4>1. batch[c] = 0 /\ batch \in [Conns -> Nat] /\ inbox \in [Conns -> Nat]
        BY DEF Inv, Types, Receivers
      <4> QED
        BY <2>0, <4>1
    <3> QED
      BY <3>1 DEF Inv, Numbers, Calm, history
  <2> QED
    BY <2>1, <2>2, <2>3, <2>4, <2>5, <2>6, CalmClient, HistoryStays DEF Inv, Calm
<1> QED
  BY <1>1, <1>2

\* The send daemons, and the clients that close
LEMMA OtherStep ==
  ASSUME Inv, Calm, NEW c, S!Send(c) \/ End(c)
  PROVE  Inv'
<1> USE DEF S!Send, S!SendTop, S!SendRead, S!SendReadDies, S!SendRaw, S!SendPipe,
            End, S!CloseClient, S!ResetClient, S!SendAt, S!Over, S!Die, S!mgrVars, S!client
<1>1. Types'
  BY DEF Inv, Types, Calm, history
<1>2. Receivers'
  BY DEF Inv, Receivers
<1>3. Ending'
  BY DEF Inv, Types, Ending
<1>4. Queue'
  BY DEF Inv, Queue, Calm, ClientQuiet, history
<1> QED
  BY <1>1, <1>2, <1>3, <1>4, CalmClient, HistoryStays DEF Inv, Calm

\* A new connection is the last of the queue, and empty.
LEMMA ConnectStep == ASSUME Inv, Connect PROVE Inv'
<1> USE DEF C!Connect, C!files, C!dogs, C!flags
<1>1. /\ conns' = conns + 1 /\ conn' = conns' /\ conns' \in Conns /\ conns \in Nat
      /\ conns' \in 0 .. MaxConns /\ pc' # "connect"
  BY SystemBounds DEF Inv, ClientSide, Conns, Connect
<1>2. /\ listening /\ UNCHANGED <<listening, sConn, sAlive, sRecv, batch, inbox, mgr, history>>
      /\ peer' = [peer EXCEPT ![conns'] = "open"] /\ backlog' = Append(backlog, conns')
  BY <1>1 DEF Connect, S!Connect, S!mgrVars
<1>3. /\ backlog' \in Seq(Conns) /\ Len(backlog) \in Nat /\ DOMAIN backlog = 1 .. Len(backlog)
      /\ DOMAIN backlog' = 1 .. Len(backlog) + 1
      /\ \A i \in DOMAIN backlog : backlog'[i] = backlog[i]
      /\ backlog'[Len(backlog) + 1] = conns'
  BY <1>1, <1>2, AppendProperties DEF Inv, Types
<1> HIDE DEF C!Connect
<1>4. ClientSide'
  BY <1>1 DEF ClientSide
<1>5. Types' /\ Receivers' /\ Ending'
  <2>1. UNCHANGED main
    BY <1>1 DEF Connect, S!Connect
  <2> QED
    BY <1>2, <1>3, <1>1, <2>1
       DEF Inv, Types, Receivers, Ending, history, Queue, Conns
<1>6. Queue'
  <2>1. sConn' <= conns' /\ sConn < conns'
    BY <1>1, <1>2 DEF Inv, Types, Queue, Conns
  <2>2. \A i \in DOMAIN backlog' :
         sConn < backlog'[i] /\ backlog'[i] <= conns' /\ sRecv[backlog'[i]] = "none"
    <3> SUFFICES ASSUME NEW i \in DOMAIN backlog'
                 PROVE  sConn < backlog'[i] /\ backlog'[i] <= conns' /\ sRecv[backlog'[i]] = "none"
      OBVIOUS
    <3>1. CASE i \in DOMAIN backlog
      <4>1. backlog'[i] = backlog[i] /\ backlog[i] \in Conns
        BY <3>1, <1>3 DEF Inv, Types
      <4> QED
        BY <4>1, <3>1, <1>1 DEF Inv, Queue, Conns
    <3>2. CASE i = Len(backlog) + 1
      BY <3>2, <2>1, <1>1, <1>3 DEF Inv, Queue
    <3> QED
      BY <1>3, <3>1, <3>2
  <2>3. \A i, j \in DOMAIN backlog' : i < j => backlog'[i] < backlog'[j]
    <3> SUFFICES ASSUME NEW i \in DOMAIN backlog', NEW j \in DOMAIN backlog', i < j
                 PROVE  backlog'[i] < backlog'[j]
      OBVIOUS
    <3>0. i \in 1 .. Len(backlog)
      BY <1>3
    <3>1. i \in DOMAIN backlog /\ backlog'[i] = backlog[i] /\ backlog[i] \in Conns
      BY <3>0, <1>3 DEF Inv, Types
    <3>2. CASE j \in DOMAIN backlog
      BY <3>1, <3>2, <1>3 DEF Inv, Queue
    <3>3. CASE j = Len(backlog) + 1
      BY <3>1, <3>3, <1>1, <1>3 DEF Inv, Queue, Conns
    <3> QED
      BY <1>3, <3>2, <3>3
  <2>4. \A c \in Conns : c > conns' => sRecv'[c] = "none" /\ waiting'[c] = << >>
    BY <1>1, <1>2 DEF Inv, Queue, Conns, history
  <2>5. listening' /\ mgr' \notin {"new", "socket"}
    BY <1>2 DEF Inv, Queue
  <2> QED
    BY <1>2, <2>1, <2>2, <2>3, <2>4, <2>5 DEF Queue
<1>7. Place'
  <2>1. \A c \in Conns : Queued(c) => Queued(c)'
    BY <1>2, <1>3 DEF Queued
  <2> QED
    BY <1>2, <2>1 DEF Inv, Place, history
<1> QED
  BY <1>2, <1>4, <1>5, <1>6, <1>7, HistoryStays DEF Inv

\* An order goes behind all others: through the newest connection, and last.
LEMMA SendStep ==
  ASSUME Inv, ClientQuiet, conn # 0, Held(conn), S!SendMsg(conn), NEW order \in Order,
         orders' = Append(orders, [conn |-> conn, order |-> order]),
         waiting' = [waiting EXCEPT ![conn] = Append(@, Len(orders) + 1)],
         UNCHANGED executed
  PROVE  Inv' /\ Orders!Give
<1> DEFINE N == Len(orders) + 1
           w == waiting[conn]
<1> USE DEF S!SendMsg, S!mgrVars
<1>1. conn = conns /\ conn \in Conns /\ conn \in Nat
  BY SystemBounds DEF Inv, ClientSide, Conns
<1>2. /\ orders' \in Seq(Item) /\ Len(orders') = N /\ Len(orders) \in Nat
      /\ \A i \in 1 .. Len(orders) : orders'[i] = orders[i]
  <2>1. [conn |-> conn, order |-> order] \in Item /\ orders \in Seq(Item)
    BY <1>1 DEF Item, Inv, Types
  <2> QED
    BY <2>1, AppendProperties
<1>3. /\ w \in Seq(Nat) /\ waiting'[conn] = Append(w, N) /\ N \in Nat /\ N \in Int
      /\ \A c \in Conns : c # conn => waiting'[c] = waiting[c]
      /\ waiting \in [Conns -> Seq(Nat)]
  BY <1>1, <1>2 DEF Inv, Types
<1>4. /\ waiting'[conn] \in Seq(Nat) /\ Len(w) \in Nat /\ DOMAIN w = 1 .. Len(w)
      /\ DOMAIN waiting'[conn] = 1 .. Len(w) + 1
      /\ Len(waiting'[conn]) = Len(w) + 1
      /\ \A i \in DOMAIN w : waiting'[conn][i] = w[i] /\ w[i] \in Nat
      /\ waiting'[conn][Len(w) + 1] = N
  BY <1>3, AppendProperties
<1> HIDE DEF N, w
<1>5. ClientSide'
  BY SystemBounds DEF Inv, ClientSide, ClientQuiet
<1>6. Types'
  BY SMTT(30), <1>1, <1>2, <1>3, <1>4 DEF Inv, Types
<1>7. Receivers' /\ Ending'
  BY <1>1 DEF Inv, Types, Receivers, Ending
<1>8. Queued(conn)
  BY DEF Held, Queued
<1>9. Queue'
  <2>1. mgr \notin {"new", "socket"}
    BY <1>8, <1>1 DEF Queued, Inv, Queue, Types, Conns
  <2>2. \A c \in Conns : c > conns => waiting'[c] = << >>
    BY <1>1, <1>3 DEF Inv, Queue, Conns
  <2> QED
    BY <2>1, <2>2 DEF Inv, Queue, ClientQuiet
<1>10. Numbers'
  <2>1. \A c \in Conns : Len(waiting'[c]) = inbox'[c] + batch'[c]
    BY SMTT(30), <1>1, <1>3, <1>4 DEF Inv, Types, Numbers, w
  <2>2. \A c \in Conns : \A i \in DOMAIN waiting[c] :
         waiting[c][i] \in Len(executed) + 1 .. Len(orders) /\ waiting[c][i] < N
    BY <1>2 DEF Inv, Numbers, N
  <2>7. Len(executed) \in Nat /\ Len(executed) < N
    BY <1>2 DEF Inv, Types, Prefix, N
  <2>3. \A c \in Conns : \A i \in DOMAIN waiting'[c] :
         waiting'[c][i] \in Len(executed') + 1 .. Len(orders')
    <3> SUFFICES ASSUME NEW c \in Conns, NEW i \in DOMAIN waiting'[c]
                 PROVE  waiting'[c][i] \in Len(executed) + 1 .. N
      BY <1>2
    <3>1. CASE c # conn
      BY <3>1, <1>3, <2>2, <1>2 DEF N
    <3>2. CASE c = conn /\ i \in DOMAIN w
      BY <3>2, <1>4, <2>2, <1>2, <1>1 DEF N, w
    <3>3. CASE c = conn /\ i = Len(w) + 1
      BY <3>3, <1>4, <2>7, <1>3
    <3> QED
      BY <3>1, <3>2, <3>3, <1>4
  <2>4. \A c \in Conns : \A i, j \in DOMAIN waiting'[c] :
         i < j => waiting'[c][i] < waiting'[c][j]
    <3> SUFFICES ASSUME NEW c \in Conns, NEW i \in DOMAIN waiting'[c],
                        NEW j \in DOMAIN waiting'[c], i < j
                 PROVE  waiting'[c][i] < waiting'[c][j]
      OBVIOUS
    <3>1. CASE c # conn
      BY <3>1, <1>3 DEF Inv, Numbers
    <3>2. CASE c = conn /\ j \in DOMAIN w
      <4>1. i \in DOMAIN w
        BY <3>2, <1>4
      <4> QED
        BY SMTT(30), <3>2, <4>1, <1>4, <1>1 DEF Inv, Numbers, w
    <3>3. CASE c = conn /\ j = Len(w) + 1
      <4>1. i \in DOMAIN w
        BY <3>3, <1>4
      <4> QED
        BY <3>3, <4>1, <1>4, <2>2, <1>1 DEF w
    <3> QED
      BY SMTT(30), <3>1, <3>2, <3>3, <1>4
  <2>5. \A c, d \in Conns : c < d =>
         \A i \in DOMAIN waiting'[c], j \in DOMAIN waiting'[d] :
           waiting'[c][i] < waiting'[d][j]
    <3> SUFFICES ASSUME NEW c \in Conns, NEW d \in Conns, c < d,
                        NEW i \in DOMAIN waiting'[c], NEW j \in DOMAIN waiting'[d]
                 PROVE  waiting'[c][i] < waiting'[d][j]
      OBVIOUS
    <3>1. c # conn
      <4> SUFFICES ASSUME c = conn PROVE FALSE
        OBVIOUS
      <4>1. waiting[d] = << >> /\ d # conn
        BY <1>1 DEF Inv, Queue, Conns
      <4>2. DOMAIN waiting'[d] = {}
        BY <4>1, <1>3, EmptySeq
      <4> QED
        BY <4>2
    <3>2. i \in DOMAIN waiting[c] /\ waiting'[c][i] = waiting[c][i]
      BY <3>1, <1>3
    <3>3. CASE d # conn
      BY <3>2, <3>3, <1>3 DEF Inv, Numbers
    <3>4. CASE d = conn /\ j \in DOMAIN w
      BY <3>2, <3>4, <1>4 DEF Inv, Numbers, w
    <3>5. CASE d = conn /\ j = Len(w) + 1
      BY <3>2, <3>5, <1>4, <2>2
    <3> QED
      BY SMTT(30), <3>3, <3>4, <3>5, <1>4
  <2>6. \A k \in Len(executed') + 1 .. Len(orders') :
         \E c \in Conns : \E i \in DOMAIN waiting'[c] : waiting'[c][i] = k
    <3> SUFFICES ASSUME NEW k \in Len(executed) + 1 .. N
                 PROVE  \E c \in Conns : \E i \in DOMAIN waiting'[c] : waiting'[c][i] = k
      BY <1>2
    <3>1. CASE k = N
      <4>1. Len(w) + 1 \in DOMAIN waiting'[conn] /\ waiting'[conn][Len(w) + 1] = k
        BY <3>1, <1>4
      <4> QED
        BY <4>1, <1>1
    <3>2. CASE k # N
      <4>1. k \in Len(executed) + 1 .. Len(orders)
        BY <3>2, <1>2, <2>7 DEF N
      <4>2. PICK c \in Conns : \E i \in DOMAIN waiting[c] : waiting[c][i] = k
        BY <4>1 DEF Inv, Numbers
      <4>3. PICK i \in DOMAIN waiting[c] : waiting[c][i] = k
        BY <4>2
      <4>4. i \in DOMAIN waiting'[c] /\ waiting'[c][i] = k
        <5>1. CASE c # conn
          BY <5>1, <4>3, <1>3
        <5>2. CASE c = conn
          <6>1. i \in DOMAIN w /\ w[i] = k
            BY <5>2, <4>3 DEF w
          <6> QED
            BY <5>2, <6>1, <1>4
        <5> QED
          BY <5>1, <5>2
      <4> QED
        BY <4>4
    <3> QED
      BY <3>1, <3>2
  <2> QED
    BY <2>1, <2>3, <2>4, <2>5, <2>6 DEF Numbers
<1>11. Place'
  <2>1. \A c \in Conns : Queued(c)' <=> Queued(c)
    BY DEF Queued
  <2>2. ~(conn < sConn)
    BY <1>1 DEF Inv, Queue, Types, Conns
  <2> QED
    BY <1>3, <1>8, <2>1, <2>2 DEF Inv, Place
<1>12. Prefix'
  <2>1. /\ Len(executed) \in Nat /\ Len(executed) <= Len(orders)
        /\ DOMAIN executed = 1 .. Len(executed)
    BY LenProperties DEF Inv, Types, Prefix
  <2> QED
    BY <2>1, <1>2 DEF Inv, Prefix, N
<1>13. Orders!Give
  <2>1. UNCHANGED <<main, sRecv>>
    OBVIOUS
  <2>2. [conn |-> conn, order |-> order] \in [conn : Conns, order : Order]
    BY <1>1
  <2> QED
    BY <2>1, <2>2 DEF Orders!Give, S!Failed
<1> QED
  BY <1>5, <1>6, <1>7, <1>9, <1>10, <1>11, <1>12, <1>13 DEF Inv

\* The order carried out is the first of those given that was not yet.
LEMMA ExecuteStep ==
  ASSUME Inv, NEW c \in Conns, Execute(c)
  PROVE  Inv' /\ Orders!Execute
<1> DEFINE k == Len(executed) + 1
           w == waiting[c]
<1> USE DEF Execute, S!Process, S!RecvAt, S!Over, S!mgrVars, S!client, client,
       C!vars
<1>1. c = sConn /\ sRecv[c] = "busy" /\ batch[c] > 0 /\ batch[c] \in Nat /\ inbox[c] \in Nat
  BY DEF Inv, Types, Receivers
<1>2. /\ w \in Seq(Nat) /\ w # << >> /\ Len(w) \in Nat /\ 1 \in DOMAIN w
      /\ DOMAIN w = 1 .. Len(w) /\ Len(w) = inbox[c] + batch[c]
  <2>1. w \in Seq(Nat) /\ Len(w) > 0 /\ Len(w) = inbox[c] + batch[c]
    BY <1>1 DEF Inv, Types, Numbers
  <2> QED
    BY <2>1, LenProperties, EmptySeq
<1>3. /\ waiting'[c] = Tail(w) /\ Head(w) = w[1]
      /\ \A d \in Conns : d # c => waiting'[d] = waiting[d]
      /\ waiting \in [Conns -> Seq(Nat)]
      /\ waiting' \in [Conns -> Seq(Nat)]
      /\ executed' = Append(executed, orders[w[1]])
  BY SMTT(30), <1>2, HeadTailProperties DEF Inv, Types
<1>4. /\ DOMAIN Tail(w) = 1 .. Len(w) - 1 /\ Len(Tail(w)) = Len(w) - 1
      /\ \A i \in DOMAIN Tail(w) : i + 1 \in DOMAIN w /\ Tail(w)[i] = w[i + 1]
  BY SMTT(30), <1>2, HeadTailProperties
<1>5. Len(executed) \in Nat /\ Len(orders) \in Nat /\ k \in Nat /\ executed \in Seq(Item)
  BY SMTT(30) DEF Inv, Types
<1> HIDE DEF k, w
<1>6. \A d \in Conns : \A i \in DOMAIN waiting[d] : waiting[d][i] \in k .. Len(orders)
  BY DEF Inv, Numbers, k
<1>7. \A d \in Conns : d < c => waiting[d] = << >>
  BY <1>1 DEF Inv, Place
<1>8. w[1] = k /\ k <= Len(orders)
  <2>1. w[1] \in k .. Len(orders)
    BY <1>2, <1>6 DEF w
  <2>2. k \in Len(executed) + 1 .. Len(orders)
    BY <2>1, <1>5 DEF k
  <2>3. PICK d \in Conns : \E i \in DOMAIN waiting[d] : waiting[d][i] = k
    BY <2>2 DEF Inv, Numbers
  <2>4. PICK i \in DOMAIN waiting[d] : waiting[d][i] = k
    BY <2>3
  <2>5. ~(d < c)
    BY <1>7, <2>4, EmptySeq
  <2>6. CASE d = c
    <3>1. i \in DOMAIN w /\ w[i] = k
      BY <2>4, <2>6 DEF w
    <3>2. CASE i = 1
      BY <3>1, <3>2, <2>1, <1>5
    <3>3. CASE i # 1
      <4>1. 1 < i
        BY <3>1, <3>3, <1>2
      <4>2. w[1] < w[i]
        BY <3>1, <4>1, <1>2 DEF Inv, Numbers, w
      <4> QED
        BY <3>1, <4>2, <2>1, <1>5
    <3> QED
      BY <3>2, <3>3
  <2>7. CASE d # c
    <3>1. c < d
      BY <2>5, <2>7 DEF Conns
    <3>2. w[1] < k
      BY <3>1, <2>4, <1>2 DEF Inv, Numbers, w
    <3> QED
      BY <3>2, <2>1, <1>5
  <2> QED
    BY <2>6, <2>7
<1>9. /\ executed' = Append(executed, orders[k]) /\ executed' \in Seq(Item)
      /\ Len(executed') = k /\ DOMAIN executed' = 1 .. k /\ DOMAIN executed = 1 .. Len(executed)
      /\ \A i \in DOMAIN executed : executed'[i] = executed[i]
      /\ executed'[k] = orders[k]
  <2>1. orders[k] \in Item
    <3>1. orders \in Seq(Item) /\ k \in 1 .. Len(orders)
      BY <1>5, <1>8 DEF k, Inv, Types
    <3> QED
      BY <3>1
  <2>2. executed' = Append(executed, orders[k])
    BY <1>3, <1>8
  <2> QED
    BY <2>1, <2>2, <1>5, AppendProperties DEF k
<1>10. ClientSide'
  BY DEF Inv, ClientSide
<1>11. Types'
  <2>1. batch' \in [Conns -> Nat]
    BY SMTT(30), <1>1 DEF Inv, Types
  <2> QED
    BY <2>1, <1>3, <1>9 DEF Inv, Types
<1>12. Receivers' /\ Ending'
  BY SMTT(30), <1>1 DEF Inv, Types, Receivers, Ending
<1>13. Queue'
  <2>1. \A i \in DOMAIN backlog : backlog[i] # c /\ backlog[i] \in Conns
    BY <1>1 DEF Inv, Types, Queue
  <2>2. ~(c > conns)
    BY <1>1 DEF Inv, Queue, Conns, ClientSide
  <2>3. mgr \notin {"new", "socket"}
    BY <1>1 DEF Inv, Queue, Conns
  <2>4. \A d \in Conns : d # c => sRecv'[d] = sRecv[d]
    BY DEF Inv, Types
  <2>5. UNCHANGED <<listening, backlog, sConn, conns, mgr>>
    OBVIOUS
  <2> HIDE DEF Execute, S!Process
  <2>6. \A i \in DOMAIN backlog : sRecv'[backlog[i]] = "none"
    BY <2>1, <2>4 DEF Inv, Queue
  <2>7. \A d \in Conns : d > conns => sRecv'[d] = "none" /\ waiting'[d] = << >>
    BY <2>2, <2>4, <1>3 DEF Inv, Queue
  <2> QED
    BY <2>3, <2>5, <2>6, <2>7 DEF Inv, Queue
<1>14. Numbers'
  <2>0. UNCHANGED <<orders, inbox>> /\ batch' = [batch EXCEPT ![c] = @ - 1]
    OBVIOUS
  <2> HIDE DEF Execute, S!Process
  <2>1. \A d \in Conns : Len(waiting'[d]) = inbox'[d] + batch'[d]
    <3> SUFFICES ASSUME NEW d \in Conns
                 PROVE  Len(waiting'[d]) = inbox'[d] + batch'[d]
      OBVIOUS
    <3>1. CASE d = c
      <4>1. batch'[c] = batch[c] - 1
        BY <2>0 DEF Inv, Types
      <4> QED
        BY <3>1, <4>1, <2>0, <1>1, <1>2, <1>3, <1>4
    <3>2. CASE d # c
      <4>1. batch'[d] = batch[d]
        BY <2>0, <3>2 DEF Inv, Types
      <4> QED
        BY <3>2, <4>1, <2>0, <1>3 DEF Inv, Numbers
    <3> QED
      BY <3>1, <3>2
  <2>2. \A d \in Conns : \A i \in DOMAIN waiting'[d] :
         waiting'[d][i] \in k + 1 .. Len(orders)
    <3> SUFFICES ASSUME NEW d \in Conns, NEW i \in DOMAIN waiting'[d]
                 PROVE  waiting'[d][i] \in k + 1 .. Len(orders)
      OBVIOUS
    <3>1. CASE d = c
      <4>1. i + 1 \in DOMAIN w /\ waiting'[d][i] = w[i + 1] /\ i \in Nat /\ 1 < i + 1
        BY <3>1, <1>3, <1>4
      <4>2. w[1] < w[i + 1] /\ w[i + 1] \in k .. Len(orders)
        BY <4>1, <1>2, <1>6 DEF Inv, Numbers, w
      <4> QED
        BY <4>1, <4>2, <1>8, <1>5
    <3>2. CASE d # c
      <4>1. i \in DOMAIN waiting[d] /\ waiting'[d][i] = waiting[d][i]
        BY <3>2, <1>3
      <4>2. ~(d < c)
        BY <4>1, <1>7, EmptySeq
      <4>3. c < d
        BY <4>2, <3>2 DEF Conns
      <4>4. w[1] < waiting[d][i] /\ waiting[d][i] \in k .. Len(orders)
        BY <4>1, <4>3, <1>2, <1>6 DEF Inv, Numbers, w
      <4> QED
        BY <4>1, <4>4, <1>8, <1>5
    <3> QED
      BY <3>1, <3>2
  <2>3. \A d \in Conns : \A i \in DOMAIN waiting'[d] :
         \E j \in DOMAIN waiting[d] :
           waiting'[d][i] = waiting[d][j] /\ j = (IF d = c THEN i + 1 ELSE i)
    <3> SUFFICES ASSUME NEW d \in Conns, NEW i \in DOMAIN waiting'[d]
                 PROVE  \E j \in DOMAIN waiting[d] :
                          waiting'[d][i] = waiting[d][j] /\ j = (IF d = c THEN i + 1 ELSE i)
      OBVIOUS
    <3>1. CASE d = c
      <4>1. i + 1 \in DOMAIN w /\ waiting'[d][i] = w[i + 1]
        BY <3>1, <1>3, <1>4
      <4> QED
        BY <3>1, <4>1 DEF w
    <3>2. CASE d # c
      BY <3>2, <1>3
    <3> QED
      BY <3>1, <3>2
  <2>4. \A d \in Conns : \A i, j \in DOMAIN waiting'[d] :
         i < j => waiting'[d][i] < waiting'[d][j]
    <3> SUFFICES ASSUME NEW d \in Conns, NEW i \in DOMAIN waiting'[d],
                        NEW j \in DOMAIN waiting'[d], i < j
                 PROVE  waiting'[d][i] < waiting'[d][j]
      OBVIOUS
    <3>1. CASE d = c
      <4>1. /\ i + 1 \in DOMAIN w /\ waiting'[d][i] = w[i + 1]
            /\ j + 1 \in DOMAIN w /\ waiting'[d][j] = w[j + 1] /\ i + 1 < j + 1
        BY <3>1, <1>3, <1>4
      <4> QED
        BY <4>1 DEF Inv, Numbers, w
    <3>2. CASE d # c
      BY <3>2, <1>3 DEF Inv, Numbers
    <3> QED
      BY <3>1, <3>2
  <2>5. \A d, e \in Conns : d < e =>
         \A i \in DOMAIN waiting'[d], j \in DOMAIN waiting'[e] :
           waiting'[d][i] < waiting'[e][j]
    <3> SUFFICES ASSUME NEW d \in Conns, NEW e \in Conns, d < e,
                        NEW i \in DOMAIN waiting'[d], NEW j \in DOMAIN waiting'[e]
                 PROVE  waiting'[d][i] < waiting'[e][j]
      OBVIOUS
    <3>1. PICK m \in DOMAIN waiting[d] : waiting'[d][i] = waiting[d][m]
      BY <2>3
    <3>2. PICK n \in DOMAIN waiting[e] : waiting'[e][j] = waiting[e][n]
      BY <2>3
    <3> QED
      BY <3>1, <3>2 DEF Inv, Numbers
  <2>6. \A m \in k + 1 .. Len(orders) :
         \E d \in Conns : \E i \in DOMAIN waiting'[d] : waiting'[d][i] = m
    <3> SUFFICES ASSUME NEW m \in k + 1 .. Len(orders)
                 PROVE  \E d \in Conns : \E i \in DOMAIN waiting'[d] : waiting'[d][i] = m
      OBVIOUS
    <3>1. m \in Len(executed) + 1 .. Len(orders) /\ m # k
      BY <1>5 DEF k
    <3>2. PICK d \in Conns : \E i \in DOMAIN waiting[d] : waiting[d][i] = m
      BY <3>1 DEF Inv, Numbers
    <3>3. PICK i \in DOMAIN waiting[d] : waiting[d][i] = m
      BY <3>2
    <3>4. CASE d # c
      BY <3>3, <3>4, <1>3
    <3>5. CASE d = c
      <4>1. i \in DOMAIN w /\ w[i] = m /\ i # 1
        BY <3>3, <3>5, <3>1, <1>8 DEF w
      <4>2. i \in Nat /\ i - 1 \in DOMAIN Tail(w) /\ (i - 1) + 1 = i
        BY <4>1, <1>2, <1>4
      <4>3. Tail(w)[i - 1] = m
        BY <4>1, <4>2, <1>4
      <4> QED
        BY <4>2, <4>3, <3>5, <1>3
    <3> QED
      BY <3>4, <3>5
  <2> QED
    BY <2>0, <2>1, <2>2, <2>4, <2>5, <2>6, <1>9 DEF Numbers
<1>15. Place'
  <2>1. \A d \in Conns : Queued(d)' <=> Queued(d)
    BY DEF Queued
  <2>2. UNCHANGED <<listening, sConn>>
    OBVIOUS
  <2>3. Queued(c)
    BY <1>1 DEF Queued
  <2> HIDE DEF Execute, S!Process
  <2> QED
    BY <1>1, <1>3, <2>1, <2>2, <2>3 DEF Inv, Place, Conns
<1>16. Prefix'
  <2>0. UNCHANGED orders
    OBVIOUS
  <2>1. \A i \in DOMAIN executed' : executed'[i] = orders[i]
    <3> SUFFICES ASSUME NEW i \in 1 .. k PROVE executed'[i] = orders[i]
      BY <1>9
    <3>1. CASE i = k
      BY <3>1, <1>9
    <3>2. CASE i # k
      <4>1. i \in DOMAIN executed
        BY <3>2, <1>5, <1>9 DEF k
      <4> QED
        BY <4>1, <1>9 DEF Inv, Prefix
    <3> QED
      BY <3>1, <3>2
  <2> QED
    BY <2>0, <2>1, <1>8, <1>9 DEF Prefix
<1>17. Orders!Execute
  <2>1. \A d \in Conns : S!Failed(d)' <=> S!Failed(d)
    BY <1>1 DEF S!Failed, Inv, Types
  <2>2. UNCHANGED <<main, orders>>
    OBVIOUS
  <2>3. Len(executed) < Len(orders)
    BY <1>5, <1>8 DEF k
  <2> HIDE DEF Execute, S!Process
  <2> QED
    BY <2>1, <2>2, <2>3, <1>9 DEF Orders!Execute, k
<1> QED
  BY <1>10, <1>11, <1>12, <1>13, <1>14, <1>15, <1>16, <1>17 DEF Inv

\* A step that neither gives nor carries out an order keeps lost.
Lost == main # "up" \/ \E c \in Conns : S!Failed(c)

LEMMA Alone ==
  ASSUME Inv, Calm, Lost => Lost'
  PROVE  [Orders!Next]_(Orders!vars)
<1>1. UNCHANGED <<orders, executed>>
  BY DEF Calm, history
<1>2. CASE Lost'
  BY <1>1, <1>2 DEF Lost, Orders!Next, Orders!Lose
<1>3. CASE ~Lost'
  BY <1>1, <1>3 DEF Lost, Orders!vars
<1> QED
  BY <1>2, <1>3

\* The server alone
ServerMoves ==
  \/ S!Manager
  \/ \E c \in Conns : \/ S!RecvBegin(c) \/ S!RecvTop(c) \/ S!RecvNothing(c)
                       \/ S!RecvSome(c) \/ S!RecvClosed(c) \/ S!RecvWild(c)
                       \/ S!ProcessDies(c) \/ S!Send(c)
  \/ End(dying) \/ \E c \in Conns : End(c)

LEMMA ServerMove == ASSUME Inv, Calm, ServerMoves PROVE Inv'
<1>1. CASE S!Manager
  BY <1>1, ManagerStep, AcceptStep
<1>2. CASE \E c \in Conns : \/ S!RecvBegin(c) \/ S!RecvTop(c) \/ S!RecvNothing(c)
                       \/ S!RecvSome(c) \/ S!RecvClosed(c) \/ S!RecvWild(c)
                       \/ S!ProcessDies(c)
  BY <1>2, RecvStep
<1>3. CASE \E c \in Conns : S!Send(c)
  BY <1>3, OtherStep
<1>4. CASE End(dying) \/ \E c \in Conns : End(c)
  BY <1>4, OtherStep
<1> QED
  BY <1>1, <1>2, <1>3, <1>4 DEF ServerMoves

\* main never comes up again, and no failed thread is forgotten: accept
\* takes a connection that had none.
LEMMA LostStays == ASSUME Inv, Calm, ServerMoves, Lost PROVE Lost'
<1> USE DEF Lost, S!Failed, S!Over, S!Die, S!mgrVars, S!client
<1>1. CASE S!Manager
  <2>1. CASE S!MgrAccept
    <3>1. /\ backlog # << >> /\ backlog \in Seq(Conns)
          /\ 1 \in DOMAIN backlog /\ Head(backlog) = backlog[1]
      BY <2>1, HeadTailProperties DEF S!MgrAccept, Inv, Types
    <3>2. sRecv[Head(backlog)] = "none"
      BY <3>1 DEF Inv, Queue
    <3>3. UNCHANGED main /\ sRecv' = [sRecv EXCEPT ![Head(backlog)] = "new"]
      BY <2>1 DEF S!MgrAccept
    <3> QED
      BY <3>2, <3>3 DEF Inv, Types
  <2>2. CASE ~S!MgrAccept
    BY <1>1, <2>2 DEF S!Manager, S!MgrBegin, S!MgrSocket, S!MgrTop,
       S!MgrNobody, S!MgrSleep,
         S!MgrLeave, S!MgrDestroy, S!MgrJoinRecv, S!MgrJoinFailed, S!MgrClose, S!MgrAt
  <2> QED
    BY <2>1, <2>2
<1>2. CASE \E c \in Conns : \/ S!RecvBegin(c) \/ S!RecvTop(c) \/ S!RecvNothing(c)
                       \/ S!RecvSome(c) \/ S!RecvClosed(c) \/ S!RecvWild(c)
                       \/ S!ProcessDies(c)
  BY <1>2 DEF S!RecvBegin, S!RecvTop, S!RecvNothing, S!RecvSome, S!RecvClosed,
     S!RecvWild,
              S!ProcessDies, S!RecvAt, Inv, Types
<1>3. CASE \E c \in Conns : S!Send(c)
  BY <1>3 DEF S!Send, S!SendTop, S!SendRead, S!SendReadDies, S!SendRaw,
     S!SendPipe, S!SendAt
<1>4. CASE End(dying) \/ \E c \in Conns : End(c)
  BY <1>4 DEF End, S!CloseClient, S!ResetClient
<1> QED
  BY <1>1, <1>2, <1>3, <1>4 DEF ServerMoves

LEMMA SystemStep == ASSUME Inv, [Next]_vars PROVE Inv' /\ [Orders!Next]_(Orders!vars)
<1>8. ClientSide
  BY DEF Inv
<1>9. ASSUME Calm, ServerMoves PROVE Inv' /\ [Orders!Next]_(Orders!vars)
  BY <1>9, ServerMove, LostStays, Alone
<1>10. ASSUME Calm, UNCHANGED server PROVE Inv' /\ [Orders!Next]_(Orders!vars)
  <2>1. Lost => Lost'
    BY <1>10 DEF server, Lost, S!Failed
  <2> QED
    BY <1>10, <2>1, ClientStep, Alone
<1>1. CASE Connect
  <2>1. Lost' <=> Lost
    BY <1>1 DEF Connect, S!Connect, S!mgrVars, server, Lost, S!Failed
  <2>2. UNCHANGED <<orders, executed>>
    BY <1>1 DEF Connect, history
  <2> QED
    BY <1>1, <2>1, <2>2, ConnectStep DEF Orders!vars, Lost
<1>2. CASE Send
  <2>1. PICK order \in Order :
         Sends(C!SendReset \/ C!SendConf \/ C!SendStart \/ C!SendStop, order)
    BY <1>2 DEF Send, Sends, Order
  <2>2. ClientQuiet
    BY <2>1, <1>8, ClientAlone DEF Sends
  <2>3. CASE conn # 0 /\ alive[conn] /\ Held(conn)
    BY <2>1, <2>2, <2>3, SendStep DEF Sends, Orders!Next
  <2>4. CASE ~(conn # 0 /\ alive[conn] /\ Held(conn))
    BY <2>1, <2>2, <2>4, <1>10 DEF Sends, Calm, history
  <2> QED
    BY <2>3, <2>4
<1>3. CASE SendPipe \/ ClientMain \/ Operator \/ (\E t \in C!Threads : Thread(t))
           \/ (\E c \in Conns : RecvRuns(c) \/ RecvPeer(c)) \/ UNCHANGED vars
  <2>1. UNCHANGED server /\ UNCHANGED history
    BY <1>3 DEF SendPipe, ClientMain, Operator, Thread, RecvRuns, RecvPeer, vars
  <2>2. ClientQuiet
    BY <1>3, <1>8, ClientAlone
       DEF SendPipe, ClientMain, Operator, Thread, RecvRuns, RecvPeer, vars
  <2> QED
    BY <2>1, <2>2, <1>10 DEF Calm
<1>4. CASE Close
  <2>1. Calm
    BY <1>4, <1>8, ClientAlone DEF Close, Calm
  <2>2. CASE S!Over
    BY <1>4, <2>1, <2>2, <1>10 DEF Close
  <2>3. CASE ~S!Over
    BY <1>4, <2>1, <2>3, <1>9 DEF Close, ServerMoves
  <2> QED
    BY <2>2, <2>3
<1>5. CASE CloseAll
  <2>1. Calm
    BY <1>5, <1>8, ClientAlone DEF CloseAll, Calm
  <2>2. ServerMoves
    BY <1>5 DEF CloseAll, ServerMoves
  <2> QED
    BY <2>1, <2>2, <1>9
<1>6. CASE Manager \/ (\E c \in Conns : ServerRecv(c) \/ SendDaemon(c))
  <2>1. Calm
    BY <1>6, <1>8, ClientAlone DEF Manager, ServerRecv, SendDaemon, Calm
  <2>2. ServerMoves
    BY <1>6 DEF Manager, ServerRecv, SendDaemon, ServerMoves
  <2> QED
    BY <2>1, <2>2, <1>9
<1>7. CASE \E c \in Conns : Execute(c)
  BY <1>7, ExecuteStep DEF Orders!Next
<1> QED
  BY <1>1, <1>2, <1>3, <1>4, <1>5, <1>6, <1>7 DEF Next, Step, Main

\* OrderSteps for any bounds: orders are carried out in the order in which
\* they were given and none is passed over, though a reset opens the new
\* connection before it closes the old one, the server serves one connection
\* at a time, reads several commands at once and may end at any point.
THEOREM OrdersInOrder == Spec => OrderSteps
<1>1. Init => Orders!Init
  BY DEF Init, S!Init, Orders!Init, S!Failed
<1>2. Inv /\ [Next]_vars => Inv'
  BY SystemStep
<1>3. Inv /\ [Next]_vars => [Orders!Next]_(Orders!vars)
  BY SystemStep
<1> QED
  BY <1>1, <1>2, <1>3, SystemInit, PTL DEF Spec, OrderSteps

\* What the board was told is at any time the beginning of what the operator
\* ordered, and the n-th order is the n-th command of the server.
THEOREM CarriedOut == Spec => []Prefix
<1>1. Inv /\ [Next]_vars => Inv'
  BY SystemStep
<1>2. Inv => Prefix
  BY DEF Inv
<1> QED
  BY <1>1, <1>2, SystemInit, PTL DEF Spec
----------------------------------------------------------------------------
(* What TcpClient takes its server to do, and TcpServer its clients, covers *)
(* what the two do to each other.                                          *)

\* A step of the system is one of the client's own, or leaves it alone.
LEMMA ClientOwn == [Next]_vars => [C!Next]_(C!vars)
<1> SUFFICES ASSUME [Next]_vars PROVE C!Next \/ UNCHANGED client
  BY DEF client, C!vars, C!link, C!files, C!dogs, C!flags
<1>1. CASE UNCHANGED vars
  BY <1>1 DEF vars
<1>2. CASE Connect \/ Close \/ ClientMain
  BY <1>2 DEF Connect, Close, ClientMain, C!Next, C!Main
<1>3. CASE Send \/ SendPipe
  BY <1>3 DEF Send, Sends, SendPipe, C!Next, C!Main
<1>4. CASE Operator \/ \E t \in C!Threads : Thread(t)
  BY <1>4 DEF Operator, Thread, C!Next
<1>5. CASE \E c \in Conns : RecvRuns(c) \/ RecvPeer(c)
  BY <1>5 DEF RecvRuns, RecvPeer, Conns, C!Conns, C!Next, C!RecvPeer
<1>6. CASE \/ CloseAll \/ Manager
           \/ \E c \in Conns : ServerRecv(c) \/ Execute(c) \/ SendDaemon(c)
  BY <1>6 DEF CloseAll, Manager, ServerRecv, Execute, SendDaemon
<1> QED
  BY <1>1, <1>2, <1>3, <1>4, <1>5, <1>6 DEF Next, Step, Main

\* The connection in ~TcpConnection is one that was made.
Dying == pc \in {"drop", "joinRecv"} => dying \in Conns

LEMMA DyingStep == Inv /\ Dying /\ [C!Next]_(C!vars) => Dying'
<1> SUFFICES ASSUME Inv, Dying, [C!Next]_(C!vars),
                    pc' \in {"drop", "joinRecv"}
             PROVE  dying' \in Conns
  BY DEF Dying
<1>1. conn \in Conns \cup {0}
  BY SystemBounds DEF Inv, ClientSide, Conns
<1> USE DEF C!files, C!dogs, C!link, C!flags, C!vars, C!Command, C!Deliver
<1>2. CASE UNCHANGED C!vars
  BY <1>2 DEF Dying
<1>3. CASE C!Connect \/ C!Drop \/ C!JoinRecv \/ C!JoinFailed \/ C!WatchDone
  BY <1>1, <1>3 DEF Dying, C!Connect, C!Drop, C!JoinRecv, C!JoinFailed,
                    C!WatchDone
<1>4. CASE C!Main /\ ~(\/ C!Connect \/ C!Drop \/ C!JoinRecv \/ C!JoinFailed
                       \/ C!WatchDone)
  BY <1>4 DEF C!Main, C!SendReset, C!SendConf, C!Open, C!Spawn, C!Assign,
              C!Ring, C!SendStart, C!Watch, C!AssignWatch, C!SendStop,
              C!Unwatch, C!JoinWatch, C!DataDone, C!Join
<1>5. CASE C!Operator \/ C!SendPipe \/ C!MoveFile
  BY <1>5 DEF C!Operator, C!CmdReset, C!CmdConf, C!CmdStart, C!CmdStop,
              C!Quit, C!SendPipe, C!MoveFile
<1>6. CASE \E t \in C!Threads : C!Thread(t)
  BY <1>6 DEF Dying, C!Thread, C!SaverLoop, C!WatchBegins, C!WatchLoop
<1>7. CASE \E c \in C!Conns : C!RecvRuns(c) \/ C!RecvPeer(c)
  BY <1>7 DEF Dying, C!RecvRuns, C!RecvPeer, C!RecvNothing, C!RecvData,
              C!RecvClosed, C!RecvWild, C!RecvBegin, C!RecvTop, C!RecvFed,
              C!RecvTo
<1> QED
  BY <1>2, <1>3, <1>4, <1>5, <1>6, <1>7 DEF C!Next

\* A step of the system is one of the server's own, or of one of its clients,
\* or leaves it alone.
LEMMA ServerOwn == Inv /\ Dying /\ [Next]_vars => [S!Next]_(S!vars)
<1> SUFFICES ASSUME Inv, Dying, [Next]_vars PROVE S!Next \/ UNCHANGED server
  BY DEF server, S!vars, S!mgrVars, S!client
<1>1. CASE UNCHANGED vars
  BY <1>1 DEF vars
<1>2. CASE Connect
  <2>1. conns' > conns => conns' \in Conns
    BY <1>2, SystemBounds DEF Connect, C!Connect, Inv, ClientSide, Conns
  <2> QED
    BY <1>2, <2>1 DEF Connect, S!Next, S!Client
<1>3. CASE Close
  BY <1>3 DEF Close, End, C!JoinRecv, Dying, S!Next, S!Client
<1>7. CASE Send
  <2>1. conn # 0 => conn \in Conns
    BY SystemBounds DEF Inv, ClientSide, Conns
  <2> QED
    BY <1>7, <2>1 DEF Send, Sends, S!Next, S!Client
<1>4. CASE \/ ClientMain \/ SendPipe \/ Operator
           \/ \E t \in C!Threads : Thread(t)
           \/ \E c \in Conns : RecvRuns(c) \/ RecvPeer(c)
  BY <1>4 DEF ClientMain, SendPipe, Operator, Thread, RecvRuns, RecvPeer
<1>5. CASE CloseAll
  BY <1>5 DEF CloseAll, End, S!Next, S!Client
<1>6. CASE \/ Manager
           \/ \E c \in Conns : ServerRecv(c) \/ Execute(c) \/ SendDaemon(c)
  BY <1>6 DEF Manager, ServerRecv, Execute, SendDaemon, S!Next, S!Recv
<1> QED
  BY <1>1, <1>2, <1>3, <1>4, <1>5, <1>6, <1>7 DEF Next, Step, Main

\* On each side the system is what TcpClient and TcpServer say: what the one
\* takes for possible of its server, and the other of its clients, covers what
\* the two do to each other.
THEOREM EachAsAlone ==
  Spec => /\ C!Init /\ [][C!Next]_(C!vars)
          /\ S!Init /\ [][S!Next]_(S!vars)
<1>1. Init => C!Init /\ S!Init /\ Dying
  BY DEF Init, C!Init, Dying
<1>2. Inv /\ [Next]_vars => Inv'
  BY SystemStep
<1>3. Inv /\ Dying /\ [Next]_vars => Dying'
  BY DyingStep, ClientOwn
<1> QED
  BY <1>1, <1>2, <1>3, SystemInit, ClientOwn, ServerOwn, PTL DEF Spec
----------------------------------------------------------------------------
(* So what the proofs of the parts show holds of them together.  The proofs *)
(* are those of further instances of TcpClient and TcpServer, which are the *)
(* same as those of DaqSystem word by word.                                *)

CP == INSTANCE TcpClientProofs WITH Reset <- TRUE, Moving <- FALSE
SP == INSTANCE TcpServerProofs
        WITH Clients <- Conns, MaxMsgs <- MaxCmds, Throwing <- FALSE,
             conn <- sConn, alive <- sAlive, recv <- sRecv

LEMMA SameClient ==
  /\ C!Init => CP!Init
  /\ [C!Next]_(C!vars) => [CP!Next]_(CP!vars)
<1>1. C!Init => CP!Init
  BY DEF C!Init, CP!Init, C!Threads, CP!Threads, C!Conns, CP!Conns
<1>2. [C!Next]_(C!vars) => [CP!Next]_(CP!vars)
  BY DEF C!vars, CP!vars, C!link, CP!link, C!files, CP!files, C!dogs, CP!dogs,
         C!flags, CP!flags, C!Threads, CP!Threads, C!Conns, CP!Conns, C!Over,
         CP!Over, C!Begun, CP!Begun, C!Command, CP!Command, C!Deliver,
         CP!Deliver, C!RecvTo, CP!RecvTo, C!Next, CP!Next, C!Main, CP!Main,
         C!Connect, CP!Connect, C!Drop, CP!Drop, C!JoinRecv, CP!JoinRecv,
         C!JoinFailed, CP!JoinFailed, C!SendReset, CP!SendReset, C!SendConf,
         CP!SendConf, C!Open, CP!Open, C!Spawn, CP!Spawn, C!Assign, CP!Assign,
         C!Ring, CP!Ring, C!SendStart, CP!SendStart, C!Watch, CP!Watch,
         C!AssignWatch, CP!AssignWatch, C!SendStop, CP!SendStop, C!Unwatch,
         CP!Unwatch, C!JoinWatch, CP!JoinWatch, C!DataDone, CP!DataDone,
         C!Join, CP!Join, C!WatchDone, CP!WatchDone, C!SendPipe, CP!SendPipe,
         C!Operator, CP!Operator, C!CmdReset, CP!CmdReset, C!CmdConf,
         CP!CmdConf, C!CmdStart, CP!CmdStart, C!CmdStop, CP!CmdStop, C!Quit,
         CP!Quit, C!MoveFile, CP!MoveFile, C!Thread, CP!Thread, C!SaverLoop,
         CP!SaverLoop, C!WatchBegins, CP!WatchBegins, C!WatchLoop,
         CP!WatchLoop, C!RecvRuns, CP!RecvRuns, C!RecvPeer, CP!RecvPeer,
         C!RecvBegin, CP!RecvBegin, C!RecvTop, CP!RecvTop, C!RecvNothing,
         CP!RecvNothing, C!RecvFed, CP!RecvFed, C!RecvData, CP!RecvData,
         C!RecvClosed, CP!RecvClosed, C!RecvWild, CP!RecvWild
<1> QED
  BY <1>1, <1>2

LEMMA SameServer ==
  /\ S!Init => SP!Init
  /\ [S!Next]_(S!vars) => [SP!Next]_(SP!vars)
<1>1. S!Init => SP!Init
  BY DEF S!Init, SP!Init
<1>2. [S!Next]_(S!vars) => [SP!Next]_(SP!vars)
  BY DEF S!vars, SP!vars, S!mgrVars, SP!mgrVars, S!client, SP!client, S!Over,
         SP!Over, S!Die, SP!Die, S!MgrAt, SP!MgrAt, S!RecvAt, SP!RecvAt,
         S!SendAt, SP!SendAt, S!Next, SP!Next, S!Main, SP!Main, S!Interrupt,
         SP!Interrupt, S!Close, SP!Close, S!Joined, SP!Joined, S!Manager, SP!Manager, S!MgrBegin,
         SP!MgrBegin, S!MgrSocket, SP!MgrSocket, S!MgrTop, SP!MgrTop,
         S!MgrAccept, SP!MgrAccept, S!MgrNobody, SP!MgrNobody, S!MgrSleep,
         SP!MgrSleep, S!MgrLeave, SP!MgrLeave, S!MgrDestroy, SP!MgrDestroy,
         S!MgrJoinRecv, SP!MgrJoinRecv, S!MgrJoinFailed, SP!MgrJoinFailed,
         S!MgrClose, SP!MgrClose, S!Recv, SP!Recv, S!RecvBegin, SP!RecvBegin,
         S!RecvTop, SP!RecvTop, S!RecvNothing, SP!RecvNothing, S!RecvSome,
         SP!RecvSome, S!RecvClosed, SP!RecvClosed, S!RecvWild, SP!RecvWild,
         S!Process, SP!Process, S!ProcessDies, SP!ProcessDies, S!ProcessThrows,
         SP!ProcessThrows, S!Send, SP!Send, S!SendTop, SP!SendTop, S!SendRead,
         SP!SendRead, S!SendReadDies, SP!SendReadDies, S!SendRaw, SP!SendRaw,
         S!SendPipe, SP!SendPipe, S!Client, SP!Client, S!Connect, SP!Connect,
         S!SendMsg, SP!SendMsg, S!CloseClient, SP!CloseClient,
         S!ResetClient, SP!ResetClient
<1> QED
  BY <1>1, <1>2

\* The assumptions of the two modules hold of the system's constants.
LEMMA ClientParts ==
  /\ CP!Init => CP!CInv
  /\ CP!CInv /\ [CP!Next]_(CP!vars) => CP!CInv'
  /\ CP!Init => CP!OneFile
  /\ CP!OneFile /\ [CP!Next]_(CP!vars) => CP!OneFile'
  /\ CP!CInv /\ CP!OneFile => CP!OneSaver
  /\ CP!CInv => CP!AcceptHasSaver /\ CP!OneFeeder
  /\ CP!CInv /\ [CP!Next]_(CP!vars)
       => [told' # told => /\ told' = "start" => accept
                           /\ told' = "stop" => ~accept]_(CP!vars)
<1>1. /\ {MaxRuns, MaxCmds, MaxConns} \subseteq Nat
      /\ {Prompt, TRUE, FALSE} \subseteq BOOLEAN
  BY SystemBounds, SystemHabits
<1>2. CP!Init => CP!OneFile
  BY DEF CP!Init, CP!OneFile
<1> QED
  BY <1>1, <1>2, CP!ClientInit, CP!ClientStep, CP!FileStep, CP!OneUser,
     CP!RingUsers, CP!ToldStep

LEMMA ServerParts ==
  /\ SP!Init => SP!SInv
  /\ SP!SInv /\ [SP!Next]_(SP!vars) => SP!SInv'
  /\ SP!SInv => SP!OnlyConn
<1>1. /\ {MaxCmds, Backlog} \subseteq Nat
      /\ Prompt \in BOOLEAN /\ FALSE \in BOOLEAN
      /\ 0 \notin Conns
  BY SystemBounds, SystemHabits DEF Conns
<1>2. SP!SInv => SP!OnlyConn
  BY DEF SP!SInv
<1> QED
  BY <1>1, <1>2, SP!ServerInit, SP!ServerStep

\* Client and server together: one reader and one writer of the ring, data
\* accepted only while it is drained, the server told in the right order, and
\* its threads on no connection but the one it has.
THEOREM TogetherSafe ==
  Spec => /\ [](OneSaver /\ CP!AcceptHasSaver /\ CP!OneFeeder)
          /\ CP!ToldInOrder
          /\ []SP!OnlyConn
<1>1. Spec => /\ CP!Init /\ [][CP!Next]_(CP!vars)
              /\ SP!Init /\ [][SP!Next]_(SP!vars)
  BY EachAsAlone, SameClient, SameServer, PTL
<1>2. CP!Init /\ [][CP!Next]_(CP!vars)
        => [](CP!OneSaver /\ CP!AcceptHasSaver /\ CP!OneFeeder) /\ CP!ToldInOrder
  BY ClientParts, PTL DEF CP!ToldInOrder
<1>3. SP!Init /\ [][SP!Next]_(SP!vars) => []SP!OnlyConn
  BY ServerParts, PTL
<1>4. CP!OneSaver => OneSaver
  BY DEF OneSaver, C!OneSaver, CP!OneSaver, C!Savers, CP!Savers, C!Threads,
         CP!Threads
<1> QED
  BY <1>1, <1>2, <1>3, <1>4, PTL
=============================================================================
