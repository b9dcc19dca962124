----------------------------- MODULE DaqSystem -----------------------------
(***************************************************************************)
(* The client and the server together.  A connection is the same number on *)
(* both sides: what TcpClient's main does to it (connect, send, close) is  *)
(* what a client does in TcpServer, and what TcpClient takes for possible  *)
(* at any time (the connection is closed or reset, a write finds nobody)   *)
(* happens only when the server has given the connection up.               *)
(*                                                                         *)
(* The operator resets first, leaves the data file where it is, and nobody *)
(* stops the server; no order throws; what the client does after the       *)
(* server's process has died is left out.  (TcpClient and TcpServer have   *)
(* all of this.)                                                           *)
(*                                                                         *)
(* orders and executed are history: the commands that reached the server's *)
(* end of a connection, and those it has carried out.  waiting says which  *)
(* commands the bytes between the two are, by their numbers in orders.     *)
(* (What a failed recv makes the parser take for a command, S!RecvWild, is *)
(* none: executed does not count it.)                                      *)
(***************************************************************************)
EXTENDS Naturals, Sequences

CONSTANTS MaxRuns, MaxCmds, MaxConns, Prompt, Backlog

ASSUME SystemBounds == {MaxRuns, MaxCmds, MaxConns, Backlog} \subseteq Nat
ASSUME SystemHabits == Prompt \in BOOLEAN

VARIABLES
  pc, cmds, quitting, conns, conn, dying, alive, recv, accept, told,
  file, runs, saver, futData, watch, watches, watching, futWatch,
  dataDone, watchDone,                               \* TcpClient
  main, isActive, mgr, listening, backlog, sConn, sAlive, sRecv,
  batch, send, peer, inbox,                          \* TcpServer
  orders, executed,
  waiting    \* of each connection, the orders on their way through it

Conns == 1 .. MaxConns

C == INSTANCE TcpClient WITH Reset <- TRUE, Moving <- FALSE
S == INSTANCE TcpServer
       WITH Clients <- Conns, MaxMsgs <- MaxCmds, Throwing <- FALSE,
            conn <- sConn, alive <- sAlive, recv <- sRecv

client == <<pc, cmds, quitting, conns, conn, dying, alive, recv, accept, told,
            file, runs, saver, futData, watch, watches, watching, futWatch,
            dataDone, watchDone>>
server == <<main, isActive, mgr, listening, backlog, sConn, sAlive, sRecv,
            batch, send, peer, inbox>>
history == <<orders, executed, waiting>>
vars == <<client, server, history>>

Init ==
  /\ C!Init /\ S!Init
  /\ orders = << >> /\ executed = << >> /\ waiting = [c \in Conns |-> << >>]

\* The server's end of a connection is open, accepted or not.
Held(c) ==
  /\ ~S!Over /\ peer[c] # "idle"
  /\ c = sConn \/ c \in {backlog[i] : i \in DOMAIN backlog}

Order == {"reset", "conf", "start", "stop"}
----------------------------------------------------------------------------
\* The socket is connected when the kernel of the server has queued it.
Connect ==
  /\ C!Connect
  /\ IF conns' > conns THEN S!Connect(conns') ELSE UNCHANGED server
  /\ UNCHANGED history

\* What is written goes to the server's end of the connection, if there is
\* one; a write that finds it closed is lost, or raises SIGPIPE.
Sends(Command, order) ==
  /\ Command
  /\ IF conn # 0 /\ alive[conn] /\ Held(conn)
       THEN /\ S!SendMsg(conn)
            /\ orders' = Append(orders, [conn |-> conn, order |-> order])
            /\ waiting' = [waiting EXCEPT ![conn] = Append(@, Len(orders) + 1)]
       ELSE UNCHANGED <<server, orders, waiting>>
  /\ UNCHANGED executed

Send == \/ Sends(C!SendReset, "reset") \/ Sends(C!SendConf, "conf")
        \/ Sends(C!SendStart, "start") \/ Sends(C!SendStop, "stop")

SendPipe == C!SendPipe /\ ~Held(conn) /\ UNCHANGED <<server, history>>

\* The client's end of a connection is closed: data of the send daemon that it
\* has not read make that a reset.
End(c) ==
  \/ S!CloseClient(c)
  \/ send[c] # "none" /\ S!ResetClient(c)

\* close() in ~TcpConnection
Close ==
  /\ C!JoinRecv
  /\ IF S!Over THEN UNCHANGED server ELSE End(dying)
  /\ UNCHANGED history

\* The kernel closes the sockets of a client that is no more.
CloseAll ==
  /\ pc \in C!Over
  /\ \E c \in Conns : End(c)
  /\ UNCHANGED <<client, history>>

\* What the receive threads of the client see of the server.
RecvPeer(c) ==
  /\ \/ C!RecvData(c) /\ send[c] # "none"
     \/ (C!RecvClosed(c) \/ C!RecvWild(c)) /\ ~Held(c)
  /\ UNCHANGED <<server, history>>

\* All else is done by one side alone.
ClientMain ==
  /\ \/ C!Drop \/ C!JoinFailed \/ C!Open \/ C!Spawn \/ C!Assign \/ C!Ring
     \/ C!Watch \/ C!AssignWatch \/ C!Unwatch \/ C!JoinWatch \/ C!DataDone
     \/ C!Join \/ C!WatchDone
  /\ UNCHANGED <<server, history>>
Operator == C!Operator /\ UNCHANGED <<server, history>>
Thread(t) == C!Thread(t) /\ UNCHANGED <<server, history>>
RecvRuns(c) == C!RecvRuns(c) /\ UNCHANGED <<server, history>>
RecvNothing(c) == C!RecvNothing(c) /\ UNCHANGED <<server, history>>

MgrAccept == S!MgrAccept /\ UNCHANGED <<client, history>>
Manager == S!Manager /\ UNCHANGED <<client, history>>
SendDaemon(c) == S!Send(c) /\ UNCHANGED <<client, history>>
ServerRecv(c) ==
  /\ \/ S!RecvBegin(c) \/ S!RecvTop(c) \/ S!RecvNothing(c) \/ S!RecvSome(c)
     \/ S!RecvClosed(c) \/ S!RecvWild(c) \/ S!ProcessDies(c)
  /\ UNCHANGED <<client, history>>

\* The receive thread of the server carries out the order that has come first
\* through its connection.
Execute(c) ==
  /\ S!Process(c)
  /\ executed' = Append(executed, orders[Head(waiting[c])])
  /\ waiting' = [waiting EXCEPT ![c] = Tail(@)]
  /\ UNCHANGED <<client, orders>>

Main == Connect \/ Send \/ Close \/ ClientMain
Step == \/ Main \/ SendPipe \/ CloseAll \/ Operator \/ Manager
        \/ \E t \in C!Threads : Thread(t)
        \/ \E c \in Conns : \/ RecvRuns(c) \/ RecvPeer(c)
                            \/ ServerRecv(c) \/ Execute(c) \/ SendDaemon(c)

\* The system ends with the server's process.
Next == ~S!Over /\ Step

\* The fairness of both, and the kernel's.
Fairness ==
  /\ WF_vars(~S!Over /\ Main) /\ WF_vars(~S!Over /\ CloseAll)
  /\ \A c \in Conns : /\ WF_vars(~S!Over /\ RecvRuns(c))
                      /\ SF_vars(~S!Over /\ RecvNothing(c))
  /\ WF_vars(Manager) /\ SF_vars(MgrAccept)
  /\ \A c \in Conns :
       WF_vars(ServerRecv(c) \/ Execute(c)) /\ WF_vars(SendDaemon(c))

Spec == Init /\ [][Next]_vars /\ Fairness
----------------------------------------------------------------------------
Orders == INSTANCE OrderQueue
            WITH Order <- [conn : Conns, order : Order],
                 lost <- main # "up" \/ \E c \in Conns : S!Failed(c)

\* Orders are carried out in the order in which they were given, across the
\* connections that resets make, none is passed over, and all of them are
\* carried out, unless the server ends or the thread that carries them out has
\* thrown (S!RecvWild).
OrderSpec == Orders!Spec

\* The same without what must happen in the end.
OrderSteps == Orders!Init /\ [][Orders!Next]_(Orders!vars)

\* The ring has one reader, as it is made for (daqb.cc:154): where nobody moves
\* the data file away, that it exists keeps a second start from launching a
\* second saver while the first reads.
OneSaver == C!OneSaver
=============================================================================
