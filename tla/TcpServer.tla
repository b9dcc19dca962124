----------------------------- MODULE TcpServer -----------------------------
(***************************************************************************)
(* The server on the DAQ board: TcpServer (daqb/lib/TcpServer.cc), its     *)
(* main (daqb/exe/comet_wsf_tcpserver.cc) and the TcpConnection            *)
(* (daqb/lib/TcpConnection.cc) it has with one client at a time.           *)
(*                                                                         *)
(* Threads: main; the client manager; and for each connection its receive  *)
(* thread, which carries out the commands, and its send daemon, which      *)
(* forwards data packs.  What a command does to the board is RegCtrl, how  *)
(* a pack is read is PackReader; here a command or a read ends, ends the   *)
(* process, or throws.                                                     *)
(*                                                                         *)
(* Clients are external: they connect, send commands, and close or reset   *)
(* the connection, and their bytes arrive in order and before either.  A   *)
(* client is the number of its one connection.                             *)
(***************************************************************************)
EXTENDS Naturals, Sequences, FiniteSets

CONSTANTS Clients,  \* connections the clients make
          MaxMsgs,  \* bound: commands sent over a connection
          Backlog,  \* connections the kernel keeps for accept (listen(1): 2)
          Prompt,   \* TRUE: a thread launched starts within a second, and no
                    \* SIGINT comes before the manager has started
          Throwing  \* TRUE: a command may throw an exception

ASSUME ServerBounds == {MaxMsgs, Backlog} \subseteq Nat
ASSUME ServerHabits == Prompt \in BOOLEAN /\ Throwing \in BOOLEAN
ASSUME NoClientIsNull == 0 \notin Clients

VARIABLES
  main,       \* "up", "stopping" from the first SIGINT on, "closing" in
              \* ~TcpServer, "gone", or "dead": the process was ended by
              \* std::terminate, SIGPIPE or a crash
  isActive,   \* m_isActive of the server
  mgr,        \* what the client manager is about to do
  listening,  \* the listening socket is open
  backlog,    \* connections waiting for accept
  conn,       \* the manager's conn, 0 for null
  alive,      \* m_isAlive of each connection
  recv,       \* its receive thread
  batch,      \* messages unpacked and not yet processed
  send,       \* its send daemon
  peer,       \* the client's end: "idle", "open", "closed" (it has sent FIN)
              \* or "reset" (it has sent RST)
  inbox       \* messages received and not yet read

mgrVars == <<mgr, listening, conn>>
client == <<backlog, peer, inbox>>
vars == <<main, isActive, mgrVars, alive, recv, batch, send, client>>

Init ==
  /\ main = "up" /\ isActive = TRUE \* the constructor of TcpServer
  /\ mgr = "new" /\ listening = FALSE /\ conn = 0 /\ backlog = << >>
  /\ alive = [c \in Clients |-> FALSE]
  /\ recv = [c \in Clients |-> "none"] /\ batch = [c \in Clients |-> 0]
  /\ send = [c \in Clients |-> "none"]
  /\ peer = [c \in Clients |-> "idle"] /\ inbox = [c \in Clients |-> 0]

Over == main \in {"gone", "dead"}
Die == main' = "dead"

\* Where the threads are, while the process lives.
MgrAt(step) == ~Over /\ mgr = step
RecvAt(c, step) == ~Over /\ recv[c] = step
SendAt(c, step) == ~Over /\ send[c] = step
----------------------------------------------------------------------------
\* The handler of SIGINT sets g_done.
Interrupt ==
  /\ main = "up" /\ main' = "stopping"
  /\ Prompt => mgr # "new"
  /\ UNCHANGED <<isActive, mgrVars, alive, recv, batch, send, client>>

\* main, which looks once a second, leaves; ~TcpServer clears m_isActive, ...
Close ==
  /\ main = "stopping" /\ main' = "closing"
  /\ isActive' = FALSE
  /\ UNCHANGED <<mgrVars, alive, recv, batch, send, client>>

\* ... and waits for the manager.
Joined ==
  /\ main = "closing" /\ mgr = "ended"
  /\ main' = "gone"
  /\ UNCHANGED <<isActive, mgrVars, alive, recv, batch, send, client>>

Main == Interrupt \/ Close \/ Joined
----------------------------------------------------------------------------
\* threadClientMananger
MgrBegin ==
  /\ MgrAt("new") /\ mgr' = "socket"
  /\ isActive' = TRUE
  /\ UNCHANGED <<main, listening, conn, alive, recv, batch, send, client>>

\* createServerSocket, which may fail to bind
MgrSocket ==
  /\ MgrAt("socket") /\ mgr' = "top"
  /\ \/ listening' = TRUE /\ UNCHANGED isActive
     \/ isActive' = FALSE /\ UNCHANGED listening
  /\ UNCHANGED <<main, conn, alive, recv, batch, send, client>>

\* The head of the loop; a connection found dead is destroyed.
MgrTop ==
  /\ MgrAt("top")
  /\ mgr' = CASE ~isActive -> "leave"
              [] isActive /\ conn = 0 -> "accept"
              [] isActive /\ conn # 0 ->
                   IF alive[conn] THEN "sleep" ELSE "destroy"
  /\ UNCHANGED <<main, isActive, listening, conn, alive, recv, batch, send,
                 client>>

\* waitForNewClient: accept, and the constructor launches both threads.
MgrAccept ==
  /\ MgrAt("accept") /\ mgr' = "sleep"
  /\ backlog # << >> /\ backlog' = Tail(backlog) /\ conn' = Head(backlog)
  /\ alive' = [alive EXCEPT ![conn'] = TRUE]
  /\ recv' = [recv EXCEPT ![conn'] = "new"]
  /\ send' = [send EXCEPT ![conn'] = "top"]
  /\ UNCHANGED <<main, isActive, listening, batch, peer, inbox>>

\* Nobody came within the second, or accept failed.
MgrNobody ==
  /\ MgrAt("accept") /\ mgr' = "sleep"
  /\ UNCHANGED <<main, isActive, listening, conn, alive, recv, batch, send,
                 client>>

MgrSleep ==
  /\ MgrAt("sleep") /\ mgr' = "top"
  /\ (Prompt /\ conn # 0) => recv[conn] # "new"
  /\ UNCHANGED <<main, isActive, listening, conn, alive, recv, batch, send,
                 client>>

\* The listening socket is closed, and conn goes out of scope.
MgrLeave ==
  /\ MgrAt("leave")
  /\ mgr' = IF conn = 0 THEN "ended" ELSE "destroy"
  /\ listening' = FALSE /\ backlog' = << >>
  /\ UNCHANGED <<main, isActive, conn, alive, recv, batch, send, peer, inbox>>

\* ~TcpConnection: m_isAlive is cleared, ...
MgrDestroy ==
  /\ MgrAt("destroy") /\ mgr' = "joinRecv"
  /\ alive' = [alive EXCEPT ![conn] = FALSE]
  /\ UNCHANGED <<main, isActive, listening, conn, recv, batch, send, client>>

\* ... the receive thread has ended, ...
MgrJoinRecv ==
  /\ MgrAt("joinRecv") /\ recv[conn] = "ended" /\ mgr' = "joinSend"
  /\ UNCHANGED <<main, isActive, listening, conn, alive, recv, batch, send,
                 client>>

\* (get() throws again what ended it, and a destructor may not throw)
MgrJoinFailed ==
  /\ MgrAt("joinRecv") /\ recv[conn] = "failed" /\ Die
  /\ UNCHANGED <<isActive, mgrVars, alive, recv, batch, send, client>>

\* Mutant: the send daemon is not waited for.
MgrCloseEarly ==
  /\ MgrAt("joinSend")
  /\ conn' = 0 /\ mgr' = IF listening THEN "accept" ELSE "ended"
  /\ UNCHANGED <<main, isActive, listening, alive, recv, batch, send, client>>

\* ... the send daemon too, and the socket is closed.
MgrClose ==
  /\ MgrAt("joinSend") /\ send[conn] = "ended"
  /\ conn' = 0 /\ mgr' = IF listening THEN "accept" ELSE "ended"
  /\ UNCHANGED <<main, isActive, listening, alive, recv, batch, send, client>>

Manager == \/ MgrBegin \/ MgrSocket \/ MgrTop \/ MgrAccept \/ MgrNobody
           \/ MgrSleep \/ MgrLeave \/ MgrDestroy
           \/ MgrJoinRecv \/ MgrJoinFailed \/ MgrClose
----------------------------------------------------------------------------
\* threadConnRecv sets m_isAlive itself, ...
RecvBegin(c) ==
  /\ RecvAt(c, "new") /\ recv' = [recv EXCEPT ![c] = "top"]
  /\ alive' = [alive EXCEPT ![c] = TRUE]
  /\ UNCHANGED <<main, isActive, mgrVars, batch, send, client>>

\* ... and loops while it is set.
RecvTop(c) ==
  /\ RecvAt(c, "top")
  /\ recv' = [recv EXCEPT ![c] = IF alive[c] THEN "recv" ELSE "ended"]
  /\ UNCHANGED <<main, isActive, mgrVars, alive, batch, send, client>>

\* select finds nothing: sleep, and back to the head of the loop.
RecvNothing(c) ==
  /\ RecvAt(c, "recv") /\ inbox[c] = 0 /\ peer[c] = "open"
  /\ recv' = [recv EXCEPT ![c] = "top"]
  /\ UNCHANGED <<main, isActive, mgrVars, alive, batch, send, client>>

\* recv hands over whole messages, in one piece or several.
RecvSome(c) ==
  /\ RecvAt(c, "recv")
  /\ \E n \in 1 .. inbox[c] :
       /\ batch' = [batch EXCEPT ![c] = n]
       /\ inbox' = [inbox EXCEPT ![c] = @ - n]
  /\ recv' = [recv EXCEPT ![c] = "busy"]
  /\ UNCHANGED <<main, isActive, mgrVars, alive, send, backlog, peer>>

\* Mutant: m_isAlive is not cleared.
RecvClosedAlive(c) ==
  /\ RecvAt(c, "recv") /\ inbox[c] = 0 /\ peer[c] = "closed"
  /\ recv' = [recv EXCEPT ![c] = "ended"]
  /\ UNCHANGED <<main, isActive, mgrVars, alive, batch, send, client>>

\* Mutant: that the client has closed counts before what it sent.
RecvClosedFirst(c) ==
  /\ RecvAt(c, "recv") /\ peer[c] = "closed"
  /\ recv' = [recv EXCEPT ![c] = "ended"]
  /\ alive' = [alive EXCEPT ![c] = FALSE]
  /\ UNCHANGED <<main, isActive, mgrVars, batch, send, client>>

\* recv returns 0: the connection is closed by the remote peer.
RecvClosed(c) ==
  /\ RecvAt(c, "recv") /\ inbox[c] = 0 /\ peer[c] = "closed"
  /\ recv' = [recv EXCEPT ![c] = "ended"]
  /\ alive' = [alive EXCEPT ![c] = FALSE]
  /\ UNCHANGED <<main, isActive, mgrVars, batch, send, client>>

\* recv returns -1, which the code takes for a number of bytes: all that came
\* before it has been read and the client has reset the connection, or SIGINT
\* has broken off select, which returns -1 and leaves fds as it was.  The
\* unpacker then reads on behind the bytes it has (Unpacker): that crashes,
\* throws, or ends as in RecvClosed (the bytes not parsed are too many, or the
\* next recv returns 0).  It may hand stale bytes on as messages first, which
\* are no commands and reach the board only.
RecvWild(c) ==
  /\ RecvAt(c, "recv") /\ inbox[c] = 0
  /\ \/ peer[c] = "reset"
     \/ peer[c] = "open" /\ main \in {"stopping", "closing"}
  /\ \/ Die /\ UNCHANGED <<recv, alive>>
     \/ recv' = [recv EXCEPT ![c] = "failed"] /\ UNCHANGED <<main, alive>>
     \/ /\ recv' = [recv EXCEPT ![c] = "ended"]
        /\ alive' = [alive EXCEPT ![c] = FALSE]
        /\ UNCHANGED main
  /\ UNCHANGED <<isActive, mgrVars, batch, send, client>>

\* Mutant: one message is processed and the rest of the batch dropped.
ProcessOne(c) ==
  /\ RecvAt(c, "busy") /\ recv' = [recv EXCEPT ![c] = "top"]
  /\ batch' = [batch EXCEPT ![c] = 0]
  /\ UNCHANGED <<main, isActive, mgrVars, alive, send, client>>

\* Mutant: the loop over the batch runs once too often.
ProcessPast(c) ==
  /\ RecvAt(c, "busy")
  /\ batch' = [batch EXCEPT ![c] = @ - 1]
  /\ recv' = [recv EXCEPT ![c] = IF batch[c] = 0 THEN "top" ELSE "busy"]
  /\ UNCHANGED <<main, isActive, mgrVars, alive, send, client>>

\* perConnProcessMessage carries out a command; m_isAlive is not looked at
\* before the batch is through.
Process(c) ==
  /\ RecvAt(c, "busy")
  /\ batch' = [batch EXCEPT ![c] = @ - 1]
  /\ recv' = [recv EXCEPT ![c] = IF batch[c] = 1 THEN "top" ELSE "busy"]
  /\ UNCHANGED <<main, isActive, mgrVars, alive, send, client>>

\* The acknowledge timeout is a `throw;' that ends the process.
ProcessDies(c) ==
  /\ RecvAt(c, "busy") /\ Die
  /\ UNCHANGED <<isActive, mgrVars, alive, recv, batch, send, client>>

\* An exception (std::stoul on a temperature) ends the thread, not m_isAlive.
ProcessThrows(c) ==
  /\ Throwing
  /\ RecvAt(c, "busy") /\ recv' = [recv EXCEPT ![c] = "failed"]
  /\ UNCHANGED <<main, isActive, mgrVars, alive, batch, send, client>>

Recv(c) == \/ RecvBegin(c) \/ RecvTop(c) \/ RecvNothing(c) \/ RecvSome(c)
           \/ RecvClosed(c) \/ RecvWild(c)
           \/ Process(c) \/ ProcessDies(c) \/ ProcessThrows(c)
----------------------------------------------------------------------------
\* perConnSendDeamon loops while the connection is alive, ...
SendTop(c) ==
  /\ SendAt(c, "top")
  /\ send' = [send EXCEPT ![c] = IF alive[c] THEN "read" ELSE "ended"]
  /\ UNCHANGED <<main, isActive, mgrVars, alive, recv, batch, client>>

\* ... reads a pack, or nothing within the second, ...
SendRead(c) ==
  /\ SendAt(c, "read")
  /\ \E next \in {"top", "write"} : send' = [send EXCEPT ![c] = next]
  /\ UNCHANGED <<main, isActive, mgrVars, alive, recv, batch, client>>

\* (a read error is a `throw;')
SendReadDies(c) ==
  /\ SendAt(c, "read") /\ Die
  /\ UNCHANGED <<isActive, mgrVars, alive, recv, batch, send, client>>

\* Mutant: sendRaw does not look at m_isAlive.
SendRawOn(c) ==
  /\ SendAt(c, "write") /\ peer[c] = "open"
  /\ \E next \in {"top", "write"} : send' = [send EXCEPT ![c] = next]
  /\ UNCHANGED <<main, isActive, mgrVars, alive, recv, batch, client>>

\* ... and sends it: sendRaw goes on while something is left, the client's
\* buffer may be full for as long as it likes, and m_isAlive is set.  After a
\* reset nothing more can be sent.
SendRaw(c) ==
  /\ SendAt(c, "write")
  /\ alive[c] => peer[c] # "reset"
  /\ \E next \in (IF alive[c] /\ peer[c] = "open" THEN {"top", "write"}
                                                  ELSE {"top"}) :
       send' = [send EXCEPT ![c] = next]
  /\ UNCHANGED <<main, isActive, mgrVars, alive, recv, batch, client>>

\* A write to a connection the client has closed or reset raises SIGPIPE,
\* which the process does not handle; the test for EPIPE is never reached.
SendPipe(c) ==
  /\ SendAt(c, "write") /\ alive[c] /\ peer[c] \in {"closed", "reset"} /\ Die
  /\ UNCHANGED <<isActive, mgrVars, alive, recv, batch, send, client>>

Send(c) == SendTop(c) \/ SendRead(c) \/ SendReadDies(c) \/ SendRaw(c)
             \/ SendPipe(c)
----------------------------------------------------------------------------
\* The clients
Connect(c) ==
  /\ ~Over /\ listening /\ peer[c] = "idle" /\ Len(backlog) < Backlog
  /\ peer' = [peer EXCEPT ![c] = "open"] /\ backlog' = Append(backlog, c)
  /\ UNCHANGED <<main, isActive, mgrVars, alive, recv, batch, send, inbox>>

SendMsg(c) ==
  /\ ~Over /\ peer[c] = "open" /\ inbox[c] < MaxMsgs
  /\ inbox' = [inbox EXCEPT ![c] = @ + 1]
  /\ UNCHANGED <<main, isActive, mgrVars, alive, recv, batch, send, backlog,
                 peer>>

CloseClient(c) ==
  /\ ~Over /\ peer[c] = "open" /\ peer' = [peer EXCEPT ![c] = "closed"]
  /\ UNCHANGED <<main, isActive, mgrVars, alive, recv, batch, send, backlog,
                 inbox>>

\* close() while data packs are unread, or a crash of its machine
ResetClient(c) ==
  /\ ~Over /\ peer[c] = "open" /\ peer' = [peer EXCEPT ![c] = "reset"]
  /\ UNCHANGED <<main, isActive, mgrVars, alive, recv, batch, send, backlog,
                 inbox>>

Client(c) == Connect(c) \/ SendMsg(c) \/ CloseClient(c) \/ ResetClient(c)

Next == Main \/ Manager \/ (\E c \in Clients : Recv(c) \/ Send(c) \/ Client(c))

\* The threads are scheduled; nothing is asked of the clients and of SIGINT.
\* A connection that waits is not for ever missed by accept.
Fairness ==
  /\ WF_vars(Close \/ Joined) /\ WF_vars(Manager) /\ SF_vars(MgrAccept)
  /\ \A c \in Clients : WF_vars(Recv(c)) /\ WF_vars(Send(c))

Spec == Init /\ [][Next]_vars /\ Fairness
----------------------------------------------------------------------------
TypeOK ==
  /\ main \in {"up", "stopping", "closing", "gone", "dead"} /\ isActive \in BOOLEAN
  /\ mgr \in {"new", "socket", "top", "accept", "sleep", "leave", "destroy",
              "joinRecv", "joinSend", "ended"}
  /\ listening \in BOOLEAN /\ conn \in Clients \cup {0}
  /\ backlog \in Seq(Clients) /\ Len(backlog) <= Backlog
  /\ alive \in [Clients -> BOOLEAN]
  /\ recv \in [Clients -> {"none", "new", "top", "recv", "busy", "ended",
                           "failed"}]
  /\ batch \in [Clients -> 0 .. MaxMsgs] /\ inbox \in [Clients -> 0 .. MaxMsgs]
  /\ send \in [Clients -> {"none", "top", "read", "write", "ended"}]
  /\ peer \in [Clients -> {"idle", "open", "closed", "reset"}]

Running(c) == \/ recv[c] \in {"new", "top", "recv", "busy"}
              \/ send[c] \in {"top", "read", "write"}

\* A thread only ever runs on the connection the manager has: none uses a
\* TcpConnection that was destroyed, and two connections never share the
\* board's registers (m_fw) and data device (m_rd).
OnlyConn == \A c \in Clients : Running(c) => c = conn

Failed(c) == recv[c] = "failed"

\* A command that reached the server over the connection it has is read,
\* whatever the client does then, unless the server is told to stop or an
\* earlier command has thrown.
CommandsRead ==
  \A c \in Clients :
    (conn = c /\ inbox[c] > 0) ~> (batch[c] > 0 \/ Failed(c) \/ main # "up")

\* A client at the head of the queue gets the connection once the client
\* before it has closed, unless a command of that one has thrown.  (A client
\* before it that resets the connection is ClosedNoticed's.)
Served ==
  \A c \in Clients :
    (backlog # << >> /\ Head(backlog) = c
       /\ (conn # 0 => peer[conn] = "closed"))
      ~> \/ conn = c
         \/ main # "up"
         \/ conn # 0 /\ Failed(conn) /\ peer[conn] = "closed"

\* "connection is closed by remote peer": however the client ends the
\* connection, the server finds out and gives it up.
ClosedNoticed ==
  \A c \in Clients :
    (conn = c /\ peer[c] \in {"closed", "reset"}) ~> (conn # c \/ ~alive[c] \/ Over)

\* "server is closed": a SIGINT ends the server.
CloseEnds == (main \in {"stopping", "closing"}) ~> Over
=============================================================================
