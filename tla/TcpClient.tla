----------------------------- MODULE TcpClient -----------------------------
(***************************************************************************)
(* The interactive client (remote/exe/comet_wsf_tcpclient.cc) with the     *)
(* run control of daqb (remote/lib/daqb.cc): the command loop of main, the *)
(* data file, the saver threads it launches, the watchdog threads that     *)
(* daq_start_run launches, and its connections to the server               *)
(* (remote/lib/TcpConnection.cc), each with a receive thread.              *)
(*                                                                         *)
(* main is sequential: pc names the statement it is about to execute.  A   *)
(* saver is one call of AsyncDataSave, a watchdog one call of              *)
(* daqb::AsyncWatchDog.  futData and futWatch are the thread a future      *)
(* refers to, 0 when the future is not valid; get() and the assignment     *)
(* over a valid future both wait for that thread to end.                   *)
(*                                                                         *)
(* The data path (Front, PopFront, perConnProcessRecvMesg) is EventRing;   *)
(* kept of it here are m_isDataAccept and which thread is past that gate.  *)
(* What the server does to a connection (close, reset, no answer) may      *)
(* happen at any time; TcpServer is the other side.                        *)
(***************************************************************************)
EXTENDS Naturals, FiniteSets

CONSTANTS MaxRuns,     \* bound: start commands that get as far as a new file
          MaxCmds,     \* bound: commands typed before the client must quit
          MaxConns,    \* bound: connections made
          Prompt,      \* TRUE: a thread that was launched has begun before
                       \* the operator has typed the next command
          Reset,       \* TRUE: the operator resets, and connects, before the
                       \* first other command
          Moving       \* TRUE: the operator may move the data file away

ASSUME ClientBounds == {MaxRuns, MaxCmds, MaxConns} \subseteq Nat
ASSUME ClientHabits == {Prompt, Reset, Moving} \subseteq BOOLEAN

VARIABLES
  pc,         \* main: the statement it is about to execute
  cmds,       \* commands typed
  quitting,   \* main has left the command loop
  conns,      \* connections made so far; each is called by its number
  conn,       \* m_conn, 0 for null
  dying,      \* the connection ~TcpConnection is at work on, 0 for none
  alive,      \* m_isAlive of each connection
  recv,       \* its receive thread
  accept,     \* m_isDataAccept
  told,       \* the last command delivered to the server
  file,       \* comet_data_.dat exists in the data folder
  runs,       \* savers launched so far
  saver,      \* state of each saver thread
  futData,    \* fut_async_data
  watch,      \* state of each watchdog thread
  watches,    \* watchdogs launched so far
  watching,   \* m_is_async_watching
  futWatch,   \* m_fut_async_watch
  dataDone,   \* g_data_done, which no thread reads
  watchDone   \* g_watch_done

files == <<file, runs, saver, futData>>
dogs == <<watch, watches, watching, futWatch>>
link == <<conns, conn, dying, alive, recv, told>>
flags == <<dataDone, watchDone>>
vars == <<pc, cmds, quitting, accept, link, files, dogs, flags>>

Threads == 1 .. MaxRuns
Conns == 1 .. MaxConns
\* main has stopped for good: return, a null pointer, or std::terminate.
Over == {"exited", "crashed", "terminated"}

Init ==
  /\ pc = "prompt" /\ cmds = 0 /\ quitting = FALSE
  /\ conns = 0 /\ conn = 0 /\ dying = 0 /\ told = "none" /\ accept = FALSE
  /\ alive = [c \in Conns |-> FALSE] /\ recv = [c \in Conns |-> "none"]
  /\ file \in BOOLEAN \* an earlier session may have left its file
  /\ runs = 0 /\ saver = [t \in Threads |-> "none"] /\ futData = 0
  /\ watches = 0 /\ watch = [t \in Threads |-> "none"] /\ futWatch = 0
  /\ watching = FALSE /\ dataDone = FALSE /\ watchDone = FALSE
----------------------------------------------------------------------------
Begun == "new" \notin {watch[t] : t \in Threads} \cup {recv[c] : c \in Conns}

\* The operator types a command; main enters its branch.
Command(first) ==
  /\ pc = "prompt" /\ cmds < MaxCmds
  /\ Prompt => Begun
  /\ cmds' = cmds + 1 /\ pc' = first

\* m_conn->sendRaw: a null m_conn crashes, a dead connection swallows the
\* message, main goes on either way.
Deliver(msg, next) ==
  /\ pc' = IF conn = 0 THEN "crashed" ELSE next
  /\ told' = IF conn # 0 /\ alive[conn] THEN msg ELSE told
  /\ UNCHANGED <<conns, conn, dying, alive, recv>>

\* A write to a connection the server has closed, which the receive thread
\* has not noticed yet, raises SIGPIPE: nothing handles it.
SendPipe ==
  /\ pc \in {"sendReset", "sendConf", "sendStart", "sendStop"}
  /\ conn # 0 /\ alive[conn]
  /\ pc' = "crashed"
  /\ UNCHANGED <<cmds, quitting, accept, link, files, dogs, flags>>

\* Mutant: daq_reset goes on accepting data.
CmdResetOpen ==
  /\ conns < MaxConns
  /\ Command("connect")
  /\ UNCHANGED <<quitting, accept, link, files, dogs, flags>>

\* reset: daq_reset() stops accepting, connects, then sends.
CmdReset ==
  /\ conns < MaxConns
  /\ Command("connect")
  /\ accept' = FALSE
  /\ UNCHANGED <<quitting, link, files, dogs, flags>>

\* connectToServer returns a new connection, whose constructor launches the
\* receive thread, or nothing; the assignment then destroys the old one.
Connect ==
  /\ pc = "connect" /\ pc' = IF conn = 0 THEN "sendReset" ELSE "drop"
  /\ dying' = conn
  /\ \/ /\ conns' = conns + 1 /\ conn' = conns + 1
        /\ alive' = [alive EXCEPT ![conn'] = TRUE]
        /\ recv' = [recv EXCEPT ![conn'] = "new"]
     \/ ~Reset /\ conn' = 0 /\ UNCHANGED <<conns, alive, recv>>
  /\ UNCHANGED <<cmds, quitting, accept, told, files, dogs, flags>>

\* Mutant: ~TcpConnection leaves m_isAlive set.
DropAlive ==
  /\ pc = "drop" /\ pc' = "joinRecv"
  /\ UNCHANGED <<cmds, quitting, accept, link, files, dogs, flags>>

\* ~TcpConnection clears m_isAlive, ...
Drop ==
  /\ pc = "drop" /\ pc' = "joinRecv"
  /\ alive' = [alive EXCEPT ![dying] = FALSE]
  /\ UNCHANGED <<cmds, quitting, accept, conns, conn, dying, recv, told, files,
                 dogs, flags>>

\* ... waits for the receive thread and closes the socket.
JoinRecv ==
  /\ pc = "joinRecv" /\ recv[dying] = "ended"
  /\ pc' = IF quitting THEN "unwatch" ELSE "sendReset"
  /\ dying' = 0
  /\ UNCHANGED <<cmds, quitting, accept, conns, conn, alive, recv, told, files,
                 dogs, flags>>

\* (get() throws again what ended it, and a destructor may not throw)
JoinFailed ==
  /\ pc = "joinRecv" /\ recv[dying] = "failed" /\ pc' = "terminated"
  /\ UNCHANGED <<cmds, quitting, accept, link, files, dogs, flags>>

SendReset ==
  /\ pc = "sendReset" /\ Deliver("reset", "dataDone")
  /\ UNCHANGED <<cmds, quitting, accept, files, dogs, flags>>

CmdConf ==
  /\ Reset => conn # 0
  /\ Command("sendConf")
  /\ UNCHANGED <<quitting, accept, link, files, dogs, flags>>

SendConf ==
  /\ pc = "sendConf" /\ Deliver("conf", "prompt")
  /\ UNCHANGED <<cmds, quitting, accept, files, dogs, flags>>

\* Mutant: daq_start_run() is called before the file and the saver exist.
CmdStartFirst ==
  /\ Reset => conn # 0
  /\ runs < MaxRuns
  /\ Command("ring")
  /\ UNCHANGED <<quitting, accept, link, files, dogs, flags>>

\* start: TimeNowString gives strftime 8 bytes, which its 12 characters do
\* not fit, so the file is comet_data_.dat whatever the time.
CmdStart ==
  /\ Reset => conn # 0
  /\ runs < MaxRuns
  /\ Command("open")
  /\ UNCHANGED <<quitting, accept, link, files, dogs, flags>>

\* Mutant: the file is opened without asking whether it exists.
OpenAnyway ==
  /\ pc = "open" /\ pc' = "spawn"
  /\ file' = TRUE
  /\ UNCHANGED <<cmds, quitting, accept, link, runs, saver, futData, dogs,
                 flags>>

\* create_and_open_file: when the file exists, or fopen fails, `throw;` with
\* no exception ends the process.
Open ==
  /\ pc = "open"
  /\ \/ ~file /\ pc' = "spawn" /\ file' = TRUE
     \/ pc' = "terminated" /\ UNCHANGED file
  /\ UNCHANGED <<cmds, quitting, accept, link, runs, saver, futData, dogs,
                 flags>>

\* Mutant: two savers are launched for one file.
SpawnTwice ==
  /\ pc = "spawn" /\ pc' = "assign"
  /\ runs' = runs + 2
  /\ saver' = [saver EXCEPT ![runs + 1] = "run", ![runs + 2] = "run"]
  /\ UNCHANGED <<cmds, quitting, accept, link, file, futData, dogs, flags>>

\* std::async launches the saver; then the future is assigned.
Spawn ==
  /\ pc = "spawn" /\ pc' = "assign"
  /\ runs' = runs + 1 /\ saver' = [saver EXCEPT ![runs + 1] = "run"]
  /\ UNCHANGED <<cmds, quitting, accept, link, file, futData, dogs, flags>>

\* The assignment waits for the thread of a future that is valid.
Assign ==
  /\ pc = "assign" /\ pc' = "ring"
  /\ futData # 0 => saver[futData] = "ended"
  /\ futData' = runs
  /\ UNCHANGED <<cmds, quitting, accept, link, file, runs, saver, dogs,
                 flags>>

\* Mutant: daq_start_run sends daqstart before it accepts data.
RingLater ==
  /\ pc = "ring" /\ pc' = "sendStart"
  /\ UNCHANGED <<cmds, quitting, accept, link, files, dogs, flags>>

\* daq_start_run: the ring is emptied and data accepted (EventRing), ...
Ring ==
  /\ pc = "ring" /\ pc' = "sendStart"
  /\ accept' = TRUE
  /\ UNCHANGED <<cmds, quitting, link, files, dogs, flags>>

\* ... the server is told, ...
SendStart ==
  /\ pc = "sendStart" /\ Deliver("start", "watch")
  /\ UNCHANGED <<cmds, quitting, accept, files, dogs, flags>>

\* ... and a watchdog launched unless one is known to run.
Watch ==
  /\ pc = "watch"
  /\ IF watching
       THEN pc' = "prompt" /\ UNCHANGED <<watch, watches>>
       ELSE /\ pc' = "assignWatch"
            /\ watches' = watches + 1
            /\ watch' = [watch EXCEPT ![watches + 1] = "new"]
  /\ UNCHANGED <<cmds, quitting, accept, link, files, watching, futWatch,
                 flags>>

AssignWatch ==
  /\ pc = "assignWatch" /\ pc' = "prompt"
  /\ futWatch # 0 => watch[futWatch] = "ended"
  /\ futWatch' = watches
  /\ UNCHANGED <<cmds, quitting, accept, link, files, watch, watches,
                 watching, flags>>

\* stop: daq_stop_run() stops accepting, tells the server, ends the watchdog.
CmdStop ==
  /\ Reset => conn # 0
  /\ Command("sendStop")
  /\ accept' = FALSE
  /\ UNCHANGED <<quitting, link, files, dogs, flags>>

SendStop ==
  /\ pc = "sendStop" /\ Deliver("stop", "unwatch")
  /\ UNCHANGED <<cmds, quitting, accept, files, dogs, flags>>

\* Mutant: the watchdog is waited for without being told.
UnwatchSilent ==
  /\ pc = "unwatch" /\ pc' = "joinWatch"
  /\ UNCHANGED <<cmds, quitting, accept, link, files, dogs, flags>>

\* m_is_async_watching = false, also in ~daqb
Unwatch ==
  /\ pc = "unwatch" /\ pc' = "joinWatch"
  /\ watching' = FALSE
  /\ UNCHANGED <<cmds, quitting, accept, link, files, watch, watches,
                 futWatch, flags>>

JoinWatch ==
  /\ pc = "joinWatch"
  /\ futWatch # 0 => watch[futWatch] = "ended"
  /\ pc' = IF quitting THEN "exited" ELSE "dataDone"
  /\ futWatch' = 0
  /\ UNCHANGED <<cmds, quitting, accept, link, files, watch, watches,
                 watching, flags>>

\* g_data_done = 1, then the join of the saver.
DataDone ==
  /\ pc = "dataDone" /\ pc' = "join"
  /\ dataDone' = TRUE
  /\ UNCHANGED <<cmds, quitting, accept, link, files, dogs, watchDone>>

\* Mutant: get() is called without asking whether the future is valid.
JoinInvalid ==
  /\ pc = "join"
  /\ futData # 0 /\ saver[futData] = "ended"
  /\ pc' = IF quitting THEN "watchDone" ELSE "prompt"
  /\ futData' = 0
  /\ UNCHANGED <<cmds, quitting, accept, link, file, runs, saver, dogs,
                 flags>>

Join ==
  /\ pc = "join"
  /\ futData # 0 => saver[futData] = "ended"
  /\ pc' = IF quitting THEN "watchDone" ELSE "prompt"
  /\ futData' = 0
  /\ UNCHANGED <<cmds, quitting, accept, link, file, runs, saver, dogs,
                 flags>>

\* quit, exit or end of input
Quit ==
  /\ pc = "prompt" /\ pc' = "dataDone"
  /\ Prompt => Begun
  /\ quitting' = TRUE
  /\ UNCHANGED <<cmds, accept, link, files, dogs, flags>>

\* g_watch_done = 1, return; ~daqb destroys the connection.
WatchDone ==
  /\ pc = "watchDone" /\ pc' = IF conn = 0 THEN "unwatch" ELSE "drop"
  /\ watchDone' = TRUE /\ conn' = 0 /\ dying' = conn
  /\ UNCHANGED <<cmds, quitting, accept, conns, alive, recv, told, files, dogs,
                 dataDone>>

Main == \/ Connect \/ Drop \/ JoinRecv \/ JoinFailed \/ SendReset \/ SendConf
        \/ Open \/ Spawn \/ Assign \/ Ring \/ SendStart \/ Watch \/ AssignWatch
        \/ SendStop \/ Unwatch \/ JoinWatch
        \/ DataDone \/ Join \/ WatchDone
Operator == CmdReset \/ CmdConf \/ CmdStart \/ CmdStop \/ Quit
----------------------------------------------------------------------------
\* One turn of AsyncDataSave's loop, which ends when g_watch_done is set;
\* what it does with the ring is EventRing's saver.
SaverLoop(t) ==
  /\ pc \notin Over
  /\ saver[t] = "run"
  /\ saver' = [saver EXCEPT ![t] = IF watchDone THEN "ended" ELSE "run"]
  /\ UNCHANGED <<pc, cmds, quitting, accept, link, file, runs, futData, dogs,
                 flags>>

\* daqb::AsyncWatchDog sets its own flag when it gets to run, ...
WatchBegins(t) ==
  /\ pc \notin Over
  /\ watch[t] = "new"
  /\ watch' = [watch EXCEPT ![t] = "loop"] /\ watching' = TRUE
  /\ UNCHANGED <<pc, cmds, quitting, accept, link, files, watches, futWatch,
                 flags>>

\* ... and loops until it finds the flag cleared.
WatchLoop(t) ==
  /\ pc \notin Over
  /\ watch[t] = "loop"
  /\ watch' = [watch EXCEPT ![t] = IF watching THEN "loop" ELSE "ended"]
  /\ UNCHANGED <<pc, cmds, quitting, accept, link, files, watches, watching,
                 futWatch, flags>>

Thread(t) == SaverLoop(t) \/ WatchBegins(t) \/ WatchLoop(t)

\* threadConnRecv sets m_isAlive itself, ...
RecvTo(c, from, to) ==
  /\ pc \notin Over /\ recv[c] = from /\ recv' = [recv EXCEPT ![c] = to]
  /\ UNCHANGED <<cmds, quitting, accept, conns, conn, dying, told, files, dogs,
                 flags>>

RecvBegin(c) ==
  /\ RecvTo(c, "new", "top")
  /\ alive' = [alive EXCEPT ![c] = TRUE] /\ UNCHANGED pc

\* ... and loops while it is set.
RecvTop(c) ==
  RecvTo(c, "top", IF alive[c] THEN "recv" ELSE "ended") /\ UNCHANGED <<pc, alive>>

\* select finds nothing, or what was received is used up.
RecvNothing(c) == RecvTo(c, "recv", "top") /\ UNCHANGED <<pc, alive>>

\* perConnProcessRecvMesg drops the message, or goes on to the ring with it.
RecvData(c) ==
  RecvTo(c, "recv", IF accept THEN "feed" ELSE "recv") /\ UNCHANGED <<pc, alive>>

RecvFed(c) == RecvTo(c, "feed", "recv") /\ UNCHANGED <<pc, alive>>

\* recv returns 0: the connection is closed by the remote peer.
RecvClosed(c) ==
  /\ RecvTo(c, "recv", "ended")
  /\ alive' = [alive EXCEPT ![c] = FALSE] /\ UNCHANGED pc

\* recv returns -1, which is taken for a number of bytes (Unpacker): the
\* unpacker is found too full, as in RecvClosed, or reads wild, which
\* crashes, throws, or hands on what it takes for data, as in RecvData.
RecvWild(c) ==
  /\ UNCHANGED alive
  /\ \/ RecvTo(c, "recv", "ended") /\ pc' = "crashed"
     \/ RecvTo(c, "recv", "failed") /\ UNCHANGED pc

RecvRuns(c) == RecvBegin(c) \/ RecvTop(c) \/ RecvNothing(c) \/ RecvFed(c)
RecvPeer(c) == RecvData(c) \/ RecvClosed(c) \/ RecvWild(c)

MoveFile ==
  /\ Moving /\ pc = "prompt" /\ file
  /\ file' = FALSE
  /\ UNCHANGED <<pc, cmds, quitting, accept, link, runs, saver, futData, dogs,
                 flags>>

Next == \/ Main \/ SendPipe \/ Operator \/ MoveFile
        \/ \E t \in Threads : Thread(t)
        \/ \E c \in Conns : RecvRuns(c) \/ RecvPeer(c)

\* main and its threads are scheduled; nothing is asked of the operator, of
\* the server, or of who moves the file.  A batch of messages is finite.
Spec == /\ Init /\ [][Next]_vars
        /\ WF_vars(Main) /\ \A t \in Threads : WF_vars(Thread(t))
        /\ \A c \in Conns : WF_vars(RecvRuns(c)) /\ SF_vars(RecvNothing(c))
----------------------------------------------------------------------------
TypeOK ==
  /\ pc \in Over \cup
       {"prompt", "connect", "sendReset", "sendConf", "open", "spawn",
        "assign", "ring", "sendStart", "watch", "assignWatch", "sendStop",
        "unwatch", "joinWatch", "dataDone", "join", "watchDone", "drop",
        "joinRecv"}
  /\ cmds \in 0 .. MaxCmds /\ quitting \in BOOLEAN
  /\ {conns, conn, dying} \subseteq 0 .. MaxConns /\ accept \in BOOLEAN
  /\ alive \in [Conns -> BOOLEAN]
  /\ recv \in [Conns -> {"none", "new", "top", "recv", "feed", "ended",
                         "failed"}]
  /\ told \in {"none", "reset", "conf", "start", "stop"}
  /\ file \in BOOLEAN /\ watching \in BOOLEAN
  /\ dataDone \in BOOLEAN /\ watchDone \in BOOLEAN
  /\ runs \in 0 .. MaxRuns /\ futData \in 0 .. MaxRuns
  /\ watches \in 0 .. MaxRuns /\ futWatch \in 0 .. MaxRuns
  /\ saver \in [Threads -> {"none", "run", "ended"}]
  /\ watch \in [Threads -> {"none", "new", "loop", "ended"}]

Savers == {t \in Threads : saver[t] = "run"}

\* The ring is made for one reader: daqb::Front and PopFront keep one read
\* counter and one hot slot, "to prevent write-overlapping" (daqb.cc:154).
\* The data file, which a start refuses to open again, is all that keeps a
\* second saver from being launched while the first one reads: with a file
\* that may be moved away, two savers read the ring, which main feeds and
\* never leaves the assignment to empty.
OneSaver == \A s, t \in Savers : s = t

\* Whatever the operator types, data is only accepted while a saver drains
\* the ring.
AcceptHasSaver == accept => Savers # {}

\* The server is told to start only when its data will be accepted, and to
\* stop only when it no longer is.
ToldInOrder ==
  [][told' # told => /\ told' = "start" => accept
                     /\ told' = "stop" => ~accept]_vars

\* The ring is made for one writer.  A reset opens the new connection, with
\* its receive thread, before the old one is destroyed, and that thread may
\* then be past the gate: never are two past it, and never one while the
\* ring is emptied.
OneFeeder ==
  LET feeders == {c \in Conns : recv[c] = "feed"}
  IN Cardinality(feeders) <= 1 /\ (pc = "ring" => feeders = {})

\* A client that never started a run quits when it is asked to, whatever
\* its connections do (unless one of them ends it).
QuitUnstarted == (quitting /\ runs = 0) ~> (pc \in Over)

\* The join of the watchdog in daq_stop_run and ~daqb comes to an end.
JoinWatchEnds == (pc = "joinWatch") ~> (pc # "joinWatch")

\* Destroying a connection, in reset and quit, comes to an end.
DropEnds == (pc = "drop") ~> (pc \notin {"drop", "joinRecv"})

\* "13) stop data taking", "1) quit command line" (help text): the join of
\* the saver that stop, reset and quit make comes to an end.
JoinEnds == (pc = "join") ~> (pc # "join")
=============================================================================
