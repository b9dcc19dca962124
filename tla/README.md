# A TLA+ development of comet_wsf

comet_wsf takes data from a front-end board (FEB) over a DAQ board: a server on
the DAQ board controls the FEB and forwards data packs, a client on another
machine steers the server and writes the packs to a file. This directory holds
TLA+ modules of the parts of that program that keep state, TLC configurations
that check them on small instances, and TLAPS proofs of what matters most for
every instance.

Paths below leave out the leading `src/src/`.

## Inventory

| part | source | state | operations | modelled in |
|---|---|---|---|---|
| event ring | `remote/lib/daqb.{hh,cc}` | ring of shared pointers, write and read counter, hot slot, accept flag, statistics | `perConnProcessRecvMesg` (receive thread), `Front`, `PopFront` (saver), `daq_start_run`, `daq_stop_run`, `ClearBuffer` (main) | `EventRing` |
| client run control | `remote/exe/comet_wsf_tcpclient.cc`, `remote/lib/daqb.cc` | two done-flags, two futures, data file, connection, watchdog flag | the commands reset, conf, start, stop, quit; saver and watchdog threads | `TcpClient` |
| client command line | head of `main` in `comet_wsf_tcpclient.cc` | folder, host, port | getopt loop | - |
| data reader | `daqb/lib/comet_wsf_datarecv.cc` | descriptor, partial pack, idle timer | constructor, `readPack` | `PackReader` |
| pack format | `decode_pack`, `NetMsg`, `daqb_pack`, the line of the file | fields of a pack at several widths | decode, send, store, save | `PackCodec` |
| slow control | `daqb/lib/comet_wsf_regctrl.cc` | mapped registers, acknowledge counter | DAC, high voltage, ASIC, temperature, start, stop, reset, default configuration | `RegCtrl` |
| slow-control prompt | `daqb/exe/comet_wsf_ctrl.cc` | none of its own | one call of the slow control per line, raw writes | `RegCtrl` (as a process) |
| client's connections | `remote/lib/TcpConnection.cc` | alive flag, socket, receive thread | connect, `sendRaw`, destruction, receive loop | `TcpClient`, `DaqSystem` |
| message stream | `threadConnRecv`, `common/msgpack` `v2/{parse,unpack}.hpp` | receive buffers with their counts, parser state, object handle | reserve, receive, parse, hand over, release | `Unpacker` |
| server | `daqb/lib/TcpServer.cc`, `daqb/lib/TcpConnection.cc`, `daqb/exe/comet_wsf_tcpserver.cc` | server and connection flags, one connection, sockets | manager, receive thread, send daemon, main | `TcpServer` |
| dump tool | `daqb/exe/comet_wsf_datadump.cc` | exit time, two files, done-flag | a loop over `readPack`, SIGINT, watchdog | `DataDump` |
| vendored | the rest of `common/` (msgpack, linenoise-ng, getopt) | | | trusted |

How they interact:

    FEB <-link- registers <- RegCtrl <- receive thread --+            +-- main (commands)
                                (also the prompt)         | TcpServer  | TcpClient
    /dev/axidmard -> PackReader -> decode -> send daemon -+--- TCP ----+-- receive thread
                         |                           (cut and joined:        |
                      DataDump -> files               Unpacker)              |
                                                     data file <- saver <- EventRing

`DaqSystem` is both sides of the TCP line.

The send daemon and the receive thread of the server share `m_isAlive` with the
manager that created them. In the client three threads share the ring (no
lock), the command loop shares flags with the saver and the watchdog, and every
command that stops something waits for a thread with `future::get`.

What makes each part hard, and what makes it correct:

* **event ring**: three threads, no lock. The one guard is the hot slot. Correct:
  no slot is written while it is read; a full ring loses packs only in a counted
  way; the file is the sequence of the packs published.
* **client**: waits on threads, flags read by another thread than the writer
  thinks, a command at any time, two connections for a while at every reset.
  Correct: waits end; data is accepted only with a saver; one thread at a time
  feeds the ring; the server is told in the right order.
* **message stream**: `recv` cuts it anywhere; objects point into buffers that
  are rewound, replaced and counted; a reset connection makes `recv` return -1.
  Correct: every message is handled once, in order, with its own bytes, as soon
  as it is complete.
* **client and server**: an order may wait in a connection that has been
  replaced. Correct: orders are carried out in the order they were given.
* **data reader**: `read` returns any part, time passes anywhere. Correct: every
  byte is accounted for, packs are pieces of the stream, no early or missing
  timeout.
* **dump tool**: ends by an exit time, a signal, an error or `throw;`, with one
  file buffered and one not. Correct: it ends; the files agree.
* **slow control**: an acknowledge is only a counter that moved; commands and
  acknowledges get lost or come late; processes die on a timeout and are started
  again; two programs use the same registers. Correct: an acknowledged command
  was carried out; what is pushed was set up by the same call.
* **server**: one connection, three threads on it, polled once a second; a
  client that closes, stalls or sends rubbish. Correct: no thread outlives its
  connection, commands that arrived are executed, the next client is served, the
  server can be stopped.

PROJECT.json lists the hazards one by one, each with its line and the properties
that would notice it going wrong.

## The modules

### EventRing, BoundedFifo, MCEventRing

One action per access to a shared member, in program order, so that every
interleaving of the three threads is a behaviour: `RGate` to `RPublish` are
`perConnProcessRecvMesg`, `SFront` to `SSave` the saver's loop with `Front` and
`PopFront`, `MClear` to `MAccept` are `daq_start_run` statement by statement. The
comparisons of `Front` and `PopFront` are two loads each (`SFront` and `SCompare`,
`SPop` and `SPopCompare`; `seen` is the counter loaded first), and the index is a
load of its own (`SIndex`, `SPopIndex`). The counters and the hot slot are
sequentially consistent atomics; the plain members (`m_count_ring_read`,
`m_isDataAccept`, the vector) are read and written in program order, each as often as
the code names it; a build that keeps the read counter in a register between the
comparison and the index has some of these behaviours. A pack is the number of its
message. `BoundedFifo` is what the ring promises: a queue of at most `Capacity` packs
that refuses one only when it is full or one short of it.

Two specifications. `RunSpec` is what the client does: it launches the saver, then
starts the ring, once (a second start never gets as far as the ring, see below).
`CarefulSpec` is a caller of the library that has a saver only from the end of
`daq_start_run` to its next call (`MLaunch`, `MJoin`, `Again`), starts again as often as it
likes, and calls `ClearBuffer`. The difference matters: `daq_start_run` zeroes the two
counters one after the other, and a saver that stands between its loads of the two
compares an old write counter with a new read counter (run ring_overlap).

### TcpClient

`pc` names the statement main is about to execute; a saver or watchdog is one
element of `saver` or `watch`, a future the number of its thread. Connections are
numbered as they are made; `conn` is `m_conn`, `dying` the one whose destructor
main is in, `alive[c]` and `recv[c]` flag and receive thread of each. `Deliver` is
`sendRaw` through a connection that is null (the process crashes), up, or lost
(the message is swallowed); `SendPipe` is the SIGPIPE of a write to a connection
that the server has closed. The receive thread keeps what matters here of the
callback: whether it is past the gate `m_isDataAccept` (`RecvData`, `RecvFed`).
What the server does to a connection happens at any time. `Open` is
`create_and_open_file` with a name that is the same every time: `TimeNowString`
gives `strftime` a buffer of `sizeof(size_t)` bytes, so nothing is formatted. An
existing file, or one that `fopen` cannot open, ends the client (`throw;` with no
exception), which is the state "terminated".

### PackReader

The stream's bytes are numbered, a pack is the number of its first byte. The
clock is kept as the ticks left to the deadline, so neither needs a bound;
`Deliver` and `Tick` come anywhere between the statements. `Open` constructs the
reader also when the device cannot be opened, as the code does (it tests for 0,
not for -1); every read is then an error, and an error ends the process.

### DataDump, MCDataDump

`DataDump` extends `PackReader`: `step` is the statement of the dump tool's main,
and while it is "pack" the actions of `readPack` are main's. `OpenRaw` and `OpenHit`
may end the process (a file that exists is a `throw;`), `SaveHit` leaves a line in
the buffer of the stream or writes the buffer out, `SaveRaw` writes and flushes,
`Interrupt` is SIGINT. The hit file is its complete lines: the stream writes its buffer
when it is full, wherever a line then stands, so after a crash a torn line may
follow them, of which no property speaks. `exitLeft` counts the ticks to the exit time. All
combinations of options are initial states. `MCDataDump` puts it beside `PackCodec`,
which says what a line holds of its pack.

### PackCodec

The whole way of a pack, as operators: `decode_pack`, the NetMsg (`Sent`), the
daqb_pack (`Stored`), the line of the client's file (`Saved`), and the line the dump
tool makes of it at once (`Dumped`).
`R` is the number of values of a half byte (16 in the code); shifts by 4 bits are
products by `R`, and an or of fields that do not overlap is a sum. Every
variable's width is kept as a modulus.

### RegCtrl

A call is the sequence of its steps (`Feb`, `Daqb`, `ReadTemp`); a FEB step goes
through `LastAck`, `CmdWrite`, then polls until the counter moves or two seconds
(`Patience` polls) are over, which ends the process. Several processes may have
the registers mapped. The board is external and modelled from what the code
relies on: commands in order, one increment of the counter per command carried
out. `Lossy` lets it lose commands and acknowledges, `Late` lets it answer after
the timeout. `Spec` has raw writes, which wait for nothing (`RawWrite`); `WaitingSpec` is
the same without them. Voltages and digits are abstracted to the number of the call that
computed them, which is what `PushWhole` and `NewTemp` compare.

### TcpServer

`mgr`, `recv[c]` and `send[c]` are where the manager and the two threads of
connection `c` are, `peer[c]` is the client's end. A client may close it (`recv` returns
0 when all is read, `RecvClosed`) or reset it, which is also what its kernel does when
it closes a connection with data packs unread (`ResetClient`). `RecvWild` is `recv`
returning -1, which the code hands to the unpacker as a number of bytes: after a
reset, or when SIGINT (`Interrupt`) has broken off `select`, whose -1 is not told from
a number of descriptors. What the unpacker may take for messages then are not
commands of the client; they change the board at most, and are left out. `SendPipe` is
SIGPIPE, which nothing handles, so that the test for EPIPE is not reached. What commands do is `RegCtrl`; here
they end, end the process (`ProcessDies`) or throw (`ProcessThrows`, only with
`Throwing`). `Prompt` is the timing assumption the code makes: a thread that was
launched runs within the second the manager sleeps, and SIGINT does not come
before the manager runs.

### Unpacker, MCUnpacker

The receive thread of either side as a sequential program over `msgpack::unpacker`.
A byte says of which message it is and what it means there, so that a byte
taken for something else, lost, or overwritten while an object still points at
it is noticed. A message is an array of integers (each a header byte and a
trail) and a bin. `Keep` and `Move` are `reserve_buffer` and `expand_buffer`; `Recv` hands
over any number of bytes; `ParseArray` to `ParseData` are the cases of
`context::execute` that such messages meet; `Finish` is `flush_zone`, the transfer to
the handle and the reset. `RecvError` is `recv` returning -1: `buffer_consumed(-1)`
takes a byte back, and if there is none the parser starts behind its end, where
`MSGPACK_ASSERT(len >= off)` (`common/msgpack/include/msgpack/v2/parse.hpp:238`) would
stop a debug build. `src/CMakeLists.txt` makes it a Release build, so the reads run
wild: the module stops there, and `TcpClient` and `TcpServer` go on from it with the
outcomes a wild read can have (a crash, an exception, or the unpacker found too
full).

### DaqSystem, OrderQueue

`DaqSystem` instantiates `TcpClient` as `C` and `TcpServer` as `S`; a connection has the
same number on both sides, what main does to it is what a client does in
TcpServer, and what TcpClient allows at any time (closed, reset, SIGPIPE) happens
only when the server has given the connection up (`Held`). The client's end of a
connection is closed or, when the send daemon was at work on it, reset (`End`).
`orders`, `executed` and `waiting` (which orders are on their way through each
connection) are history. `OrderQueue` is the promise of the two together: orders are carried
out in the order in which they were given, each once, and all of them unless the
server has gone or its receive thread has thrown. It is not obvious: a reset
opens a second connection while orders may still wait in the first.

## The runs

| run | module | checks | states |
|---|---|---|---|
| ring_run | MCEventRing | `TypeOK NoWriteOverlapping InBounds InputAccounted FifoSpec AllSaved` | 118 000 |
| client_session | TcpClient | `TypeOK AcceptHasSaver OneFeeder ToldInOrder QuitUnstarted JoinWatchEnds DropEnds` | 11 700 |
| dump_files | MCDataDump | `DumpTypeOK BytesAccounted FilesAgree LinesArePacks Shifted PatientTimeOut DumpEnds` | 310 000 |
| ctrl_server | RegCtrl | `TypeOK NewTemp PushWhole AckMeansDone RunOrder CallEnds` | 119 000 |
| server_serve | TcpServer | `TypeOK OnlyConn CommandsRead Served CloseEnds` | 132 000 |
| unpacker_stream | MCUnpacker | `TypeOK HandleGood InStep CountsRight Fits AllHandled` | 20 000 |
| system_orders | DaqSystem | `OneSaver OrderSpec` | 182 000 |

ring_run has the two uses of the ring in which it keeps its order in one
specification (`InOrderSpec` of MCEventRing): the careful caller's, from any first
counters, and the client's own, whose saver is launched before the ring is
started, when the write counter happened to be 0.

The data reader is checked inside the dump tool, its one caller that looks at
all it returns. The same run evaluates the codec for every pack of the instance.

Five runs end in a violation, each of something the repository says of itself:

* **ring_firststart** (`InBounds`): the client launches the saver before
  `daq_start_run`, and the two ring counters have no initial value. If the saver
  finds write > read it indexes an empty vector.
* **ring_overlap** (`NoWriteOverlapping`, "keep hot read to prevent
  write-overlapping"): the same launch, with counters that are equal but not 0. The
  saver loads the old write counter, main zeroes both, the saver loads the new read
  counter and takes slot 0 of an empty ring for a pack; main then moves the hot slot
  to the tail, and the receiver stores the first pack into slot 0 while the saver
  copies it.
* **client_join** (`JoinEnds`): stop, reset and quit set `g_data_done` and wait
  for the saver, whose loop looks at `g_watch_done`. Once a run was started none
  of the three returns.
* **server_reset** (`ClosedNoticed`, "connection is closed by remote peer"): a client
  resets its connection. The -1 of `recv` is not looked at; when what the unpacker
  makes of it throws, the receive thread ends with `m_isAlive` set, and the server
  keeps the dead connection and serves nobody else.
* **ctrl_raw** (`NewTemp`): `feb set raw` does not wait for its acknowledge; the
  temperature fetch that follows takes it for its own and reads an old value.

What else the models show, without a run of its own:

* A thread that sets its own run flag undoes a stop that cleared the flag before the
  thread had begun, and whoever waits for the thread waits for ever: the watchdog
  (`JoinWatchEnds`), a receive thread at a reset right after a reset (`DropEnds`), the
  server's manager at an interrupt right after the start (`CloseEnds`), each with
  `Prompt = FALSE`. The runs take threads as prompt.
* A second start, after the data file of the first was moved away, launches a second
  saver and then waits for the first, which does not end: two threads read a ring
  that has one hot slot and a plain read counter (`Moving = TRUE`, as in
  client_session, which therefore does not have `OneSaver`). Where nobody moves the
  file, the start ends the client instead; that is what `OneSaver` says in
  system_orders.
* An exception in a command (a temperature that is not hexadecimal, a message of
  another shape) ends the server's receive thread but leaves `m_isAlive` set. The
  client's close is never noticed and no other client is served; when the
  connection is destroyed at last, `get` throws again in a destructor and the
  process ends (`ProcessThrows`, `MgrJoinFailed`). `Served` and `CommandsRead` exempt
  what follows such an exception.
* A command before the first successful reset crashes (`Deliver` with a null
  connection); a start over an existing file ends the client (`Open`).
* Two processes on the registers push each other's values (`PushWhole` with
  `Procs = {server, ctrl}`).
* A timeout in a start or stop leaves the board listening (`TimeOut` between the
  two writes); `RunOrder`, which is about the order of the writes, does not forbid it.

### Bounds, and why they are enough

* Ring: `N = 3` is the smallest size with a slot that is neither hot, nor its
  neighbour; `MaxMsgs = 7` fills it, overflows it and goes round more than
  twice. The ring's safety is proved for every `N` and `MaxMsgs` and any number of
  runs.
  `InitCounts` are the ways two uninitialised counters compare with each other and
  with 0 (`AnyCounts`) in ring_run and ring_firststart, and the pair <<1, 1>> in
  ring_overlap.
* Client: `MaxCmds = 5` commands, three connections, so that one is replaced while
  an earlier one is still being destroyed, and room for `MaxRuns = 3` savers, a
  bound the code never meets: a third start would need a stop, reset or second
  start that returned, and none does once a run has been started.
* Reader and dump tool: packs of `P = 3` bytes (a pack with a middle), 8 bytes
  (two packs and a remainder), `Idle = 1`, an exit time of two ticks, so that it can
  come before, in and after a timeout. The safety of both is proved for all values.
* Message stream: integers with no and with two bytes of trail and a bin of none
  to four bytes, five messages of 7 to 11 bytes through buffers of 13 bytes of
  which one is the counter: the buffer is rewound, replaced with and without an
  object pointing into it, and cut in every element. `Initial` and `Reserve` keep
  the code's proportion only so far as the assumption `Room` asks (room for two reserves).
* Client and server: two connections, so that a reset can replace one, and three
  orders, so that there are some on both and two behind each other, or two starts.
  The operator resets first (`Reset = TRUE`) and leaves the data file alone. The
  system ends when the server's process does: what the client then does is in
  client_session.
* Codec: `R = 2`, so that all packs can be enumerated; proved for every `R`.
* Slow control: two DAC channels instead of eight, a counter of `W = 2` values
  (the worst case: it wraps at every second command), `Patience = 1` poll, two
  calls, so that each call meets what a broken-off or lossy one left behind. In
  ctrl_raw `W = 4`, so that the violation does not rest on a wrap.
* Server: two connections, so that one waits behind the other; up to two commands
  in flight; `Backlog = 2` is what `listen(fd, 1)` keeps. server_reset needs one.

### Fairness, and why the code justifies it

* Threads are scheduled: weak fairness on the steps of every thread that is not
  waiting for input. Nothing is asked of operators, clients, messages, SIGINT or
  the network.
* Client: the receive thread goes on (`RecvRuns`) and, strongly fair, comes to the end
  of what it has received (`RecvNothing`): a batch of messages is finite. `Prompt`
  is the timing assumption of the runs: a thread that was launched has begun
  before the operator has typed the next command.
* Message stream: what has been received is parsed; nothing is asked of the peer.
* Client and server: the fairness of the two, and a kernel that closes the sockets
  of a client that ended.
* Ring: the saver polls without end, a callback runs to its end, and a careful
  caller that has started the ring launches its saver.
* Reader and dump tool: the clock ticks, `read` always answers (the device is
  non-blocking).
* Slow control: the process runs; the board answers or loses each command unless
  it is `Late`, and then nothing is asked of it: `CallEnds` comes from the
  timeout alone.
* Server: main looks at g_done once a second and leaves. Strong fairness on
  `MgrAccept`. The manager polls `accept` for a
  second, again and again; a connection that waits all the while is not missed
  each time.

CHECK_DEADLOCK is FALSE where the program or the bounded input really ends (exit,
crash, `throw;`, all calls made); the ring never stops polling and is checked
for deadlock.

## The proofs

All are checked by TLAPS for every value of the constants.

**EventRingProofs**: `TypeCorrect`, `NoOverlap`, `IndexInBounds`, `Accounting`,
`FileInOrder`, and `Implements`: the ring's initial states and steps are those of
`BoundedFifo`. They hold under `InOrder`: in `CarefulSpec`, whatever the first counters,
and in the client's `RunSpec` if its first write counter was 0 (`Benign`); ring_overlap
shows that this is needed. `IndexInBounds` needs of `RunSpec` only that the ring does
not look filled (`Unfilled`); ring_firststart shows that this is needed. For that part
`FirstBounds` is the invariant: until the vector has its slots the saver finds no
front. For the rest none of the invariants is inductive. The inductive one, `IInv`, says that
between two runs the receiver drops what comes, a saver, if there is one, sees a write
counter of 0, and every pack published is in the file (`Dormant`, `Resting`); that the
write counter is at most a ring ahead of the read counter, a slot less while the
saver does not hold a pack, and where the hot slot then is (`Counters`); that what the
saver has loaded is still worth what it is used for (`Loaded`: the write counter has
only grown since, and the read counter is the saver's own); that a receiver past its
check has a free slot ahead (`Writing`); and that the slots between the counters hold
exactly the published packs not yet taken (`Contents`, `Copied`). The counters begin
again with every start while the published packs go on, so all of this is said
relative to `Base`, the packs of earlier runs. `NoWriteOverlapping` follows because
counters less than a ring apart have different slots (`Apart`).

**PackReaderProofs**: `ReaderTypes`, `EveryByte`, `PacksPlaced`, `StaysShifted`,
`Patience`, no hypotheses beyond the module's assumptions. The invariant adds to
the byte count where a call stands (`Calling`) and places the packs before the
bytes of the present call (`PackPlaces`). `Patience` needs that the timer never
has less left than the silence so far leaves of `Idle`.
For the dump tool around the reader: `DumpTypes`, `FilesHold` and `DumpReads`, for
any options, exit time, signals and stream. A step of the tool is one of the
reader or a `throw;` before it is opened (`DumpStep`), so the reader's invariant
carries over. `DInv` adds where main and the reader stand to each other
(`Standing`) and that the hit file with what is still in the stream's buffer, and the
raw file, are the packs up to the one main has in hand (`Files`), which it may have
written to one file and not yet to the other.

**PackCodecProofs**: `MessageLossless` and `LineLossless`, for every `R` and every pack. The core is
`Lossless`: the four fields of `decode_pack`, put together again, are the eight
bytes as a number. `Widths` shows that no variable cuts a field.

**RegCtrlProofs**: `ControlTypes` for any processes and any board; `OneAtATime`
and `AckIsMine` under `Alone`: one process, no raw writes, no acknowledge after the
timeout. The invariant `HandShake`: between commands the link is empty; in a wait
the command on the link is the one waited for and the counter has not moved, or
it is through. `WaitingSpec`, which ctrl_server checks, is a part of `Spec`
(`WaitingIsSpec`). Each part of `Alone` is needed: ctrl_raw breaks it with raw
writes, two processes or a late acknowledge break `AckMeansDone` likewise. Under
`Alone` also `TempIsNew`, `PushIsWhole` and `RunInOrder`, for every number of channels.
A call is a straight line of steps, and what a push relies on was done up to
seven steps before it, so the invariant `CallInv` speaks of the steps that are
left: what must have come before a step stands before it among them (`Whole`), or
is done (`Ready`). `Whole` is shown of every call (`CallsWhole`) and kept when the
first step is dropped (`TailWhole`); `InWait` carries over from the command on the
link to the register it was for. A timeout clears what is left, so a call broken off
half-way leaves nothing that a later one would push. `PushInTurn` says the same of
a push under other conditions, `InTurn`: still one process, but with raw writes and
late acknowledges, and nothing lost. The counter is worth nothing
then and the link may be of any length, so the invariant `TurnInv` looks ahead:
there is a sequence of what the registers will hold as each command on the link is
carried out (`Ahead`), each push on the link finds there what it needs, and the
last of the sequence holds what the call still relies on (`Prepared`). Lost commands
break it, for then a push is carried out without what was written before it.

**UnpackerProofs**: `TypeCorrect`, `BuffersCounted`, `BytesInPlace`, `MessagesWhole` and
`ParserInStep`, for any messages, buffer sizes and cuts. `BuffersCounted`: a new
buffer was free, so nothing refers to it, and the buffer in use enters the zone
only when it is replaced. `BytesInPlace`: what is not yet parsed is a piece of the
stream at the right place. The stream is the messages' elements put together by
`FlattenSeq`, a recursive function, and where an element begins in it is an
induction over messages (`FlatPiece`, `Layout`);
the library's induction theorems cannot be instantiated here, so `Induction` is
proved from the well-foundedness of the order of the naturals, for a set of
numbers instead of a predicate. `ParseInv` then says where the parser stands:
between two messages (`Between`), in an element of one, with the ones before it
decoded (`Midway`), or with the object complete and its bytes still in the buffer in
use (`Complete`). `SmallMessagesFit` has the hypothesis `Small`: no element of a message
is larger than `Reserve` (4096 bytes in the code; what is sent here, a command or
one pack with its fields, is far smaller). Larger elements do exceed the limit or make the buffer grow. It rests on
the limit in `threadConnRecv` being no larger than what the buffer has room for
twice (`Room`).

**TcpClientProofs**: `ClientTypes`, `OneReader`, `AcceptedIsDrained`, `OneWriter` and
`ToldRight`, for any bounds, prompt or not, and but for `OneReader` with or without a
moved file (`OneReader` is false with one; it rests on `OneFile`: the
file of the first run is there, and a start gets past `Open` once). The
argument turns on the join that never returns: a saver ends only after
`g_watch_done`, which main sets only after it has waited for the saver. Hence the
invariant `SaverStays`: no saver ever ends, and a second start gets no further than
the assignment of its future. `Quitting` says that a client that quits does nothing
else; `Receivers` that only `conn` and `dying` have a receive thread, and none is
dying while data is accepted; `Feeders` that the gate opens, and the ring is fed,
only after the ring was emptied for good. A repair of the join would make
`OneWriter` a question again.

**TcpServerProofs**: `ServerTypes` and `OneConnection`, for any clients, prompt or not,
throwing or not. The invariant `Stages`: `accept` is called without a connection, and
when the send daemon is waited for the receive thread has ended.

**DaqSystemProofs**: `OrdersInOrder` (`OrderSteps`: the system's initial states and steps are
those of `OrderQueue`) and `CarriedOut`, for any bounds, prompt or not. The invariant `Inv`:
what waits in the connections are the orders not carried out yet, ascending along
a connection and from one connection to the next (`Numbers`); they wait where the
server will still find them and in none before the connection it has (`Place`);
the queue holds connections in the order in which they were made (`Queue`); and,
while it listens, the server gives a connection up only when the client has closed
or reset it and all was read (`Ending`). `EachAsAlone`: on the client's variables the system
behaves as TcpClient says, on the server's as TcpServer says. With it the theorems
about either carry over (`TogetherSafe`, with `OneSaver`).

Only model-checked: liveness and fairness (`AllSaved`, `QuitUnstarted`,
`JoinWatchEnds`, `DropEnds`, `DumpEnds`, `CallEnds`, `CommandsRead`, `Served`, `CloseEnds`,
`AllHandled`, and the fairness in `FifoSpec` and `OrderSpec`), which is beyond the
prover. Every safety invariant and every action property of the passing runs is
proved, under the hypotheses named above (`InOrder` or `Unfilled`, `Alone` or `InTurn`,
`Small`, nobody moving the file), which hold of the run that checks the property; of
the two refinements the initial states and the steps are.

## Not modelled

* Most of the repository's lines: `src/src/common` is vendored, some 100 000 lines
  of msgpack (the larger part generated for other compilers and for tuples of up to
  32 elements), linenoise-ng and getopt. Of msgpack the part that keeps the bytes
  of a connection is modelled (`Unpacker`), for the messages that are sent here;
  packing, other types and the growth of a full buffer (which `Fits` shows not to
  happen) are not. The editor and the option parser are sequential libraries
  whose result the models take as "a command is typed".
* The command lines: loops over `getopt_long_only`, no state beyond the options. (In
  the client's, `-daqbHost` falls through to `-daqbPort` for want of a `break`.)
* Regular expressions, number parsing and printing of the two prompts; the data
  folder.
* The register words: that DAC channel and voltage are masked to 4 and 12 bits, the
  FEB address and data to 16, and that the reference temperature goes through a
  floating-point Celsius value. Floating point is out of TLA+'s reach, and what
  the FEB makes of a word is not in the repository.
* Socket options, keep-alive and linger; an `errno` left over from an earlier call,
  which `threadConnRecv` looks at although `recv` returned 0; the second argument of
  the server (`m_deviceid`, never read); `feb_read_hv`, which only reads and prints;
  the statistics string of the watchdog.
* Reordering of the ring's plain members by a compiler or a weakly ordered machine.
  (Built for x86-64, the comparisons load the write counter first and the read
  counter once.)
* What the server's parser takes for commands after a failed `recv`.

## Plan

Done: the ring, the reader, the codec, the slow control, the server and the
client with its connections, the message stream, the dump tool, and client and
server together, with the proofs above.

What is left, in this order:

1. **RegCtrl**: what a timeout between the two writes of a start or stop leaves behind,
   and whether the next start or stop repairs it.
2. **DaqSystem with the board**: what a lost connection in the middle of a run leaves
   behind on the board; data of an earlier run that arrives after a start.
