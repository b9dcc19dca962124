------------------------------ MODULE RegCtrl ------------------------------
(***************************************************************************)
(* Slow control of the front-end board: comet_regctrl                      *)
(* (daqb/lib/comet_wsf_regctrl.cc), used by the server and by the command  *)
(* line comet_wsf_ctrl, each a process with /dev/mem mapped.               *)
(*                                                                         *)
(* Every call is a straight line of steps: writes to a DAQB register, and  *)
(* FEB commands, each of which reads the acknowledge counter, writes the   *)
(* command register and waits until the counter has moved.  A process p    *)
(* keeps the steps it has still to do in todo[p]; ph[p] is where it is in  *)
(* the head one.  Voltages and their ASCII digits are abstracted to the    *)
(* number of the call that computed them.                                  *)
(*                                                                         *)
(* The board is not in the repository; it is modelled from what the code   *)
(* relies on: commands reach the FEB in the order written, the FEB carries *)
(* each out and then the counter, W values wide, goes up by one.           *)
(***************************************************************************)
EXTENDS Integers, Sequences

CONSTANTS Procs,     \* processes that have the registers mapped
          NDac,      \* DAC channels of the default configuration (8)
          W,         \* values of the acknowledge counter (2^32)
          Patience,  \* polls in the two seconds of the timeout (100)
          MaxCalls,  \* bound: calls made, by all processes together
          RawRegs,   \* FEB registers that `feb set raw' is used on
          Lossy,     \* TRUE: a command or its acknowledge may be lost
          Late       \* TRUE: an acknowledge may come after the timeout

ASSUME CounterMoves == W \in Nat \ {0, 1}
ASSUME ControlBounds == {NDac, Patience, MaxCalls} \subseteq Nat
ASSUME BoardHabits == Lossy \in BOOLEAN /\ Late \in BOOLEAN

VARIABLES
  todo,     \* steps the call of each process has still to do
  ph,       \* "step", "write", "poll", "clock", or "down" once terminated
  last,     \* last_ack_cnt
  polls,    \* polls made in the present wait
  temp,     \* the temperature read: the call that had it fetched, 0 for the
            \* error value, -1 for none yet
  call,     \* history: number of the call a process is in
  doing,    \* history: its name
  mine,     \* history: number of the last command it wrote
  calls,    \* history: calls made
  issued,   \* history: commands written
  link,     \* commands on their way to the FEB
  ack,      \* R_DAQB_CMD_ACK
  tempReg,  \* R_DAQB_TEMP
  daqb,     \* R_DAQB_DATA_RUN and R_DAQB_DATA_RESET
  feb,      \* registers of the FEB
  done      \* history: number of the last command the FEB carried out

code == <<todo, ph, last, polls, temp>>
history == <<call, doing, mine, calls, issued>>
board == <<link, ack, tempReg, feb, done>>
vars == <<code, history, board, daqb>>

\* R_DAQB_TEMP does not hold hexadecimal digits.
Garbled == -1

FebRegs == {"run", "reset", "tempFetch", "dacConf", "dacPush", "asic0Conf",
            "asic0Push", "asic1Conf", "asic1Push", "vh", "vl", "th", "tl",
            "sum", "hvPush"}
ASSUME RawRegsOfFeb == RawRegs \subseteq FebRegs
----------------------------------------------------------------------------
\* The steps.  val tells two writes to one register apart; a push carries the
\* val of what it pushes, where the code writes 1.
Feb(r, v) == [op |-> "feb", reg |-> r, val |-> v]
Daqb(r, v) == [op |-> "daqb", reg |-> r, val |-> v]
ReadTemp == [op |-> "temp", reg |-> "temp", val |-> 0]

\* Mutant: the temperature is read before the fetch.
feb_read_new_temp_early == <<ReadTemp, Feb("tempFetch", 1)>>

feb_read_new_temp == <<Feb("tempFetch", 1), ReadTemp>>

\* Mutant: the low half of the reference temperature is left out.
feb_set_hv_voltage_high ==
  <<Feb("vh", 0), Feb("vl", 0)>> \o feb_read_new_temp \o
  <<Feb("th", 0), Feb("sum", 0), Feb("hvPush", 0)>>

feb_set_hv_voltage ==
  <<Feb("vh", 0), Feb("vl", 0)>> \o feb_read_new_temp \o
  <<Feb("th", 0), Feb("tl", 0), Feb("sum", 0), Feb("hvPush", 0)>>

feb_set_dac_voltage(ch) == <<Feb("dacConf", ch), Feb("dacPush", ch)>>

\* A channel above 1 does not exist; the code returns at once.
feb_set_asic_raw(ch) ==
  CASE ch = 0 -> <<Feb("asic0Conf", 0), Feb("asic0Push", 0)>>
    [] ch = 1 -> <<Feb("asic1Conf", 0), Feb("asic1Push", 0)>>
    [] OTHER -> << >>

daq_start_run == <<Daqb("run", 1), Feb("run", 1)>>

\* Mutant: the board stops listening before the FEB is told.
daq_stop_run_board == <<Daqb("run", 0), Feb("run", 1)>>

\* The FEB is sent the same 1 as at the start.
daq_stop_run == <<Feb("run", 1), Daqb("run", 0)>>

daq_reset == <<Feb("reset", 1), Daqb("reset", 1)>>

\* The channels in turn, each of them set and pushed; then the high voltage.
DefaultDacs ==
  [i \in 1 .. 2 * NDac |-> feb_set_dac_voltage((i - 1) \div 2)[2 - (i % 2)]]
daq_conf_default == DefaultDacs \o feb_set_hv_voltage

\* What `daqb set raw' is used to write to R_DAQB_DATA_RUN.
RawRuns == IF RawRegs = {} THEN {} ELSE {0, 1}

\* The messages of the client, which comet_wsf_ctrl has as commands too, ...
ServerCalls ==
  {[name |-> "conf", steps |-> daq_conf_default],
   [name |-> "reset", steps |-> daq_reset],
   [name |-> "start", steps |-> daq_start_run],
   [name |-> "stop", steps |-> daq_stop_run]}

\* ... and its other commands.
ToolCalls ==
  {[name |-> "temp", steps |-> feb_read_new_temp],
   [name |-> "hvolt", steps |-> feb_set_hv_voltage],
   [name |-> "dac", steps |-> feb_set_dac_voltage(0)]}
  \cup {[name |-> "asic", steps |-> feb_set_asic_raw(ch)] : ch \in 0 .. 2}
  \cup {[name |-> "daqb raw", steps |-> <<Daqb("run", v)>>] : v \in RawRuns}

Calls == ServerCalls \cup ToolCalls
----------------------------------------------------------------------------
Init ==
  /\ todo = [p \in Procs |-> << >>] /\ ph = [p \in Procs |-> "step"]
  /\ last = [p \in Procs |-> 0] /\ polls = [p \in Procs |-> 0]
  /\ temp = [p \in Procs |-> -1]
  /\ call = [p \in Procs |-> 0] /\ doing = [p \in Procs |-> "none"]
  /\ mine = [p \in Procs |-> 0] /\ calls = 0 /\ issued = 0
  /\ link = << >> /\ ack \in {0, W - 1} /\ tempReg = 0
  /\ daqb = [r \in {"run", "reset"} |-> 0]
  /\ feb = [r \in FebRegs |-> [by |-> 0, val |-> 0]] /\ done = 0

Idle(p) == ph[p] = "step" /\ todo[p] = << >> /\ calls < MaxCalls
Step(p, op) == ph[p] = "step" /\ todo[p] # << >> /\ Head(todo[p]).op = op
Drop(p) == todo' = [todo EXCEPT ![p] = Tail(@)]
Goto(p, phase) == ph' = [ph EXCEPT ![p] = phase]

\* A message of the client or a line typed at the prompt.
Call(p) ==
  /\ Idle(p)
  /\ \E c \in Calls :
       /\ todo' = [todo EXCEPT ![p] = c.steps]
       /\ doing' = [doing EXCEPT ![p] = c.name]
  /\ calls' = calls + 1 /\ call' = [call EXCEPT ![p] = calls + 1]
  /\ temp' = [temp EXCEPT ![p] = -1]
  /\ UNCHANGED <<ph, last, polls, mine, issued, board, daqb>>

\* daqb_reg_write
DaqbWrite(p) ==
  /\ Step(p, "daqb") /\ Drop(p)
  /\ daqb' = [daqb EXCEPT ![Head(todo[p]).reg] = Head(todo[p]).val]
  /\ UNCHANGED <<ph, last, polls, temp, history, board>>

\* The temperature is read once the fetch is thought to be acknowledged.
TempRead(p) ==
  /\ Step(p, "temp") /\ tempReg # Garbled /\ Drop(p)
  /\ temp' = [temp EXCEPT ![p] = tempReg]
  /\ UNCHANGED <<ph, last, polls, history, board, daqb>>

\* std::stoul throws: the process (or the receive thread of the server) ends.
TempThrows(p) ==
  /\ Step(p, "temp") /\ tempReg = Garbled
  /\ Goto(p, "down") /\ todo' = [todo EXCEPT ![p] = << >>]
  /\ UNCHANGED <<last, polls, temp, history, board, daqb>>

\* Mutant: the counter is read for the first command only.
LastAckKept(p) ==
  /\ Step(p, "feb") /\ Goto(p, "write")
  /\ UNCHANGED <<todo, last, polls, temp, history, board, daqb>>

\* daqb_read_last_ack_cnt
LastAck(p) ==
  /\ Step(p, "feb") /\ Goto(p, "write")
  /\ last' = [last EXCEPT ![p] = ack]
  /\ UNCHANGED <<todo, polls, temp, history, board, daqb>>

\* feb_cmd_write: a command goes on its way.
Send(p, r, v, op) ==
  /\ issued' = issued + 1 /\ mine' = [mine EXCEPT ![p] = issued + 1]
  /\ link' = Append(link, [id |-> issued + 1, reg |-> r, val |-> v,
                           by |-> call[p], op |-> op])
  /\ UNCHANGED <<ack, tempReg, feb, done, daqb>>

\* The reference temperature and the checksum depend on what was read.
CmdWrite(p) ==
  LET s == Head(todo[p])
      v == IF s.reg \in {"th", "tl", "sum"} THEN temp[p] ELSE s.val
  IN /\ ph[p] = "write" /\ Goto(p, "poll") /\ Send(p, s.reg, v, "feb")
     /\ polls' = [polls EXCEPT ![p] = 0]
     /\ UNCHANGED <<todo, last, temp, call, doing, calls>>

\* `feb set raw' is one feb_cmd_write, and waits for nothing.
RawWrite(p) ==
  /\ Idle(p)
  /\ \E r \in RawRegs : Send(p, r, 0, "raw")
  /\ calls' = calls + 1
  /\ UNCHANGED <<code, call, doing>>
----------------------------------------------------------------------------
\* daqb_wait_for_ack_cnt: the counter is read; has it moved?
Acked(p) ==
  /\ ph[p] = "poll" /\ ack # last[p]
  /\ Goto(p, "step") /\ Drop(p)
  /\ UNCHANGED <<last, polls, temp, history, board, daqb>>

NotAcked(p) ==
  /\ ph[p] = "poll" /\ ack = last[p]
  /\ Goto(p, "clock")
  /\ UNCHANGED <<todo, last, polls, temp, history, board, daqb>>

\* Mutant: one poll too many.
SleepOver(p) ==
  /\ ph[p] = "clock" /\ polls[p] <= Patience
  /\ Goto(p, "poll") /\ polls' = [polls EXCEPT ![p] = @ + 1]
  /\ UNCHANGED <<todo, last, temp, history, board, daqb>>

\* Mutant: the deadline is set anew at every turn.
SleepAnew(p) ==
  /\ ph[p] = "clock" /\ polls[p] < Patience
  /\ Goto(p, "poll") /\ polls' = [polls EXCEPT ![p] = 0]
  /\ UNCHANGED <<todo, last, temp, history, board, daqb>>

\* Not yet two seconds: sleep and poll again.
Sleep(p) ==
  /\ ph[p] = "clock" /\ polls[p] < Patience
  /\ Goto(p, "poll") /\ polls' = [polls EXCEPT ![p] = @ + 1]
  /\ UNCHANGED <<todo, last, temp, history, board, daqb>>

OnItsWay(p) == \E i \in 1 .. Len(link) : link[i].id = mine[p]

\* `throw;' with no exception ends the process.
TimeOut(p) ==
  /\ ph[p] = "clock" /\ (Late \/ ~OnItsWay(p))
  /\ Goto(p, "down") /\ todo' = [todo EXCEPT ![p] = << >>]
  /\ UNCHANGED <<last, polls, temp, history, board, daqb>>

\* The process is started again.
Restart(p) ==
  /\ ph[p] = "down" /\ calls < MaxCalls
  /\ Goto(p, "step") /\ temp' = [temp EXCEPT ![p] = -1]
  /\ UNCHANGED <<todo, last, polls, history, board, daqb>>

Wait(p) == Acked(p) \/ NotAcked(p) \/ Sleep(p) \/ TimeOut(p)
Work(p) == DaqbWrite(p) \/ TempRead(p) \/ LastAck(p) \/ CmdWrite(p)
             \/ TempThrows(p) \/ Wait(p)
----------------------------------------------------------------------------
\* The FEB carries out the first command; a fetch fills R_DAQB_TEMP, possibly
\* with what the code takes for an error, or cannot convert.
CarryOut(c) ==
  /\ feb' = [feb EXCEPT ![c.reg] = [by |-> c.by, val |-> c.val]]
  /\ done' = c.id
  /\ tempReg' \in (IF c.reg = "tempFetch" THEN {Garbled, 0, c.by} ELSE {tempReg})

Execute ==
  /\ link # << >> /\ link' = Tail(link)
  /\ CarryOut(Head(link))
  /\ ack' = (ack + 1) % W
  /\ UNCHANGED <<code, history, daqb>>

AckLost ==
  /\ Lossy /\ link # << >> /\ link' = Tail(link)
  /\ CarryOut(Head(link))
  /\ UNCHANGED <<code, history, ack, daqb>>

CommandLost ==
  /\ Lossy /\ link # << >> /\ link' = Tail(link)
  /\ UNCHANGED <<code, history, ack, tempReg, feb, done, daqb>>

Board == Execute \/ AckLost \/ CommandLost

Next == (\E p \in Procs : Call(p) \/ RawWrite(p) \/ Work(p) \/ Restart(p)) \/ Board

\* Processes are scheduled; a board that is never late answers in the end.
Fairness == /\ \A p \in Procs : WF_vars(Work(p))
            /\ ~Late => WF_vars(Board)

Spec == Init /\ [][Next]_vars /\ Fairness

\* A process that waits for every command it writes: the server, or a prompt
\* at which nobody uses `feb set raw'.
WaitingNext == (\E p \in Procs : Call(p) \/ Work(p) \/ Restart(p)) \/ Board
WaitingSpec == Init /\ [][WaitingNext]_vars /\ Fairness
----------------------------------------------------------------------------
Steps == [op : {"feb"}, reg : FebRegs, val : Nat]
           \cup [op : {"daqb"}, reg : {"run", "reset"}, val : {0, 1}]
           \cup {ReadTemp}
Commands == [id : Nat, reg : FebRegs, val : Int, by : Nat,
             op : {"feb", "raw"}]

TypeOK ==
  /\ todo \in [Procs -> Seq(Steps)]
  /\ ph \in [Procs -> {"step", "write", "poll", "clock", "down"}]
  /\ last \in [Procs -> 0 .. W - 1] /\ polls \in [Procs -> 0 .. Patience]
  /\ temp \in [Procs -> Int] /\ call \in [Procs -> Nat]
  /\ mine \in [Procs -> Nat] /\ calls \in Nat /\ issued \in Nat
  /\ link \in Seq(Commands) /\ ack \in 0 .. W - 1 /\ tempReg \in Int
  /\ daqb \in [{"run", "reset"} -> {0, 1}]
  /\ feb \in [FebRegs -> [by : Nat, val : Int]] /\ done \in Nat

\* With one process, a board that is never late and no raw writes, a command
\* is written only when the one before it is through: there is never more
\* than one on its way, whatever is lost and however often the process dies.
OneOnItsWay == Len(link) <= 1

\* A wait that returns means that the FEB has carried out the very command
\* that was written before it.
AckMeansDone ==
  [][\A p \in Procs : ph[p] = "poll" /\ ph'[p] = "step" => done = mine[p]]_vars

\* "temp raw new": the temperature a call works with was fetched for it (or
\* is the error value).
NewTemp == \A p \in Procs : temp[p] \in {-1, 0, call[p]}

\* Each push the FEB is about to carry out pushes what its own call has set
\* up in the registers: the same DAC channel or ASIC, and for the high
\* voltage all five registers, with one reference temperature and the
\* checksum of it.
PushesOwn(c) ==
  /\ c.reg = "dacPush" => feb["dacConf"] = [by |-> c.by, val |-> c.val]
  /\ c.reg = "asic0Push" => feb["asic0Conf"].by = c.by
  /\ c.reg = "asic1Push" => feb["asic1Conf"].by = c.by
  /\ c.reg = "hvPush" =>
       /\ \A r \in {"vh", "vl", "th", "tl", "sum"} : feb[r].by = c.by
       /\ feb["th"].val = feb["sum"].val /\ feb["tl"].val = feb["sum"].val
PushWhole ==
  (link # << >> /\ Head(link).op = "feb") => PushesOwn(Head(link))

\* The board listens before the FEB is told to run, and stops listening only
\* when the FEB has carried out the command of this stop.
RunOrder ==
  [][daqb["run"] # daqb'["run"] =>
       \E p \in Procs :
         IF daqb'["run"] = 1
           THEN doing[p] = "start" /\ feb["run"].by # call[p]
           ELSE doing[p] = "stop" /\ feb["run"].by = call[p]]_vars

\* Every call returns or the process ends: no wait lasts for ever.
CallEnds == \A p \in Procs : (todo[p] # << >>) ~> (todo[p] = << >>)
=============================================================================
