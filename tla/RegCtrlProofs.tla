--------------------------- MODULE RegCtrlProofs ---------------------------
(***************************************************************************)
(* What the acknowledge counter of comet_regctrl is worth, proved for      *)
(* every width of the counter, number of channels, timeout and number of   *)
(* calls, whatever is lost: types for any use of the registers; for the    *)
(* use they are written for (Alone) the hand-shake, and from it that what  *)
(* is pushed was set up by the same call, that the temperature was fetched *)
(* for it, and that the board listens while the FEB is told to run.  Last, *)
(* that raw writes and late acknowledges do not spoil a push as long as    *)
(* nothing is lost.                                                        *)
(***************************************************************************)
EXTENDS RegCtrl, SequenceTheorems, TLAPS

\* One process at a time, which waits for each command, and a board that
\* answers within the two seconds or never.
Alone == /\ \A p, q \in Procs : p = q
         /\ RawRegs = {} /\ ~Late

\* While a process is in the middle of a command, that command is the first
\* of what it has to do.
AtCommand ==
  \A p \in Procs : ph[p] \in {"write", "poll", "clock"} =>
                     todo[p] # << >> /\ Head(todo[p]).op = "feb"

TypeInv == TypeOK /\ AtCommand

\* Between commands nothing is on its way; in a wait it is the command waited
\* for, and the counter has not moved, or it is through.
HandShake ==
  /\ Len(link) <= 1
  /\ \A p \in Procs :
       /\ ph[p] \in {"step", "write", "down"} => link = << >>
       /\ ph[p] = "write" => last[p] = ack
       /\ ph[p] \in {"poll", "clock"} =>
            \/ link # << >> /\ link[1].id = mine[p] /\ ack = last[p]
            \/ link = << >> /\ (ack = last[p] \/ done = mine[p])
----------------------------------------------------------------------------
LEMMA FebStep == \A r \in FebRegs, v \in Nat :
                   Feb(r, v) \in Steps /\ Feb(r, v).op = "feb"
  BY DEF Feb, Steps

LEMMA DaqbStep == \A r \in {"run", "reset"}, v \in {0, 1} : Daqb(r, v) \in Steps
  BY DEF Daqb, Steps

LEMMA Pair == ASSUME NEW S, NEW a \in S, NEW b \in S
              PROVE  <<a, b>> \in Seq(S) /\ Len(<<a, b>>) = 2
  OBVIOUS

LEMMA TempTyped == feb_read_new_temp \in Seq(Steps)
<1>1. Feb("tempFetch", 1) \in Steps
  BY FebStep DEF FebRegs
<1>2. ReadTemp \in Steps
  BY DEF Steps
<1> QED
  BY <1>1, <1>2, Pair DEF feb_read_new_temp

LEMMA VoltageTyped == feb_set_hv_voltage \in Seq(Steps)
<1>1. <<Feb("vh", 0), Feb("vl", 0)>> \in Seq(Steps)
  BY FebStep, Pair DEF FebRegs
<1>2. <<Feb("th", 0), Feb("tl", 0), Feb("sum", 0), Feb("hvPush", 0)>>
        \in Seq(Steps)
  <2>1. /\ Feb("th", 0) \in Steps /\ Feb("tl", 0) \in Steps
        /\ Feb("sum", 0) \in Steps /\ Feb("hvPush", 0) \in Steps
    BY FebStep DEF FebRegs
  <2> QED
    BY <2>1
<1>3. <<Feb("vh", 0), Feb("vl", 0)>> \o feb_read_new_temp \in Seq(Steps)
  BY <1>1, TempTyped, ConcatProperties
<1> QED
  BY <1>2, <1>3, ConcatProperties DEF feb_set_hv_voltage

LEMMA DacTyped == \A ch \in Nat : /\ feb_set_dac_voltage(ch) \in Seq(Steps)
                                  /\ Len(feb_set_dac_voltage(ch)) = 2
  BY FebStep, Pair DEF feb_set_dac_voltage, FebRegs

LEMMA AsicTyped == \A ch \in 0 .. 2 : feb_set_asic_raw(ch) \in Seq(Steps)
<1>1. /\ <<Feb("asic0Conf", 0), Feb("asic0Push", 0)>> \in Seq(Steps)
      /\ <<Feb("asic1Conf", 0), Feb("asic1Push", 0)>> \in Seq(Steps)
      /\ << >> \in Seq(Steps)
  BY FebStep, Pair, EmptySeq DEF FebRegs
<1> QED
  BY <1>1 DEF feb_set_asic_raw

LEMMA DefaultsTyped == daq_conf_default \in Seq(Steps)
<1>1. DefaultDacs \in Seq(Steps)
  <2>1. 2 * NDac \in Nat
    BY ControlBounds
  <2>2. ASSUME NEW i \in 1 .. 2 * NDac
        PROVE  feb_set_dac_voltage((i - 1) \div 2)[2 - (i % 2)] \in Steps
    <3>1. (i - 1) \div 2 \in Nat /\ 2 - (i % 2) \in 1 .. 2
      BY <2>1
    <3> DEFINE s == feb_set_dac_voltage((i - 1) \div 2)
    <3>2. s \in Seq(Steps) /\ Len(s) = 2
      BY <3>1, DacTyped
    <3> HIDE DEF s
    <3>3. s[2 - (i % 2)] \in Steps
      BY <3>1, <3>2, ElementOfSeq
    <3> QED
      BY <3>3 DEF s
  <2> QED
    BY <2>1, <2>2, IsASeq DEF DefaultDacs
<1> QED
  BY <1>1, VoltageTyped, ConcatProperties DEF daq_conf_default

\* Whatever is called, its steps are steps.
LEMMA CallsTyped == \A c \in Calls : c.steps \in Seq(Steps)
<1>1. daq_reset \in Seq(Steps)
  BY FebStep, DaqbStep, Pair DEF daq_reset, FebRegs
<1>2. daq_start_run \in Seq(Steps)
  BY FebStep, DaqbStep, Pair DEF daq_start_run, FebRegs
<1>3. daq_stop_run \in Seq(Steps)
  BY FebStep, DaqbStep, Pair DEF daq_stop_run, FebRegs
<1>4. \A v \in {0, 1} : <<Daqb("run", v)>> \in Seq(Steps)
  BY DaqbStep
<1>5. RawRuns \subseteq {0, 1}
  BY DEF RawRuns
<1>6. SUFFICES ASSUME NEW c \in Calls PROVE c.steps \in Seq(Steps)
  OBVIOUS
<1>7. feb_set_dac_voltage(0) \in Seq(Steps)
  BY DacTyped
<1>8. CASE c \in ServerCalls
  BY <1>1, <1>2, <1>3, <1>8, DefaultsTyped DEF ServerCalls
<1>9. CASE c \in ToolCalls
  <2>1. CASE \E ch \in 0 .. 2 :
               c = [name |-> "asic", steps |-> feb_set_asic_raw(ch)]
    BY <2>1, AsicTyped
  <2>2. CASE \E v \in RawRuns :
               c = [name |-> "daqb raw", steps |-> <<Daqb("run", v)>>]
    <3>1. PICK v \in RawRuns :
                 c = [name |-> "daqb raw", steps |-> <<Daqb("run", v)>>]
      BY <2>2
    <3>2. c.steps = <<Daqb("run", v)>>
      BY <3>1
    <3>3. v \in {0, 1}
      BY <3>1, <1>5
    <3> QED
      BY <3>2, <3>3, <1>4
  <2>3. CASE c \in {[name |-> "temp", steps |-> feb_read_new_temp],
                    [name |-> "hvolt", steps |-> feb_set_hv_voltage],
                    [name |-> "dac", steps |-> feb_set_dac_voltage(0)]}
    BY <2>3, <1>7, TempTyped, VoltageTyped
  <2> QED
    BY <1>9, <2>1, <2>2, <2>3 DEF ToolCalls
<1> QED
  BY <1>8, <1>9 DEF Calls
----------------------------------------------------------------------------
LEMMA InitTypes == Init => TypeInv
<1> SUFFICES ASSUME Init PROVE TypeInv
  OBVIOUS
<1>1. ack \in 0 .. W - 1
  BY CounterMoves DEF Init
<1>2. todo \in [Procs -> Seq(Steps)] /\ link \in Seq(Commands)
  BY EmptySeq DEF Init
<1>3. /\ last \in [Procs -> 0 .. W - 1] /\ polls \in [Procs -> 0 .. Patience]
  BY CounterMoves, ControlBounds DEF Init
<1>4. feb \in [FebRegs -> [by : Nat, val : Int]]
  BY DEF Init
<1> QED
  BY <1>1, <1>2, <1>3, <1>4 DEF Init, TypeInv, TypeOK, AtCommand

LEMMA HeadTyped ==
  TypeOK => \A p \in Procs : todo[p] # << >> =>
              Head(todo[p]) \in Steps /\ Tail(todo[p]) \in Seq(Steps)
  BY HeadTailProperties DEF TypeOK

\* What is sent joins the commands on their way.
LEMMA SendTypes ==
  ASSUME TypeOK, NEW p \in Procs, NEW r \in FebRegs, NEW v \in Int,
         NEW op \in {"feb", "raw"}, Send(p, r, v, op)
  PROVE  /\ issued' \in Nat /\ mine' \in [Procs -> Nat]
         /\ link' \in Seq(Commands)
         /\ link' = Append(link, [id |-> issued + 1, reg |-> r, val |-> v,
                                  by |-> call[p], op |-> op])
         /\ ack' = ack /\ tempReg' = tempReg /\ feb' = feb /\ done' = done
         /\ daqb' = daqb
         /\ mine' = [mine EXCEPT ![p] = issued + 1]
<1> DEFINE c == [id |-> issued + 1, reg |-> r, val |-> v, by |-> call[p],
                 op |-> op]
<1>1. c \in Commands
  BY DEF TypeOK, Commands
<1>2. Append(link, c) \in Seq(Commands)
  BY <1>1, AppendProperties DEF TypeOK
<1> QED
  BY <1>2 DEF Send, TypeOK

LEMMA NextTypes == TypeInv /\ [Next]_vars => TypeInv'
<1> SUFFICES ASSUME TypeInv, [Next]_vars PROVE TypeInv'
  OBVIOUS
<1> USE DEF TypeInv
<1>1. ASSUME NEW p \in Procs, Call(p) PROVE TypeInv'
  <2>1. PICK c \in Calls : /\ todo' = [todo EXCEPT ![p] = c.steps]
                           /\ doing' = [doing EXCEPT ![p] = c.name]
    BY <1>1 DEF Call
  <2>2. c.steps \in Seq(Steps)
    BY CallsTyped
  <2>3. TypeOK'
    BY SMTT(30), <1>1, <2>1, <2>2 DEF Call, TypeOK, board
  <2>4. AtCommand'
    BY <1>1, <2>1 DEF Call, Idle, TypeOK, AtCommand
  <2> QED
    BY <2>3, <2>4
<1>2. ASSUME NEW p \in Procs, RawWrite(p) PROVE TypeInv'
  <2>1. PICK r \in RawRegs : Send(p, r, 0, "raw")
    BY <1>2 DEF RawWrite
  <2>2. r \in FebRegs
    BY RawRegsOfFeb
  <2>5. /\ issued' \in Nat /\ mine' \in [Procs -> Nat] /\ link' \in Seq(Commands)
        /\ ack' = ack /\ tempReg' = tempReg /\ feb' = feb /\ done' = done
        /\ daqb' = daqb
    <3>1. 0 \in Int /\ "raw" \in {"feb", "raw"}
      OBVIOUS
    <3> QED
      BY <2>1, <2>2, <3>1, SendTypes, Zenon
  <2>3. TypeOK'
    BY SMTT(30), <1>2, <2>5 DEF RawWrite, TypeOK, code
  <2>4. AtCommand'
    BY <1>2 DEF RawWrite, AtCommand, code
  <2> QED
    BY <2>3, <2>4
<1>3. ASSUME NEW p \in Procs, DaqbWrite(p) PROVE TypeInv'
  <2>1. Head(todo[p]) \in Steps /\ Tail(todo[p]) \in Seq(Steps)
    BY <1>3, HeadTyped DEF DaqbWrite, Step
  <2>2. Head(todo[p]).reg \in {"run", "reset"} /\ Head(todo[p]).val \in {0, 1}
    BY <1>3, <2>1 DEF DaqbWrite, Step, Steps, ReadTemp
  <2>3. TypeOK'
    BY <1>3, <2>1, <2>2 DEF DaqbWrite, Drop, TypeOK, history, board
  <2>4. AtCommand'
    BY <1>3 DEF DaqbWrite, Step, Drop, AtCommand, TypeOK
  <2> QED
    BY <2>3, <2>4
<1>4. ASSUME NEW p \in Procs, TempRead(p) PROVE TypeInv'
  <2>1. Tail(todo[p]) \in Seq(Steps)
    BY <1>4, HeadTyped DEF TempRead, Step
  <2>2. TypeOK'
    BY <1>4, <2>1 DEF TempRead, Drop, TypeOK, history, board
  <2>3. AtCommand'
    BY <1>4 DEF TempRead, Step, Drop, AtCommand, TypeOK
  <2> QED
    BY <2>2, <2>3
<1>5. ASSUME NEW p \in Procs, TempThrows(p) PROVE TypeInv'
  <2>1. TypeOK'
    BY <1>5, EmptySeq DEF TempThrows, Goto, TypeOK, history, board
  <2>2. AtCommand'
    BY <1>5 DEF TempThrows, Goto, AtCommand, TypeOK
  <2> QED
    BY <2>1, <2>2
<1>6. ASSUME NEW p \in Procs, LastAck(p) PROVE TypeInv'
  <2>1. TypeOK'
    BY <1>6 DEF LastAck, Goto, TypeOK, history, board
  <2>2. AtCommand'
    BY <1>6 DEF LastAck, Step, Goto, AtCommand, TypeOK
  <2> QED
    BY <2>1, <2>2
<1>7. ASSUME NEW p \in Procs, CmdWrite(p) PROVE TypeInv'
  <2> DEFINE s == Head(todo[p])
             v == IF s.reg \in {"th", "tl", "sum"} THEN temp[p] ELSE s.val
  <2>1. s \in Steps /\ s.op = "feb"
    BY <1>7, HeadTyped DEF CmdWrite, AtCommand
  <2>2. s.reg \in FebRegs /\ s.val \in Nat
    BY <2>1 DEF Steps, ReadTemp
  <2>3. v \in Int
    BY <2>2 DEF TypeOK
  <2>4. Send(p, s.reg, v, "feb")
    BY <1>7 DEF CmdWrite
  <2> HIDE DEF s, v
  <2>7. /\ issued' \in Nat /\ mine' \in [Procs -> Nat] /\ link' \in Seq(Commands)
        /\ ack' = ack /\ tempReg' = tempReg /\ feb' = feb /\ done' = done
        /\ daqb' = daqb
    BY <2>2, <2>3, <2>4, SendTypes
  <2>5. TypeOK'
    <3>1. polls' \in [Procs -> 0 .. Patience]
      BY <1>7, ControlBounds DEF CmdWrite, TypeOK
    <3>2. ph' \in [Procs -> {"step", "write", "poll", "clock", "down"}]
      BY <1>7 DEF CmdWrite, Goto, TypeOK
    <3>3. /\ todo' = todo /\ last' = last /\ temp' = temp /\ call' = call
          /\ calls' = calls
      BY <1>7 DEF CmdWrite
    <3> QED
      BY <2>7, <3>1, <3>2, <3>3 DEF TypeOK
  <2>6. AtCommand'
    BY <1>7 DEF CmdWrite, Goto, AtCommand, TypeOK
  <2> QED
    BY <2>5, <2>6
<1>8. ASSUME NEW p \in Procs, Acked(p) PROVE TypeInv'
  <2>1. Tail(todo[p]) \in Seq(Steps)
    BY <1>8, HeadTyped DEF Acked, AtCommand
  <2>2. TypeOK'
    BY <1>8, <2>1 DEF Acked, Goto, Drop, TypeOK, history, board
  <2>3. AtCommand'
    BY <1>8 DEF Acked, Goto, Drop, AtCommand, TypeOK
  <2> QED
    BY <2>2, <2>3
<1>9. ASSUME NEW p \in Procs, NotAcked(p) \/ Sleep(p) PROVE TypeInv'
  <2>3. ASSUME NotAcked(p) PROVE TypeOK'
    BY <2>3 DEF NotAcked, Goto, TypeOK, history, board
  <2>4. ASSUME Sleep(p) PROVE TypeOK'
    <3>1. polls[p] + 1 \in 0 .. Patience
      BY <2>4, ControlBounds DEF Sleep, TypeOK
    <3>2. polls' \in [Procs -> 0 .. Patience]
      BY <2>4, <3>1 DEF Sleep, TypeOK
    <3> QED
      BY <2>4, <3>2 DEF Sleep, Goto, TypeOK, history, board
  <2>1. TypeOK'
    BY <1>9, <2>3, <2>4
  <2>2. AtCommand'
    BY <1>9 DEF NotAcked, Sleep, Goto, AtCommand, TypeOK
  <2> QED
    BY <2>1, <2>2
<1>10. ASSUME NEW p \in Procs, TimeOut(p) \/ Restart(p) PROVE TypeInv'
  <2>3. ASSUME TimeOut(p) PROVE TypeOK'
    BY <2>3, EmptySeq DEF TimeOut, Goto, TypeOK, history, board
  <2>4. ASSUME Restart(p) PROVE TypeOK'
    BY SMTT(30), <2>4 DEF Restart, Goto, TypeOK, history, board
  <2>1. TypeOK'
    BY <1>10, <2>3, <2>4
  <2>2. AtCommand'
    BY <1>10 DEF TimeOut, Restart, Goto, AtCommand, TypeOK
  <2> QED
    BY <2>1, <2>2
<1>11. ASSUME Board PROVE TypeInv'
  <2>1. link # << >> /\ link' = Tail(link)
    BY <1>11 DEF Board, Execute, AckLost, CommandLost
  <2>2. Head(link) \in Commands /\ Tail(link) \in Seq(Commands)
    BY <2>1, HeadTailProperties DEF TypeOK
  <2>3. ASSUME CarryOut(Head(link))
        PROVE  /\ feb' \in [FebRegs -> [by : Nat, val : Int]]
               /\ done' \in Nat /\ tempReg' \in Int
    <3> DEFINE c == Head(link)
    <3>1. /\ c.id \in Nat /\ c.reg \in FebRegs /\ c.val \in Int
          /\ c.by \in Nat
      BY <2>2 DEF Commands
    <3>2. /\ feb' = [feb EXCEPT ![c.reg] = [by |-> c.by, val |-> c.val]]
          /\ done' = c.id
          /\ tempReg' \in {Garbled, 0, c.by} \cup {tempReg}
      BY <2>3 DEF CarryOut
    <3> HIDE DEF c
    <3>3. feb' \in [FebRegs -> [by : Nat, val : Int]]
      BY <3>1, <3>2 DEF TypeOK
    <3> QED
      BY <3>1, <3>2, <3>3 DEF TypeOK, Garbled
  <2>4. (ack + 1) % W \in 0 .. W - 1
    BY CounterMoves DEF TypeOK
  <2>5. TypeOK'
    BY <1>11, <2>1, <2>2, <2>3, <2>4
    DEF Board, Execute, AckLost, CommandLost, TypeOK, code, history
  <2>6. AtCommand'
    BY <1>11 DEF Board, Execute, AckLost, CommandLost, AtCommand, code
  <2> QED
    BY <2>5, <2>6
<1>12. CASE UNCHANGED vars
  BY <1>12 DEF vars, code, history, board, TypeOK, AtCommand
<1> QED
  BY <1>1, <1>2, <1>3, <1>4, <1>5, <1>6, <1>7, <1>8, <1>9, <1>10, <1>11, <1>12
  DEF Next, Work, Wait

\* The variables of the slow control keep their types, for any number of
\* processes and any habits of the board.
THEOREM ControlTypes == Spec => []TypeOK
<1>1. Spec => []TypeInv
  BY InitTypes, NextTypes, PTL DEF Spec
<1> QED
  BY <1>1, PTL DEF TypeInv
----------------------------------------------------------------------------
\* What is proved of Spec holds of processes that wait for every command.
LEMMA WaitingIsSpec == WaitingSpec => Spec
<1>1. WaitingNext => Next
  BY DEF WaitingNext, Next
<1> QED
  BY <1>1, PTL DEF WaitingSpec, Spec

LEMMA InitHandShake == Init => HandShake
  BY DEF Init, HandShake

LEMMA NextHandShake == Alone /\ TypeInv /\ HandShake /\ [Next]_vars => HandShake'
<1> SUFFICES ASSUME Alone, TypeInv, HandShake, [Next]_vars PROVE HandShake'
  OBVIOUS
<1> USE DEF TypeInv
\* Steps that leave the link, the counters and the waiting process alone.
<1>1. ASSUME NEW p \in Procs,
             Call(p) \/ DaqbWrite(p) \/ TempRead(p)
      PROVE  HandShake'
  BY <1>1 DEF Call, DaqbWrite, TempRead, HandShake, history, board
<1>2. ASSUME NEW p \in Procs, RawWrite(p) PROVE HandShake'
  BY <1>2 DEF RawWrite, Alone
<1>3. ASSUME NEW p \in Procs, TempThrows(p) PROVE HandShake'
  BY <1>3 DEF TempThrows, Step, Goto, HandShake, TypeOK, Alone, history, board
<1>4. ASSUME NEW p \in Procs, LastAck(p) PROVE HandShake'
  BY <1>4 DEF LastAck, Step, Goto, HandShake, TypeOK, Alone, history, board
\* The link is empty, so that what is sent is alone on it.
<1>5. ASSUME NEW p \in Procs, CmdWrite(p) PROVE HandShake'
  <2>1. ph[p] = "write" /\ link = << >> /\ last[p] = ack
    BY <1>5 DEF CmdWrite, HandShake
  <2>2. PICK c : link' = Append(link, c) /\ c.id = issued + 1
    BY <1>5 DEF CmdWrite, Send
  <2>3. Len(link') = 1 /\ link'[1] = c /\ link' # << >>
    BY <2>1, <2>2
  <2>4. /\ ph'[p] = "poll" /\ mine'[p] = issued + 1
        /\ last' = last /\ ack' = ack
    BY <1>5 DEF CmdWrite, Send, Goto, TypeOK
  <2>5. \A q \in Procs : q = p
    BY DEF Alone
  <2> QED
    BY <2>1, <2>2, <2>3, <2>4, <2>5 DEF HandShake
\* The counter has moved: only the process's own command moves it.
<1>6. ASSUME NEW p \in Procs, Acked(p) PROVE HandShake'
  BY <1>6 DEF Acked, Goto, HandShake, TypeOK, Alone, history, board
<1>7. ASSUME NEW p \in Procs, NotAcked(p) \/ Sleep(p) PROVE HandShake'
  BY <1>7 DEF NotAcked, Sleep, Goto, HandShake, TypeOK, Alone, history, board
\* The command is no longer on its way when the two seconds are over.
<1>8. ASSUME NEW p \in Procs, TimeOut(p) PROVE HandShake'
  <2>1. ph[p] = "clock" /\ ~OnItsWay(p)
    BY <1>8 DEF TimeOut, Alone
  <2>2. link = << >>
    <3>1. link # << >> => 1 \in 1 .. Len(link)
      BY DEF TypeOK
    <3> QED
      BY <2>1, <3>1 DEF HandShake, OnItsWay
  <2> QED
    BY <1>8, <2>2 DEF TimeOut, Goto, HandShake, TypeOK, Alone, history, board
<1>9. ASSUME NEW p \in Procs, Restart(p) PROVE HandShake'
  BY <1>9 DEF Restart, Goto, HandShake, TypeOK, Alone, history, board
\* The board takes the one command there is, which is the one waited for.
<1>10. ASSUME Board PROVE HandShake'
  <2>1. /\ link # << >> /\ link' = Tail(link)
        /\ ph' = ph /\ last' = last /\ mine' = mine
    BY <1>10 DEF Board, Execute, AckLost, CommandLost, code, history
  <2>2. Len(link) = 1 /\ link' = << >>
    <3>3. link \in Seq(Commands) /\ Len(link) <= 1
      BY DEF HandShake, TypeOK
    <3>1. Len(link) = 1
      <4>1. Len(link) # 0
        BY <2>1, <3>3, EmptySeq, Zenon
      <4>2. Len(link) \in Nat
        BY <3>3, LenProperties
      <4> QED
        BY SMTT(30), <3>3, <4>1, <4>2
    <3>2. Tail(link) \in Seq(Commands) /\ Len(Tail(link)) = 0
      BY <2>1, <3>1, HeadTailProperties DEF TypeOK
    <3> QED
      BY <2>1, <3>1, <3>2
  <2>3. \A p \in Procs : /\ ph[p] \in {"poll", "clock"}
                          /\ link[1].id = mine[p] /\ ack = last[p]
    BY <2>1 DEF HandShake, TypeOK
  <2>4. (done' = link[1].id) \/ ack' = ack
    BY <1>10, <2>1 DEF Board, Execute, AckLost, CommandLost, CarryOut
  <2> QED
    BY <2>1, <2>2, <2>3, <2>4 DEF HandShake
<1>11. CASE UNCHANGED vars
  BY <1>11 DEF vars, code, history, board, HandShake
<1> QED
  BY <1>1, <1>2, <1>3, <1>4, <1>5, <1>6, <1>7, <1>8, <1>9, <1>10, <1>11
  DEF Next, Work, Wait

LEMMA ControlInvariance == Alone /\ Spec => [](TypeInv /\ HandShake)
<1>1. Alone /\ TypeInv /\ HandShake /\ [Next]_vars => (TypeInv /\ HandShake)'
  BY NextTypes, NextHandShake
<1>2. Alone /\ TypeInv /\ HandShake /\ [][Next]_vars => [](TypeInv /\ HandShake)
  <2> SUFFICES ASSUME Alone
               PROVE  TypeInv /\ HandShake /\ [][Next]_vars
                        => [](TypeInv /\ HandShake)
    OBVIOUS
  <2>1. TypeInv /\ HandShake /\ [Next]_vars => (TypeInv /\ HandShake)'
    BY <1>1
  <2> QED
    BY <2>1, PTL
<1> QED
  BY <1>2, InitTypes, InitHandShake, PTL DEF Spec

\* A process alone with a board that is never late has at most one command on
\* its way, whatever is lost and however often it is started again.
THEOREM OneAtATime == Alone /\ Spec => []OneOnItsWay
<1>1. HandShake => OneOnItsWay
  BY DEF HandShake, OneOnItsWay
<1> QED
  BY <1>1, ControlInvariance, PTL

\* And a wait that returns has waited for its own command, whatever the width
\* of the counter: daqb_wait_for_ack_cnt is right to ask no more than that it
\* has changed.
THEOREM AckIsMine ==
  Alone /\ Spec => AckMeansDone
<1> DEFINE A == \A p \in Procs :
                  ph[p] = "poll" /\ ph'[p] = "step" => done = mine[p]
<1>1. TypeInv /\ HandShake /\ [Next]_vars => [A]_vars
  <2> SUFFICES ASSUME TypeInv, HandShake, Next, NEW p \in Procs,
                      ph[p] = "poll", ph'[p] = "step"
               PROVE  done = mine[p]
    OBVIOUS
  <2>1. ack # last[p]
    <3>1. ASSUME NEW q \in Procs, q # p, Call(q) \/ RawWrite(q) \/ Work(q) \/ Restart(q)
          PROVE  FALSE
      BY <3>1 DEF Call, RawWrite, Work, Wait, Restart, DaqbWrite, TempRead,
           TempThrows, LastAck, CmdWrite, Acked, NotAcked, Sleep, TimeOut,
           Goto, TypeInv, TypeOK, code
    <3>2. ASSUME Board PROVE FALSE
      BY <3>2 DEF Board, Execute, AckLost, CommandLost, code
    <3>3. CASE Acked(p)
      BY <3>3 DEF Acked
    <3>4. ASSUME Call(p) \/ RawWrite(p) \/ Restart(p) \/ DaqbWrite(p)
                   \/ TempRead(p) \/ TempThrows(p) \/ LastAck(p)
                   \/ CmdWrite(p) \/ NotAcked(p) \/ Sleep(p) \/ TimeOut(p)
          PROVE  FALSE
      BY <3>4 DEF Call, RawWrite, Restart, DaqbWrite, TempRead, TempThrows,
           LastAck, CmdWrite, NotAcked, Sleep, TimeOut, Idle, Step, Goto,
           TypeInv, TypeOK
    <3> QED
      BY <3>1, <3>2, <3>3, <3>4 DEF Next, Work, Wait
  <2> QED
    BY <2>1 DEF HandShake
<1>2. [](TypeInv /\ HandShake) /\ [][Next]_vars => [][A]_vars
  BY <1>1, PTL
<1> QED
  BY <1>2, ControlInvariance, PTL DEF Spec, AckMeansDone

----------------------------------------------------------------------------
\* What a call does to the board.  The invariant speaks of the steps a call has
\* left: what must have come before a step either stands before it among them
\* (Whole), or is done (Ready).

\* The register that is set up, and the one that pushes it.
Pairs == {<<"dacConf", "dacPush">>, <<"asic0Conf", "asic0Push">>,
          <<"asic1Conf", "asic1Push">>}

HvRegs == <<"vh", "vl", "tempFetch", "temp", "th", "tl", "sum", "hvPush">>

\* The steps s left of a call of the given name: each has the one it relies on
\* right before it, unless it is the first; a high voltage is set last, by the
\* steps of HvRegs.
Paired(s) ==
  \A i \in 2 .. Len(s), pr \in Pairs :
    s[i].reg = pr[2] => s[i - 1] = Feb(pr[1], s[i].val)
Fetched(s) ==
  \A i \in 2 .. Len(s) : s[i].reg = "temp" => s[i - 1] = Feb("tempFetch", 1)
Switched(s, name) ==
  \A i \in 1 .. Len(s) :
    s[i].op = "daqb" /\ s[i].reg = "run" =>
      IF s[i].val = 1 THEN name = "start" /\ i = 1
      ELSE name = "stop" /\ (i > 1 => s[i - 1] = Feb("run", 1))
HvLast(s) ==
  \A i \in 1 .. Len(s) :
    s[i].reg = "hvPush" =>
      i = Len(s) /\ \A k \in 0 .. 7 : k < i => s[i - k].reg = HvRegs[8 - k]

Whole(s, name) == Paired(s) /\ Fetched(s) /\ Switched(s, name) /\ HvLast(s)

\* What the first of the steps s left of call k relies on is in the registers
\* F: what it pushes, ...
PairDone(s, k, F) ==
  s # << >> =>
    \A pr \in Pairs : s[1].reg = pr[2] =>
      F[pr[1]] = [by |-> k, val |-> s[1].val]

\* ... and, with n steps left of which the last pushes the high voltage, the
\* first 8 - n of its registers, with the temperature t.
HvDone(s, k, t, F) ==
  LET n == Len(s)
  IN n > 0 /\ s[n].reg = "hvPush" =>
       /\ n <= 7 => F["vh"].by = k
       /\ n <= 6 => F["vl"].by = k
       /\ n <= 3 => F["th"] = [by |-> k, val |-> t]
       /\ n <= 2 => F["tl"] = [by |-> k, val |-> t]
       /\ n <= 1 => F["sum"] = [by |-> k, val |-> t]

SetUp(s, k, t, F) == PairDone(s, k, F) /\ HvDone(s, k, t, F)

\* PushesOwn, of registers F.
Pushes(c, F) ==
  /\ c.reg = "dacPush" => F["dacConf"] = [by |-> c.by, val |-> c.val]
  /\ c.reg = "asic0Push" => F["asic0Conf"].by = c.by
  /\ c.reg = "asic1Push" => F["asic1Conf"].by = c.by
  /\ c.reg = "hvPush" =>
       /\ \A r \in {"vh", "vl", "th", "tl", "sum"} : F[r].by = c.by
       /\ F["th"].val = F["sum"].val /\ F["tl"].val = F["sum"].val

Registers == [FebRegs -> [by : Nat, val : Int]]

\* What else the first step left relies on is done.
TempReady(p) ==
  todo[p] # << >> /\ todo[p][1].reg = "temp" => tempReg \in {-1, 0, call[p]}
RunReady(p) ==
  todo[p] # << >> /\ todo[p][1].op = "daqb" /\ todo[p][1].reg = "run" =>
    IF todo[p][1].val = 1 THEN feb["run"].by # call[p]
    ELSE feb["run"].by = call[p]

Ready(p) == SetUp(todo[p], call[p], temp[p], feb) /\ TempReady(p) /\ RunReady(p)

\* What a command on its way writes, f being its step.
Worth(f, t) == IF f.reg \in {"th", "tl", "sum"} THEN t ELSE f.val
Value(p) == Worth(todo[p][1], temp[p])

\* The command of a wait is on its way, or lost, or carried out.
Sent(p) == link # << >> /\ link[1].reg = todo[p][1].reg
             /\ link[1].val = Value(p) /\ link[1].by = call[p]
Obeyed(p) == /\ feb[todo[p][1].reg] = [by |-> call[p], val |-> Value(p)]
             /\ todo[p][1].reg = "tempFetch" => tempReg \in {-1, 0, call[p]}
InWait(p) ==
  ph[p] \in {"poll", "clock"} =>
    Sent(p) \/ (link = << >> /\ (ack = last[p] \/ Obeyed(p)))

\* No command is of a call to come.
Numbered == /\ DOMAIN doing = Procs
            /\ \A p \in Procs : call[p] <= calls
            /\ \A r \in FebRegs : feb[r].by <= calls

CallInv ==
  /\ \A p \in Procs : Whole(todo[p], doing[p]) /\ Ready(p) /\ InWait(p)
  /\ \A p \in Procs : ph[p] = "down" => todo[p] = << >>
  /\ link # << >> => Procs # {}
  /\ NewTemp /\ Numbered
----------------------------------------------------------------------------
LEMMA PairsOfFeb ==
  \A pr \in Pairs : /\ pr[1] \in {"dacConf", "asic0Conf", "asic1Conf"}
                    /\ pr[2] \in {"dacPush", "asic0Push", "asic1Push"}
  BY DEF Pairs

LEMMA PairsOne ==
  \A pr, q \in Pairs : pr[2] = q[2] => pr[1] = q[1]
  BY DEF Pairs

LEMMA HvRegsAre ==
  /\ HvRegs[1] = "vh" /\ HvRegs[2] = "vl" /\ HvRegs[3] = "tempFetch"
  /\ HvRegs[4] = "temp" /\ HvRegs[5] = "th" /\ HvRegs[6] = "tl"
  /\ HvRegs[7] = "sum" /\ HvRegs[8] = "hvPush"
  BY DEF HvRegs

LEMMA TailSteps ==
  ASSUME NEW s \in Seq(Steps), s # << >>
  PROVE  /\ Tail(s) \in Seq(Steps) /\ Len(s) \in Nat \ {0}
         /\ Len(Tail(s)) = Len(s) - 1
         /\ \A i \in 1 .. Len(s) - 1 : Tail(s)[i] = s[i + 1]
         /\ Head(s) = s[1] /\ s[1] \in Steps
         /\ (Tail(s) # << >>) => Len(s) >= 2
<1>1. Len(s) \in Nat \ {0}
  BY EmptySeq, LenProperties
<1>2. Tail(s) \in Seq(Steps) /\ Len(Tail(s)) = Len(s) - 1
  BY HeadTailProperties
<1>3. \A i \in 1 .. Len(s) - 1 : Tail(s)[i] = s[i + 1]
  BY <1>1
<1>4. Head(s) = s[1] /\ s[1] \in Steps
  BY <1>1, ElementOfSeq
<1>5. Tail(s) # << >> => Len(s) >= 2
  BY <1>1, <1>2, EmptySeq
<1> QED
  BY <1>1, <1>2, <1>3, <1>4, <1>5

\* What is left of a call stays in order when its first step is done.
LEMMA TailWhole ==
  ASSUME NEW s \in Seq(Steps), s # << >>, NEW name, Whole(s, name)
  PROVE  Whole(Tail(s), name)
<1> DEFINE t == Tail(s)
           n == Len(s)
<1>1. /\ n \in Nat \ {0} /\ Len(t) = n - 1
      /\ \A i \in 1 .. n - 1 : t[i] = s[i + 1]
  BY TailSteps
<1> HIDE DEF t
<1>2. Paired(t)
  <2> SUFFICES ASSUME NEW i \in 2 .. Len(t), NEW pr \in Pairs,
                      t[i].reg = pr[2]
               PROVE  t[i - 1] = Feb(pr[1], t[i].val)
    BY DEF Paired
  <2>1. i + 1 \in 2 .. n /\ t[i] = s[i + 1] /\ t[i - 1] = s[i]
    BY <1>1
  <2>2. s[(i + 1) - 1] = Feb(pr[1], s[i + 1].val)
    BY <2>1 DEF Whole, Paired
  <2> QED
    BY <2>1, <2>2
<1>3. Fetched(t)
  <2> SUFFICES ASSUME NEW i \in 2 .. Len(t), t[i].reg = "temp"
               PROVE  t[i - 1] = Feb("tempFetch", 1)
    BY DEF Fetched
  <2>1. i + 1 \in 2 .. n /\ t[i] = s[i + 1] /\ t[i - 1] = s[i]
    BY SMTT(30), <1>1
  <2>2. s[(i + 1) - 1] = Feb("tempFetch", 1)
    BY <2>1 DEF Whole, Fetched
  <2> QED
    BY <2>1, <2>2
<1>4. Switched(t, name)
  <2> SUFFICES ASSUME NEW i \in 1 .. Len(t), t[i].op = "daqb",
                      t[i].reg = "run"
               PROVE  /\ t[i].val # 1 /\ name = "stop"
                      /\ i > 1 => t[i - 1] = Feb("run", 1)
    BY DEF Switched
  <2>1. i + 1 \in 1 .. n /\ i + 1 > 1 /\ t[i] = s[i + 1]
        /\ (i > 1 => t[i - 1] = s[i]) /\ (i + 1) - 1 = i
    BY <1>1
  <2>2. Switched(s, name)
    BY DEF Whole
  <2>3. \A j \in 1 .. n :
          j # 1 /\ s[j].op = "daqb" /\ s[j].reg = "run" =>
            s[j].val # 1 /\ name = "stop" /\ (j > 1 => s[j - 1] = Feb("run", 1))
    BY <2>2, Zenon DEF Switched
  <2>4. i + 1 # 1 /\ s[i + 1].op = "daqb" /\ s[i + 1].reg = "run"
    BY <1>1, <2>1
  <2>5. s[i + 1].val # 1 /\ name = "stop" /\ s[(i + 1) - 1] = Feb("run", 1)
    BY <2>1, <2>3, <2>4
  <2> QED
    BY <2>1, <2>5
<1>5. HvLast(t)
  <2> SUFFICES ASSUME NEW i \in 1 .. Len(t), t[i].reg = "hvPush"
               PROVE  /\ i = Len(t)
                      /\ \A k \in 0 .. 7 : k < i => t[i - k].reg = HvRegs[8 - k]
    BY DEF HvLast
  <2>1. i + 1 \in 1 .. n /\ s[i + 1].reg = "hvPush"
    BY <1>1
  <2>2. /\ i + 1 = n
        /\ \A k \in 0 .. 7 : k < i + 1 => s[(i + 1) - k].reg = HvRegs[8 - k]
    BY <2>1 DEF Whole, HvLast
  <2>3. ASSUME NEW k \in 0 .. 7, k < i PROVE t[i - k].reg = HvRegs[8 - k]
    <3>1. i - k \in 1 .. n - 1 /\ (i + 1) - k = (i - k) + 1
      BY <1>1, <2>3
    <3>2. t[i - k] = s[(i + 1) - k]
      BY <1>1, <3>1
    <3>3. k < i + 1
      BY <1>1, <2>3
    <3> QED
      BY <2>2, <3>2, <3>3
  <2> QED
    BY <1>1, <2>2, <2>3
<1> QED
  BY <1>2, <1>3, <1>4, <1>5 DEF Whole, t
----------------------------------------------------------------------------
LEMMA Joined ==
  ASSUME NEW s \in Seq(Steps), NEW t \in Seq(Steps)
  PROVE  /\ s \o t \in Seq(Steps) /\ Len(s \o t) = Len(s) + Len(t)
         /\ \A i \in 1 .. Len(s) : (s \o t)[i] = s[i]
         /\ \A i \in 1 .. Len(t) : (s \o t)[Len(s) + i] = t[i]
<1> DEFINE x == s \o t
<1>1. Len(s) \in Nat /\ Len(t) \in Nat
  BY LenProperties
<1>2. /\ x \in Seq(Steps) /\ Len(x) = Len(s) + Len(t)
      /\ \A i \in 1 .. Len(s) + Len(t) :
           x[i] = IF i <= Len(s) THEN s[i] ELSE t[i - Len(s)]
  BY ConcatProperties
<1> HIDE DEF x
<1>3. ASSUME NEW i \in 1 .. Len(s) PROVE x[i] = s[i]
  BY <1>1, <1>2
<1>4. ASSUME NEW i \in 1 .. Len(t) PROVE x[Len(s) + i] = t[i]
  <2>1. /\ Len(s) + i \in 1 .. Len(s) + Len(t) /\ ~(Len(s) + i <= Len(s))
        /\ (Len(s) + i) - Len(s) = i
    BY <1>1
  <2> QED
    BY <1>2, <2>1
<1> QED
  BY <1>2, <1>3, <1>4 DEF x

LEMMA StepFields ==
  /\ \A r, v : Feb(r, v).op = "feb" /\ Feb(r, v).reg = r /\ Feb(r, v).val = v
  /\ \A r, v : Daqb(r, v).op = "daqb" /\ Daqb(r, v).reg = r /\ Daqb(r, v).val = v
  /\ ReadTemp.op = "temp" /\ ReadTemp.reg = "temp"
  BY DEF Feb, Daqb, ReadTemp

LEMMA VoltageSteps ==
  /\ Len(feb_set_hv_voltage) = 8
  /\ \A i \in 1 .. 8 : feb_set_hv_voltage[i].reg = HvRegs[i]
  /\ feb_set_hv_voltage[3] = Feb("tempFetch", 1)
  /\ \A i \in 1 .. 8 : feb_set_hv_voltage[i].op # "daqb"
<1> DEFINE u == <<Feb("vh", 0), Feb("vl", 0)>>
           v == <<Feb("tempFetch", 1), ReadTemp>>
           w == <<Feb("th", 0), Feb("tl", 0), Feb("sum", 0), Feb("hvPush", 0)>>
<1>1. /\ u \in Seq(Steps) /\ Len(u) = 2
      /\ u[1] = Feb("vh", 0) /\ u[2] = Feb("vl", 0)
  BY FebStep DEF FebRegs
<1>2. /\ v \in Seq(Steps) /\ Len(v) = 2
      /\ v[1] = Feb("tempFetch", 1) /\ v[2] = ReadTemp
  <2>1. Feb("tempFetch", 1) \in Steps
    BY FebStep DEF FebRegs
  <2>2. ReadTemp \in Steps
    BY DEF Steps
  <2> QED
    BY <2>1, <2>2
<1>3. /\ w \in Seq(Steps) /\ Len(w) = 4
      /\ w[1] = Feb("th", 0) /\ w[2] = Feb("tl", 0)
      /\ w[3] = Feb("sum", 0) /\ w[4] = Feb("hvPush", 0)
  <2>1. /\ Feb("th", 0) \in Steps /\ Feb("tl", 0) \in Steps
        /\ Feb("sum", 0) \in Steps /\ Feb("hvPush", 0) \in Steps
    BY FebStep DEF FebRegs
  <2> QED
    BY <2>1
<1>4. feb_set_hv_voltage = (u \o v) \o w
  BY DEF feb_set_hv_voltage, feb_read_new_temp
<1> HIDE DEF u, v, w
<1>5. /\ u \o v \in Seq(Steps) /\ Len(u \o v) = 4
      /\ (u \o v)[1] = u[1] /\ (u \o v)[2] = u[2]
      /\ (u \o v)[3] = v[1] /\ (u \o v)[4] = v[2]
  <2>1. /\ u \o v \in Seq(Steps) /\ Len(u \o v) = Len(u) + Len(v)
        /\ \A i \in 1 .. Len(u) : (u \o v)[i] = u[i]
        /\ \A i \in 1 .. Len(v) : (u \o v)[Len(u) + i] = v[i]
    BY <1>1, <1>2, Joined, Zenon
  <2>2. (u \o v)[2 + 1] = v[1] /\ (u \o v)[2 + 2] = v[2]
    BY <1>1, <1>2, <2>1
  <2> QED
    BY <1>1, <1>2, <2>1, <2>2
<1> DEFINE x == u \o v
<1> HIDE DEF x
<1>6. /\ Len(x \o w) = Len(x) + Len(w)
      /\ \A i \in 1 .. Len(x) : (x \o w)[i] = x[i]
      /\ \A i \in 1 .. Len(w) : (x \o w)[Len(x) + i] = w[i]
  <2>1. x \in Seq(Steps)
    BY <1>5 DEF x
  <2> QED
    BY <1>3, <2>1, Joined, Zenon
<1>7. feb_set_hv_voltage = x \o w /\ Len(x) = 4 /\ Len(w) = 4
  BY <1>3, <1>4, <1>5 DEF x
<1>8. /\ feb_set_hv_voltage[1] = Feb("vh", 0)
      /\ feb_set_hv_voltage[2] = Feb("vl", 0)
      /\ feb_set_hv_voltage[3] = Feb("tempFetch", 1)
      /\ feb_set_hv_voltage[4] = ReadTemp
  <2>1. /\ (x \o w)[1] = x[1] /\ (x \o w)[2] = x[2]
        /\ (x \o w)[3] = x[3] /\ (x \o w)[4] = x[4]
    BY <1>6, <1>7
  <2>2. x[1] = u[1] /\ x[2] = u[2] /\ x[3] = v[1] /\ x[4] = v[2]
    BY <1>5 DEF x
  <2> QED
    BY <1>1, <1>2, <1>7, <2>1, <2>2
<1>9. /\ feb_set_hv_voltage[5] = Feb("th", 0)
      /\ feb_set_hv_voltage[6] = Feb("tl", 0)
      /\ feb_set_hv_voltage[7] = Feb("sum", 0)
      /\ feb_set_hv_voltage[8] = Feb("hvPush", 0)
  <2>1. /\ (x \o w)[4 + 1] = w[1] /\ (x \o w)[4 + 2] = w[2]
        /\ (x \o w)[4 + 3] = w[3] /\ (x \o w)[4 + 4] = w[4]
    BY <1>6, <1>7
  <2>2. 4 + 1 = 5 /\ 4 + 2 = 6 /\ 4 + 3 = 7 /\ 4 + 4 = 8
    OBVIOUS
  <2>3. /\ (x \o w)[5] = w[1] /\ (x \o w)[6] = w[2]
        /\ (x \o w)[7] = w[3] /\ (x \o w)[8] = w[4]
    BY <2>1, <2>2
  <2> QED
    BY <1>3, <1>7, <2>3
<1>10. \A i \in 1 .. 8 : i = 1 \/ i = 2 \/ i = 3 \/ i = 4 \/ i = 5 \/ i = 6
                          \/ i = 7 \/ i = 8
  OBVIOUS
<1>11. Len(feb_set_hv_voltage) = 8
  BY <1>6, <1>7
<1> QED
  BY <1>8, <1>9, <1>10, <1>11, HvRegsAre, StepFields

\* The channels in turn, each pushed right after it is set.
LEMMA DacSteps ==
  /\ DefaultDacs \in Seq(Steps) /\ Len(DefaultDacs) = 2 * NDac
  /\ \A i \in 1 .. 2 * NDac :
       /\ DefaultDacs[i].op = "feb"
       /\ DefaultDacs[i].reg \in {"dacConf", "dacPush"}
       /\ i = 1 => DefaultDacs[i].reg = "dacConf"
       /\ DefaultDacs[i].reg = "dacPush" =>
            i > 1 /\ DefaultDacs[i - 1] = Feb("dacConf", DefaultDacs[i].val)
<1>1. 2 * NDac \in Nat
  BY ControlBounds
<1>2. ASSUME NEW i \in 1 .. 2 * NDac
      PROVE  /\ i % 2 \in {0, 1}
             /\ i % 2 = 1 => DefaultDacs[i] = Feb("dacConf", (i - 1) \div 2)
             /\ i % 2 = 0 => DefaultDacs[i] = Feb("dacPush", (i - 1) \div 2)
  <2>1. DefaultDacs[i] = feb_set_dac_voltage((i - 1) \div 2)[2 - (i % 2)]
    BY <1>1 DEF DefaultDacs
  <2>2. ASSUME i % 2 = 1
        PROVE  DefaultDacs[i] = Feb("dacConf", (i - 1) \div 2)
    <3>1. 2 - (i % 2) = 1
      BY <2>2
    <3> QED
      BY <2>1, <3>1 DEF feb_set_dac_voltage
  <2>3. ASSUME i % 2 = 0
        PROVE  DefaultDacs[i] = Feb("dacPush", (i - 1) \div 2)
    <3>1. 2 - (i % 2) = 2
      BY <2>3
    <3> QED
      BY <2>1, <3>1 DEF feb_set_dac_voltage
  <2>4. i % 2 \in {0, 1}
    BY <1>1
  <2> QED
    BY <2>2, <2>3, <2>4
<1>3. ASSUME NEW i \in 1 .. 2 * NDac, DefaultDacs[i].reg = "dacPush"
      PROVE  /\ i > 1
             /\ DefaultDacs[i - 1] = Feb("dacConf", DefaultDacs[i].val)
  <2>1. i % 2 # 1
    BY <1>2, <1>3, StepFields
  <2>2. i % 2 = 0
    BY <1>2, <2>1
  <2>3. /\ i > 1 /\ i - 1 \in 1 .. 2 * NDac /\ (i - 1) % 2 = 1
        /\ ((i - 1) - 1) \div 2 = (i - 1) \div 2
    BY <1>1, <2>2
  <2>4. DefaultDacs[i].val = (i - 1) \div 2
    BY <1>2, <2>2, StepFields
  <2>5. DefaultDacs[i - 1] = Feb("dacConf", ((i - 1) - 1) \div 2)
    BY <1>2, <2>3
  <2> QED
    BY <2>3, <2>4, <2>5
<1>4. Len(DefaultDacs) = 2 * NDac
  BY <1>1 DEF DefaultDacs
<1>5. DefaultDacs \in Seq(Steps)
  <2>2. ASSUME NEW i \in 1 .. 2 * NDac
        PROVE  feb_set_dac_voltage((i - 1) \div 2)[2 - (i % 2)] \in Steps
    <3>1. (i - 1) \div 2 \in Nat /\ 2 - (i % 2) \in 1 .. 2
      BY <1>1
    <3> DEFINE s == feb_set_dac_voltage((i - 1) \div 2)
    <3>2. s \in Seq(Steps) /\ Len(s) = 2
      BY <3>1, DacTyped
    <3> HIDE DEF s
    <3>3. s[2 - (i % 2)] \in Steps
      BY <3>1, <3>2, ElementOfSeq
    <3> QED
      BY <3>3 DEF s
  <2> QED
    BY <1>1, <2>2, IsASeq DEF DefaultDacs
<1>6. ASSUME NEW i \in 1 .. 2 * NDac
      PROVE  /\ DefaultDacs[i].op = "feb"
             /\ DefaultDacs[i].reg \in {"dacConf", "dacPush"}
             /\ i = 1 => DefaultDacs[i].reg = "dacConf"
  <2>1. i = 1 => i % 2 = 1
    OBVIOUS
  <2>2. CASE i % 2 = 1
    BY <1>2, <2>2, StepFields
  <2>3. CASE i % 2 = 0
    BY <1>2, <2>1, <2>3, StepFields
  <2> QED
    BY <1>2, <2>2, <2>3
<1> QED
  BY <1>3, <1>4, <1>5, <1>6

\* What a call begins with relies on nothing, and a high voltage is set whole.
Fresh(s) ==
  s # << >> =>
    /\ s[1].reg \notin {"dacPush", "asic0Push", "asic1Push", "temp"}
    /\ s[Len(s)].reg = "hvPush" => Len(s) >= 8
Begins(s) ==
  /\ Fresh(s)
  /\ s # << >> /\ s[1].op = "daqb" /\ s[1].reg = "run" => s[1].val = 1

LEMMA TwoWhole ==
  ASSUME NEW a \in Steps, NEW b \in Steps, NEW name,
         a.reg \notin {"dacPush", "asic0Push", "asic1Push", "temp", "hvPush"},
         b.reg # "hvPush",
         \A pr \in Pairs : b.reg = pr[2] => a = Feb(pr[1], b.val),
         b.reg = "temp" => a = Feb("tempFetch", 1),
         a.op = "daqb" /\ a.reg = "run" => a.val = 1 /\ name = "start",
         b.op = "daqb" /\ b.reg = "run" =>
           b.val # 1 /\ name = "stop" /\ a = Feb("run", 1)
  PROVE  Whole(<<a, b>>, name) /\ Begins(<<a, b>>)
<1> DEFINE s == <<a, b>>
<1>1. Len(s) = 2 /\ s[1] = a /\ s[2] = b
  OBVIOUS
<1> HIDE DEF s
<1>2. \A i \in 1 .. Len(s) : i = 1 \/ i = 2
  BY <1>1
<1>3. \A i \in 2 .. Len(s) : i = 2 /\ i - 1 = 1
  BY <1>1
<1>4. Paired(s) /\ Fetched(s)
  BY <1>1, <1>3 DEF Paired, Fetched
<1>5. Switched(s, name)
  <2>1. ASSUME s[1].op = "daqb", s[1].reg = "run"
        PROVE  s[1].val = 1 /\ name = "start"
    BY <1>1, <2>1
  <2>2. ASSUME s[2].op = "daqb", s[2].reg = "run"
        PROVE  s[2].val # 1 /\ name = "stop" /\ s[2 - 1] = Feb("run", 1)
    BY <1>1, <2>2
  <2> QED
    BY <1>2, <2>1, <2>2 DEF Switched
<1>6. HvLast(s)
  BY <1>1, <1>2 DEF HvLast
<1>7. Begins(s)
  BY <1>1 DEF Begins, Fresh
<1> QED
  BY <1>4, <1>5, <1>6, <1>7 DEF Whole, s

LEMMA NoneWhole == \A name : Whole(<< >>, name) /\ Begins(<< >>)
<1>1. /\ \A i \in 1 .. Len(<< >>) : FALSE
      /\ \A i \in 2 .. Len(<< >>) : FALSE
  OBVIOUS
<1> QED
  BY <1>1 DEF Whole, Paired, Fetched, Switched, HvLast, Begins, Fresh

\* The high voltage, alone or after steps d that set and push.
LEMMA VoltageWhole ==
  ASSUME NEW d \in Seq(Steps), NEW name,
         \A i \in 1 .. Len(d) :
           /\ d[i].op = "feb" /\ d[i].reg \in {"dacConf", "dacPush"}
           /\ i = 1 => d[i].reg = "dacConf"
           /\ d[i].reg = "dacPush" =>
                i > 1 /\ d[i - 1] = Feb("dacConf", d[i].val)
  PROVE  Whole(d \o feb_set_hv_voltage, name) /\ Begins(d \o feb_set_hv_voltage)
<1> DEFINE h == feb_set_hv_voltage
           s == d \o h
           m == Len(d)
<1>1. /\ m \in Nat /\ Len(h) = 8
      /\ \A i \in 1 .. 8 : h[i].reg = HvRegs[i] /\ h[i].op # "daqb"
      /\ h[3] = Feb("tempFetch", 1)
  BY VoltageSteps, LenProperties
<1>2. /\ Len(s) = m + 8 /\ s \in Seq(Steps)
      /\ \A i \in 1 .. m : s[i] = d[i]
      /\ \A i \in 1 .. 8 : s[m + i] = h[i]
  <2>1. h \in Seq(Steps)
    BY VoltageTyped
  <2> HIDE DEF h
  <2>2. /\ s \in Seq(Steps) /\ Len(s) = Len(d) + Len(h)
        /\ \A i \in 1 .. Len(d) : s[i] = d[i]
        /\ \A i \in 1 .. Len(h) : s[Len(d) + i] = h[i]
    BY <2>1, Joined, Zenon
  <2> HIDE DEF s
  <2> QED
    BY <1>1, <2>2
<1> HIDE DEF s, h
\* An element is one of d, or one of the eight, known by their registers.
<1>3. ASSUME NEW i \in 1 .. Len(s)
      PROVE  \/ i \in 1 .. m /\ s[i] = d[i]
             \/ i - m \in 1 .. 8 /\ i = m + (i - m) /\ s[i] = h[i - m]
  <2>1. CASE i <= m
    <3>1. i \in 1 .. m
      BY <1>1, <1>2, <2>1
    <3> QED
      BY <3>1, <1>2
  <2>2. CASE ~(i <= m)
    <3>2. m \in Nat /\ i \in 1 .. m + 8
      BY <1>1, <1>2
    <3> HIDE DEF m
    <3>1. i - m \in 1 .. 8 /\ i = m + (i - m)
      BY <2>2, <3>2
    <3> QED
      BY <3>1, <1>2
  <2> QED
    BY <2>1, <2>2
<1>4. ASSUME NEW j \in 1 .. 8
      PROVE  /\ h[j].reg \notin {"dacPush", "asic0Push", "asic1Push", "run"}
             /\ h[j].reg = "temp" => j = 4
             /\ h[j].reg = "hvPush" => j = 8
  <2>1. j = 1 \/ j = 2 \/ j = 3 \/ j = 4 \/ j = 5 \/ j = 6 \/ j = 7 \/ j = 8
    OBVIOUS
  <2> QED
    BY <2>1, <1>1, HvRegsAre
<1>5. Paired(s)
  <2> SUFFICES ASSUME NEW i \in 2 .. Len(s), NEW pr \in Pairs, s[i].reg = pr[2]
               PROVE  s[i - 1] = Feb(pr[1], s[i].val)
    BY DEF Paired
  <2>1. i \in 1 .. Len(s)
    BY <1>1, <1>2
  <2>6. ASSUME i - m \in 1 .. 8, s[i] = h[i - m] PROVE FALSE
    <3>1. h[i - m].reg \notin {"dacPush", "asic0Push", "asic1Push"}
      BY <1>4, <2>6
    <3> QED
      BY <2>6, <3>1, PairsOfFeb
  <2>2. i \in 1 .. m /\ s[i] = d[i]
    BY <2>1, <2>6, <1>3
  <2>3. d[i].reg = "dacPush" /\ pr = <<"dacConf", "dacPush">>
    BY <2>2 DEF Pairs
  <2>4. s[i - 1] = d[i - 1]
    <3>1. i - 1 \in 1 .. m
      BY <1>1, <2>2
    <3> QED
      BY <3>1, <1>2
  <2>5. d[i - 1] = Feb("dacConf", d[i].val)
    BY <2>2, <2>3
  <2> QED
    BY <2>2, <2>3, <2>4, <2>5
<1>6. Fetched(s)
  <2> SUFFICES ASSUME NEW i \in 2 .. Len(s), s[i].reg = "temp"
               PROVE  s[i - 1] = Feb("tempFetch", 1)
    BY DEF Fetched
  <2>1. i \in 1 .. Len(s)
    BY <1>1, <1>2
  <2>2. i = m + 4
    <3>1. ~(i \in 1 .. m /\ s[i] = d[i])
      OBVIOUS
    <3>2. i - m \in 1 .. 8 /\ i = m + (i - m) /\ h[i - m].reg = "temp"
      BY <2>1, <3>1, <1>3
    <3>3. i - m = 4
      BY <3>2, <1>4
    <3> QED
      BY <3>2, <3>3
  <2>3. i - 1 = m + 3 /\ 3 \in 1 .. 8
    BY <1>1, <2>2
  <2>4. s[m + 3] = h[3]
    BY <2>3, <1>2
  <2> QED
    BY <1>1, <2>3, <2>4
<1>7. Switched(s, name)
  <2>1. ASSUME NEW i \in 1 .. Len(s) PROVE s[i].op # "daqb"
    <3>1. CASE i \in 1 .. m /\ s[i] = d[i]
      BY <3>1
    <3>2. CASE i - m \in 1 .. 8 /\ s[i] = h[i - m]
      BY <1>1, <3>2
    <3> QED
      BY <1>3, <3>1, <3>2
  <2> QED
    BY <2>1 DEF Switched
<1>8. ASSUME NEW k \in 0 .. 7 PROVE s[(m + 8) - k].reg = HvRegs[8 - k]
  <2>1. 8 - k \in 1 .. 8 /\ (m + 8) - k = m + (8 - k)
    BY <1>1
  <2>2. s[m + (8 - k)] = h[8 - k]
    BY <2>1, <1>2
  <2> QED
    BY <1>1, <2>1, <2>2
<1>9. HvLast(s)
  <2> SUFFICES ASSUME NEW i \in 1 .. Len(s), s[i].reg = "hvPush"
               PROVE  /\ i = Len(s)
                      /\ \A k \in 0 .. 7 : k < i => s[i - k].reg = HvRegs[8 - k]
    BY DEF HvLast
  <2>1. i = m + 8
    <3>1. ~(i \in 1 .. m /\ s[i] = d[i])
      OBVIOUS
    <3>2. i - m \in 1 .. 8 /\ i = m + (i - m) /\ h[i - m].reg = "hvPush"
      BY <3>1, <1>3
    <3>3. i - m = 8
      BY <3>2, <1>4
    <3> QED
      BY <3>2, <3>3
  <2> QED
    BY <1>2, <1>8, <2>1
<1>10. Begins(s)
  <2>1. Len(s) >= 8 /\ 1 \in 1 .. Len(s)
    BY <1>1, <1>2
  <2>2. CASE 1 \in 1 .. m
    BY <2>1, <2>2, <1>2 DEF Begins, Fresh
  <2>3. CASE m = 0
    <3>1. s[1] = h[1] /\ 1 \in 1 .. 8
      BY <1>2, <2>3
    <3>2. s[1].reg = "vh"
      BY <3>1, <1>1, HvRegsAre
    <3> QED
      BY <2>1, <3>2 DEF Begins, Fresh
  <2> QED
    BY <1>1, <2>2, <2>3
<1> QED
  BY <1>5, <1>6, <1>7, <1>9, <1>10 DEF Whole, s, h

\* Every call of the program is set up in this way, but `daqb set raw'.
RawDaqb(c) == \E v \in RawRuns : c = [name |-> "daqb raw", steps |-> <<Daqb("run", v)>>]

LEMMA CallsWhole ==
  \A c \in Calls : RawDaqb(c) \/ (Whole(c.steps, c.name) /\ Begins(c.steps))
<1>2. ReadTemp \in Steps
  BY DEF Steps
<1>3. Whole(daq_conf_default, "conf") /\ Begins(daq_conf_default)
  <2>1. /\ DefaultDacs \in Seq(Steps)
        /\ \A i \in 1 .. Len(DefaultDacs) :
           /\ DefaultDacs[i].op = "feb" /\ DefaultDacs[i].reg \in {"dacConf", "dacPush"}
           /\ i = 1 => DefaultDacs[i].reg = "dacConf"
           /\ DefaultDacs[i].reg = "dacPush" =>
                i > 1 /\ DefaultDacs[i - 1] = Feb("dacConf", DefaultDacs[i].val)
    BY DacSteps
  <2> QED
    BY <2>1, VoltageWhole DEF daq_conf_default
<1>4. \A name : Whole(feb_set_hv_voltage, name) /\ Begins(feb_set_hv_voltage)
  <2>1. << >> \in Seq(Steps) /\ \A i \in 1 .. Len(<< >>) : FALSE
    BY EmptySeq
  <2>2. << >> \o feb_set_hv_voltage = feb_set_hv_voltage
    BY VoltageTyped, ConcatEmptySeq
  <2>3. \A name : Whole(<< >> \o feb_set_hv_voltage, name)
                   /\ Begins(<< >> \o feb_set_hv_voltage)
    BY <2>1, VoltageWhole
  <2> QED
    BY <2>2, <2>3
<1>5. Whole(daq_reset, "reset") /\ Begins(daq_reset)
  <2> DEFINE a == Feb("reset", 1)
             b == Daqb("reset", 1)
  <2>1. a \in Steps /\ b \in Steps
    BY FebStep, DaqbStep DEF FebRegs
  <2>2. /\ a.op = "feb" /\ a.reg = "reset" /\ b.op = "daqb" /\ b.reg = "reset"
    BY StepFields
  <2> HIDE DEF a, b
  <2>3. Whole(<<a, b>>, "reset") /\ Begins(<<a, b>>)
    BY <2>1, <2>2, TwoWhole, PairsOfFeb
  <2> QED
    BY <2>3 DEF daq_reset, a, b
<1>6. Whole(daq_start_run, "start") /\ Begins(daq_start_run)
  <2> DEFINE a == Daqb("run", 1)
             b == Feb("run", 1)
  <2>1. a \in Steps /\ b \in Steps
    BY FebStep, DaqbStep DEF FebRegs
  <2>2. /\ a.op = "daqb" /\ a.reg = "run" /\ a.val = 1
        /\ b.op = "feb" /\ b.reg = "run"
    BY StepFields
  <2> HIDE DEF a, b
  <2>3. Whole(<<a, b>>, "start") /\ Begins(<<a, b>>)
    BY <2>1, <2>2, TwoWhole, PairsOfFeb
  <2> QED
    BY <2>3 DEF daq_start_run, a, b
<1>7. Whole(daq_stop_run, "stop") /\ Begins(daq_stop_run)
  <2> DEFINE a == Feb("run", 1)
             b == Daqb("run", 0)
  <2>1. a \in Steps /\ b \in Steps
    BY FebStep, DaqbStep DEF FebRegs
  <2>2. /\ a.op = "feb" /\ a.reg = "run" /\ a = Feb("run", 1)
        /\ b.op = "daqb" /\ b.reg = "run" /\ b.val = 0
    BY StepFields
  <2> HIDE DEF a, b
  <2>3. Whole(<<a, b>>, "stop") /\ Begins(<<a, b>>)
    BY <2>1, <2>2, TwoWhole, PairsOfFeb
  <2> QED
    BY <2>3 DEF daq_stop_run, a, b
<1>8. Whole(feb_read_new_temp, "temp") /\ Begins(feb_read_new_temp)
  <2> DEFINE a == Feb("tempFetch", 1)
             b == ReadTemp
  <2>1. a \in Steps /\ b \in Steps
    BY FebStep, <1>2 DEF FebRegs
  <2>2. /\ a.op = "feb" /\ a.reg = "tempFetch" /\ a = Feb("tempFetch", 1)
        /\ b.op = "temp" /\ b.reg = "temp"
    BY StepFields
  <2> HIDE DEF a, b
  <2>3. Whole(<<a, b>>, "temp") /\ Begins(<<a, b>>)
    BY <2>1, <2>2, TwoWhole, PairsOfFeb
  <2> QED
    BY <2>3 DEF feb_read_new_temp, a, b
\* What sets up and pushes: the DAC and the two ASICs.
<1>9. ASSUME NEW pr \in Pairs, NEW name
      PROVE  /\ Whole(<<Feb(pr[1], 0), Feb(pr[2], 0)>>, name)
             /\ Begins(<<Feb(pr[1], 0), Feb(pr[2], 0)>>)
  <2> DEFINE a == Feb(pr[1], 0)
             b == Feb(pr[2], 0)
  <2>1. a \in Steps /\ b \in Steps
    BY FebStep, PairsOfFeb DEF FebRegs
  <2>2. /\ a.op = "feb" /\ a.reg = pr[1] /\ b.op = "feb" /\ b.reg = pr[2]
        /\ a = Feb(pr[1], b.val)
    BY StepFields
  <2> HIDE DEF a, b
  <2>3. \A q \in Pairs : b.reg = q[2] => a = Feb(q[1], b.val)
    BY <2>2, PairsOne
  <2>4. Whole(<<a, b>>, name) /\ Begins(<<a, b>>)
    BY <2>1, <2>2, <2>3, TwoWhole, PairsOfFeb
  <2> QED
    BY <2>4 DEF a, b
<1>10. \A name : /\ Whole(feb_set_dac_voltage(0), name)
                 /\ Begins(feb_set_dac_voltage(0))
  <2>1. <<"dacConf", "dacPush">> \in Pairs
    BY DEF Pairs
  <2> QED
    BY <1>9, <2>1 DEF feb_set_dac_voltage
<1>11. ASSUME NEW ch \in 0 .. 2, NEW name
       PROVE  /\ Whole(feb_set_asic_raw(ch), name)
              /\ Begins(feb_set_asic_raw(ch))
  <2>1. <<"asic0Conf", "asic0Push">> \in Pairs /\ <<"asic1Conf", "asic1Push">> \in Pairs
    BY DEF Pairs
  <2>2. CASE ch = 0
    BY <1>9, <2>1, <2>2 DEF feb_set_asic_raw
  <2>3. CASE ch = 1
    BY <1>9, <2>1, <2>3 DEF feb_set_asic_raw
  <2>4. CASE ch = 2
    BY NoneWhole, <2>4 DEF feb_set_asic_raw
  <2> QED
    BY <2>2, <2>3, <2>4
<1>12. SUFFICES ASSUME NEW c \in Calls, ~RawDaqb(c)
                PROVE  Whole(c.steps, c.name) /\ Begins(c.steps)
  OBVIOUS
<1>13. CASE c \in ServerCalls
  BY <1>3, <1>5, <1>6, <1>7, <1>13 DEF ServerCalls
<1>14. CASE c \in ToolCalls
  <2>1. c \notin {[name |-> "daqb raw", steps |-> <<Daqb("run", v)>>] : v \in RawRuns}
    BY <1>12 DEF RawDaqb
  <2>2. CASE \E ch \in 0 .. 2 :
               c = [name |-> "asic", steps |-> feb_set_asic_raw(ch)]
    BY <2>2, <1>11
  <2>3. CASE c \in {[name |-> "temp", steps |-> feb_read_new_temp],
                    [name |-> "hvolt", steps |-> feb_set_hv_voltage],
                    [name |-> "dac", steps |-> feb_set_dac_voltage(0)]}
    BY <2>3, <1>4, <1>8, <1>10
  <2> QED
    BY <1>14, <2>1, <2>2, <2>3 DEF ToolCalls
<1> QED
  BY <1>13, <1>14 DEF Calls

\* As far as pushes go, that too.
LEMMA CallsFresh == \A c \in Calls : Fresh(c.steps) /\ \E name : Whole(c.steps, name)
<1> SUFFICES ASSUME NEW c \in Calls
             PROVE  Fresh(c.steps) /\ \E name : Whole(c.steps, name)
  OBVIOUS
<1>1. CASE RawDaqb(c)
  <2>0. PICK v \in RawRuns : c = [name |-> "daqb raw", steps |-> <<Daqb("run", v)>>]
    BY <1>1 DEF RawDaqb
  <2>1. v \in {0, 1} /\ c.steps = <<Daqb("run", v)>>
    BY <2>0 DEF RawRuns
  <2> DEFINE s == c.steps
             name == IF v = 1 THEN "start" ELSE "stop"
  <2>2. Len(s) = 1 /\ s[1] = Daqb("run", v)
    BY <2>1
  <2>3. s[1].op = "daqb" /\ s[1].reg = "run" /\ s[1].val = v
    BY <2>2, StepFields
  <2> HIDE DEF s
  <2>4. \A i \in 1 .. Len(s) : i = 1
    BY <2>2
  <2>5. \A i \in 2 .. Len(s) : FALSE
    BY <2>2
  <2>6. Paired(s) /\ Fetched(s)
    BY <2>5 DEF Paired, Fetched
  <2>7. Switched(s, name)
    BY <2>3, <2>4 DEF Switched
  <2>8. HvLast(s)
    BY <2>3, <2>4 DEF HvLast
  <2>9. Fresh(s)
    BY <2>2, <2>3 DEF Fresh
  <2> QED
    BY <2>6, <2>7, <2>8, <2>9 DEF Whole, s
<1>2. CASE ~RawDaqb(c)
  BY <1>2, CallsWhole DEF Begins
<1> QED
  BY <1>1, <1>2

----------------------------------------------------------------------------
\* Before a call, and after it, nothing need be set up.
LEMMA NoneSetUp == \A k, t, F : SetUp(<< >>, k, t, F)
<1>1. Len(<< >>) = 0
  OBVIOUS
<1> QED
  BY <1>1 DEF SetUp, PairDone, HvDone

LEMMA FreshSetUp ==
  ASSUME NEW s \in Seq(Steps), Fresh(s)
  PROVE  \A k, t, F : SetUp(s, k, t, F)
<1> DEFINE n == Len(s)
<1>1. n > 0 /\ s[n].reg = "hvPush" => n >= 8
  BY DEF Fresh
<1>2. n \in Nat
  BY LenProperties
<1>3. n > 0 /\ s[n].reg = "hvPush" =>
        ~(n <= 7) /\ ~(n <= 6) /\ ~(n <= 3) /\ ~(n <= 2) /\ ~(n <= 1)
  BY <1>1, <1>2
<1>4. \A k, t, F : HvDone(s, k, t, F)
  BY <1>3 DEF HvDone
<1>5. \A k, F : PairDone(s, k, F)
  BY PairsOfFeb DEF Fresh, PairDone
<1> QED
  BY <1>4, <1>5 DEF SetUp

LEMMA InitCall == Init => CallInv
<1> SUFFICES ASSUME Init PROVE CallInv
  OBVIOUS
<1>1. \A p \in Procs : todo[p] = << >> /\ ph[p] = "step"
  BY DEF Init
<1>2. \A p \in Procs : Whole(todo[p], doing[p])
  BY <1>1, NoneWhole
<1>4. \A p \in Procs : Ready(p) /\ InWait(p)
  BY <1>1, NoneSetUp DEF Ready, TempReady, RunReady, InWait
<1>5. NewTemp
  BY DEF Init, NewTemp
<1>6. Numbered
  BY DEF Init, Numbered
<1> QED
  BY <1>1, <1>2, <1>4, <1>5, <1>6 DEF CallInv, Init

\* Which of the high voltage's steps comes first when n are left.
LEMMA HvFirst ==
  ASSUME NEW s \in Seq(Steps), HvLast(s), s # << >>, s[Len(s)].reg = "hvPush"
  PROVE  /\ Len(s) = 8 => s[1].reg = "vh"
         /\ Len(s) = 7 => s[1].reg = "vl"
         /\ Len(s) = 6 => s[1].reg = "tempFetch"
         /\ Len(s) = 5 => s[1].reg = "temp"
         /\ Len(s) = 4 => s[1].reg = "th"
         /\ Len(s) = 3 => s[1].reg = "tl"
         /\ Len(s) = 2 => s[1].reg = "sum"
         /\ Len(s) = 1 => s[1].reg = "hvPush"
<1> DEFINE n == Len(s)
<1>1. n \in Nat \ {0}
  BY TailSteps
<1>2. \A k \in 0 .. 7 : k < n => s[n - k].reg = HvRegs[8 - k]
  <2>1. n \in 1 .. Len(s)
    BY <1>1
  <2> QED
    BY <2>1, Zenon DEF HvLast
<1> HIDE DEF n
<1>3. ASSUME n \in 1 .. 8 PROVE s[1].reg = HvRegs[9 - n]
  <2>1. n - 1 \in 0 .. 7 /\ n - 1 < n /\ n - (n - 1) = 1 /\ 8 - (n - 1) = 9 - n
    BY <1>3
  <2> QED
    BY <1>2, <2>1
<1>4. /\ n = 8 => s[1].reg = HvRegs[1]
      /\ n = 7 => s[1].reg = HvRegs[2]
      /\ n = 6 => s[1].reg = HvRegs[3]
      /\ n = 5 => s[1].reg = HvRegs[4]
      /\ n = 4 => s[1].reg = HvRegs[5]
      /\ n = 3 => s[1].reg = HvRegs[6]
      /\ n = 2 => s[1].reg = HvRegs[7]
      /\ n = 1 => s[1].reg = HvRegs[8]
  BY <1>3
<1> QED
  BY <1>4, HvRegsAre DEF n

LEMMA StepKinds ==
  \A s \in Steps : /\ s.op \in {"feb", "daqb", "temp"}
                   /\ s.op = "feb" => s.reg \in FebRegs /\ s.reg # "temp"
                   /\ s.op = "daqb" => s.reg \in {"run", "reset"}
                   /\ s.op = "temp" => s.reg = "temp"
  BY DEF Steps, ReadTemp, FebRegs

\* A step that is done, a FEB command by having been written, leaves the next
\* one with what it relies on in the registers.
LEMMA RestSetUp ==
  ASSUME NEW s \in Seq(Steps), s # << >>, NEW name, Whole(s, name),
         NEW k, NEW temp0, NEW temp1, NEW F, SetUp(s, k, temp0, F),
         s[1].op = "feb" =>
           /\ F[s[1].reg] = [by |-> k, val |-> Worth(s[1], temp0)]
           /\ temp1 = temp0
  PROVE  SetUp(Tail(s), k, temp1, F)
<1> DEFINE t == Tail(s)
           n == Len(s)
<1>2. /\ t \in Seq(Steps) /\ n \in Nat \ {0} /\ Len(t) = n - 1
      /\ \A i \in 1 .. n - 1 : t[i] = s[i + 1]
      /\ s[1] \in Steps
      /\ (t # << >>) => n >= 2
  BY TailSteps
<1>4. t # << >> => n \in Nat /\ n >= 2 /\ t[1] = s[2] /\ 2 \in 2 .. n /\ 2 \in 1 .. n
  BY <1>2
<1>6. /\ s[1].reg \in {"th", "tl", "sum"} => Worth(s[1], temp0) = temp0
      /\ s[1].reg \notin {"th", "tl", "sum"} => Worth(s[1], temp0) = s[1].val
  BY DEF Worth
<1>w. Paired(s) /\ HvLast(s)
  BY DEF Whole
<1>8. n > 0 /\ s[n].reg = "hvPush" =>
       /\ n <= 7 => F["vh"].by = k
       /\ n <= 6 => F["vl"].by = k
       /\ n <= 3 => F["th"] = [by |-> k, val |-> temp0]
       /\ n <= 2 => F["tl"] = [by |-> k, val |-> temp0]
  BY DEF SetUp, HvDone
<1> HIDE DEF t, n
<1>9. PairDone(t, k, F)
  <2> SUFFICES ASSUME t # << >>, NEW pr \in Pairs, t[1].reg = pr[2]
               PROVE  F[pr[1]] = [by |-> k, val |-> t[1].val]
    BY DEF PairDone
  <2>1. s[2 - 1] = Feb(pr[1], s[2].val)
    BY <1>4, <1>w DEF Paired, n
  <2>2. /\ s[1].op = "feb" /\ s[1].reg = pr[1] /\ s[1].val = t[1].val
        /\ s[1].reg \notin {"th", "tl", "sum"}
    BY <1>4, <2>1, StepFields, PairsOfFeb
  <2> QED
    BY <1>6, <2>2
<1>12. HvDone(t, k, temp1, F)
  <2> DEFINE m == Len(t)
  <2> SUFFICES ASSUME m > 0, t[m].reg = "hvPush"
               PROVE  /\ m <= 7 => F["vh"].by = k
                      /\ m <= 6 => F["vl"].by = k
                      /\ m <= 3 => F["th"] = [by |-> k, val |-> temp1]
                      /\ m <= 2 => F["tl"] = [by |-> k, val |-> temp1]
                      /\ m <= 1 => F["sum"] = [by |-> k, val |-> temp1]
    BY DEF HvDone
  <2>1. m = n - 1 /\ n >= 2 /\ n \in Nat
    BY <1>2
  <2>2. s[n].reg = "hvPush"
    <3>1. m \in 1 .. n - 1 /\ m + 1 = n
      BY <2>1
    <3> QED
      BY <1>2, <3>1
  <2>3. /\ n <= 7 => F["vh"].by = k
        /\ n <= 6 => F["vl"].by = k
        /\ n <= 3 => F["th"] = [by |-> k, val |-> temp0]
        /\ n <= 2 => F["tl"] = [by |-> k, val |-> temp0]
    BY <1>8, <2>1, <2>2
  <2>4. /\ n = 8 => s[1].reg = "vh"
        /\ n = 7 => s[1].reg = "vl"
        /\ n = 4 => s[1].reg = "th"
        /\ n = 3 => s[1].reg = "tl"
        /\ n = 2 => s[1].reg = "sum"
    BY <1>w, <2>1, <2>2, HvFirst DEF n
  <2>5. s[1].reg \in {"vh", "vl", "th", "tl", "sum"} => s[1].op = "feb"
    <3>1. /\ s[1].op \in {"feb", "daqb", "temp"}
          /\ s[1].op = "daqb" => s[1].reg \in {"run", "reset"}
          /\ s[1].op = "temp" => s[1].reg = "temp"
      BY <1>2, StepKinds, Zenon
    <3> QED
      BY <3>1
  <2> HIDE DEF m
  <2>6. m <= 7 => F["vh"].by = k
    <3>1. CASE n <= 7
      BY <2>3, <3>1
    <3>2. CASE n = 8
      BY <2>4, <2>5, <3>2
    <3> QED
      BY <2>1, <3>1, <3>2
  <2>7. m <= 6 => F["vl"].by = k
    <3>1. CASE n <= 6
      BY <2>3, <3>1
    <3>2. CASE n = 7
      BY <2>4, <2>5, <3>2
    <3> QED
      BY <2>1, <3>1, <3>2
  <2>8. n \in {2, 3, 4} => temp1 = temp0 /\ Worth(s[1], temp0) = temp0
    BY <2>4, <2>5, <1>6
  <2>9. m <= 3 => F["th"] = [by |-> k, val |-> temp1]
    <3>1. CASE n \in {2, 3}
      BY <2>3, <2>8, <3>1
    <3>2. CASE n = 4
      BY <2>4, <2>5, <2>8, <3>2
    <3> QED
      BY <2>1, <3>1, <3>2
  <2>10. m <= 2 => F["tl"] = [by |-> k, val |-> temp1]
    <3>1. CASE n = 2
      BY <2>3, <2>8, <3>1
    <3>2. CASE n = 3
      BY <2>4, <2>5, <2>8, <3>2
    <3> QED
      BY <2>1, <3>1, <3>2
  <2>11. m <= 1 => F["sum"] = [by |-> k, val |-> temp1]
    <3>1. CASE n = 2
      BY <2>4, <2>5, <2>8, <3>1
    <3> QED
      BY <2>1, <3>1
  <2> QED
    BY <2>6, <2>7, <2>9, <2>10, <2>11
<1> QED
  BY <1>9, <1>12 DEF SetUp, t

\* The first step's own register is none that a step relies on before it.
LEMMA StillSetUp ==
  ASSUME NEW s \in Seq(Steps), s # << >>, NEW name, Whole(s, name),
         s[1].reg \in FebRegs, NEW k, NEW t, NEW F \in Registers,
         SetUp(s, k, t, F), NEW e
  PROVE  SetUp(s, k, t, [F EXCEPT ![s[1].reg] = e])
<1> DEFINE n == Len(s)
           r == s[1].reg
           G == [F EXCEPT ![r] = e]
<1>1. \A q \in FebRegs : q # r => G[q] = F[q]
  BY DEF Registers
<1>2. PairDone(s, k, G)
  <2> SUFFICES ASSUME NEW pr \in Pairs, r = pr[2]
               PROVE  G[pr[1]] = [by |-> k, val |-> s[1].val]
    BY DEF PairDone
  <2>1. pr[1] \in FebRegs /\ pr[1] # r
    BY PairsOfFeb DEF FebRegs
  <2>2. F[pr[1]] = [by |-> k, val |-> s[1].val]
    BY DEF SetUp, PairDone
  <2> HIDE DEF G
  <2> QED
    BY <1>1, <2>1, <2>2
<1>3. HvDone(s, k, t, G)
  <2> HIDE DEF G
  <2>1. SUFFICES ASSUME n > 0, s[n].reg = "hvPush"
                 PROVE  /\ n <= 7 => G["vh"].by = k
                        /\ n <= 6 => G["vl"].by = k
                        /\ n <= 3 => G["th"] = [by |-> k, val |-> t]
                        /\ n <= 2 => G["tl"] = [by |-> k, val |-> t]
                        /\ n <= 1 => G["sum"] = [by |-> k, val |-> t]
    BY DEF HvDone
  <2>2. /\ n <= 7 => F["vh"].by = k
        /\ n <= 6 => F["vl"].by = k
        /\ n <= 3 => F["th"] = [by |-> k, val |-> t]
        /\ n <= 2 => F["tl"] = [by |-> k, val |-> t]
        /\ n <= 1 => F["sum"] = [by |-> k, val |-> t]
    BY <2>1 DEF SetUp, HvDone
  <2>3. /\ n = 8 => r = "vh"
        /\ n = 7 => r = "vl"
        /\ n = 6 => r = "tempFetch"
        /\ n = 5 => r = "temp"
        /\ n = 4 => r = "th"
        /\ n = 3 => r = "tl"
        /\ n = 2 => r = "sum"
        /\ n = 1 => r = "hvPush"
    BY <2>1, HvFirst DEF Whole
  <2>4. n \in Nat \ {0}
    BY TailSteps
  <2> HIDE DEF n, r
  <2>5. /\ n <= 7 => r # "vh"
        /\ n <= 6 => r # "vl"
        /\ n <= 3 => r # "th"
        /\ n <= 2 => r # "tl"
        /\ n <= 1 => r # "sum"
    BY <2>3, <2>4
  <2>6. {"vh", "vl", "th", "tl", "sum"} \subseteq FebRegs
    BY DEF FebRegs
  <2> QED
    BY <1>1, <2>2, <2>5, <2>6
<1> QED
  BY <1>2, <1>3 DEF SetUp

\* The command of a step with what it relies on in the registers pushes what
\* its own call has set up.
LEMMA PushSetUp ==
  ASSUME NEW s \in Seq(Steps), s # << >>, NEW name, Whole(s, name),
         NEW k, NEW t, NEW F, SetUp(s, k, t, F),
         NEW c, c.reg = s[1].reg, c.by = k, c.val = Worth(s[1], t)
  PROVE  Pushes(c, F)
<1>1. c.reg \notin {"th", "tl", "sum"} => c.val = s[1].val
  BY DEF Worth
<1>2. \A pr \in Pairs : c.reg = pr[2] => F[pr[1]] = [by |-> c.by, val |-> c.val]
  BY <1>1, PairsOfFeb DEF SetUp, PairDone
<1>3. /\ c.reg = "dacPush" => F["dacConf"] = [by |-> c.by, val |-> c.val]
      /\ c.reg = "asic0Push" => F["asic0Conf"].by = c.by
      /\ c.reg = "asic1Push" => F["asic1Conf"].by = c.by
  <2>1. /\ <<"dacConf", "dacPush">> \in Pairs
        /\ <<"asic0Conf", "asic0Push">> \in Pairs
        /\ <<"asic1Conf", "asic1Push">> \in Pairs
    BY DEF Pairs
  <2> QED
    BY <1>2, <2>1
<1>4. ASSUME c.reg = "hvPush"
      PROVE  /\ \A r \in {"vh", "vl", "th", "tl", "sum"} : F[r].by = c.by
             /\ F["th"].val = F["sum"].val /\ F["tl"].val = F["sum"].val
  <2>1. 1 \in 1 .. Len(s) /\ Len(s) \in Nat
    BY TailSteps
  <2>2. Len(s) = 1
    BY <1>4, <2>1 DEF Whole, HvLast
  <2>3. /\ F["vh"].by = k /\ F["vl"].by = k
        /\ F["th"] = [by |-> k, val |-> t]
        /\ F["tl"] = [by |-> k, val |-> t]
        /\ F["sum"] = [by |-> k, val |-> t]
    <3>1. 1 > 0 /\ 1 <= 7 /\ 1 <= 6 /\ 1 <= 3 /\ 1 <= 2 /\ 1 <= 1
      OBVIOUS
    <3> QED
      BY <1>4, <2>2, <3>1 DEF SetUp, HvDone
  <2> QED
    BY <2>3
<1> QED
  BY <1>3, <1>4 DEF Pushes

\* A step that is done, a FEB command by having been carried out, leaves the
\* next one with what it relies on.
LEMMA AfterStep ==
  ASSUME TypeInv, NEW p \in Procs, Whole(todo[p], doing[p]), Ready(p),
         todo[p] # << >>, todo' = [todo EXCEPT ![p] = Tail(@)],
         UNCHANGED <<doing, call, feb, tempReg>>,
         todo[p][1].op = "feb" => Obeyed(p) /\ temp' = temp
  PROVE  Whole(todo[p], doing[p])' /\ Ready(p)'
<1> DEFINE s == todo[p]
           t == Tail(s)
           n == Len(s)
<1>1. s \in Seq(Steps) /\ todo'[p] = t /\ doing'[p] = doing[p] /\ s # << >>
  BY DEF TypeInv, TypeOK
<1>2. /\ n \in Nat \ {0} /\ Len(t) = n - 1
      /\ \A i \in 1 .. n - 1 : t[i] = s[i + 1]
      /\ (t # << >>) => n >= 2
  BY <1>1, TailSteps
<1>3. Whole(t, doing[p])
  BY <1>1, TailWhole
<1>4. t # << >> => n \in Nat /\ n >= 2 /\ t[1] = s[2] /\ 2 \in 2 .. n /\ 2 \in 1 .. n
  BY <1>2
<1>5. s[1].op = "feb" =>
        /\ feb[s[1].reg] = [by |-> call[p], val |-> Worth(s[1], temp[p])]
        /\ s[1].reg = "tempFetch" => tempReg \in {-1, 0, call[p]}
        /\ temp'[p] = temp[p]
  BY DEF Obeyed, Value
<1>6. s[1].reg = "run" => Worth(s[1], temp[p]) = s[1].val
  BY DEF Worth
<1>w. Fetched(s) /\ Switched(s, doing[p])
  BY DEF Whole
<1>7. SetUp(s, call[p], temp[p], feb)
  BY DEF Ready
<1> HIDE DEF s, t, n
<1>9. SetUp(todo[p], call[p], temp[p], feb)'
  <2>1. SetUp(t, call[p], temp'[p], feb)
    BY <1>1, <1>5, <1>7, RestSetUp DEF s, t
  <2> QED
    BY <1>1, <2>1
<1>10. TempReady(p)'
  <2> SUFFICES ASSUME t # << >>, t[1].reg = "temp"
               PROVE  tempReg \in {-1, 0, call[p]}
    BY <1>1 DEF TempReady
  <2>1. s[2 - 1] = Feb("tempFetch", 1)
    BY <1>4, <1>w DEF Fetched, n
  <2>2. s[1].op = "feb" /\ s[1].reg = "tempFetch"
    BY <2>1, StepFields
  <2> QED
    BY <1>5, <2>2
<1>11. RunReady(p)'
  <2> SUFFICES ASSUME t # << >>, t[1].op = "daqb", t[1].reg = "run"
               PROVE  t[1].val # 1 /\ feb["run"].by = call[p]
    BY <1>1 DEF RunReady
  <2>1. t[1].val # 1 /\ s[2 - 1] = Feb("run", 1)
    BY <1>4, <1>w DEF Switched, n
  <2>2. s[1].op = "feb" /\ s[1].reg = "run"
    BY <2>1, StepFields
  <2> QED
    BY <1>5, <2>1, <2>2
<1> QED
  BY <1>1, <1>3, <1>9, <1>10, <1>11 DEF Ready

\* Nor does a step that changes nothing a call relies on.
LEMMA SameReady ==
  ASSUME NEW p \in Procs, Whole(todo[p], doing[p]), Ready(p),
         UNCHANGED <<todo, doing, call, feb, temp, tempReg>>
  PROVE  Whole(todo[p], doing[p])' /\ Ready(p)'
<1>1. Whole(todo[p], doing[p])'
  BY DEF Whole, Paired, Fetched, Switched, HvLast
<1> QED
  BY <1>1 DEF Ready, TempReady, RunReady

LEMMA LinkEmptied ==
  ASSUME TypeInv, HandShake, link # << >>
  PROVE  Tail(link) = << >> /\ Head(link) = link[1] /\ link[1] \in Commands
<1>1. link \in Seq(Commands) /\ Len(link) <= 1
  BY DEF HandShake, TypeInv, TypeOK
<1>2. Len(link) # 0
  BY <1>1, EmptySeq, Zenon
<1> DEFINE n == Len(link)
<1>3. n \in Nat /\ n <= 1 /\ n # 0
  BY <1>1, <1>2, LenProperties
<1> HIDE DEF n
<1>4. n = 1
  BY <1>3
<1>5. Tail(link) \in Seq(Commands) /\ Len(Tail(link)) = n - 1
  <2>1. link # << >>
    OBVIOUS
  <2> QED
    BY <1>1, <2>1, HeadTailProperties DEF n
<1>6. Tail(link) = << >>
  <2>1. Len(Tail(link)) = 0
    BY <1>4, <1>5
  <2> QED
    BY <1>5, <2>1, EmptySeq, Zenon
<1>7. link[1] \in Commands /\ Head(link) = link[1]
  <2>1. 1 \in 1 .. n
    BY <1>4
  <2>2. link[1] \in Commands
    BY <1>1, <2>1, ElementOfSeq DEF n
  <2> QED
    BY <2>2
<1> QED
  BY <1>6, <1>7

LEMMA NextCall ==
  Alone /\ TypeInv /\ HandShake /\ CallInv /\ [Next]_vars => CallInv'
<1> SUFFICES ASSUME Alone, TypeInv, HandShake, CallInv, [Next]_vars
             PROVE  CallInv'
  OBVIOUS
\* There is one process to speak of.
<1>a. ASSUME NEW p \in Procs,
             Whole(todo[p], doing[p])', Ready(p)', InWait(p)',
             ph'[p] = "down" => todo'[p] = << >>,
             temp'[p] \in {-1, 0, call'[p]}, Numbered'
      PROVE  CallInv'
  <2>1. \A q \in Procs : q = p
    BY DEF Alone
  <2> QED
    BY <1>a, <2>1 DEF CallInv, NewTemp
<1>b. ASSUME NEW p \in Procs
      PROVE  /\ Whole(todo[p], doing[p]) /\ Ready(p) /\ InWait(p)
             /\ ph[p] = "down" => todo[p] = << >>
             /\ temp[p] \in {-1, 0, call[p]} /\ Numbered
  BY DEF CallInv, NewTemp
<1>c. ASSUME NEW p \in Procs, todo'[p] = << >>, ph'[p] \notin {"poll", "clock"},
             UNCHANGED <<temp, call, calls, feb, doing>>
      PROVE  CallInv'
  <2>1. Whole(todo[p], doing[p])'
    BY <1>c, NoneWhole
  <2>4. Ready(p)' /\ InWait(p)'
    BY <1>c, NoneSetUp DEF Ready, TempReady, RunReady, InWait
  <2>5. temp'[p] \in {-1, 0, call'[p]} /\ Numbered'
    BY <1>b, <1>c DEF Numbered
  <2> QED
    BY <1>a, <1>c, <2>1, <2>4, <2>5
<1>d. ASSUME NEW p \in Procs, InWait(p)', ph'[p] # "down",
             UNCHANGED <<todo, doing, call, calls, feb, temp, tempReg>>
      PROVE  CallInv'
  <2>1. Whole(todo[p], doing[p])' /\ Ready(p)'
    BY <1>b, <1>d, SameReady
  <2>2. temp'[p] \in {-1, 0, call'[p]} /\ Numbered'
    BY <1>b, <1>d DEF Numbered
  <2> QED
    BY <1>a, <1>d, <2>1, <2>2
<1>1. ASSUME NEW p \in Procs, Call(p) PROVE CallInv'
  <2>1. PICK c \in Calls : /\ todo' = [todo EXCEPT ![p] = c.steps]
                           /\ doing' = [doing EXCEPT ![p] = c.name]
    BY <1>1 DEF Call
  <2>2. /\ todo'[p] = c.steps /\ doing'[p] = c.name
        /\ call'[p] = calls + 1 /\ calls' = calls + 1 /\ temp'[p] = -1
        /\ feb' = feb /\ ph' = ph /\ ph[p] = "step"
        /\ DOMAIN doing' = Procs /\ calls \in Nat
    BY <1>1, <1>b, <2>1 DEF Call, Idle, board, Numbered, TypeInv, TypeOK
  <2>3. Whole(c.steps, c.name) /\ Begins(c.steps) /\ c.steps \in Seq(Steps)
    BY CallsWhole, CallsTyped DEF Alone, RawDaqb, RawRuns
  <2>4. Whole(todo[p], doing[p])'
    BY <2>2, <2>3
  <2>5. feb["run"].by # calls + 1
    <3>1. feb["run"].by \in Nat /\ feb["run"].by <= calls
      BY <1>b DEF Numbered, TypeInv, TypeOK, FebRegs
    <3> QED
      BY <2>2, <3>1
  <2>6. TempReady(p)' /\ RunReady(p)'
    BY <2>2, <2>3, <2>5 DEF TempReady, RunReady, Begins, Fresh
  <2>7. SetUp(todo[p], call[p], temp[p], feb)'
    BY <2>2, <2>3, FreshSetUp DEF Begins
  <2>8. InWait(p)'
    BY <2>2 DEF InWait
  <2>9. Numbered'
    <3>1. \A q \in Procs : q = p
      BY DEF Alone
    <3>2. \A r \in FebRegs : feb[r].by \in Nat /\ feb[r].by <= calls
      BY <1>b DEF Numbered, TypeInv, TypeOK
    <3>3. \A r \in FebRegs : feb'[r].by <= calls'
      BY <2>2, <3>2
    <3> QED
      BY <2>2, <3>1, <3>3 DEF Numbered
  <2> QED
    BY <1>a, <2>2, <2>4, <2>6, <2>7, <2>8, <2>9 DEF Ready
<1>2. ASSUME NEW p \in Procs, RawWrite(p) PROVE CallInv'
  BY <1>2 DEF RawWrite, Alone
<1>3. ASSUME NEW p \in Procs, DaqbWrite(p) \/ TempRead(p) PROVE CallInv'
  <2>1. /\ ph[p] = "step" /\ ph' = ph /\ todo[p] # << >>
        /\ Head(todo[p]).op # "feb"
        /\ todo' = [todo EXCEPT ![p] = Tail(@)]
        /\ UNCHANGED <<doing, call, calls, feb, tempReg>>
    BY <1>3 DEF DaqbWrite, TempRead, Step, Drop, history, board
  <2>2. todo[p][1].op # "feb" /\ Head(todo[p]) = todo[p][1]
    BY <2>1, TailSteps DEF TypeInv, TypeOK
  <2>3. Whole(todo[p], doing[p])' /\ Ready(p)'
    BY <1>b, <2>1, <2>2, AfterStep
  <2>4. InWait(p)'
    BY <2>1 DEF InWait
  <2>5. temp'[p] \in {-1, 0, call'[p]}
    <3>1. CASE DaqbWrite(p)
      BY <3>1, <1>b, <2>1 DEF DaqbWrite
    <3>2. CASE TempRead(p)
      <4>1. todo[p][1].reg = "temp" /\ temp'[p] = tempReg
        <5>1. todo[p][1] \in Steps /\ todo[p][1].op = "temp"
          BY <3>2, <2>1, <2>2, TailSteps DEF TempRead, Step, TypeInv, TypeOK
        <5>2. todo[p][1].reg = "temp"
          BY <5>1, StepKinds, Zenon
        <5> QED
          BY <3>2, <5>2 DEF TempRead, TypeInv, TypeOK
      <4> QED
        BY <1>b, <2>1, <4>1 DEF Ready, TempReady
    <3> QED
      BY <1>3, <3>1, <3>2
  <2>6. Numbered'
    BY <1>b, <2>1 DEF Numbered
  <2> QED
    BY <1>a, <2>1, <2>3, <2>4, <2>5, <2>6
<1>4. ASSUME NEW p \in Procs, TempThrows(p) \/ TimeOut(p) PROVE CallInv'
  <2>1. /\ todo'[p] = << >> /\ ph'[p] = "down"
        /\ UNCHANGED <<temp, call, calls, feb, doing>>
    BY <1>4 DEF TempThrows, TimeOut, Goto, history, board, TypeInv, TypeOK
  <2> QED
    BY <1>c, <2>1
<1>5. ASSUME NEW p \in Procs, LastAck(p) PROVE CallInv'
  <2>1. /\ ph'[p] = "write"
        /\ UNCHANGED <<todo, doing, call, calls, feb, temp, tempReg>>
    BY <1>5 DEF LastAck, Goto, history, board, TypeInv, TypeOK
  <2> QED
    BY <1>d, <2>1 DEF InWait
\* What is written is the first step, of this call.
<1>6. ASSUME NEW p \in Procs, CmdWrite(p) PROVE CallInv'
  <2>1. /\ ph[p] = "write" /\ ph'[p] = "poll" /\ link = << >>
        /\ UNCHANGED <<todo, doing, call, calls, feb, temp, tempReg>>
    BY <1>6 DEF CmdWrite, Send, Goto, HandShake, TypeInv, TypeOK
  <2>2. todo[p] # << >> /\ Head(todo[p]) = todo[p][1]
    BY <2>1, TailSteps DEF TypeInv, TypeOK, AtCommand
  <2>3. link' = Append(link, [id |-> issued + 1, reg |-> todo[p][1].reg,
                              val |-> Value(p), by |-> call[p], op |-> "feb"])
    BY <1>6, <2>2 DEF CmdWrite, Send, Value, Worth
  <2>4. link' # << >> /\ link'[1] = [id |-> issued + 1, reg |-> todo[p][1].reg,
                              val |-> Value(p), by |-> call[p], op |-> "feb"]
    BY <2>1, <2>3
  <2>5. Value(p)' = Value(p)
    BY <2>1 DEF Value
  <2>6. Sent(p)'
    BY <2>1, <2>4, <2>5 DEF Sent
  <2> QED
    BY <1>d, <2>1, <2>6 DEF InWait
\* The counter has moved, so that the command was carried out.
<1>7. ASSUME NEW p \in Procs, Acked(p) PROVE CallInv'
  <2>1. /\ ph[p] = "poll" /\ ack # last[p] /\ ph'[p] = "step"
        /\ todo' = [todo EXCEPT ![p] = Tail(@)]
        /\ UNCHANGED <<doing, call, calls, feb, temp, tempReg>>
    BY <1>7 DEF Acked, Goto, Drop, history, board, TypeInv, TypeOK
  <2>2. todo[p] # << >>
    BY <2>1 DEF TypeInv, AtCommand
  <2>3. Obeyed(p)
    BY <1>b, <2>1 DEF InWait, Sent, HandShake
  <2>4. Whole(todo[p], doing[p])' /\ Ready(p)'
    BY <1>b, <2>1, <2>2, <2>3, AfterStep
  <2>5. InWait(p)'
    BY <2>1 DEF InWait
  <2>6. temp'[p] \in {-1, 0, call'[p]} /\ Numbered'
    BY <1>b, <2>1 DEF Numbered
  <2> QED
    BY <1>a, <2>1, <2>4, <2>5, <2>6
<1>8. ASSUME NEW p \in Procs, NotAcked(p) \/ Sleep(p) PROVE CallInv'
  <2>1. /\ ph[p] \in {"poll", "clock"} /\ ph'[p] \in {"poll", "clock"}
        /\ UNCHANGED <<todo, doing, call, calls, feb, temp, tempReg>>
        /\ UNCHANGED <<link, ack, last>>
    BY <1>8 DEF NotAcked, Sleep, Goto, history, board, TypeInv, TypeOK
  <2>2. InWait(p)'
    BY <1>b, <2>1 DEF InWait, Sent, Obeyed, Value
  <2> QED
    BY <1>d, <2>1, <2>2
<1>9. ASSUME NEW p \in Procs, Restart(p) PROVE CallInv'
  <2>1. /\ ph[p] = "down" /\ ph'[p] = "step" /\ todo' = todo /\ temp'[p] = -1
        /\ UNCHANGED <<call, calls, feb, doing>>
    BY <1>9 DEF Restart, Goto, history, board, TypeInv, TypeOK
  <2>2. todo'[p] = << >>
    BY <1>b, <2>1
  <2>3. Whole(todo[p], doing[p])'
    BY <2>2, NoneWhole
  <2>6. Ready(p)' /\ InWait(p)'
    BY <2>1, <2>2, NoneSetUp DEF Ready, TempReady, RunReady, InWait
  <2>7. Numbered'
    BY <1>b, <2>1 DEF Numbered
  <2> QED
    BY <1>a, <2>1, <2>2, <2>3, <2>6, <2>7
\* The board takes the command waited for: a register that no part of what is
\* done already is in.
<1>10. ASSUME Board PROVE CallInv'
  <2>1. link # << >> /\ link' = << >> /\ Head(link) = link[1]
        /\ link[1] \in Commands
        /\ UNCHANGED <<todo, ph, last, temp, call, doing, calls>>
    BY <1>10, LinkEmptied
    DEF Board, Execute, AckLost, CommandLost, code, history
  <2>2. PICK p \in Procs : TRUE
    BY <2>1 DEF CallInv
  <2>3. /\ ph[p] \in {"poll", "clock"} /\ ack = last[p] /\ Sent(p)
        /\ todo[p] # << >>
    BY <1>b, <2>1 DEF HandShake, InWait, TypeInv, TypeOK, AtCommand
  <2> DEFINE s == todo[p]
             f == s[1]
  <2>4. /\ s \in Seq(Steps) /\ f \in Steps /\ f.op = "feb"
        /\ f.reg \in FebRegs /\ f.reg # "temp"
    <3>1. s \in Seq(Steps)
      BY DEF TypeInv, TypeOK
    <3>2. f \in Steps /\ Head(s) = f
      BY <2>3, <3>1, TailSteps
    <3>3. f.op = "feb"
      BY <2>3, <3>2 DEF TypeInv, AtCommand
    <3>4. f.reg \in FebRegs /\ f.reg # "temp"
      BY <3>2, <3>3, StepKinds, Zenon
    <3> QED
      BY <3>1, <3>2, <3>3, <3>4
  <2>5. Value(p)' = Value(p)
    BY <2>1 DEF Value
  <2>6. CASE CommandLost
    <3>1. UNCHANGED <<feb, tempReg, ack>>
      BY <2>6 DEF CommandLost
    <3>2. InWait(p)'
      BY <2>1, <2>3, <3>1 DEF InWait
    <3> QED
      BY <1>d, <2>1, <2>3, <3>1, <3>2
  <2>7. CASE Execute \/ AckLost
    <3> DEFINE e == [by |-> call[p], val |-> Value(p)]
    <3>1. /\ feb' = [feb EXCEPT ![f.reg] = e]
          /\ tempReg' \in (IF f.reg = "tempFetch" THEN {-1, 0, call[p]} ELSE {tempReg})
      BY <2>1, <2>3, <2>7 DEF Execute, AckLost, CarryOut, Sent, Garbled
    <3>2. feb \in [FebRegs -> [by : Nat, val : Int]]
      BY DEF TypeInv, TypeOK
    <3> HIDE DEF e
    <3>3. /\ feb'[f.reg] = e
          /\ \A r \in FebRegs : r # f.reg => feb'[r] = feb[r]
      BY <2>4, <3>1, <3>2
    <3>4. InWait(p)'
      BY <2>1, <2>5, <3>1, <3>3 DEF InWait, Obeyed, e
    <3>5. Whole(todo[p], doing[p])'
      <4>1. todo'[p] = todo[p] /\ doing'[p] = doing[p]
        BY <2>1
      <4> QED
        BY <1>b, <4>1
    <3>6. SetUp(todo[p], call[p], temp[p], feb)'
      <4>1. SetUp(s, call[p], temp[p], [feb EXCEPT ![f.reg] = e])
        <5>1. SetUp(s, call[p], temp[p], feb) /\ Whole(s, doing[p])
          BY <1>b DEF Ready
        <5> QED
          BY <2>3, <2>4, <3>2, <5>1, StillSetUp DEF Registers
      <4> QED
        BY <2>1, <3>1, <4>1
    <3>7. TempReady(p)' /\ RunReady(p)'
      BY <2>1, <2>4 DEF TempReady, RunReady
    <3>9. Numbered'
      <4>1. \A r \in FebRegs : feb'[r].by <= calls
        BY <1>b, <3>3 DEF Numbered, e
      <4> QED
        BY <1>b, <2>1, <4>1 DEF Numbered
    <3> QED
      BY <1>a, <1>b, <2>1, <3>4, <3>5, <3>6, <3>7, <3>9 DEF Ready
  <2> QED
    BY <1>10, <2>6, <2>7 DEF Board
<1>11. CASE UNCHANGED vars
  <2>1. UNCHANGED <<todo, doing, call, calls, feb, temp, tempReg, link, ack, last, ph>>
    BY <1>11 DEF vars, code, history, board
  <2>2. \A p \in Procs : Whole(todo[p], doing[p])' /\ Ready(p)'
    BY <1>b, <2>1, SameReady
  <2>3. \A p \in Procs : InWait(p)'
    BY <1>b, <2>1 DEF InWait, Sent, Obeyed, Value
  <2> QED
    BY <2>1, <2>2, <2>3 DEF CallInv, NewTemp, Numbered
<1> QED
  BY <1>1, <1>2, <1>3, <1>4, <1>5, <1>6, <1>7, <1>8, <1>9, <1>10, <1>11
  DEF Next, Work, Wait

LEMMA CallInvariance == Alone /\ Spec => [](TypeInv /\ HandShake /\ CallInv)
<1>1. Alone /\ TypeInv /\ HandShake /\ CallInv /\ [Next]_vars
        => (TypeInv /\ HandShake /\ CallInv)'
  BY NextTypes, NextHandShake, NextCall
<1>2. Alone /\ TypeInv /\ HandShake /\ CallInv /\ [][Next]_vars
        => [](TypeInv /\ HandShake /\ CallInv)
  <2> SUFFICES ASSUME Alone
               PROVE  TypeInv /\ HandShake /\ CallInv /\ [][Next]_vars
                        => [](TypeInv /\ HandShake /\ CallInv)
    OBVIOUS
  <2>1. TypeInv /\ HandShake /\ CallInv /\ [Next]_vars
          => (TypeInv /\ HandShake /\ CallInv)'
    BY <1>1
  <2> QED
    BY <2>1, PTL
<1> QED
  BY <1>2, InitTypes, InitHandShake, InitCall, PTL DEF Spec

\* The temperature a call works with was fetched for it: no command of another
\* call is acknowledged in its place, whatever is lost.
THEOREM TempIsNew == Alone /\ Spec => []NewTemp
<1>1. CallInv => NewTemp
  BY DEF CallInv
<1> QED
  BY <1>1, CallInvariance, PTL

\* What the FEB is told to push was written to its registers by the same call,
\* all of it, also after calls that timed out half-way.
THEOREM PushIsWhole == Alone /\ Spec => []PushWhole
<1>1. TypeInv /\ HandShake /\ CallInv => (Alone => PushWhole)
  <2> SUFFICES ASSUME TypeInv, HandShake, CallInv, Alone, link # << >>
               PROVE  PushesOwn(Head(link))
    BY DEF PushWhole
  <2>1. Head(link) = link[1]
    BY LinkEmptied
  <2>2. PICK p \in Procs : TRUE
    BY DEF CallInv
  <2>3. /\ Sent(p) /\ todo[p] # << >> /\ Ready(p)
        /\ Whole(todo[p], doing[p]) /\ todo[p] \in Seq(Steps)
    BY DEF CallInv, HandShake, InWait, TypeInv, TypeOK, AtCommand
  <2>4. Pushes(link[1], feb)
    BY <2>3, PushSetUp DEF Sent, Value, Ready
  <2> QED
    BY <2>1, <2>4 DEF Pushes, PushesOwn
<1>2. Alone /\ [](TypeInv /\ HandShake /\ CallInv) => []PushWhole
  <2> SUFFICES ASSUME Alone
               PROVE  [](TypeInv /\ HandShake /\ CallInv) => []PushWhole
    OBVIOUS
  <2>1. TypeInv /\ HandShake /\ CallInv => PushWhole
    BY <1>1
  <2> QED
    BY <2>1, PTL
<1> QED
  BY <1>2, CallInvariance, PTL

\* R_DAQB_DATA_RUN is set by a start before the FEB has carried out a command
\* of that start, and cleared by a stop after it has carried out the stop's.
THEOREM RunInOrder == Alone /\ Spec => RunOrder
<1> DEFINE A == daqb["run"] # daqb'["run"] =>
                  \E p \in Procs :
                    IF daqb'["run"] = 1
                      THEN doing[p] = "start" /\ feb["run"].by # call[p]
                      ELSE doing[p] = "stop" /\ feb["run"].by = call[p]
<1>1. Alone /\ TypeInv /\ HandShake /\ CallInv /\ [Next]_vars => [A]_vars
  <2> SUFFICES ASSUME Alone, TypeInv, CallInv, Next, daqb["run"] # daqb'["run"]
               PROVE  \E p \in Procs :
                        IF daqb'["run"] = 1
                          THEN doing[p] = "start" /\ feb["run"].by # call[p]
                          ELSE doing[p] = "stop" /\ feb["run"].by = call[p]
    OBVIOUS
  <2>1. PICK p \in Procs : DaqbWrite(p)
    <3>1. ~Board
      BY DEF Board, Execute, AckLost, CommandLost
    <3>2. ASSUME NEW p \in Procs, Call(p) \/ RawWrite(p) \/ Restart(p)
                   \/ TempRead(p) \/ TempThrows(p) \/ LastAck(p)
                   \/ CmdWrite(p) \/ Acked(p) \/ NotAcked(p) \/ Sleep(p)
                   \/ TimeOut(p)
          PROVE  FALSE
      BY <3>2 DEF Call, RawWrite, Restart, TempRead, TempThrows, LastAck,
           CmdWrite, Acked, NotAcked, Sleep, TimeOut, Send
    <3> QED
      BY <3>1, <3>2 DEF Next, Work, Wait
  <2> DEFINE s == todo[p]
  <2>2. /\ s \in Seq(Steps) /\ s # << >> /\ Head(s).op = "daqb"
        /\ daqb' = [daqb EXCEPT ![Head(s).reg] = Head(s).val]
        /\ daqb \in [{"run", "reset"} -> {0, 1}]
    BY <2>1 DEF DaqbWrite, Step, TypeInv, TypeOK
  <2>3. Head(s) = s[1] /\ 1 \in 1 .. Len(s)
    BY <2>2, TailSteps
  <2>4. s[1].op = "daqb" /\ s[1].reg = "run" /\ daqb'["run"] = s[1].val
    BY <2>2, <2>3
  <2>5. IF s[1].val = 1 THEN doing[p] = "start" ELSE doing[p] = "stop"
    BY <2>3, <2>4 DEF CallInv, Whole, Switched
  <2>6. IF s[1].val = 1 THEN feb["run"].by # call[p] ELSE feb["run"].by = call[p]
    BY <2>2, <2>4 DEF CallInv, Ready, RunReady
  <2> QED
    BY <2>4, <2>5, <2>6
<1>2. Alone /\ [](TypeInv /\ HandShake /\ CallInv) /\ [][Next]_vars => [][A]_vars
  <2> SUFFICES ASSUME Alone
               PROVE  [](TypeInv /\ HandShake /\ CallInv) /\ [][Next]_vars
                        => [][A]_vars
    OBVIOUS
  <2>1. TypeInv /\ HandShake /\ CallInv /\ [Next]_vars => [A]_vars
    BY <1>1
  <2> QED
    BY <2>1, PTL
<1> QED
  BY <1>2, CallInvariance, PTL DEF Spec, RunOrder
----------------------------------------------------------------------------
(* One process that writes raw registers too, and a board that may be late *)
(* but loses nothing, as when comet_wsf_ctrl is used by hand.  The counter *)
(* is worth nothing then: a wait may end with the acknowledge of another   *)
(* command, and the link holds any number of them.  But they are carried   *)
(* out in the order written, so a push still finds what was written before *)
(* it.                                                                     *)

InTurn == (\A p, q \in Procs : p = q) /\ ~Lossy

\* V[i] is what the registers will hold when command i of the link is carried
\* out, and the last of V when all are.
Ahead(V) ==
  /\ V \in Seq(Registers) /\ Len(V) = Len(link) + 1 /\ V[1] = feb
  /\ \A i \in 1 .. Len(link) :
       /\ V[i + 1] = [V[i] EXCEPT ![link[i].reg] =
                        [by |-> link[i].by, val |-> link[i].val]]
       /\ link[i].op = "feb" => Pushes(link[i], V[i])

\* When all on the link is carried out the registers F hold what the call's
\* next step relies on, and in a wait the value of the command waited for.
Prepared(p, F) ==
  /\ SetUp(todo[p], call[p], temp[p], F)
  /\ ph[p] \in {"poll", "clock"} =>
       F[todo[p][1].reg] = [by |-> call[p], val |-> Value(p)]

AheadInv == \E V : Ahead(V) /\ \A p \in Procs : Prepared(p, V[Len(link) + 1])

TurnInv ==
  /\ \A p \in Procs : \E name : Whole(todo[p], name)
  /\ \A p \in Procs : ph[p] = "down" => todo[p] = << >>
  /\ AheadInv

LEMMA InitTurn == Init /\ TypeInv => TurnInv
<1> SUFFICES ASSUME Init, TypeInv PROVE TurnInv
  OBVIOUS
<1>1. /\ \A p \in Procs : todo[p] = << >> /\ ph[p] = "step"
      /\ link = << >>
  BY DEF Init
<1>2. feb \in Registers
  BY DEF TypeInv, TypeOK, Registers
<1> DEFINE V == <<feb>>
<1>3. /\ V \in Seq(Registers) /\ Len(V) = 1 /\ V[1] = feb
  BY <1>2
<1>4. Len(link) = 0
  <2>1. Len(<< >>) = 0
    OBVIOUS
  <2> QED
    BY <1>1, <2>1, Zenon
<1> HIDE DEF V
<1>5. Ahead(V)
  BY <1>3, <1>4 DEF Ahead
<1>6. \A p \in Procs : Prepared(p, V[Len(link) + 1])
  BY <1>1, NoneSetUp DEF Prepared
<1> QED
  BY <1>1, <1>5, <1>6, NoneWhole DEF TurnInv, AheadInv

\* A command is added to the link.
LEMMA OneAhead ==
  ASSUME TypeInv, NEW V, Ahead(V), NEW c \in Commands, link' = Append(link, c),
         feb' = feb, NEW F, F = V[Len(link) + 1],
         c.op = "feb" => Pushes(c, F)
  PROVE  \E G : Ahead(G)' /\ G[Len(link') + 1]
                   = [F EXCEPT ![c.reg] = [by |-> c.by, val |-> c.val]]
<1> DEFINE n == Len(link)
           e == [by |-> c.by, val |-> c.val]
           H == [F EXCEPT ![c.reg] = e]
           G == Append(V, H)
<1>1. /\ link \in Seq(Commands) /\ n \in Nat
      /\ V \in Seq(Registers) /\ Len(V) = n + 1 /\ V[1] = feb
  BY LenProperties DEF TypeInv, TypeOK, Ahead
<1>2. F \in Registers
  BY <1>1
<1>3. c.reg \in FebRegs /\ e \in [by : Nat, val : Int]
  BY DEF Commands
<1>4. H \in Registers
  BY <1>2, <1>3 DEF Registers
<1> HIDE DEF e, H
<1>5. /\ G \in Seq(Registers) /\ Len(G) = n + 2 /\ G[n + 2] = H
      /\ \A i \in 1 .. n + 1 : G[i] = V[i]
  BY <1>1, <1>4, AppendProperties
<1>6. /\ Len(link') = n + 1 /\ link'[n + 1] = c
      /\ \A i \in 1 .. n : link'[i] = link[i]
  BY <1>1, AppendProperties
<1> HIDE DEF G, n
<1>7. ASSUME NEW i \in 1 .. n + 1
      PROVE  /\ G[i + 1] = [G[i] EXCEPT ![link'[i].reg] =
                              [by |-> link'[i].by, val |-> link'[i].val]]
             /\ link'[i].op = "feb" => Pushes(link'[i], G[i])
  <2>1. CASE i \in 1 .. n
    <3>1. G[i] = V[i] /\ G[i + 1] = V[i + 1] /\ link'[i] = link[i]
      BY <1>1, <1>5, <1>6, <2>1
    <3> QED
      BY <2>1, <3>1 DEF Ahead, n
  <2>2. CASE i = n + 1
    <3>1. G[i] = F /\ G[i + 1] = H /\ link'[i] = c
      BY <1>1, <1>5, <1>6, <2>2 DEF n
    <3> QED
      BY <3>1 DEF H, e
  <2>3. i \in 1 .. n \/ i = n + 1
    BY <1>1
  <2> QED
    BY <2>1, <2>2, <2>3
<1>8. Ahead(G)'
  <2>1. Len(G) = Len(link') + 1 /\ G[1] = feb' /\ 1 \in 1 .. n + 1
    BY <1>1, <1>5, <1>6
  <2> QED
    BY <1>5, <1>6, <1>7, <2>1 DEF Ahead
<1>9. G[Len(link') + 1] = H
  BY <1>1, <1>5, <1>6
<1> QED
  BY <1>8, <1>9 DEF H, e

\* The first command is taken from the link, and carried out.
LEMMA OneDone ==
  ASSUME TypeInv, NEW V, Ahead(V), Execute
  PROVE  /\ Ahead(Tail(V))' /\ Tail(V)[Len(link') + 1] = V[Len(link) + 1]
<1> DEFINE n == Len(link)
           G == Tail(V)
<1>1. /\ link \in Seq(Commands) /\ link # << >> /\ link' = Tail(link)
      /\ V \in Seq(Registers) /\ Len(V) = n + 1 /\ V[1] = feb
  BY DEF TypeInv, TypeOK, Ahead, Execute
<1>2. n \in Nat \ {0}
  BY <1>1, LenProperties, EmptySeq
<1>3. /\ Len(link') = n - 1 /\ \A i \in 1 .. n - 1 : link'[i] = link[i + 1]
      /\ Head(link) = link[1]
  BY <1>1, <1>2, HeadTailProperties
<1>4. /\ G \in Seq(Registers) /\ Len(G) = n
      /\ \A i \in 1 .. n : G[i] = V[i + 1]
  BY <1>1, <1>2, HeadTailProperties
<1>5. feb' = V[2]
  <2>1. feb' = [feb EXCEPT ![link[1].reg] = [by |-> link[1].by, val |-> link[1].val]]
    BY <1>3 DEF Execute, CarryOut
  <2>2. V[1 + 1] = [V[1] EXCEPT ![link[1].reg] =
                      [by |-> link[1].by, val |-> link[1].val]]
    BY <1>2 DEF Ahead
  <2> QED
    BY <1>1, <2>1, <2>2
<1> HIDE DEF n, G
<1>6. ASSUME NEW i \in 1 .. n - 1
      PROVE  /\ G[i + 1] = [G[i] EXCEPT ![link'[i].reg] =
                              [by |-> link'[i].by, val |-> link'[i].val]]
             /\ link'[i].op = "feb" => Pushes(link'[i], G[i])
  <2>1. i + 1 \in 1 .. n /\ i \in 1 .. n
    BY <1>2
  <2>2. link'[i] = link[i + 1] /\ G[i] = V[i + 1] /\ G[i + 1] = V[(i + 1) + 1]
    BY <1>3, <1>4, <2>1
  <2> QED
    BY <2>1, <2>2 DEF Ahead, n
<1>7. Len(G) = Len(link') + 1 /\ G[1] = feb' /\ G[Len(link') + 1] = V[n + 1]
  <2>1. 1 \in 1 .. n /\ n \in 1 .. n /\ 1 + 1 = 2 /\ (n - 1) + 1 = n
    BY <1>2
  <2> QED
    BY <1>3, <1>4, <1>5, <2>1
<1> QED
  BY <1>3, <1>4, <1>6, <1>7 DEF Ahead, G, n

LEMMA NextTurn == InTurn /\ TypeInv /\ TypeInv' /\ TurnInv /\ [Next]_vars => TurnInv'
<1> SUFFICES ASSUME InTurn, TypeInv, TypeInv', TurnInv, [Next]_vars
             PROVE  TurnInv'
  OBVIOUS
<1>0. PICK V, F : /\ Ahead(V) /\ F = V[Len(link) + 1]
                  /\ \A p \in Procs : Prepared(p, F)
  BY DEF TurnInv, AheadInv
<1>f. F \in Registers
  <2>1. V \in Seq(Registers) /\ Len(V) = Len(link) + 1 /\ Len(link) \in Nat
    BY <1>0, LenProperties DEF Ahead, TypeInv, TypeOK
  <2> QED
    BY <1>0, <2>1
<1>a. ASSUME NEW p \in Procs, \E name : Whole(todo'[p], name),
             ph'[p] = "down" => todo'[p] = << >>,
             NEW G, Ahead(G)', Prepared(p, G[Len(link) + 1])'
      PROVE  TurnInv'
  <2>1. \A q \in Procs : q = p
    BY DEF InTurn
  <2>2. AheadInv'
    BY <1>a, <2>1 DEF AheadInv
  <2> QED
    BY <1>a, <2>1, <2>2 DEF TurnInv
<1>b. ASSUME NEW p \in Procs
      PROVE  /\ \E name : Whole(todo[p], name)
             /\ ph[p] = "down" => todo[p] = << >>
             /\ Prepared(p, F) /\ todo[p] \in Seq(Steps)
  BY <1>0 DEF TurnInv, TypeInv, TypeOK
<1>v. UNCHANGED <<link, feb>> => Ahead(V)' /\ V[Len(link') + 1] = F
  BY <1>0 DEF Ahead
\* What leaves link and board alone, and a call where it is
<1>c. ASSUME NEW p \in Procs, UNCHANGED <<link, feb, todo, call, temp>>,
             ph'[p] \in {"poll", "clock"} => ph[p] \in {"poll", "clock"},
             ph'[p] # "down"
      PROVE  TurnInv'
  <2>1. Prepared(p, F)'
    BY <1>b, <1>c DEF Prepared, Value
  <2> QED
    BY <1>a, <1>b, <1>c, <1>v, <2>1
\* The end of a call
<1>d. ASSUME NEW p \in Procs, UNCHANGED <<link, feb>>, todo'[p] = << >>,
             ph'[p] \notin {"poll", "clock"}
      PROVE  TurnInv'
  <2>1. Prepared(p, F)'
    BY <1>d, NoneSetUp DEF Prepared
  <2> QED
    BY <1>a, <1>d, <1>v, <2>1, NoneWhole
\* The first step done
<1>e. ASSUME NEW p \in Procs, UNCHANGED <<link, feb, call>>,
             todo[p] # << >>, todo' = [todo EXCEPT ![p] = Tail(@)], ph'[p] = "step",
             todo[p][1].op = "feb" => ph[p] = "poll" /\ temp' = temp
      PROVE  TurnInv'
  <2>1. PICK name : Whole(todo[p], name)
    BY <1>b
  <2>2. todo'[p] = Tail(todo[p])
    BY <1>e DEF TypeInv, TypeOK
  <2>3. todo[p][1].op = "feb" =>
          /\ F[todo[p][1].reg] = [by |-> call[p], val |-> Worth(todo[p][1], temp[p])]
          /\ temp'[p] = temp[p]
    BY <1>b, <1>e DEF Prepared, Value
  <2>4. SetUp(Tail(todo[p]), call[p], temp'[p], F)
    <3>1. SetUp(todo[p], call[p], temp[p], F)
      BY <1>b DEF Prepared
    <3> QED
      BY <1>b, <1>e, <2>1, <2>3, <3>1, RestSetUp
  <2>5. Whole(todo'[p], name)
    BY <1>b, <1>e, <2>1, <2>2, TailWhole
  <2>6. Prepared(p, F)'
    BY <1>e, <2>2, <2>4 DEF Prepared
  <2> QED
    BY <1>a, <1>e, <1>v, <2>5, <2>6
<1>1. ASSUME NEW p \in Procs, Call(p) PROVE TurnInv'
  <2>1. PICK c \in Calls : todo' = [todo EXCEPT ![p] = c.steps]
    BY <1>1 DEF Call
  <2>2. /\ todo'[p] = c.steps /\ ph'[p] = "step" /\ UNCHANGED <<link, feb>>
    BY <1>1, <2>1 DEF Call, Idle, board, TypeInv, TypeOK
  <2>3. /\ \E name : Whole(c.steps, name)
        /\ \A k, t, G : SetUp(c.steps, k, t, G)
    BY CallsFresh, CallsTyped, FreshSetUp
  <2>4. Prepared(p, F)'
    BY <2>2, <2>3 DEF Prepared
  <2> QED
    BY <1>a, <1>v, <2>2, <2>3, <2>4
\* A raw write comes between calls, when nothing need be set up.
<1>2. ASSUME NEW p \in Procs, RawWrite(p) PROVE TurnInv'
  <2>1. /\ todo[p] = << >> /\ ph[p] = "step" /\ UNCHANGED <<todo, ph, feb>>
    BY <1>2 DEF RawWrite, Idle, Send, code
  <2>2. PICK r \in RawRegs : Send(p, r, 0, "raw")
    BY <1>2 DEF RawWrite
  <2> DEFINE c == [id |-> issued + 1, reg |-> r, val |-> 0, by |-> call[p],
                   op |-> "raw"]
  <2>3. /\ c \in Commands /\ c.op # "feb" /\ link' = Append(link, c)
    BY <2>2, RawRegsOfFeb DEF Send, Commands, TypeInv, TypeOK
  <2> HIDE DEF c
  <2>4. PICK G : Ahead(G)'
    BY <1>0, <2>1, <2>3, OneAhead
  <2>5. Prepared(p, G[Len(link) + 1])'
    BY <2>1, NoneSetUp DEF Prepared
  <2> QED
    BY <1>a, <2>1, <2>4, <2>5, NoneWhole
<1>3. ASSUME NEW p \in Procs, DaqbWrite(p) \/ TempRead(p) PROVE TurnInv'
  <2>1. /\ todo[p] # << >> /\ Head(todo[p]).op # "feb" /\ ph[p] = "step"
        /\ todo' = [todo EXCEPT ![p] = Tail(@)] /\ ph' = ph
        /\ UNCHANGED <<link, feb, call>>
    BY <1>3 DEF DaqbWrite, TempRead, Step, Drop, history, board
  <2>2. Head(todo[p]) = todo[p][1]
    BY <1>b, <2>1, TailSteps
  <2> QED
    BY <1>e, <2>1, <2>2
<1>4. ASSUME NEW p \in Procs, TempThrows(p) \/ TimeOut(p) PROVE TurnInv'
  <2>1. todo'[p] = << >> /\ ph'[p] = "down" /\ UNCHANGED <<link, feb>>
    BY <1>4 DEF TempThrows, TimeOut, Goto, board, TypeInv, TypeOK
  <2> QED
    BY <1>d, <2>1
<1>5. ASSUME NEW p \in Procs, LastAck(p) \/ NotAcked(p) \/ Sleep(p) PROVE TurnInv'
  <2>1. /\ UNCHANGED <<link, feb, todo, call, temp>> /\ ph'[p] # "down"
        /\ ph'[p] \in {"poll", "clock"} => ph[p] \in {"poll", "clock"}
    BY <1>5 DEF LastAck, NotAcked, Sleep, Goto, history, board, TypeInv, TypeOK
  <2> QED
    BY <1>c, <2>1
<1>6. ASSUME NEW p \in Procs, CmdWrite(p) PROVE TurnInv'
  <2> DEFINE s == todo[p]
             c == [id |-> issued + 1, reg |-> s[1].reg, val |-> Value(p),
                   by |-> call[p], op |-> "feb"]
             H == [F EXCEPT ![s[1].reg] = [by |-> call[p], val |-> Value(p)]]
  <2>1. /\ ph[p] = "write" /\ ph'[p] = "poll"
        /\ UNCHANGED <<todo, call, temp, feb>>
    BY <1>6 DEF CmdWrite, Send, Goto, TypeInv, TypeOK
  <2>2. /\ s # << >> /\ Head(s) = s[1] /\ s[1] \in Steps /\ s[1].op = "feb"
    BY <1>b, <2>1, TailSteps DEF TypeInv, AtCommand
  <2>3. s[1].reg \in FebRegs
    BY <2>2, StepKinds
  <2>4. link' = Append(link, c)
    BY <1>6, <2>2 DEF CmdWrite, Send, Value, Worth
  <2>5. c \in Commands
    <3>1. link' \in Seq(Commands) /\ link \in Seq(Commands)
      BY DEF TypeInv, TypeOK
    <3>2. Len(link') \in 1 .. Len(link') /\ link'[Len(link')] = c
      BY <2>4, <3>1, AppendProperties, LenProperties
    <3> HIDE DEF c
    <3> QED
      BY <3>1, <3>2, ElementOfSeq
  <2>6. PICK name : Whole(s, name)
    BY <1>b
  <2>7. SetUp(s, call[p], temp[p], F) /\ s \in Seq(Steps)
    BY <1>b DEF Prepared
  <2>8. Pushes(c, F)
    <3>1. c.reg = s[1].reg /\ c.by = call[p] /\ c.val = Worth(s[1], temp[p])
      BY DEF Value
    <3> HIDE DEF c, s
    <3> QED
      BY <2>2, <2>6, <2>7, <3>1, PushSetUp
  <2>9. c.reg = s[1].reg /\ c.by = call[p] /\ c.val = Value(p)
    OBVIOUS
  <2> HIDE DEF c
  <2>10. PICK G : Ahead(G)' /\ G[Len(link') + 1] = H
    BY <1>0, <2>1, <2>4, <2>5, <2>8, <2>9, OneAhead
  <2>11. SetUp(s, call[p], temp[p], H)
    BY <1>f, <2>2, <2>3, <2>6, <2>7, StillSetUp
  <2>12. H[s[1].reg] = [by |-> call[p], val |-> Value(p)]
    BY <1>f, <2>3 DEF Registers
  <2> HIDE DEF H
  <2>13. Prepared(p, G[Len(link) + 1])'
    BY <2>1, <2>10, <2>11, <2>12 DEF Prepared, Value
  <2> QED
    BY <1>a, <2>1, <2>6, <2>10, <2>13
<1>7. ASSUME NEW p \in Procs, Acked(p) PROVE TurnInv'
  <2>1. /\ ph[p] = "poll" /\ ph'[p] = "step"
        /\ todo' = [todo EXCEPT ![p] = Tail(@)]
        /\ UNCHANGED <<link, feb, call, temp>>
    BY <1>7 DEF Acked, Goto, Drop, history, board, TypeInv, TypeOK
  <2>2. todo[p] # << >>
    BY <2>1 DEF TypeInv, AtCommand
  <2> QED
    BY <1>e, <2>1, <2>2
<1>8. ASSUME NEW p \in Procs, Restart(p) PROVE TurnInv'
  <2>1. /\ ph[p] = "down" /\ ph'[p] = "step" /\ todo' = todo
        /\ UNCHANGED <<link, feb>>
    BY <1>8 DEF Restart, Goto, board, TypeInv, TypeOK
  <2> QED
    BY <1>b, <1>d, <2>1
<1>9. ASSUME Execute PROVE TurnInv'
  <2>1. UNCHANGED <<todo, ph, call, temp>>
    BY <1>9 DEF Execute, code, history
  <2>2. Ahead(Tail(V))' /\ Tail(V)[Len(link') + 1] = F
    BY <1>0, <1>9, OneDone
  <2>3. \A p \in Procs : Prepared(p, Tail(V)[Len(link) + 1])'
    BY <1>b, <2>1, <2>2 DEF Prepared, Value
  <2>4. AheadInv'
    BY <2>2, <2>3 DEF AheadInv
  <2> QED
    BY <2>1, <2>4 DEF TurnInv
<1>10. CASE UNCHANGED vars
  <2>1. UNCHANGED <<todo, ph, call, temp, link, feb>>
    BY <1>10 DEF vars, code, history, board
  <2>2. \A p \in Procs : Prepared(p, F)'
    BY <1>b, <2>1 DEF Prepared, Value
  <2>3. AheadInv'
    BY <1>v, <2>1, <2>2 DEF AheadInv
  <2> QED
    BY <2>1, <2>3 DEF TurnInv
<1> QED
  BY <1>1, <1>2, <1>3, <1>4, <1>5, <1>6, <1>7, <1>8, <1>9, <1>10
  DEF Next, Work, Wait, Board, AckLost, CommandLost, InTurn

\* What the FEB is told to push was set up by the same call also after raw
\* writes, calls broken off and acknowledges that came late or for another
\* command, as long as one process writes and nothing is lost.
THEOREM PushInTurn == InTurn /\ Spec => []PushWhole
<1>1. TypeInv /\ TurnInv => PushWhole
  <2> SUFFICES ASSUME TypeInv, TurnInv, link # << >>, Head(link).op = "feb"
               PROVE  PushesOwn(Head(link))
    BY DEF PushWhole
  <2>1. PICK V : Ahead(V)
    BY DEF TurnInv, AheadInv
  <2>2. Head(link) = link[1] /\ 1 \in 1 .. Len(link)
    BY EmptySeq, LenProperties DEF TypeInv, TypeOK
  <2>3. Pushes(Head(link), feb)
    BY <2>1, <2>2 DEF Ahead
  <2> QED
    BY <2>3 DEF Pushes, PushesOwn
<1>2. InTurn /\ Spec => [](TypeInv /\ TurnInv)
  <2>1. InTurn => (TypeInv /\ TurnInv /\ [Next]_vars => (TypeInv /\ TurnInv)')
    BY NextTypes, NextTurn
  <2>2. InTurn /\ TypeInv /\ TurnInv /\ [][Next]_vars => [](TypeInv /\ TurnInv)
    <3> SUFFICES ASSUME InTurn
                 PROVE  TypeInv /\ TurnInv /\ [][Next]_vars => [](TypeInv /\ TurnInv)
      OBVIOUS
    <3>1. TypeInv /\ TurnInv /\ [Next]_vars => (TypeInv /\ TurnInv)'
      BY <2>1
    <3> QED
      BY <3>1, PTL
  <2> QED
    BY <2>2, InitTypes, InitTurn, PTL DEF Spec
<1> QED
  BY <1>1, <1>2, PTL
=============================================================================
