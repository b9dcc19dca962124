------------------------------ MODULE DataDump ------------------------------
(***************************************************************************)
(* comet_wsf_datadump (daqb/exe/comet_wsf_datadump.cc): main with its two  *)
(* files, its exit time, SIGINT and its watchdog thread, around readPack,  *)
(* which is PackReader.  A pack is the number of its first byte; a line of *)
(* the hit file is the pack it was made of (PackCodec), the heading is     *)
(* left out.  Printing to the terminal and option parsing are left out.    *)
(***************************************************************************)
EXTENDS PackReader, SequencesExt

CONSTANT ExitTime  \* exitTimeSecond when it is not 0, in ticks

ASSUME ExitTimeSecond == ExitTime \in Nat \ {0}

VARIABLES
  opts,      \* the options: each file "unset", "new", or one that "exists";
             \* whether there is an exit time
  step,      \* what main is about to do
  gDone,     \* g_done
  exitLeft,  \* ticks until the clock is past tp_timeout_exit
  raw,       \* the packs in the raw file
  hit,       \* the lines in the hit file
  pending,   \* the lines in the buffer of fp_hit
  watch      \* AsyncWatchDog: "none", "run" or "ended"

disk == <<raw, hit, pending>>
dumpVars == <<vars, opts, step, gDone, exitLeft, disk, watch>>

FileOption == {"unset", "new", "exists"}

DumpInit ==
  /\ Init
  /\ opts \in [raw : FileOption, hit : FileOption, limited : BOOLEAN]
  /\ step = "rawFile" /\ gDone = FALSE /\ exitLeft = 0
  /\ raw = << >> /\ hit = << >> /\ pending = << >> /\ watch = "none"

Running == pc # "terminated" /\ step # "exited"
At(s) == Running /\ step = s
----------------------------------------------------------------------------
\* A file that exists, as one that cannot be opened, is a `throw;'.
OpenFile(option, from, to) ==
  /\ At(from)
  /\ IF option = "exists"
       THEN pc' = "terminated" /\ UNCHANGED step
       ELSE step' = to /\ UNCHANGED pc
  /\ UNCHANGED <<fd, arrived, consumed, filled, canTimeOut, left, quiet, packs,
                 lost, opts, gDone, exitLeft, disk, watch>>

OpenRaw == OpenFile(opts.raw, "rawFile", "hitFile")
OpenHit == OpenFile(opts.hit, "hitFile", "device")

\* The reader is made, the exit time set and the watchdog launched.
Start ==
  /\ At("device") /\ Open
  /\ step' = "loop" /\ exitLeft' = ExitTime + 1 /\ watch' = "run"
  /\ UNCHANGED <<opts, gDone, disk>>

\* The head of the loop
Loop ==
  /\ At("loop")
  /\ IF gDone \/ (opts.limited /\ exitLeft = 0)
       THEN step' = "close" /\ UNCHANGED vars
       ELSE step' = "pack" /\ Call
  /\ UNCHANGED <<opts, gDone, exitLeft, disk, watch>>

\* readPack; an empty string brings main back to the head of the loop.
Returned ==
  step' = CASE pc' # "out" -> "pack"
            [] pc' = "out" /\ packs' = packs -> "loop"
            [] pc' = "out" /\ packs' # packs -> "saveHit"
Pack ==
  /\ At("pack") /\ ReadPack /\ Returned
  /\ UNCHANGED <<opts, gDone, exitLeft, disk, watch>>
PackError ==
  /\ At("pack") /\ ReadError
  /\ UNCHANGED <<opts, step, gDone, exitLeft, disk, watch>>

\* fprintf: the buffer is written when it is full.  hit has the lines that are
\* complete on disk; of the first line in pending a part may be there too.
SaveHit ==
  /\ At("saveHit") /\ step' = "saveRaw"
  /\ CASE opts.hit # "new" -> UNCHANGED <<hit, pending>>
       [] opts.hit = "new" ->
            \/ pending' = Append(pending, Last(packs)) /\ UNCHANGED hit
            \/ pending' = <<Last(packs)>> /\ hit' = hit \o pending
  /\ UNCHANGED <<vars, opts, gDone, exitLeft, raw, watch>>

\* fwrite and fflush
SaveRaw ==
  /\ At("saveRaw") /\ step' = "loop"
  /\ raw' = IF opts.raw = "new" THEN Append(raw, Last(packs)) ELSE raw
  /\ UNCHANGED <<vars, opts, gDone, exitLeft, hit, pending, watch>>

\* Mutant: the hit file is not flushed.
CloseDirty ==
  /\ At("close") /\ step' = "join" /\ gDone' = TRUE
  /\ UNCHANGED <<vars, opts, exitLeft, raw, hit, pending, watch>>

\* fflush and fclose of both files, and g_done = 1 for the watchdog
Close ==
  /\ At("close") /\ step' = "join" /\ gDone' = TRUE
  /\ hit' = hit \o pending /\ pending' = << >>
  /\ UNCHANGED <<vars, opts, exitLeft, raw, watch>>

Join ==
  /\ At("join") /\ watch = "ended" /\ step' = "exited"
  /\ UNCHANGED <<vars, opts, gDone, exitLeft, disk, watch>>

Main == \/ OpenRaw \/ OpenHit \/ Start \/ Loop \/ Pack \/ SaveHit \/ SaveRaw
        \/ Close \/ Join

WatchDog ==
  /\ Running /\ watch = "run"
  /\ watch' = IF gDone THEN "ended" ELSE "run"
  /\ UNCHANGED <<vars, opts, step, gDone, exitLeft, disk>>

\* SIGINT
Interrupt ==
  /\ Running /\ gDone' = TRUE
  /\ UNCHANGED <<vars, opts, step, exitLeft, disk, watch>>

Bytes ==
  /\ Running /\ Deliver
  /\ UNCHANGED <<opts, step, gDone, exitLeft, disk, watch>>

Clock ==
  /\ Running /\ Tick
  /\ exitLeft' = IF exitLeft > 0 THEN exitLeft - 1 ELSE 0
  /\ UNCHANGED <<opts, step, gDone, disk, watch>>

DumpNext == Main \/ PackError \/ WatchDog \/ Interrupt \/ Bytes \/ Clock

DumpSpec ==
  /\ DumpInit /\ [][DumpNext]_dumpVars
  /\ WF_dumpVars(Main) /\ WF_dumpVars(fd < 0 /\ PackError)
  /\ WF_dumpVars(WatchDog) /\ WF_dumpVars(Clock)
----------------------------------------------------------------------------
DumpTypeOK ==
  /\ TypeOK
  /\ opts \in [raw : FileOption, hit : FileOption, limited : BOOLEAN]
  /\ step \in {"rawFile", "hitFile", "device", "loop", "pack", "saveHit",
               "saveRaw", "close", "join", "exited"}
  /\ gDone \in BOOLEAN /\ exitLeft \in 0 .. ExitTime + 1
  /\ {raw, hit, pending} \subseteq Seq(Nat)
  /\ watch \in {"none", "run", "ended"}

\* At any moment, and so whatever ends the process, the raw file has every
\* pack but one that main is at work on, and the complete lines of the hit
\* file are a beginning of the packs (a crash may leave a torn line after
\* them); after an exit both have all.
FilesAgree ==
  /\ opts.raw = "new" =>
       raw = IF step \in {"saveHit", "saveRaw"} THEN Front(packs) ELSE packs
  /\ opts.hit = "new" =>
       /\ hit \o pending = IF step = "saveHit" THEN Front(packs) ELSE packs
       /\ step = "exited" => hit = packs

\* "exit after n seconds" (help text), and SIGINT: neither a silent device
\* nor an incomplete pack keeps the dump from ending.
DumpEnds ==
  (gDone \/ (step = "loop" /\ opts.limited /\ exitLeft = 0))
    ~> (step = "exited" \/ pc = "terminated")
=============================================================================
