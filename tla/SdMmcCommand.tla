---------------------------- MODULE SdMmcCommand ----------------------------
(*****************************************************************************)
(* The SD/MMC command protocol (Protocol.c): commands and data transfers,    *)
(* error recovery, which may re-initialise the slot from within a command,   *)
(* identification of the card, and the RPMB requests (RpmbIo.c) and block    *)
(* transfers that use them.                                                  *)
(*                                                                           *)
(* The driver is a stack of procedure frames.  A procedure that only calls   *)
(* others in order and stops at the first error is a sequence of frames.     *)
(* The card and the host controller are external: they lose commands and     *)
(* responses, fail transfers and line resets, at most MaxFaults times.       *)
(*****************************************************************************)
EXTENDS Integers, Sequences, FiniteSets

CONSTANTS
  Cards,      \* the cards that may be in the slot
  Threshold,  \* SDMMC_ERROR_RECOVERY_ATTEMPT_THRESHOLD
  Polls,      \* SDMMC_POLL_WAIT_COUNT
  MaxBusy,    \* polls that a card that is not stuck may need
  MaxFaults,  \* bound on faults
  MaxReqs,    \* bound on requests
  BlockLen,   \* SD_BLOCK_LENGTH_BYTES, scaled down
  Word        \* where UINT32 products wrap, scaled down

ASSUME CommandAssumption ==
  /\ Threshold \in Nat \ {0} /\ MaxFaults \in Nat /\ MaxReqs \in Nat
  /\ MaxBusy \in Nat /\ Polls \in Nat /\ MaxBusy < Polls
  /\ BlockLen \in Nat \ {0} /\ Word \in Nat \ {0}
  /\ \A k \in Cards : "id" \in DOMAIN k    \* the serial number of a card

VARIABLES
  card,      \* the card: its fixed attributes and its state
  host,      \* SDHC_INSTANCE and the registers of the host controller
  stack,     \* the frames of the driver
  ret,       \* what the last procedure that returned was, and its status
  attempts,  \* ErrorRecoveryAttemptCount
  req,       \* the request being served: kind, partition in use, RPMB writes done
  faults, reqs

vars == <<card, host, stack, ret, attempts, req, faults, reqs>>
quiet == <<card, host, attempts, req, faults, reqs>>

Stuck == MaxBusy + Polls + 1   \* busy for longer than anyone waits

\* Frames.  n counts the calls made by a sequence, or the polls of a loop.
Frame(p, c) == [p |-> p, c |-> c, at |-> "begin", n |-> 0]
Proc(p) == Frame(p, "none")
Cmd(c)  == Frame("SdhcSendCommand", c)
Data(c) == Frame("SdhcSendDataCommand", c)
Ext(c)  == Frame("HostExt", c)      \* a call of the host controller's driver
Chk(c)  == Frame("Check", c)        \* a test of what was read, or an assignment

\* Commands that have a function of their own.
SdhcGoIdleState      == Cmd("GoIdle")
SdhcSendIfCondSd     == Cmd("IfCond")
SdhcSendOpCondSdio   == Cmd("OpCondSdio")
SdhcSendCidAll       == Cmd("CidAll")
SdhcSelectDevice     == Cmd("Select")
SdhcSendStatus       == Cmd("SendStatus")
SdhcStopTransmission == Cmd("Stop")
SdhcSetBlockLength   == Cmd("SetBlockLength")
SdhcSetBlockCount    == Cmd("SetBlockCount")

Top     == stack[Len(stack)]
Running == stack # <<>>
In(p)   == Running /\ Top.p = p
At(p, l) == In(p) /\ Top.at = l
Below   == SubSeq(stack, 1, Len(stack) - 1)

NoRet      == [p |-> "none", c |-> "none", s |-> "OK"]
Goto(l)    == stack' = Append(Below, [Top EXCEPT !.at = l]) /\ ret' = NoRet
Call(f, l) == stack' = Below \o <<[Top EXCEPT !.at = l], f>> /\ ret' = NoRet
Return(s)  == stack' = Below /\ ret' = [p |-> Top.p, c |-> Top.c, s |-> s]
Ok         == ret.s = "OK"

\* CMD18 and CMD25 of block transfers, and of RPMB: the request packet, the result
\* request packet, and the answer.
Multi     == {"ReadMulti", "WriteMulti", "RpmbSend", "RpmbAsk", "RpmbFetch"}
Reads     == {"ReadSingle", "ReadMulti", "RpmbFetch", "ExtCsd"}
Writes    == {"WriteSingle", "WriteMulti", "RpmbSend", "RpmbAsk"}
Transfers == Reads \cup Writes
Switches  == {"SwitchHs", "SwitchPower", "SwitchWidth", "SwitchRpmb", "SwitchBack"}

NoExt   == [hs |-> FALSE, power |-> 0, part |-> "user"]
NewHost == [init |-> FALSE, up |-> FALSE, rpmb |-> FALSE, broken |-> FALSE,
            fn |-> "unknown", hc |-> FALSE, rca |-> 0, mode |-> "normal", width |-> 1, clk |-> 0, ext |-> NoExt, cur |-> "user", last |-> 0,
            cid |-> 0, id |-> 0, st |-> "idle", lastCmd |-> "none", preCmd |-> "none"]
NewReq  == [kind |-> "none", count |-> 1, part |-> "user", written |-> 0, answer |-> "none"]

\* A card that has just been inserted.
Unselected  == [st |-> "idle", rca |-> 0, width |-> 1, hs |-> FALSE, power |-> 0, part |-> "user",
                count |-> FALSE, closed |-> FALSE, busy |-> 0, asked |-> "none"]
Inserted(k) == [x \in DOMAIN k \cup DOMAIN Unselected |->
                  IF x \in DOMAIN k THEN k[x] ELSE Unselected[x]]

Init ==
  /\ \E k \in Cards, b \in (0 .. MaxBusy) \cup {Stuck} :
       /\ card = [Inserted(k) EXCEPT !.busy = b]
       /\ faults = IF b = Stuck THEN 1 ELSE 0
  /\ faults <= MaxFaults
  /\ host = NewHost /\ stack = <<>> /\ attempts = 0 /\ req = NewReq
  /\ ret = NoRet /\ reqs = 0

Fault == faults < MaxFaults /\ faults' = faults + 1

-----------------------------------------------------------------------------
\* The card (external).

Addressed == card.rca = host.rca
Accepts(c) ==
  CASE c = "GoIdle"      -> TRUE
    [] c = "IfCond"      -> card.st = "idle" /\ card.kind \in {"sd", "combo"}
    [] c = "OpCondSdio"  -> card.st = "idle" /\ card.kind \in {"sdio", "combo"}
    [] c \in {"OcrSd", "OpCondSd"} -> card.st = "idle" /\ card.kind = "sd"
    [] c = "OpCondMmc"   -> card.st = "idle" /\ card.kind = "mmc"
    [] c = "CidAll"      -> card.st = "ready"
    [] c = "RelativeAddr"-> card.st = "ident"
    [] c \in {"Cid", "Csd", "Select"} -> card.st = "stby" /\ Addressed
    [] c = "SendStatus"  -> card.st \in {"stby", "tran", "data", "rcv", "prog"} /\ Addressed
    [] c = "Stop"        -> card.st \in {"data", "rcv"}
    [] c = "BusWidthSd"  -> card.st = "tran" /\ card.kind = "sd" /\ Addressed
    [] c \in Switches \cup {"ExtCsd", "SetBlockCount"} -> card.st = "tran" /\ card.kind = "mmc"
    [] OTHER             -> card.st = "tran"

\* Busy until a status poll finds it ready; b polls are needed.
Programming(k, b) == [k EXCEPT !.st = IF b = 0 THEN "tran" ELSE "prog", !.busy = b]
PollBusy(k) == IF k.st = "prog" /\ k.busy # Stuck THEN Programming(k, k.busy - 1) ELSE k

Performed(c, b) ==
  LET k == [card EXCEPT !.count = FALSE]
  IN CASE c = "GoIdle"       -> [k EXCEPT !.st = "idle", !.rca = 0, !.width = 1, !.hs = FALSE,
                                          !.part = "user", !.busy = IF @ = Stuck THEN @ ELSE b]
       [] c \in {"OpCondSd", "OpCondMmc"} ->
            IF k.busy = 0 THEN [k EXCEPT !.st = "ready"]
            ELSE IF k.busy = Stuck THEN k ELSE [k EXCEPT !.busy = @ - 1]
       [] c = "CidAll"       -> [k EXCEPT !.st = "ident"]
       [] c = "RelativeAddr" -> [k EXCEPT !.st = "stby", !.rca = 1]
       [] c = "Select"       -> [k EXCEPT !.st = "tran"]
       [] c = "SendStatus"   -> PollBusy(k)
       [] c = "Stop"         -> IF k.st = "data" THEN [k EXCEPT !.st = "tran"] ELSE Programming(k, b)
       [] c = "BusWidthSd"   -> [k EXCEPT !.width = 4]
       [] c = "SwitchHs"     -> Programming([k EXCEPT !.hs = TRUE], b)
       [] c = "SwitchPower"  -> Programming([k EXCEPT !.power = k.need], b)
       [] c = "SwitchWidth"  -> Programming([k EXCEPT !.width = 8], b)
       [] c = "SwitchRpmb"   -> Programming([k EXCEPT !.part = "rpmb"], b)
       [] c = "SwitchBack"   -> Programming([k EXCEPT !.part = req.part], b)
       [] c = "SetBlockCount"-> [k EXCEPT !.count = TRUE]
       [] c \in Reads        -> [k EXCEPT !.st = "data", !.closed = card.count \/ c \notin Multi]
       [] c \in Writes       -> [k EXCEPT !.st = "rcv",  !.closed = card.count \/ c \notin Multi]
       [] OTHER              -> k

\* The data of a transfer has been moved; an open-ended one waits for a stop.
Moved(b) ==
  CASE ~card.closed       -> card
    [] card.st = "data"   -> [card EXCEPT !.st = "tran"]
    [] OTHER              -> Programming(card, b)

-----------------------------------------------------------------------------
\* What the driver keeps of a response.

Capacity(k) == (((k.size + 1) * 2^(k.mult + 2)) * 2^k.blen) % Word
LastBlockOf(bytes) == IF bytes \div BlockLen > 0 THEN bytes \div BlockLen - 1 ELSE 0

SdhcSendCid(h) == [h EXCEPT !.cid = card.id]
SdhcSendCsd(h) == [h EXCEPT !.last =
  IF h.fn = "sd" THEN LastBlockOf(IF card.hc THEN card.sectors * BlockLen ELSE Capacity(card))
  ELSE IF h.hc THEN 0 ELSE LastBlockOf(Capacity(card))]

\* An SD card publishes its address; an MMC card has been assigned one before.
SdhcSendRelativeAddr(h) == [h EXCEPT !.rca = IF h.fn = "mmc" THEN @ ELSE card'.rca]

SdhcSendExtCsdMmc(h) ==
  [h EXCEPT !.ext = [hs |-> card.hs, power |-> card.power, part |-> card.part],
            !.last = card.sectors - 1]

Kept(c, h) ==
  CASE c = "Cid"          -> SdhcSendCid(h)
    [] c = "Csd"          -> SdhcSendCsd(h)
    [] c = "RelativeAddr" -> SdhcSendRelativeAddr(h)
    [] c \in {"OpCondSd", "OpCondMmc"} /\ card'.st = "ready" -> [h EXCEPT !.hc = card.hc]
    [] OTHER              -> h

\* SdhcSendCommandHelper: the command, for an application command CMD55 first, its
\* response and the card status in it.  CMD0 has no response to miss.
Busies == 0 .. MaxBusy
Answered(c) ==
  /\ Accepts(c)
  /\ \/ (\E b \in Busies : card' = Performed(c, b)) /\ UNCHANGED faults
     \/ c \in Switches \cup {"Stop"} /\ Fault /\ card' = Performed(c, Stuck)
Successful(h, c) == [h EXCEPT !.preCmd = h.lastCmd, !.lastCmd = c, !.st = IF c = "SendStatus" THEN card.st ELSE card'.st]

HelperOk(c) ==
  \/ /\ Answered(c)
     /\ host' = Successful(Kept(c, host), c)
  \/ /\ c = "GoIdle" /\ Fault
     /\ UNCHANGED card
     /\ host' = Successful(host, c)
HelperFails(c) ==
  /\ c # "GoIdle"
  /\ \/ ~Accepts(c) /\ UNCHANGED <<card, faults>>
     \/ Accepts(c) /\ Fault /\ UNCHANGED card
     \/ Accepts(c) /\ Fault /\ card' = Performed(c, 0)
  /\ UNCHANGED host

-----------------------------------------------------------------------------
\* A command without data.  A switch waits until the card has done it.

SdhcSendCommand ==
  \/ /\ At("SdhcSendCommand", "begin")
     /\ \/ /\ HelperOk(Top.c)
           /\ IF Top.c \in Switches
              THEN Call(Proc("SdhcWaitForTranState"), "waited")
              ELSE Return("OK")
        \/ /\ HelperFails(Top.c)
           /\ Call(Frame("SdhcRecoverFromErrors", Top.c), "failed")
     /\ UNCHANGED <<attempts, req, reqs>>
  \/ /\ At("SdhcSendCommand", "waited") /\ Return(ret.s)
     /\ UNCHANGED quiet
  \/ /\ At("SdhcSendCommand", "failed") /\ Return("ERR")
     /\ UNCHANGED quiet

\* A transfer is open-ended unless SET_BLOCK_COUNT was the command before it.
OpenEnded(c) == c \in Multi /\ (host.lastCmd = "none" \/ host.preCmd # "SetBlockCount")

\* ReadBlockData and WriteBlockData: the bus must be as wide on both sides.
Agreeing == host.width = card.width
RpmbFrame == card.part = "rpmb" /\ card.closed
WriteKinds == {"RpmbProgramKeyRequest", "RpmbAuthenticatedWriteRequest"}
\* An RPMB partition carries out the request it is written, and answers it when read.
Asked(c) == IF ~RpmbFrame THEN card.asked
            ELSE IF c = "RpmbSend" THEN req.kind ELSE IF c = "RpmbAsk" THEN "result" ELSE card.asked
Transferred(c, b) ==
  /\ card' = [Moved(b) EXCEPT !.asked = Asked(c)]
  /\ req' = [req EXCEPT
               !.written = IF c = "RpmbSend" /\ RpmbFrame /\ req.kind \in WriteKinds THEN @ + 1 ELSE @,
               !.answer  = IF c = "RpmbFetch" /\ RpmbFrame THEN card.asked ELSE @]

DataMoves(c) ==
  /\ Agreeing
  /\ \/ (\E b \in Busies : Transferred(c, b)) /\ UNCHANGED faults
     \/ c \in Writes /\ Fault /\ Transferred(c, Stuck)
DataFails(c) ==
  \/ ~Agreeing /\ UNCHANGED <<card, req, faults>>
  \/ Agreeing /\ Fault /\ UNCHANGED req /\ card' \in {card, [card EXCEPT !.st = "tran"]}
  \/ Agreeing /\ Fault /\ Transferred(c, 0)

\* Faulty variant: the stop is never sent.
SdhcStopNever ==
  /\ At("SdhcSendDataCommand", "moved")
  /\ Call(Proc("SdhcWaitForTranState"), "waited")
  /\ UNCHANGED quiet

SdhcStopIfOpen ==
  /\ At("SdhcSendDataCommand", "moved")
  /\ IF OpenEnded(Top.c) THEN Call(SdhcStopTransmission, "stopped")
                         ELSE Call(Proc("SdhcWaitForTranState"), "waited")
  /\ UNCHANGED quiet

SdhcSendDataCommand ==
  \/ /\ At("SdhcSendDataCommand", "begin")
     /\ \/ HelperOk(Top.c) /\ Goto("data")
        \/ HelperFails(Top.c) /\ Goto("exit")
     /\ UNCHANGED <<attempts, req, reqs>>
  \/ /\ At("SdhcSendDataCommand", "data")
     /\ \/ DataMoves(Top.c) /\ Goto("moved")
        \/ DataFails(Top.c) /\ Goto("exit")
     /\ UNCHANGED <<host, attempts, reqs>>
  \/ SdhcStopIfOpen
  \/ /\ At("SdhcSendDataCommand", "stopped")
     /\ IF Ok THEN Call(Proc("SdhcWaitForTranState"), "waited")
              ELSE Goto("exit")
     /\ UNCHANGED quiet
  \/ /\ At("SdhcSendDataCommand", "waited")
     /\ IF Ok THEN /\ Return("OK")
                   /\ host' = IF Top.c = "ExtCsd" THEN SdhcSendExtCsdMmc(host) ELSE host
              ELSE Goto("exit") /\ UNCHANGED host
     /\ UNCHANGED <<card, attempts, req, faults, reqs>>
  \/ /\ At("SdhcSendDataCommand", "exit")
     /\ Call(Frame("SdhcRecoverFromErrors", Top.c), "failed")
     /\ UNCHANGED quiet
  \/ /\ At("SdhcSendDataCommand", "failed") /\ Return("ERR")
     /\ UNCHANGED quiet

-----------------------------------------------------------------------------
\* Faulty variants: a card that is programming will do; polls are not counted.
SdhcWaitForAnyState ==
  \/ /\ At("SdhcWaitForTranState", "begin")
     /\ Call(SdhcSendStatus, "polled")
     /\ UNCHANGED quiet
  \/ /\ At("SdhcWaitForTranState", "polled")
     /\ CASE ~Ok                               -> Return(ret.s)
          [] Ok /\ Top.n = Polls               -> Return("TIMEOUT")
          [] Ok /\ Top.n < Polls /\ host.st \in {"tran", "prog"} -> Return("OK")
          [] OTHER -> /\ stack' = Append(Below, [Top EXCEPT !.at = "begin", !.n = @ + 1])
                      /\ ret' = NoRet
     /\ UNCHANGED quiet
SdhcWaitForever ==
  \/ /\ At("SdhcWaitForTranState", "begin")
     /\ Call(SdhcSendStatus, "polled")
     /\ UNCHANGED quiet
  \/ /\ At("SdhcWaitForTranState", "polled")
     /\ CASE ~Ok                               -> Return(ret.s)
          [] Ok /\ Top.n = Polls               -> Return("TIMEOUT")
          [] Ok /\ Top.n < Polls /\ host.st = "tran" -> Return("OK")
          [] OTHER -> /\ stack' = Append(Below, [Top EXCEPT !.at = "begin"])
                      /\ ret' = NoRet
     /\ UNCHANGED quiet

\* Ready in the transfer state, or time out: also if it was the last poll that found
\* it ready.
SdhcWaitForTranState ==
  \/ /\ At("SdhcWaitForTranState", "begin")
     /\ Call(SdhcSendStatus, "polled")
     /\ UNCHANGED quiet
  \/ /\ At("SdhcWaitForTranState", "polled")
     /\ CASE ~Ok                               -> Return(ret.s)
          [] Ok /\ Top.n = Polls               -> Return("TIMEOUT")
          [] Ok /\ Top.n < Polls /\ host.st = "tran" -> Return("OK")
          [] OTHER -> /\ stack' = Append(Below, [Top EXCEPT !.at = "begin", !.n = @ + 1])
                      /\ ret' = NoRet
     /\ UNCHANGED quiet

\* The line resets; the data line's status replaces the command line's.
LinesFail == \/ host.broken /\ UNCHANGED <<host, faults>>
             \/ ~host.broken /\ Fault /\ host' \in {host, [host EXCEPT !.broken = TRUE]}

Leave(s) == attempts' = attempts - 1 /\ Return(s)

\* Counted and refused beyond the threshold; a failed recovery re-initialises the slot.
RecoverBegin ==
  /\ At("SdhcRecoverFromErrors", "begin")
  /\ IF attempts + 1 > Threshold THEN Return("ERR") /\ UNCHANGED attempts
                                 ELSE Goto("lines") /\ attempts' = attempts + 1
  /\ UNCHANGED <<card, host, req, faults, reqs>>

RecoverLines ==
  /\ At("SdhcRecoverFromErrors", "lines")
  /\ \/ ~host.broken /\ Goto("after") /\ UNCHANGED <<host, faults>>
     \/ LinesFail /\ Call(Proc("SoftReset"), "reset")
  /\ UNCHANGED <<card, attempts, req, reqs>>

RecoverReset ==
  /\ At("SdhcRecoverFromErrors", "reset")
  /\ IF Ok THEN Goto("after") /\ UNCHANGED attempts ELSE Leave("ERR")
  /\ UNCHANGED <<card, host, req, faults, reqs>>

\* A transfer of several blocks may have to be stopped.
RecoverStop ==
  \/ /\ At("SdhcRecoverFromErrors", "after")
     /\ IF Top.c \in Multi THEN Call(SdhcSendStatus, "status") /\ UNCHANGED attempts
                           ELSE Leave("OK")
     /\ UNCHANGED <<card, host, req, faults, reqs>>
  \/ /\ At("SdhcRecoverFromErrors", "status")
     /\ IF Ok /\ host.st # "tran" THEN Call(SdhcStopTransmission, "stop") /\ UNCHANGED attempts
                                  ELSE Leave(ret.s)
     /\ UNCHANGED <<card, host, req, faults, reqs>>
  \/ /\ At("SdhcRecoverFromErrors", "stop") /\ Leave(ret.s)
     /\ UNCHANGED <<card, host, req, faults, reqs>>

SdhcRecoverFromErrors == RecoverBegin \/ RecoverLines \/ RecoverReset \/ RecoverStop

\* SoftReset, of a slot with a card; the protocols it installs are those that make
\* requests possible.  Its exit path takes RpmbIo away and leaves BlockIo.
SoftReset ==
  \/ /\ At("SoftReset", "begin")
     /\ host' = [host EXCEPT !.init = FALSE, !.up = FALSE, !.rpmb = FALSE, !.id = 0, !.last = 0]
     /\ Call(Proc("InitializeDevice"), "inited")
     /\ UNCHANGED <<card, attempts, req, faults, reqs>>
  \/ /\ At("SoftReset", "inited")
     /\ host' = IF Ok THEN [host EXCEPT !.up = TRUE, !.rpmb = host.fn = "mmc",
                                        !.cur = IF host.fn = "mmc" THEN host.ext.part ELSE @]
                      ELSE [host EXCEPT !.rpmb = FALSE]
     /\ Return(ret.s)
     /\ UNCHANGED <<card, attempts, req, faults, reqs>>

-----------------------------------------------------------------------------
\* Identification.

\* Errors of the probes are ignored, after their recovery.
SdhcQueryCardType ==
  /\ In("SdhcQueryCardType")
  /\ LET fn(f) == host' = [host EXCEPT !.fn = f]
     IN CASE Top.at = "begin" -> Call(SdhcGoIdleState, "idled") /\ UNCHANGED host
          [] Top.at = "idled" -> IF Ok THEN fn("unknown") /\ Call(SdhcSendIfCondSd, "ifcond")
                                       ELSE Return(ret.s) /\ UNCHANGED host
          [] Top.at = "ifcond" -> /\ fn(IF Ok THEN "sd" ELSE host.fn)
                                  /\ Call(SdhcSendOpCondSdio, "sdio")
          [] Top.at = "sdio" ->
               LET f == IF ~Ok THEN host.fn ELSE IF host.fn = "sd" THEN "combo" ELSE "sdio"
               IN /\ fn(f)
                  /\ IF f \in {"sd", "sdio", "combo"} THEN Return("OK")
                                                      ELSE Call(SdhcGoIdleState, "idled2")
          [] Top.at = "idled2" ->
               /\ IF Ok THEN Call(Frame("SdhcSendOpCond", "OpCondMmc"), "mmc") ELSE Return(ret.s)
               /\ UNCHANGED host
          [] Top.at = "mmc" -> /\ fn(IF Ok THEN "mmc" ELSE host.fn)
                               /\ Return(IF host'.fn = "unknown" THEN "ERR" ELSE "OK")
  /\ UNCHANGED <<card, attempts, req, faults, reqs>>

\* SdhcSendOpCondSd and SdhcSendOpCondMmc poll until the card has powered up.
SdhcSendOpCond ==
  \/ /\ At("SdhcSendOpCond", "begin")
     /\ IF Top.n = Polls THEN Return("TIMEOUT") ELSE Call(Cmd(Top.c), "polled")
     /\ UNCHANGED quiet
  \/ /\ At("SdhcSendOpCond", "polled")
     /\ CASE ~Ok                        -> Return(ret.s)
          [] Ok /\ host.st = "ready"    -> Return(IF card.lowv THEN "ERR" ELSE "OK")
          [] OTHER -> /\ stack' = Append(Below, [Top EXCEPT !.at = "begin", !.n = @ + 1])
                      /\ ret' = NoRet
     /\ UNCHANGED quiet

\* Tests of what has been read, and assignments between two calls.
Passes(c) ==
  CASE c = "spec"  -> ~card.old
    [] c = "hs"    -> host.ext.hs
    [] c = "power" -> host.ext.power = card.need
    [] c = "Rpmb"  -> host.ext.part = "rpmb"
    [] c = "Back"  -> host.ext.part = req.part
    [] c = "unsupported" -> FALSE
    [] OTHER       -> TRUE
Assigned(c) ==
  CASE c = "zero"  -> [host EXCEPT !.fn = "unknown", !.hc = FALSE, !.rca = 0, !.mode = "normal",
                                   !.ext = NoExt]
    [] c = "rca"   -> [host EXCEPT !.rca = 1]
    [] c = "mode"  -> [host EXCEPT !.mode = "high"]
    [] c = "Rpmb"  -> [host EXCEPT !.cur = "rpmb"]
    [] c = "Back"  -> [host EXCEPT !.cur = req.part]
    [] c = "done"  -> [host EXCEPT !.init = TRUE, !.id = host.cid]
    [] OTHER       -> host
Check ==
  /\ In("Check")
  /\ IF Passes(Top.c) THEN Return("OK") /\ host' = Assigned(Top.c)
                      ELSE Return("ERR") /\ UNCHANGED host
  /\ UNCHANGED <<card, attempts, req, faults, reqs>>

\* TRAN_SPEED: rate unit in bits 2:0, ten times the factor in bits 6:3; in kHz.
RateUnit == [u \in 0 .. 3 |-> 10^u * 10]
TimeValue(fn) == [v \in 1 .. 15 |->
  IF v = 6 THEN IF fn = "sd" THEN 25 ELSE 26
  ELSE IF v = 11 THEN IF fn = "sd" THEN 50 ELSE 52
  ELSE <<10, 12, 13, 15, 20, 0, 30, 35, 40, 45, 0, 55, 60, 70, 80>>[v]]
ValidSpeed(t) == t % 8 <= 3 /\ (t \div 8) % 16 # 0
CalculateCardMaxFreq(fn, t) == RateUnit[t % 8] * TimeValue(fn)[(t \div 8) % 16]
HighSpeedClock == 52000
SdhcSetMaxClockFrequency ==
  IF host.fn = "sd" \/ host.mode = "normal" THEN CalculateCardMaxFreq(host.fn, card.tran)
                                            ELSE HighSpeedClock

\* Calls of the host controller's driver (external); a software reset also resets
\* the width of its bus.
HostExt ==
  /\ In("HostExt")
  /\ \/ /\ Top.c = "MaxClock" /\ (host.fn = "sd" \/ host.mode = "normal")
        /\ ~ValidSpeed(card.tran)
        /\ Return("ERR") /\ UNCHANGED <<host, faults>>
     \/ /\ Top.c = "MaxClock" => (host.fn # "sd" /\ host.mode = "high") \/ ValidSpeed(card.tran)
        /\ \/ /\ host' = CASE Top.c = "ResetAll"   -> [host EXCEPT !.width = 1]
                           [] Top.c = "ClockIdent" -> [host EXCEPT !.clk = 400]
                           [] Top.c = "Width4"     -> [host EXCEPT !.width = 4]
                           [] Top.c = "Width8"     -> [host EXCEPT !.width = 8]
                           [] Top.c = "MaxClock"   -> [host EXCEPT !.clk = SdhcSetMaxClockFrequency]
              /\ Return("OK") /\ UNCHANGED faults
           \/ Fault /\ Return("ERR") /\ UNCHANGED host
  /\ UNCHANGED <<card, attempts, req, reqs>>

-----------------------------------------------------------------------------
\* Procedures that are sequences of calls.

InitializeDevice == <<Chk("zero"), Ext("ResetAll"), Ext("ClockIdent"), Proc("SdhcQueryCardType"),
                      Proc("ByFunction"), SdhcSetBlockLength, Chk("done")>>
SdhcSendOpCondSd == <<Cmd("OcrSd"), Frame("SdhcSendOpCond", "OpCondSd")>>
InitializeSdDevice == <<Proc("SdhcSendOpCondSd"), SdhcSendCidAll,
                        Cmd("RelativeAddr"), Cmd("Cid"), Cmd("Csd"), SdhcSelectDevice,
                        Proc("SdhcSwitchBusWidthSd"), Ext("MaxClock")>>
InitializeMmcDevice == <<SdhcSendCidAll, Chk("rca"), Cmd("RelativeAddr"), Cmd("Cid"), Cmd("Csd"),
                         Chk("spec"), SdhcSelectDevice, Data("ExtCsd"),
                         Proc("SdhcSwitchSpeedModeMmc"), Proc("SdhcSwitchBusWidthMmc"),
                         Ext("MaxClock")>>
SdhcSwitchBusWidthSd == <<Cmd("BusWidthSd"), Ext("Width4")>>
SdhcSwitchSpeedModeMmc == <<Cmd("SwitchHs"), Chk("mode"), Data("ExtCsd"), Chk("hs")>>
SwitchPowerClass == <<Cmd("SwitchPower"), Data("ExtCsd"), Chk("power")>>
\* Faulty variant: the host controller is left as it was.
SdhcSwitchBusWidthCardOnly == <<Data("ExtCsd"), Proc("PowerClass"), Cmd("SwitchWidth")>>
SdhcSwitchBusWidthMmc == <<Data("ExtCsd"), Proc("PowerClass"), Cmd("SwitchWidth"), Ext("Width8")>>
SdhcSwitchPartitionMmc(c) == <<Cmd(IF c = "Rpmb" THEN "SwitchRpmb" ELSE "SwitchBack"),
                               Data("ExtCsd"), Chk(c)>>

RpmbRead  == <<SdhcSetBlockCount, Data("RpmbSend"), SdhcSetBlockCount, Data("RpmbFetch")>>
RpmbWrite == <<SdhcSetBlockCount, Data("RpmbSend")>>
RpmbQueryResult == <<SdhcSetBlockCount, Data("RpmbAsk"), SdhcSetBlockCount, Data("RpmbFetch")>>
RpmbProgramKeyUnasked         == RpmbWrite   \* faulty variant: the result is not asked for
RpmbProgramKeyRequest         == RpmbWrite \o RpmbQueryResult
RpmbReadCounterRequest        == RpmbRead
RpmbAuthenticatedWriteRequest == RpmbWrite \o RpmbQueryResult
RpmbAuthenticatedReadRequest  == RpmbRead

RpmbRequests == {"RpmbProgramKeyRequest", "RpmbReadCounterRequest",
                 "RpmbAuthenticatedWriteRequest", "RpmbAuthenticatedReadRequest"}
Sequenced == RpmbRequests \cup
  {"SdhcSendOpCondSd", "InitializeDevice", "InitializeSdDevice", "InitializeMmcDevice", "SdhcSwitchBusWidthSd",
   "SdhcSwitchSpeedModeMmc", "SwitchPowerClass", "SdhcSwitchBusWidthMmc", "SdhcSwitchPartitionMmc"}

Body(f) ==
  CASE f.p = "InitializeDevice"       -> InitializeDevice
    [] f.p = "SdhcSendOpCondSd"       -> SdhcSendOpCondSd
    [] f.p = "InitializeSdDevice"     -> InitializeSdDevice
    [] f.p = "InitializeMmcDevice"    -> InitializeMmcDevice
    [] f.p = "SdhcSwitchBusWidthSd"   -> SdhcSwitchBusWidthSd
    [] f.p = "SdhcSwitchSpeedModeMmc" -> SdhcSwitchSpeedModeMmc
    [] f.p = "SwitchPowerClass"       -> SwitchPowerClass
    [] f.p = "SdhcSwitchBusWidthMmc"  -> SdhcSwitchBusWidthMmc
    [] f.p = "SdhcSwitchPartitionMmc" -> SdhcSwitchPartitionMmc(f.c)
    [] f.p = "RpmbProgramKeyRequest"  -> RpmbProgramKeyRequest
    [] f.p = "RpmbReadCounterRequest" -> RpmbReadCounterRequest
    [] f.p = "RpmbAuthenticatedWriteRequest" -> RpmbAuthenticatedWriteRequest
    [] f.p = "RpmbAuthenticatedReadRequest"  -> RpmbAuthenticatedReadRequest

\* The branches on the card's function and on the current its bus width needs.
Chosen(f) ==
  CASE f.p = "ByFunction" -> IF host.fn = "sd" THEN Proc("InitializeSdDevice")
                             ELSE IF host.fn = "mmc" THEN Proc("InitializeMmcDevice")
                             ELSE Chk("unsupported")
    [] f.p = "PowerClass" -> IF card.need > host.ext.power THEN Proc("SwitchPowerClass")
                                                           ELSE Chk("enough")
    [] OTHER -> f

Sequence ==
  /\ Running /\ Top.p \in Sequenced
  /\ CASE Top.n > 0 /\ ~Ok         -> Return(ret.s)
       [] (Top.n = 0 \/ Ok) /\ Top.n = Len(Body(Top)) -> Return("OK")
       [] OTHER -> /\ stack' = Below \o <<[Top EXCEPT !.n = @ + 1], Chosen(Body(Top)[Top.n + 1])>>
                   /\ ret' = NoRet
  /\ UNCHANGED quiet

\* Faulty variant: only a request that failed switches back.
RpmbRequestOneWay ==
  /\ In("RpmbRequest")
  /\ CASE Top.at = "begin"    -> Call(Frame("SdhcSwitchPartitionMmc", "Rpmb"), "switched")
       [] Top.at = "switched" -> IF Ok THEN Call(Proc(req.kind), "served") ELSE Return(ret.s)
       [] Top.at = "served"   -> IF Ok THEN Return(ret.s) ELSE Call(Frame("SdhcSwitchPartitionMmc", "Back"), "backFailed")
       [] Top.at = "back"     -> Return(ret.s)
       [] Top.at = "backFailed" -> Return("ERR")
  /\ UNCHANGED quiet

\* RpmbRequest: switch, serve, switch back; the frame keeps the status of the service.
RpmbRequest ==
  /\ In("RpmbRequest")
  /\ CASE Top.at = "begin"    -> Call(Frame("SdhcSwitchPartitionMmc", "Rpmb"), "switched")
       [] Top.at = "switched" -> IF Ok THEN Call(Proc(req.kind), "served") ELSE Return(ret.s)
       [] Top.at = "served"   -> Call(Frame("SdhcSwitchPartitionMmc", "Back"),
                                      IF Ok THEN "back" ELSE "backFailed")
       [] Top.at = "back"     -> Return(ret.s)
       [] Top.at = "backFailed" -> Return("ERR")
  /\ UNCHANGED quiet

\* The protocol's functions; the authenticated ones want at least one packet.
RpmbIoProgramKey         == Proc("RpmbRequest")
RpmbIoReadCounter        == Proc("RpmbRequest")
RpmbIoAuthenticatedWrite == IF req.count = 0 THEN Chk("unsupported") ELSE Proc("RpmbRequest")
RpmbIoAuthenticatedRead  == IF req.count = 0 THEN Chk("unsupported") ELSE Proc("RpmbRequest")

\* OP-TEE's request, passed on if the protocol is there; it may also ask who the
\* device is.
OpteeRpcCmdRpmb ==
  /\ In("OpteeRpcCmdRpmb")
  /\ \/ /\ Top.at = "begin" /\ ~host.rpmb
        /\ Return("ERR") /\ UNCHANGED req
     \/ /\ Top.at = "begin" /\ host.rpmb /\ req.kind = "GetDevInfo"
        /\ req' = [req EXCEPT !.answer = IF host.cid = card.id THEN req.kind ELSE "none"]
        /\ Return("OK")
     \/ /\ Top.at = "begin" /\ host.rpmb /\ req.kind \in RpmbRequests
        /\ Call(CASE req.kind = "RpmbProgramKeyRequest"  -> RpmbIoProgramKey
                  [] req.kind = "RpmbReadCounterRequest" -> RpmbIoReadCounter
                  [] req.kind = "RpmbAuthenticatedWriteRequest" -> RpmbIoAuthenticatedWrite
                  [] req.kind = "RpmbAuthenticatedReadRequest"  -> RpmbIoAuthenticatedRead, "served")
        /\ UNCHANGED req
     \/ /\ Top.at = "served"
        /\ Return(ret.s) /\ UNCHANGED req
  /\ UNCHANGED <<card, host, attempts, faults, reqs>>

Driver == \/ SdhcSendCommand \/ SdhcSendDataCommand \/ SdhcWaitForTranState
          \/ SdhcRecoverFromErrors \/ SoftReset \/ SdhcQueryCardType \/ SdhcSendOpCond
          \/ Check \/ HostExt \/ Sequence \/ RpmbRequest \/ OpteeRpcCmdRpmb

\* The timer finds a card; BlockIo is called once it is installed, OP-TEE calls any time.
Request(kind, n, f) ==
  /\ ~Running /\ reqs < MaxReqs
  /\ reqs' = reqs + 1
  /\ req' = [NewReq EXCEPT !.kind = kind, !.count = n, !.part = host.cur]
  /\ stack' = <<f>> /\ ret' = NoRet
  /\ UNCHANGED <<card, host, attempts, faults>>

Insert  == reqs = 0 /\ Request("SoftReset", 1, Proc("SoftReset"))
BlockIo == host.up /\ \E c \in {"ReadSingle", "ReadMulti", "WriteSingle", "WriteMulti"} :
                        Request(c, 1, Data(c))
Rpmb    == reqs > 0 /\ \E k \in RpmbRequests \cup {"GetDevInfo"} :
             \E n \in IF k \in {"RpmbAuthenticatedWriteRequest", "RpmbAuthenticatedReadRequest"}
                      THEN {0, 1} ELSE {1} : Request(k, n, Proc("OpteeRpcCmdRpmb"))

Next == Driver \/ Insert \/ BlockIo \/ Rpmb

Spec     == Init /\ [][Next]_vars
FairSpec == Spec /\ WF_vars(Driver)

-----------------------------------------------------------------------------
CardStates == {"idle", "ready", "ident", "stby", "tran", "data", "rcv", "prog"}
Returned(p) == ret.p = p /\ ret.s = "OK"
Count(p) == Cardinality({k \in 1 .. Len(stack) : stack[k].p = p})

\* A slot whose initialisation succeeds holds a selected card that it addresses
\* rightly, that both sides drive at the same width, not faster than the card has been
\* set to, and whose kind, serial number and number of blocks the slot knows, also
\* when the initialisation ran inside the recovery of another.
Initialized ==
  Returned("InitializeDevice") =>
    /\ card.st = "tran" /\ host.fn = card.kind /\ host.rca = card.rca /\ Agreeing
    /\ host.clk <= (IF card.kind = "mmc" /\ card.hs THEN HighSpeedClock
                    ELSE CalculateCardMaxFreq(card.kind, card.tran))
    /\ host.id = card.id /\ host.last + 1 = card.sectors

\* A data command that succeeds has left the card ready for the next one: an
\* open-ended transfer is stopped, a counted one has ended by itself.
TransferOver == Returned("SdhcSendDataCommand") => card.st = "tran"

\* An RPMB write is carried out at most once, and if the request succeeds exactly
\* once; the answer it returns is the answer to this request.
RpmbServed ==
  /\ req.written <= 1
  /\ Returned("OpteeRpcCmdRpmb") =>
       IF req.kind \in WriteKinds THEN req.written = 1 /\ req.answer = "result"
                                  ELSE req.written = 0 /\ req.answer = req.kind

\* A successful RPMB request leaves the partition that was in use, on the card and in
\* the driver's record.
PartitionRestored == Returned("RpmbRequest") => card.part = req.part /\ host.cur = req.part

Supported == /\ card.kind \in {"sd", "mmc"} /\ ~card.old /\ ~card.lowv /\ ValidSpeed(card.tran)

\* Nothing fails of itself: without a fault every request to a supported card
\* succeeds, as long as it is ready before the last poll.
NoFaultNoError ==
  faults = 0 /\ ~Running /\ Supported /\ req.count > 0 => Ok \/ (ret.p = "OpteeRpcCmdRpmb" /\ card.kind = "sd")

\* Every request returns, also from a card that is stuck and a controller whose
\* lines cannot be reset.
RequestsEnd == Running ~> ~Running
=============================================================================
