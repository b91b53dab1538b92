----------------------------- MODULE ServicesProofs -----------------------------
(*****************************************************************************)
(* Proofs about the services that run by themselves: the parameters of a TEE *)
(* call, the time service, the TPM library, the SCP mailbox, the system      *)
(* configuration controller, Fastboot and the display libraries.             *)
(*****************************************************************************)
EXTENDS OpteeParams, OpteeTime, Tpm2Device, JunoMtl, SysConfig, FastBoot, LcdPlatform, FiniteSetTheorems,
        ListLemmas, TLAPS

-------------------------------------------------------------------------------
(* Parameters.  InvokeCommand has no meta parameters, so that the slots of   *)
(* the message are the parameters of the operation.                          *)

ParamsTypeOK ==
  /\ phase \in {"idle", "sent", "done", "returned", "failed"}
  /\ cmd \in Commands
  /\ types \in [Params -> Types]
  /\ msg = [i \in Params |-> msg[i]]
  /\ op = [i \in Params |-> op[i]]

\* The message carries the caller's parameters into the TEE ...
MsgCarries ==
  phase = "sent" =>
    /\ op = passed
    /\ \A i \in Params :
         msg[i] = IF types[i] = None THEN Cleared ELSE [attr |-> types[i], u |-> op[i]]

\* ... and back out of it.
MsgReturns ==
  phase = "done" =>
    \A i \in Params : /\ types[i] # None => msg[i].u = written[i]
                      /\ types[i].dir = "INPUT" => written[i] = passed[i]

ParamsInv == ParamsTypeOK /\ MsgCarries /\ MsgReturns /\ OutputsReturned

\* A parameter that is used has a direction of its own; one that is not has none.
LEMMA TypeDirs ==
  ASSUME NEW t \in Types
  PROVE  /\ t # None => t.dir \in Dirs
         /\ t = None => t.dir = "NONE"
BY DEF Types, None, Dirs, Kinds

\* Every step of a client that invokes commands keeps the invariant.
LEMMA ParamsStep ==
  ASSUME "OPEN_SESSION" \notin Commands, ParamsInv, [ParamsNext]_paramsVars
  PROVE  ParamsInv'
<1> USE ParamsAssumption
<1>1. \A c \in Commands : c # "OPEN_SESSION" /\ MetaParamCount(c) = 0 /\ Slots(c) = Params
  BY DEF MetaParamCount, Slots, Params
<1>2. /\ phase \in {"idle", "sent", "done", "returned", "failed"} /\ cmd \in Commands
      /\ types \in [Params -> Types] /\ msg = [i \in Params |-> msg[i]]
      /\ op = [i \in Params |-> op[i]]
  BY DEF ParamsInv, ParamsTypeOK
<1>3. ASSUME NEW c \in Commands, NEW t \in [Params -> Types], NEW p \in [Params -> Payloads],
             SmcSend(c, t, p)
      PROVE  ParamsInv'
  <2>1. phase' = "sent" /\ cmd' = c /\ types' = t /\ op' = p /\ passed' = p
    BY <1>3 DEF SmcSend
  <2>2. msg' = SetMsgParams([s \in Params |-> Cleared], 0, t, p)
    BY <1>3, <1>1 DEF SmcSend
  <2>3. \A s \in Params : s \in {0 + i : i \in Params} /\ s - 0 = s
    BY DEF Params
  <2>4. msg' = [s \in Params |-> IF t[s] # None THEN [attr |-> t[s], u |-> p[s]] ELSE Cleared]
    BY <2>2, <2>3 DEF SetMsgParams
  <2> QED  BY <2>1, <2>4 DEF ParamsInv, ParamsTypeOK, MsgCarries, MsgReturns, OutputsReturned
<1>4. ASSUME NEW w \in [Params -> Payloads], TaRuns(w)
      PROVE  ParamsInv'
  <2>1. /\ phase = "sent" /\ phase' = "done"
        /\ UNCHANGED <<cmd, types, op, passed>>
    BY <1>4 DEF TaRuns
  <2>2. written' = [i \in Params |-> IF msg[0 + i].attr.dir \in {"OUTPUT", "INOUT"}
                                     THEN w[i] ELSE msg[0 + i].u]
    BY <1>4, <1>1, <1>2 DEF TaRuns
  <2>3. msg' = [s \in Params |-> IF s >= 0 THEN [msg[s] EXCEPT !.u = written'[s - 0]] ELSE msg[s]]
    BY <1>4, <1>1, <1>2 DEF TaRuns
  <2>4. \A i \in Params : 0 + i = i /\ i - 0 = i /\ i >= 0
    BY DEF Params
  <2>5. ASSUME NEW i \in Params
        PROVE  /\ types[i] # None => msg'[i].u = written'[i]
               /\ types[i].dir = "INPUT" => written'[i] = passed[i]
    <3>1. types[i] \in Types  BY <1>2
    <3>2. msg'[i] = [msg[i] EXCEPT !.u = written'[i]]  BY <2>3, <2>4
    <3>3. CASE types[i] = None
      BY <3>3, <3>1, TypeDirs
    <3>4. CASE types[i] # None
      <4>1. op = passed /\ msg[i] = [attr |-> types[i], u |-> op[i]]
        BY <3>4, <2>1 DEF ParamsInv, MsgCarries
      <4>2. written'[i] = IF types[i].dir \in {"OUTPUT", "INOUT"} THEN w[i] ELSE op[i]
        BY <4>1, <2>2, <2>4
      <4> QED  BY <4>1, <4>2, <3>2
    <3> QED  BY <3>3, <3>4
  <2> QED  BY <2>1, <2>3, <2>5, <1>2 DEF ParamsInv, ParamsTypeOK, MsgCarries, MsgReturns, OutputsReturned
<1>5. CASE SmcFails
  BY <1>5, <1>2 DEF SmcFails, ParamsInv, ParamsTypeOK, MsgCarries, MsgReturns, OutputsReturned
<1>6. CASE SmcReceive
  <2>1. /\ phase = "done" /\ phase' = "returned"
        /\ op' = [i \in Params |-> IF types[i] = None THEN op[i] ELSE msg[0 + i].u]
        /\ UNCHANGED <<cmd, types, msg, passed, written>>
    BY <1>6 DEF SmcReceive, GetMsgParams, FirstReturned
  <2>2. ASSUME NEW i \in Params
        PROVE  /\ types[i] # None => op'[i] = written[i]
               /\ types[i].dir = "INPUT" => op'[i] = passed[i]
    <3>1. 0 + i = i  BY DEF Params
    <3>2. types[i].dir = "INPUT" => types[i] # None
      BY <1>2, TypeDirs
    <3> QED  BY <2>1, <3>1, <3>2 DEF ParamsInv, MsgReturns
  <2> QED  BY <2>1, <2>2, <1>2 DEF ParamsInv, ParamsTypeOK, MsgCarries, MsgReturns, OutputsReturned
<1>7. CASE Again
  <2>1. [i \in Params |-> None] \in [Params -> Types]  BY DEF Types
  <2> QED  BY <1>7, <1>2, <1>1, <2>1
           DEF Again, ParamsInv, ParamsTypeOK, MsgCarries, MsgReturns, OutputsReturned
<1>8. CASE UNCHANGED paramsVars
  BY <1>8, <1>2 DEF paramsVars, ParamsInv, ParamsTypeOK, MsgCarries, MsgReturns, OutputsReturned
<1> QED  BY <1>3, <1>4, <1>5, <1>6, <1>7, <1>8 DEF ParamsNext

\* TEEC_SMC_InvokeCommand gives the caller back what the trusted application left
\* in its parameters, its inputs untouched, and a failed call changes none of them,
\* whatever the number of parameters, their types and the payloads.  OpenSession
\* is excluded: it reads from the wrong slots (run params_open).
THEOREM OutputsReturnedHolds ==
  ASSUME "OPEN_SESSION" \notin Commands
  PROVE  ParamsSpec => []OutputsReturned
<1>1. ParamsInit => ParamsInv
  <2>1. [i \in Params |-> None] \in [Params -> Types]  BY DEF Types
  <2>2. \A c \in Commands : Slots(c) = Params
    BY ParamsAssumption DEF MetaParamCount, Slots, Params
  <2> QED  BY <2>1, <2>2 DEF ParamsInit, ParamsInv, ParamsTypeOK, MsgCarries, MsgReturns, OutputsReturned
<1>2. ParamsInv /\ [ParamsNext]_paramsVars => ParamsInv'
  BY ParamsStep
<1>3. ParamsInv => OutputsReturned
  BY DEF ParamsInv
<1> QED  BY <1>1, <1>2, <1>3, PTL DEF ParamsSpec

-------------------------------------------------------------------------------
(* The clock.                                                                *)

\* Division with remainder, as the provers need it.
LEMMA DivisionFacts ==
  ASSUME NEW a \in Nat, NEW b \in Nat \ {0}
  PROVE  /\ a \div b \in Nat
         /\ (a \div b) * b <= a
         /\ a < (a \div b + 1) * b
<1>1. a = b * (a \div b) + (a % b) /\ a % b \in 0 .. (b - 1) /\ a \div b \in Int
  BY SMT
<1>2. a \div b \in Nat
  BY SMT
<1>3. (a \div b + 1) * b = b * (a \div b) + b
  BY <1>2, SMT
<1> QED  BY <1>1, <1>2, <1>3, SMT

\* A number below the word is not changed by wrapping.
LEMMA NoWrap ==
  ASSUME NEW a \in Nat, NEW w \in Nat \ {0}, a < w
  PROVE  a % w = a
BY SMT

\* Order is kept and reflected by a positive factor.
LEMMA FactorKeepsOrder ==
  ASSUME NEW x \in Int, NEW y \in Int, NEW k \in Nat \ {0}
  PROVE  /\ x <= y => x * k <= y * k
         /\ x * k < y * k => x < y
BY SMT

\* The answer to a request at a time whose product does not wrap.
LEMMA GetTimeExact ==
  ASSUME NEW t \in Nat, t * Nanos < Word
  PROVE  LET v == GetTime(t)
         IN /\ v.b < Nanos
            /\ (v.a * Nanos + v.b) * Freq <= t * Nanos
            /\ t * Nanos < (v.a * Nanos + v.b + 1) * Freq
<1> DEFINE p == t * Nanos
           s == t \div Freq
           n == p \div Freq
           sn == s * Nanos
<1>1. Freq \in Nat \ {0} /\ Nanos \in Nat \ {0} /\ Word \in Nat \ {0}
  BY TimeAssumption
<1>2. p \in Nat /\ p < Word /\ p % Word = p
  <2>1. p \in Nat  BY <1>1, SMT
  <2> QED  BY <2>1, <1>1, NoWrap
<1>3. s \in Nat /\ s * Freq <= t /\ t < (s + 1) * Freq
  BY <1>1, DivisionFacts
<1>4. n \in Nat /\ n * Freq <= p /\ p < (n + 1) * Freq
  <2> HIDE DEF p
  <2> QED  BY <1>1, <1>2, DivisionFacts
<1>5. sn \in Nat  BY <1>1, <1>3, SMT
<1>6. sn * Freq <= p
  <2>1. (s * Freq) * Nanos <= t * Nanos
    <3>1. s * Freq \in Int  BY <1>1, <1>3, SMT
    <3> QED  BY <3>1, <1>3, <1>1, FactorKeepsOrder
  <2>2. (s * Freq) * Nanos = (s * Nanos) * Freq
    <3> HIDE DEF s
    <3> QED BY <1>3, <1>1, SMT
  <2> QED  BY <2>1, <2>2
<1>7. p < (sn + Nanos) * Freq
  <2>1. t + 1 <= (s + 1) * Freq /\ (s + 1) * Freq \in Int  BY <1>3, <1>1, SMT
  <2>2. (t + 1) * Nanos <= ((s + 1) * Freq) * Nanos
    BY <2>1, <1>1, FactorKeepsOrder
  <2>3. ((s + 1) * Freq) * Nanos = (s * Nanos + Nanos) * Freq
    <3> HIDE DEF s
    <3> QED BY <1>3, <1>1, SMT
  <2>4. (t + 1) * Nanos = t * Nanos + Nanos  BY <1>1, SMT
  <2>5. (s * Nanos + Nanos) * Freq \in Int  BY <1>3, <1>1, SMT
  <2> QED  BY <2>2, <2>3, <2>4, <2>5, <1>1, <1>2, SMT
<1> HIDE DEF p, s, n, sn
\* The whole seconds are part of the nanoseconds, less than a second of them left.
<1>8. sn <= n
  <2>1. sn * Freq < (n + 1) * Freq
    <3>1. sn * Freq \in Int /\ (n + 1) * Freq \in Int  BY <1>1, <1>4, <1>5, SMT
    <3> QED  BY <3>1, <1>6, <1>4, <1>2, SMT
  <2>2. sn < n + 1
    BY <2>1, <1>1, <1>4, <1>5, FactorKeepsOrder
  <2> QED  BY <2>2, <1>4, <1>5
<1>9. n < sn + Nanos
  <2>1. n * Freq < (sn + Nanos) * Freq
    <3>1. n * Freq \in Int /\ (sn + Nanos) * Freq \in Int  BY <1>1, <1>4, <1>5, SMT
    <3> QED  BY <3>1, <1>7, <1>4, <1>2, SMT
  <2> QED  BY <2>1, <1>1, <1>4, <1>5, FactorKeepsOrder
<1>10. n <= p
  <2>1. n <= n * Freq  BY <1>1, <1>4, SMT
  <2>2. n * Freq \in Int  BY <1>1, <1>4, SMT
  <2> QED  BY <2>1, <2>2, <1>2, <1>4, SMT
<1>11. (n - sn) % Word = n - sn
  <2>1. n - sn \in Nat /\ n - sn < Word  BY <1>1, <1>2, <1>4, <1>5, <1>8, <1>10
  <2> QED  BY <2>1, <1>1, NoWrap
<1>12. GetTime(t) = [a |-> s, b |-> n - sn]
  BY <1>11, <1>2 DEF GetTime, p, s, n, sn
<1>13. s * Nanos + (n - sn) = n /\ s * Nanos + (n - sn) + 1 = n + 1
  BY <1>4, <1>5 DEF sn
<1>14. n - sn < Nanos
  BY <1>9, <1>4, <1>5, <1>1
<1> QED  BY <1>12, <1>13, <1>14, <1>4 DEF p

\* The clock's answer is that of the moment OP-TEE asked.
TimeInv == ticks \in Nat /\ at \in Nat /\ value = GetTime(at)

\* Until the product of ticks and NANOS_PER_SEC wraps, OpteeRpcCmdGetTime answers
\* the elapsed time rounded down to a nanosecond, for every counter frequency.
THEOREM ExactBeforeWrapHolds == TimeSpec => []ExactBeforeWrap
<1>1. TimeInit => TimeInv
  BY DEF TimeInit, TimeInv
<1>2. TimeInv /\ [TimeNext]_timeVars => TimeInv'
  BY DEF TimeInv, TimeNext, Tick, OpteeRpcCmdGetTime, timeVars
<1>3. TimeInv => ExactBeforeWrap
  BY GetTimeExact DEF TimeInv, ExactBeforeWrap
<1> QED  BY <1>1, <1>2, <1>3, PTL DEF TimeSpec

-------------------------------------------------------------------------------
(* The firmware TPM.                                                         *)

TpmEvents ==
  {[tpl |-> NOTIFY, who |-> "measure"], [tpl |-> CALLBACK, who |-> "relinquish"]}

\* The relinquishing event is registered, at a level below the measurement's, before
\* anything can be signalled; the measurement is the first to go.
TpmPriority ==
  /\ tpmPc = "loading" => tpmWorld = "boot"
  /\ tpmPc # "loading" => tpmTpl = CALLBACK
  /\ tpmEvents \subseteq TpmEvents
  /\ tpmWorld = "boot" => /\ tpmEvents = {} /\ tpmUsable = FALSE
                          /\ tpmCaller = "driver" /\ tpmRet.exit = "none"

\* While the library says it is initialized OP-TEE can be reached, in a session that
\* is open unless the last request for one was refused; and it says so until the
\* measurement has been made.
TpmReachable ==
  /\ tpmOpen \subseteq TpmSessions
  /\ tpmInitialized => /\ tpmApi /\ tpmPc # "loading"
                       /\ tpmSession \in tpmOpen <=> ~tpmRefused
  /\ tpmPc = "allocated" => tpmInitialized
  /\ [tpl |-> NOTIFY, who |-> "measure"] \in tpmEvents /\ tpmUsable => tpmInitialized
  /\ DOMAIN tpmRet = {"driver", "exit"} /\ tpmCaller \in {"driver", "exit"}
  /\ tpmUsable => tpmRet.exit # "NOT_READY"

TpmInv == TpmPriority /\ TpmReachable

\* Every step of the library, its callers and the event dispatcher keeps the invariant.
LEMMA TpmStep ==
  ASSUME TpmInv, [TpmNext]_tpmVars
  PROVE  TpmInv'
<1> USE DEF TpmInv, TpmPriority, TpmReachable, TpmEvents
<1>1. CASE Tpm2DeviceLibOpTEEEntry
  BY <1>1 DEF Tpm2DeviceLibOpTEEEntry, RelinquishTpl
<1>2. CASE Tpm2RequestUseTpm
  BY <1>2, TpmAssumption DEF Tpm2RequestUseTpm
<1>3. CASE Tpm2SubmitCommand
  BY <1>3 DEF Tpm2SubmitCommand, SubmitAllocates, Refused
<1>4. CASE SubmitInvokes
  BY <1>4 DEF SubmitInvokes
<1>5. CASE Tpm2SubmitCommandEnd
  BY <1>5 DEF Tpm2SubmitCommandEnd
<1>6. CASE ExitBootServicesSignalled
  BY <1>6 DEF ExitBootServicesSignalled
<1>7. CASE MeasureExit
  BY <1>7 DEF MeasureExit, SubmitAllocates, Refused, NOTIFY, CALLBACK
<1>8. CASE Tpm2RelinquishUseTpm
  BY <1>8 DEF Tpm2RelinquishUseTpm, Dispatched, NOTIFY, CALLBACK
<1>9. CASE OsStarts
  BY <1>9 DEF OsStarts
<1>10. CASE UNCHANGED tpmVars
  BY <1>10 DEF tpmVars
<1> QED  BY <1>1, <1>2, <1>3, <1>4, <1>5, <1>6, <1>7, <1>8, <1>9, <1>10 DEF TpmNext

\* A TPM in use when ExitBootServices begins is still there for the last measurement,
\* because Tpm2RelinquishUseTpm runs at TPL_CALLBACK, below SecurityPkg's event; and
\* whoever has shared memory for a command has an open session to send it to exactly
\* if OP-TEE did not refuse the request for a session it answered last.
THEOREM TpmMeasuredAtExitHolds == TpmSpec => []TpmMeasuredAtExit
<1>1. TpmInit => TpmInv
  BY DEF TpmInit, TpmInv, TpmPriority, TpmReachable, TpmEvents
<1>2. TpmInv /\ [TpmNext]_tpmVars => TpmInv'
  BY TpmStep
<1>3. TpmInv => TpmMeasuredAtExit
  BY DEF TpmInv, TpmReachable, TpmMeasuredAtExit
<1> QED  BY <1>1, <1>2, <1>3, PTL DEF TpmSpec

-------------------------------------------------------------------------------
(* JunoMtl. *)

MtlTypeOK ==
  /\ mtlBox \in [Supported -> [status : {"FREE", "BUSY"}, header : Nat, length : Nat]]
  /\ mtlBell \subseteq Supported
  /\ mtlScp \in [Supported -> Nat]
  /\ mtlPc \in {"idle", "waitFree", "send", "ring", "receive", "answer"}
  /\ mtlChannel \in Supported
  /\ mtlSent \in Nat

\* A free channel has no message on its way: neither a doorbell the SCP has not
\* seen nor a message it works on.  The SCP works on what is in the mailbox.
MtlChannelInv ==
  \A c \in Supported :
    /\ mtlBox[c].status = "FREE" => c \notin mtlBell /\ mtlScp[c] = NoMessage
    /\ mtlScp[c] # NoMessage => mtlScp[c] = mtlBox[c].header /\ c \notin mtlBell

\* From sending to receiving, the mailbox holds the message sent last; until its
\* doorbell rings the SCP has nothing to do with the channel.
MtlClientInv ==
  /\ mtlPc \in {"ring", "receive", "answer"} => mtlBox[mtlChannel].header = mtlSent
  /\ mtlPc = "ring" =>
       /\ mtlBox[mtlChannel].status = "BUSY"
       /\ mtlChannel \notin mtlBell /\ mtlScp[mtlChannel] = NoMessage

MtlInv == MtlTypeOK /\ MtlChannelInv /\ MtlClientInv /\ MtlOwnAnswer

\* Every step of the client and of the SCP keeps the invariant.
LEMMA MtlStep == MtlInv /\ [MtlNext]_mtlVars => MtlInv'
<1> SUFFICES ASSUME MtlInv, [MtlNext]_mtlVars PROVE MtlInv'
  OBVIOUS
<1> USE DEF MtlInv, MtlTypeOK, MtlChannelInv, MtlClientInv, MtlOwnAnswer, NoMessage
<1>1. ASSUME NEW c \in MtlChannels, MtlGetChannel(c) PROVE MtlInv'
  BY <1>1 DEF MtlGetChannel
<1>2. CASE MtlPoll
  BY <1>2 DEF MtlPoll
<1>3. CASE MtlWaitUntilChannelFree
  BY <1>3 DEF MtlWaitUntilChannelFree, IsFree
<1>4. CASE SkipWait
  BY <1>4 DEF SkipWait
<1>5. CASE RingDoorBell
  BY <1>5 DEF RingDoorBell
<1>6. CASE MtlReceiveMessage
  BY <1>6 DEF MtlReceiveMessage
<1>7. ASSUME NEW n \in {0, HeaderSize}, MtlSendMessage(n) PROVE MtlInv'
  <2>1. n + HeaderSize \in Nat
    BY DEF HeaderSize
  <2> QED BY <1>7, <2>1 DEF MtlSendMessage, IsFree
<1>8. ASSUME NEW c \in Supported, ScpTakes(c) PROVE MtlInv'
  BY <1>8 DEF ScpTakes
<1>9. ASSUME NEW c \in Supported, NEW n \in {0, HeaderSize}, ScpAnswers(c, n) PROVE MtlInv'
  <2>1. n + HeaderSize \in Nat
    BY DEF HeaderSize
  <2> QED BY <1>9, <2>1 DEF ScpAnswers
<1>10. CASE UNCHANGED mtlVars
  BY <1>10 DEF mtlVars
<1> QED BY <1>1, <1>2, <1>3, <1>4, <1>5, <1>6, <1>7, <1>8, <1>9, <1>10 DEF MtlNext

\* What MtlReceiveMessage hands out is the answer to the client's last message,
\* for any number of messages and any time-out, however late the SCP is.
THEOREM MtlOwnAnswerHolds == MtlSpec => []MtlOwnAnswer
<1>1. MtlInit => MtlInv
  BY DEF MtlInit, MtlInv, MtlTypeOK, MtlChannelInv, MtlClientInv, MtlOwnAnswer, Channels, NoMessage, HeaderSize, Supported
<1>2. MtlInv => MtlOwnAnswer
  BY DEF MtlInv
<1> QED BY <1>1, <1>2, MtlStep, PTL DEF MtlSpec

-------------------------------------------------------------------------------
(* SysConfig. *)

CfgData == CfgValues \cup {CfgZero}

ScTypeOK ==
  /\ scReg \in [complete : BOOLEAN, error : BOOLEAN, data : CfgData]
  /\ scDone.error \in BOOLEAN
  /\ scPc \in {"idle", "start", "poll"}
  /\ scPc # "idle" => scCall.rw \in {"READ", "WRITE"}

\* The MCC has been handed the request and not answered it: COMPLETE is clear and
\* the register holds what a write is to put in place.
Waiting == ~scReg.complete /\ (scCall.rw = "WRITE" => scReg.data = scCall.value)

\* The MCC has answered the request under way, and the registers show it.
Served ==
  /\ scMcc = NoRequest /\ scReg.complete
  /\ scDone.request = scCall /\ scDone.error = scReg.error
  /\ ~scReg.error => scDone.value = (IF scCall.rw = "READ" THEN scReg.data ELSE scCall.value)

ScProtocolInv ==
  /\ scPc \in {"idle", "start"} => scMcc = NoRequest
  /\ scPc = "start" => Waiting
  /\ scPc = "poll" => (scMcc = scCall /\ Waiting) \/ Served

ScInv == ScTypeOK /\ ScProtocolInv /\ ScCarriedOut

\* Every step of a caller and of the MCC keeps the invariant.
LEMMA ScStep == ScInv /\ [ScNext]_scVars => ScInv'
<1> SUFFICES ASSUME ScInv, [ScNext]_scVars PROVE ScInv'
  OBVIOUS
<1> USE DEF ScInv, ScTypeOK, ScProtocolInv, ScCarriedOut, Waiting, Served, NoRequest
<1>1. ASSUME Unsupported, scPc = "idle" PROVE ScInv'
  BY <1>1 DEF Unsupported
<1>2. ASSUME NEW rw \in {"READ", "WRITE"}, NEW f, NEW site, NEW device, NEW v \in CfgValues, scPc = "idle",
             Access(Request(rw, f, site, device, v))
      PROVE  ScInv'
  <2>1. CASE RuntimeRefuses
    BY <1>1, <1>2, <2>1 DEF Access
  <2>2. CASE ~RuntimeRefuses
    <3> DEFINE request == Request(rw, f, site, device, v)
    <3>1. request.rw = rw /\ request.value = v
      BY DEF Request
    <3>2. AccessSysCfgRegister(request)
      BY <1>2, <2>2 DEF Access
    <3> HIDE DEF request
    <3> QED BY <1>2, <3>1, <3>2 DEF AccessSysCfgRegister, CfgData
  <2> QED BY <2>1, <2>2
<1>3. ASSUME NEW f \in CfgFunctions, NEW v \in CfgValues, ArmPlatformSysConfigGet(f, v) PROVE ScInv'
  BY <1>1, <1>2, <1>3 DEF ArmPlatformSysConfigGet
<1>4. ASSUME NEW f \in CfgFunctions, NEW v \in CfgValues, ArmPlatformSysConfigSet(f, v) PROVE ScInv'
  BY <1>1, <1>2, <1>4 DEF ArmPlatformSysConfigSet
<1>5. ASSUME NEW f \in CfgFunctions, NEW v \in CfgValues, NEW device \in {0, 1},
             ArmPlatformSysConfigSetDevice(f, device, v)
      PROVE  ScInv'
  <2>1. CASE SccWrite(v)
    BY <1>1, <1>5, <2>1 DEF SccWrite, ArmPlatformSysConfigSetDevice
  <2> QED BY <1>1, <1>2, <1>5, <2>1 DEF ArmPlatformSysConfigSetDevice
<1>6. CASE ArmPlatformSysConfigGetValues
  BY <1>1, <1>6 DEF ArmPlatformSysConfigGetValues
<1>7. CASE StartRequest
  BY <1>7 DEF StartRequest
<1>8. CASE RequestEnds
  BY <1>8 DEF RequestEnds
<1>9. CASE OsRuns
  BY <1>9 DEF OsRuns
<1>10. ASSUME NEW v \in CfgValues, NEW error \in BOOLEAN, MccCompletes(v, error) PROVE ScInv'
  <2>1. scPc = "poll" /\ scMcc = scCall /\ Waiting
    BY <1>10 DEF MccCompletes
  <2> QED BY <1>10, <2>1 DEF MccCompletes, CfgData
<1>11. CASE UNCHANGED scVars
  BY <1>11 DEF scVars
<1> QED BY <1>3, <1>4, <1>5, <1>6, <1>7, <1>8, <1>9, <1>10, <1>11 DEF ScNext

\* A call that returns was carried out by the MCC, and with the outcome it
\* reports: COMPLETE of an earlier request never ends a later call.
THEOREM ScCarriedOutHolds == ScSpec => []ScCarriedOut
<1>1. ScInit => ScInv
  BY DEF ScInit, ScInv, ScTypeOK, ScProtocolInv, ScCarriedOut, Waiting, NoRequest, CfgData
<1>2. ScInv => ScCarriedOut
  BY DEF ScInv
<1> QED BY <1>1, <1>2, ScStep, PTL DEF ScSpec

-------------------------------------------------------------------------------
(* LcdPlatform. *)

LcdTypeOK == lcdBoard \in Boards /\ DOMAIN lcdReg = LcdSettings

LcdInv == LcdTypeOK /\ LcdConsistent

\* The settings of a list in which none is named twice, when all of it is written.
LEMMA WrittenFacts ==
  ASSUME NEW w, NEW k \in Nat, NEW i \in 1..k, w[i][1] \in LcdSettings,
         \A j \in 1..k : w[j][1] = w[i][1] => w[j][2] = w[i][2]
  PROVE  Written(w, k)[w[i][1]] = w[i][2]
<1> DEFINE r == w[i][1]
           j == CHOOSE j \in 1..k : w[j][1] = r
<1>1. j \in 1..k /\ w[j][1] = r
  OBVIOUS
<1>2. Written(w, k)[r] = w[j][2]
  BY <1>1 DEF Written
<1> QED BY <1>1, <1>2

\* WriteSettings either makes all of the settings of w, or forgets the mode.
LEMMA WriteSettingsFacts ==
  ASSUME NEW m, NEW w, WriteSettings(m, w)
  PROVE  /\ DOMAIN lcdReg' = LcdSettings
         /\ lcdMode' = NoMode \/ (lcdMode' = m /\ lcdReg' = Written(w, Len(w)))
BY DEF WriteSettings, Written

\* The settings a call makes, all of them or some, are of modes and of the site the
\* board has.
LEMMA HalfSetKept ==
  ASSUME NEW m \in ModeValues, NEW w, WriteSettings(m, w), LcdHalfSet, lcdBoard' = lcdBoard,
         Len(w) \in Nat,
         \A i \in 1 .. Len(w) : \/ w[i][1] = "MUXFPGA" /\ w[i][2] \in SiteValues
                                \/ w[i][1] # "MUXFPGA" /\ w[i][2] = m
  PROVE  LcdHalfSet'
<1>1. PICK n \in 0 .. Len(w) : lcdReg' = Written(w, n)
  BY DEF WriteSettings
<1>2. ModeValues' = ModeValues /\ SiteValues' = SiteValues
  BY DEF ModeValues, SiteValues, LcdPlatformGetMaxMode
<1>3. ASSUME NEW r \in LcdSettings
      PROVE  IF r = "MUXFPGA" THEN lcdReg'[r] \in SiteValues ELSE lcdReg'[r] \in ModeValues
  <2>1. CASE \E i \in 1 .. n : w[i][1] = r
    <3> DEFINE i == CHOOSE i \in 1 .. n : w[i][1] = r
    <3>1. i \in 1 .. n /\ w[i][1] = r
      BY <2>1
    <3>2. lcdReg'[r] = w[i][2]
      BY <1>1, <2>1 DEF Written
    <3> HIDE DEF i
    <3> QED  BY <1>1, <3>1, <3>2
  <2>2. CASE ~\E i \in 1 .. n : w[i][1] = r
    <3>1. lcdReg'[r] = lcdReg[r]
      BY <1>1, <2>2 DEF Written
    <3> QED  BY <3>1 DEF LcdHalfSet
  <2> QED  BY <2>1, <2>2
<1> QED  BY <1>2, <1>3 DEF LcdHalfSet, LcdSettings

\* The modes a board sets.
LEMMA ModeIsKnown ==
  ASSUME LcdTypeOK, NEW m \in 0 .. LcdTable, ~(m >= LcdPlatformGetMaxMode)
  PROVE  m \in ModeValues
<1>1. LcdPlatformGetMaxMode \in Nat
  BY LcdAssumption DEF LcdPlatformGetMaxMode
<1> QED  BY <1>1 DEF ModeValues

\* No step leaves a mode that is not set, or a frame buffer the firmware does not hold.
LEMMA LcdStep == LcdInv /\ [LcdNext]_lcdVars => LcdInv'
<1> SUFFICES ASSUME LcdInv, [LcdNext]_lcdVars PROVE LcdInv'
  OBVIOUS
<1> USE DEF LcdInv, LcdTypeOK, LcdConsistent
<1>0. ASSUME lcdBoard' = lcdBoard PROVE ModeValues' = ModeValues /\ SiteValues' = SiteValues
  BY <1>0 DEF ModeValues, SiteValues, LcdPlatformGetMaxMode
<1>1. /\ \A r \in LcdPath : r \in LcdSettings /\ r # "MUXFPGA"
      /\ "MUXFPGA" \in LcdSettings
  BY DEF LcdPath, LcdSettings, Boards, Pl111Oscillator
<1>2. ASSUME NEW site, lcdBoard.lib \in {"PL111", "HdLcd"}, lcdBoard.lib = "PL111" => site = lcdBoard.site,
             lcdBoard.lib = "HdLcd" => site = "DAUGHTERBOARD_1",
             ShowSite(site), UNCHANGED <<lcdBoard, lcdHeld, lcdWc, lcdVram, lcdMode>>
      PROVE  LcdInv'
  <2>1. LcdPath' = LcdPath
    BY <1>2 DEF LcdPath, Pl111Oscillator
  <2>2. lcdReg' = [lcdReg EXCEPT !["MUXFPGA"] = site] \/ lcdReg' = lcdReg
    BY <1>2 DEF ShowSite
  <2>3. site \in SiteValues
    BY <1>2 DEF SiteValues
  <2>4. LcdHalfSet'
    BY <1>0, <1>1, <1>2, <2>2, <2>3 DEF LcdHalfSet
  <2>5. LcdModeSet' /\ DOMAIN lcdReg' = LcdSettings
    BY <1>1, <1>2, <2>1, <2>2 DEF LcdModeSet
  <2> QED BY <1>2, <2>4, <2>5 DEF LcdFrameBuffer
<1>3. ASSUME UNCHANGED <<lcdBoard, lcdReg, lcdMode>>, LcdFrameBuffer' PROVE LcdInv'
  <2>1. LcdPath' = LcdPath
    BY <1>3 DEF LcdPath, Pl111Oscillator
  <2> QED BY <1>0, <1>3, <2>1 DEF LcdModeSet, LcdHalfSet
<1>4. ASSUME UNCHANGED <<lcdBoard, lcdHeld, lcdWc, lcdVram>>, LcdModeSet', LcdHalfSet', DOMAIN lcdReg' = LcdSettings PROVE LcdInv'
  BY <1>4 DEF LcdFrameBuffer
<1>5. ASSUME UNCHANGED <<lcdBoard, lcdReg, lcdMode, lcdHeld, lcdWc, lcdVram>> PROVE LcdInv'
  BY <1>3, <1>5 DEF LcdFrameBuffer
<1>6. CASE Pl111InitializeDisplay
  BY <1>2, <1>5, <1>6 DEF Pl111InitializeDisplay
<1>7. CASE HdLcdInitializeDisplay
  BY <1>2, <1>5, <1>7 DEF HdLcdInitializeDisplay
<1>8. CASE MaliDpInitializeDisplay
  BY <1>5, <1>8 DEF MaliDpInitializeDisplay
<1>9. ASSUME NEW addresses, NEW valid, lcdBoard.lib = "MaliDp" => valid \subseteq DpValidBaseAddr,
              AllocateVram(addresses, valid), UNCHANGED <<lcdBoard, lcdReg, lcdEdid, lcdMode>>
       PROVE  LcdInv'
  BY <1>3, <1>9 DEF AllocateVram, MarkUncached, VramFails, LcdFrameBuffer
<1>10. ASSUME VramReserved \/ (\E status : VramFails(status)), UNCHANGED <<lcdBoard, lcdReg, lcdEdid, lcdMode>> PROVE LcdInv'
  BY <1>5, <1>10 DEF VramReserved, VramFails
<1>11. CASE Pl111GetVram
  BY <1>9, <1>10, <1>11 DEF Pl111GetVram
<1>12. CASE HdLcdGetVram
  BY <1>9, <1>12 DEF HdLcdGetVram
<1>13. CASE MaliDpGetVram
  BY <1>9, <1>10, <1>13 DEF MaliDpGetVram
<1>14. CASE JunoGetVram
  BY <1>9, <1>10, <1>14 DEF JunoGetVram
<1>15. ASSUME NEW status, ModeRefused(status), UNCHANGED <<lcdBoard, lcdEdid, lcdHeld, lcdWc, lcdVram>> PROVE LcdInv'
  BY <1>5, <1>15 DEF ModeRefused
<1>16. ASSUME NEW m \in 0..LcdTable, Pl111SetMode(m) PROVE LcdInv'
  <2>0. ASSUME ~(m >= LcdPlatformGetMaxMode) PROVE m \in ModeValues
    BY <2>0, ModeIsKnown
  <2> DEFINE osc == Pl111Oscillator
             w == Pl111Settings(m)
  <2>1. CASE ~(m >= LcdPlatformGetMaxMode) /\ WriteSettings(m, w)
    <3>1. \/ lcdBoard.dvi /\ w = <<<<osc, m>>, <<"DVIMODE", m>>, <<"MUXFPGA", lcdBoard.site>>>>
          \/ ~lcdBoard.dvi /\ w = <<<<osc, m>>, <<"MUXFPGA", lcdBoard.site>>>>
      BY DEF Pl111Settings
    <3>2. osc \in LcdSettings /\ osc # "MUXFPGA" /\ osc # "DVIMODE" /\ "DVIMODE" \in LcdSettings
      BY DEF LcdSettings, Pl111Oscillator
    <3>3. LcdPath = {osc} \cup (IF lcdBoard.dvi THEN {"DVIMODE"} ELSE {}) /\ LcdPath' = LcdPath
      BY <1>16 DEF LcdPath, Pl111SetMode, Pl111Oscillator
    <3> HIDE DEF osc, w
    <3>4. Len(w) \in Nat /\ Written(w, Len(w))[osc] = m /\ Written(w, Len(w))["MUXFPGA"] = lcdBoard.site
      <4>1. CASE w = <<<<osc, m>>, <<"MUXFPGA", lcdBoard.site>>>>
        <5>1. Len(w) = 2 /\ w[1][1] = osc /\ w[1][2] = m /\ w[2][1] = "MUXFPGA" /\ w[2][2] = lcdBoard.site
          BY <4>1
        <5>2. \A j \in 1..2 : j = 1 \/ j = 2
          OBVIOUS
        <5>3. Written(w, 2)[w[1][1]] = w[1][2] /\ Written(w, 2)[w[2][1]] = w[2][2]
          BY <5>1, <5>2, <3>2, <1>1, WrittenFacts
        <5> QED BY <5>1, <5>3
      <4>2. CASE w = <<<<osc, m>>, <<"DVIMODE", m>>, <<"MUXFPGA", lcdBoard.site>>>>
        <5>1. Len(w) = 3 /\ w[1][1] = osc /\ w[1][2] = m /\ w[2][1] = "DVIMODE" /\ w[2][2] = m
              /\ w[3][1] = "MUXFPGA" /\ w[3][2] = lcdBoard.site
          BY <4>2
        <5>2. \A j \in 1..3 : j = 1 \/ j = 2 \/ j = 3
          OBVIOUS
        <5>3. Written(w, 3)[w[1][1]] = w[1][2] /\ Written(w, 3)[w[3][1]] = w[3][2]
          BY <5>1, <5>2, <3>2, <1>1, WrittenFacts
        <5> QED BY <5>1, <5>3
      <4> QED BY <3>1, <4>1, <4>2
    <3>5. lcdBoard.dvi => Written(w, Len(w))["DVIMODE"] = m
      <4> SUFFICES ASSUME lcdBoard.dvi PROVE Written(w, Len(w))["DVIMODE"] = m
        OBVIOUS
      <4>1. Len(w) = 3 /\ w[1][1] = osc /\ w[1][2] = m /\ w[2][1] = "DVIMODE" /\ w[2][2] = m
            /\ w[3][1] = "MUXFPGA" /\ w[3][2] = lcdBoard.site
        BY <3>1
      <4>2. \A j \in 1..3 : j = 1 \/ j = 2 \/ j = 3
        OBVIOUS
      <4>3. Written(w, 3)[w[2][1]] = w[2][2]
        BY <4>1, <4>2, <3>2, WrittenFacts
      <4> QED BY <4>1, <4>3
    <3>6. UNCHANGED <<lcdBoard, lcdHeld, lcdWc, lcdVram>> /\ lcdBoard.lib = "PL111"
      BY <1>16 DEF Pl111SetMode
    <3>7. LcdModeSet'
      BY <2>1, <3>3, <3>4, <3>5, <3>6, WriteSettingsFacts DEF LcdModeSet
    <3>8. \A i \in 1 .. Len(w) : \/ w[i][1] = "MUXFPGA" /\ w[i][2] = lcdBoard.site
                                 \/ w[i][1] # "MUXFPGA" /\ w[i][2] = m
      <4>1. CASE w = <<<<osc, m>>, <<"MUXFPGA", lcdBoard.site>>>>
        <5>1. Len(w) = 2 /\ w[1][1] = osc /\ w[1][2] = m /\ w[2][1] = "MUXFPGA" /\ w[2][2] = lcdBoard.site
          BY <4>1
        <5>2. ASSUME NEW i \in 1 .. Len(w)
              PROVE  \/ w[i][1] = "MUXFPGA" /\ w[i][2] = lcdBoard.site
                     \/ w[i][1] # "MUXFPGA" /\ w[i][2] = m
          <6>1. i = 1 \/ i = 2
            BY <5>1, <5>2
          <6> QED BY <5>1, <6>1, <3>2, Zenon
        <5> QED BY <5>2
      <4>2. CASE w = <<<<osc, m>>, <<"DVIMODE", m>>, <<"MUXFPGA", lcdBoard.site>>>>
        <5>1. Len(w) = 3 /\ w[1][1] = osc /\ w[1][2] = m /\ w[2][1] = "DVIMODE" /\ w[2][2] = m
              /\ w[3][1] = "MUXFPGA" /\ w[3][2] = lcdBoard.site
          BY <4>2
        <5>2. ASSUME NEW i \in 1 .. Len(w)
              PROVE  \/ w[i][1] = "MUXFPGA" /\ w[i][2] = lcdBoard.site
                     \/ w[i][1] # "MUXFPGA" /\ w[i][2] = m
          <6>1. i = 1 \/ i = 2 \/ i = 3
            BY <5>1, <5>2
          <6> QED BY <5>1, <6>1, <3>2, Zenon
        <5> QED BY <5>2
      <4> QED BY <3>1, <4>1, <4>2
    <3>9. lcdBoard.site \in SiteValues
      BY <3>6 DEF SiteValues
    <3>10. LcdHalfSet'
      BY <2>0, <2>1, <3>4, <3>6, <3>8, <3>9, HalfSetKept
    <3> QED BY <1>4, <2>1, <3>6, <3>7, <3>10, WriteSettingsFacts
  <2> QED BY <1>15, <1>16, <2>1 DEF Pl111SetMode
<1>17. ASSUME NEW m \in 0..LcdTable, HdLcdSetMode(m) PROVE LcdInv'
  <2>0. ASSUME ~(m >= LcdPlatformGetMaxMode) PROVE m \in ModeValues
    BY <2>0, ModeIsKnown
  <2> DEFINE w == <<<<"OSC_SITE1", m>>, <<"DVIMODE", m>>, <<"MUXFPGA", "DAUGHTERBOARD_1">>>>
  <2>1. CASE ~(m >= LcdPlatformGetMaxMode) /\ WriteSettings(m, w)
    <3>1. Len(w) = 3 /\ w[1][1] = "OSC_SITE1" /\ w[1][2] = m /\ w[2][1] = "DVIMODE" /\ w[2][2] = m
          /\ w[3][1] = "MUXFPGA" /\ w[3][2] = "DAUGHTERBOARD_1"
      OBVIOUS
    <3> HIDE DEF w
    <3>2. \A j \in 1..3 : j = 1 \/ j = 2 \/ j = 3
      OBVIOUS
    <3>3. {"OSC_SITE1", "DVIMODE", "MUXFPGA"} \subseteq LcdSettings
      BY DEF LcdSettings
    <3>4. /\ Written(w, 3)[w[1][1]] = w[1][2] /\ Written(w, 3)[w[2][1]] = w[2][2]
          /\ Written(w, 3)[w[3][1]] = w[3][2]
      BY <3>1, <3>2, <3>3, WrittenFacts
    <3>5. UNCHANGED <<lcdBoard, lcdHeld, lcdWc, lcdVram>> /\ lcdBoard.lib = "HdLcd"
      BY <1>17 DEF HdLcdSetMode
    <3>6. LcdPath' = {"OSC_SITE1", "DVIMODE"}
      BY <3>5 DEF LcdPath, Pl111Oscillator
    <3>7. LcdModeSet'
      BY <2>1, <3>1, <3>4, <3>5, <3>6, WriteSettingsFacts DEF LcdModeSet
    <3>8. \A i \in 1 .. Len(w) : \/ w[i][1] = "MUXFPGA" /\ w[i][2] = "DAUGHTERBOARD_1"
                                 \/ w[i][1] # "MUXFPGA" /\ w[i][2] = m
      <4>1. "OSC_SITE1" # "MUXFPGA" /\ "DVIMODE" # "MUXFPGA"
        OBVIOUS
      <4>2. ASSUME NEW i \in 1 .. Len(w)
            PROVE  \/ w[i][1] = "MUXFPGA" /\ w[i][2] = "DAUGHTERBOARD_1"
                   \/ w[i][1] # "MUXFPGA" /\ w[i][2] = m
        <5>1. i = 1 \/ i = 2 \/ i = 3
          BY <3>1, <4>2
        <5> QED BY <3>1, <4>1, <5>1, Zenon
      <4> QED BY <4>2
    <3>9. "DAUGHTERBOARD_1" \in SiteValues
      BY <3>5 DEF SiteValues
    <3>10. LcdHalfSet'
      BY <2>0, <2>1, <3>1, <3>5, <3>8, <3>9, HalfSetKept, SMTT(20)
    <3> QED BY <1>4, <2>1, <3>5, <3>7, <3>10, WriteSettingsFacts, SMTT(20)
  <2> QED BY <1>15, <1>17, <2>1 DEF HdLcdSetMode
<1>18. ASSUME NEW m \in 0..LcdTable, MaliDpSetMode(m) PROVE LcdInv'
  <2>1. CASE lcdMode' = m /\ UNCHANGED lcdReg
    <3>1. LcdPath' = {} /\ lcdBoard'.lib = "MaliDp"
      BY <1>18 DEF LcdPath, MaliDpSetMode
    <3> QED BY <1>0, <1>4, <1>18, <2>1, <3>1 DEF LcdModeSet, LcdHalfSet, MaliDpSetMode
  <2> QED BY <1>15, <1>18, <2>1 DEF MaliDpSetMode
<1>19. ASSUME NEW m \in 0..LcdTable, JunoSetMode(m) PROVE LcdInv'
  <2>0. ASSUME ~(m >= LcdPlatformGetMaxMode) PROVE m \in ModeValues
    BY <2>0, ModeIsKnown
  <2> DEFINE w == <<<<"CLOCK", m>>>>
  <2>1. UNCHANGED <<lcdBoard, lcdHeld, lcdWc, lcdVram>> /\ lcdBoard.lib = "Juno" /\ LcdPath' = {"CLOCK"}
        /\ "CLOCK" \in LcdSettings
    BY <1>19 DEF JunoSetMode, LcdPath, LcdSettings
  <2>2. CASE ~(m >= LcdPlatformGetMaxMode) /\ WriteSettings(m, w)
    <3>1. Len(w) = 1 /\ w[1][1] = "CLOCK" /\ w[1][2] = m
      OBVIOUS
    <3> HIDE DEF w
    <3>2. \A j \in 1..1 : j = 1
      OBVIOUS
    <3>3. Written(w, 1)[w[1][1]] = w[1][2]
      BY <2>1, <3>1, <3>2, WrittenFacts
    <3>4. LcdModeSet'
      BY <2>1, <2>2, <3>1, <3>3, WriteSettingsFacts DEF LcdModeSet
    <3>5. LcdHalfSet'
      BY <2>0, <2>1, <2>2, <3>1, <3>2, HalfSetKept
    <3> QED BY <1>4, <2>1, <2>2, <3>4, <3>5, WriteSettingsFacts
  <2>3. CASE ~(m >= LcdPlatformGetMaxMode) /\ lcdReg' = [lcdReg EXCEPT !["CLOCK"] = m] /\ lcdMode' = NoMode
    BY <1>0, <1>4, <2>0, <2>1, <2>3 DEF LcdModeSet, LcdHalfSet
  <2>4. m < LcdPlatformGetMaxMode => ~(m >= LcdPlatformGetMaxMode)
    BY LcdAssumption DEF LcdPlatformGetMaxMode
  <2> QED BY <1>15, <1>19, <2>2, <2>3, <2>4 DEF JunoSetMode
<1>20. ASSUME NEW m \in 0..LcdTable, Answered(m) PROVE LcdInv'
  BY <1>5, <1>20 DEF Answered
<1>21. CASE UNCHANGED lcdVars
  BY <1>5, <1>21 DEF lcdVars
<1> QED BY <1>6, <1>7, <1>8, <1>11, <1>12, <1>13, <1>14, <1>16, <1>17, <1>18, <1>19, <1>20, <1>21
        DEF LcdNext, LcdPlatformQueryMode, LcdPlatformGetTimings, LcdPlatformGetBpp

\* On every board, for any table of modes and any clocks: a mode whose setting
\* succeeded is set in full, however earlier calls left the display; one a failed call
\* left half set holds only settings of the board's own modes and site; and the frame
\* buffers handed out are held.
THEOREM LcdConsistentHolds == LcdSpec => []LcdConsistent
<1>1. LcdInit => LcdInv
  BY DEF LcdInit, LcdInv, LcdTypeOK, LcdConsistent, LcdModeSet, LcdHalfSet, ModeValues, SiteValues,
         LcdFrameBuffer, LcdSettings
<1>2. LcdInv => LcdConsistent
  BY DEF LcdInv
<1> QED BY <1>1, <1>2, LcdStep, PTL DEF LcdSpec

-------------------------------------------------------------------------------
(* Fastboot.                                                                 *)

FbHandles == FbValues \cup {Other, Flash, WholeDisk}

\* The name in an entry is the label of a partition as far as it was copied, and its
\* handle is there and that partition's until it goes.
NamedAfter(e) ==
  /\ e.handle \in FbValues /\ e.number \in FbNumbers
  /\ e.name.kept = fbGpt[e.number].kept
  /\ fbGpt[e.number].rest = "" => e.name.rest = ""
Stays(e) == e.handle \notin fbGone => e.handle \in ToSet(fbPresent) /\ fbDevice[e.handle] = e.number
FbListed == \A i \in 1 .. Len(fbList) : NamedAfter(fbList[i])
FbStays  == \A i \in 1 .. Len(fbList) : Stays(fbList[i])
FbTypeOK ==
  /\ fbSize \in [FbDevices -> FbSizes] /\ fbDevice \in [FbValues -> FbDevices]
  /\ fbPresent \in Seq(FbHandles)
FbInv == FbTypeOK /\ FbListed /\ FbStays /\ FbWritesNamed

\* What is copied of a label.
LEMMA CopiedKeeps ==
  ASSUME NEW n, NEW tail
  PROVE  /\ CopiedName(n, tail).kept = fbGpt[n].kept
         /\ fbGpt[n].rest = "" => CopiedName(n, tail).rest = ""
BY DEF CopiedName, LabelOf

\* The handles of an enumeration.
LEMMA EnumerationIsSeq ==
  ASSUME NEW p \in SetToSeqs(FbValues)
  PROVE  p \o <<Other, Flash, WholeDisk>> \in Seq(FbHandles)
<1>1. Cardinality(FbValues) \in Nat
  BY FastBootAssumption, FS_CardinalityType
<1>2. p \in [1 .. Cardinality(FbValues) -> FbValues]
  BY DEF SetToSeqs
<1>3. p \in Seq(FbHandles)
  BY <1>1, <1>2 DEF FbHandles
<1>4. <<Other, Flash, WholeDisk>> \in Seq(FbHandles)
  BY DEF FbHandles
<1> QED  BY <1>3, <1>4, ConcatProperties

\* An entry is found by its name.
LEMMA MatchingFound ==
  ASSUME NEW name, Matching(name) # 0
  PROVE  Matching(name) \in 1 .. Len(fbList) /\ fbList[Matching(name)].name = name
<1> DEFINE I == {i \in 1 .. Len(fbList) : fbList[i].name = name}
<1>1. Matching(name) = IF I # {} THEN CHOOSE x \in I : \A y \in I : x <= y ELSE 0
  BY Zenon DEF Matching, SelectInSeq, Min
<1>2. I # {} /\ I \in SUBSET Nat
  BY <1>1
<1>3. \E x \in I : \A y \in I : x <= y
  <2> HIDE DEF I
  <2> QED  BY <1>2, FirstOf
<1>4. Matching(name) \in I
  <2> HIDE DEF I
  <2> QED  BY <1>1, <1>2, <1>3, Zenon
<1> QED  BY <1>4

\* Every step keeps the invariant.
LEMMA FbStep == FbInv /\ [FbNext]_fbVars => FbInv'
<1> SUFFICES ASSUME FbInv, [FbNext]_fbVars PROVE FbInv'
  OBVIOUS
<1>1. FbTypeOK /\ FbListed /\ FbStays /\ FbWritesNamed
  BY DEF FbInv
<1>2. fbGpt' = fbGpt /\ fbSize' = fbSize
  BY DEF FbNext, fbVars, ArmAndroidFastbootPlatformEntryPoint, ArmFastbootPlatformUnInit, InitWithoutPartitions,
         ArmFastbootPlatformInit, ArmFastbootPlatformFlashPartition, FlashEnds, ArmFastbootPlatformErasePartition,
         ArmFastbootPlatformGetVar, ArmFastbootPlatformOemCommand, HandleGoes, HandleComes
<1>3. ASSUME UNCHANGED fbList PROVE FbListed'
  BY <1>1, <1>2, <1>3 DEF FbListed, NamedAfter
<1>4. ASSUME UNCHANGED <<fbList, fbGone, fbPresent, fbDevice>> PROVE FbStays'
  BY <1>1, <1>4 DEF FbStays, Stays
<1>5. ASSUME fbWrite' = NoWrite PROVE FbWritesNamed'
  BY <1>5 DEF FbWritesNamed
<1>6. ASSUME fbList' = <<>> PROVE FbListed' /\ FbStays'
  BY <1>6 DEF FbListed, FbStays
<1>7. ASSUME UNCHANGED <<fbPresent, fbDevice>> PROVE FbTypeOK'
  BY <1>1, <1>2, <1>7 DEF FbTypeOK
<1>8. CASE UNCHANGED fbVars
  BY <1>1, <1>3, <1>4, <1>7, <1>8 DEF FbInv, FbWritesNamed, fbVars
<1>9. CASE ArmAndroidFastbootPlatformEntryPoint
  BY <1>3, <1>4, <1>5, <1>7, <1>9 DEF FbInv, ArmAndroidFastbootPlatformEntryPoint
<1>10. CASE ArmFastbootPlatformUnInit
  BY <1>5, <1>6, <1>7, <1>10 DEF FbInv, ArmFastbootPlatformUnInit, FreePartitionList
<1>11. ASSUME NEW read, InitWithoutPartitions(read)
      PROVE  FbInv'
  BY <1>5, <1>6, <1>7, <1>11 DEF FbInv, InitWithoutPartitions
<1>12. ASSUME NEW read, NEW tails, ArmFastbootPlatformInit(read, tails)
      PROVE  FbInv'
  <2> DEFINE ps == FlashPartitions
             V == {v \in FbValues : fbDevice[v] # Other}
             Entry(v) == ListEntry(v, tails)
  <2>1. ps \in Seq(FbHandles) /\ \E f : SublistOf(ps, fbPresent, V, Len(fbPresent), f)
    BY <1>1, SublistFacts DEF FlashPartitions, FbTypeOK
  <2>2. \A i \in 1 .. Len(ps) : ps[i] \in V /\ ps[i] \in ToSet(fbPresent)
    BY <2>1 DEF SublistOf, ToSet
  <2>3. UNCHANGED <<fbPresent, fbDevice>> /\ fbWrite' = NoWrite /\ fbGone' = {}
    BY <1>12 DEF ArmFastbootPlatformInit
  <2>4. fbList' = [i \in DOMAIN ps |-> Entry(ps[i])] \/ fbList' = <<>>
    BY <1>12, Zenon DEF ArmFastbootPlatformInit, FreePartitionList
  <2>5. ASSUME NEW v \in V
        PROVE  /\ Entry(v).handle = v /\ Entry(v).number = fbDevice[v] /\ v \in FbValues
               /\ fbDevice[v] \in FbNumbers
               /\ Entry(v).name.kept = fbGpt[fbDevice[v]].kept
               /\ fbGpt[fbDevice[v]].rest = "" => Entry(v).name.rest = ""
    <3>1. fbDevice[v] \in FbNumbers /\ v \in FbValues
      BY <1>1 DEF FbTypeOK, FbDevices
    <3>2. PICK n, t : n = fbDevice[v] /\ t = tails[fbDevice[v]]
      OBVIOUS
    <3>3. CopiedName(n, t).kept = fbGpt[n].kept /\ (fbGpt[n].rest = "" => CopiedName(n, t).rest = "")
      BY CopiedKeeps
    <3>4. Entry(v) = [name |-> CopiedName(n, t), handle |-> v, number |-> n]
      BY <3>2, Zenon DEF ListEntry
    <3>5. Entry(v).handle = v /\ Entry(v).number = n /\ Entry(v).name = CopiedName(n, t)
      <4> HIDE DEF Entry
      <4> QED  BY <3>4
    <3> HIDE DEF Entry
    <3> QED  BY <3>1, <3>2, <3>3, <3>5
  <2> HIDE DEF ps, V, Entry
  <2>6. CASE fbList' = [i \in DOMAIN ps |-> Entry(ps[i])]
    <3>1. DOMAIN ps = 1 .. Len(ps) /\ Len(ps) \in Nat
      BY <2>1
    <3>2. Len(fbList') = Len(ps)
      BY <2>6, <3>1
    <3>3. \A i \in 1 .. Len(fbList') : fbList'[i] = Entry(ps[i]) /\ ps[i] \in V /\ ps[i] \in ToSet(fbPresent)
      BY <2>2, <2>6, <3>1, <3>2
    <3>4. FbListed'
      <4>1. ASSUME NEW i \in 1 .. Len(fbList') PROVE NamedAfter(fbList[i])'
        <5>1. PICK v : v = ps[i]
          OBVIOUS
        <5>2. fbList'[i] = Entry(v) /\ v \in V
          BY <3>3, <5>1, Zenon
        <5>3. /\ Entry(v).handle \in FbValues /\ Entry(v).number \in FbNumbers
              /\ Entry(v).name.kept = fbGpt[Entry(v).number].kept
              /\ fbGpt[Entry(v).number].rest = "" => Entry(v).name.rest = ""
          <6>1. PICK d : d = fbDevice[v]
            OBVIOUS
          <6>2. /\ Entry(v).handle \in FbValues /\ Entry(v).number = d /\ d \in FbNumbers
                /\ Entry(v).name.kept = fbGpt[d].kept
                /\ fbGpt[d].rest = "" => Entry(v).name.rest = ""
            BY ONLY <2>5, <5>2, <6>1, Zenon
          <6> QED  BY ONLY <6>2, Zenon
        <5>4. fbGpt' = fbGpt
          BY <1>2
        <5> QED  BY <5>2, <5>3, <5>4, Zenon DEF NamedAfter
      <4> QED  BY <4>1 DEF FbListed
    <3>5. FbStays'
      <4>1. ASSUME NEW i \in 1 .. Len(fbList') PROVE Stays(fbList[i])'
        <5>1. Entry(ps[i]).handle = ps[i] /\ Entry(ps[i]).number = fbDevice[ps[i]]
          BY <2>5, <3>3
        <5> QED  BY <2>3, <3>3, <5>1 DEF Stays
      <4> QED  BY <4>1 DEF FbStays
    <3> QED  BY <1>5, <1>7, <2>3, <3>4, <3>5 DEF FbInv
  <2> QED  BY <1>5, <1>6, <1>7, <2>3, <2>4, <2>6 DEF FbInv
<1>13. ASSUME NEW name \in FbLabels, NEW size \in FbSizes, ArmFastbootPlatformFlashPartition(name, size)
      PROVE  FbInv'
  <2> DEFINE found == Matching(name)
             handle == fbList[found].handle
             write == [device |-> fbDevice[handle], size |-> size, name |-> name,
                       number |-> fbList[found].number, stayed |-> handle \notin fbGone]
  <2>1. UNCHANGED <<fbList, fbPresent, fbGone, fbDevice>>
    BY <1>13 DEF ArmFastbootPlatformFlashPartition, FlashEnds
  <2>2. \/ fbWrite' = NoWrite
        \/ found # 0 /\ Fits(handle, size) /\ fbWrite' = write
    BY <1>13, Zenon DEF ArmFastbootPlatformFlashPartition
  <2>3. CASE found # 0 /\ Fits(handle, size) /\ fbWrite' = write
    <3>1. found \in 1 .. Len(fbList) /\ fbList[found].name = name
      BY <2>3, MatchingFound
    <3>2. NamedAfter(fbList[found]) /\ Stays(fbList[found])
      BY <1>1, <3>1 DEF FbListed, FbStays
    <3> HIDE DEF found
    <3>3. /\ fbDevice[handle] \in FbDevices /\ fbSize[fbDevice[handle]] \in Nat /\ size \in Nat
          /\ fbSize[fbDevice[handle]] >= size
      BY <1>1, <2>3, <3>2, FastBootAssumption DEF NamedAfter, Fits, FbTypeOK
    <3>4. FbWritesNamed'
      <4>1. /\ fbWrite'.device = fbDevice[handle] /\ fbWrite'.size = size /\ fbWrite'.name = name
            /\ fbWrite'.number = fbList[found].number /\ fbWrite'.stayed = (handle \notin fbGone)
        BY <2>3
      <4>2. /\ fbGpt[fbWrite'.number].kept = fbWrite'.name.kept
            /\ fbGpt[fbWrite'.number].rest = "" => fbWrite'.name.rest = ""
        BY <3>1, <3>2, <4>1 DEF NamedAfter
      <4>3. fbWrite'.size <= fbSize[fbWrite'.device]
        BY <3>3, <4>1
      <4>4. fbWrite'.stayed => fbWrite'.device = fbWrite'.number
        BY <3>2, <4>1 DEF Stays
      <4> QED  BY <1>2, <4>2, <4>3, <4>4 DEF FbWritesNamed
    <3> QED  BY <1>3, <1>4, <1>7, <2>1, <3>4 DEF FbInv
  <2> QED  BY <1>3, <1>4, <1>5, <1>7, <2>1, <2>2, <2>3 DEF FbInv
<1>14. CASE ArmFastbootPlatformErasePartition \/ ArmFastbootPlatformGetVar
           \/ \E c \in {"Demonstrate", "other"} : ArmFastbootPlatformOemCommand(c)
  <2>1. UNCHANGED <<fbList, fbPresent, fbGone, fbDevice>> /\ fbWrite' = NoWrite
    BY <1>14 DEF ArmFastbootPlatformErasePartition, ArmFastbootPlatformGetVar, ArmFastbootPlatformOemCommand, FlashEnds
  <2> QED  BY <1>3, <1>4, <1>5, <1>7, <2>1 DEF FbInv
<1>15. ASSUME NEW v \in FbValues, HandleGoes(v)
      PROVE  FbInv'
  <2> DEFINE S == ToSet(fbPresent) \ {v}
             ps == Sublist(fbPresent, S)
  <2>1. UNCHANGED <<fbList, fbDevice>> /\ fbWrite' = NoWrite /\ fbPresent' = ps /\ fbGone' = fbGone \cup {v}
    BY <1>15 DEF HandleGoes
  <2>2. ps \in Seq(FbHandles) /\ \E f : SublistOf(ps, fbPresent, S, Len(fbPresent), f)
    BY <1>1, SublistFacts DEF FbTypeOK
  <2> HIDE DEF ps
  <2>3. ASSUME NEW x \in S PROVE x \in ToSet(ps)
    <3>1. PICK f : SublistOf(ps, fbPresent, S, Len(fbPresent), f)
      BY <2>2
    <3>2. PICK k \in 1 .. Len(fbPresent) : fbPresent[k] = x
      BY DEF ToSet
    <3>3. PICK i \in 1 .. Len(ps) : f[i] = k
      BY <3>1, <3>2, Zenon DEF SublistOf
    <3>4. ps[i] = x
      BY <3>1, <3>2, <3>3, Zenon DEF SublistOf
    <3> QED  BY <2>2, <3>4 DEF ToSet
  <2>4. FbTypeOK'
    BY <1>1, <1>2, <2>1, <2>2 DEF FbTypeOK
  <2>5. FbStays'
    BY <1>1, <2>1, <2>3 DEF FbStays, Stays
  <2> QED  BY <1>3, <1>5, <2>1, <2>4, <2>5 DEF FbInv
<1>16. ASSUME NEW v \in FbValues, NEW d \in FbDevices, HandleComes(v, d)
      PROVE  FbInv'
  <2>1. /\ UNCHANGED <<fbList, fbGone>> /\ fbWrite' = NoWrite /\ v \notin ToSet(fbPresent)
        /\ fbPresent' = Append(fbPresent, v) /\ fbDevice' = [fbDevice EXCEPT ![v] = d]
    BY <1>16 DEF HandleComes
  <2>2. Append(fbPresent, v) \in Seq(FbHandles) /\ ToSet(fbPresent) \subseteq ToSet(Append(fbPresent, v))
    BY <1>1 DEF FbHandles, FbTypeOK, ToSet
  <2>3. FbTypeOK'
    BY <1>1, <1>2, <2>1, <2>2 DEF FbTypeOK
  <2>4. FbStays'
    <3>1. ASSUME NEW i \in 1 .. Len(fbList), fbList[i].handle \notin fbGone
          PROVE  fbList[i].handle \in ToSet(fbPresent') /\ fbDevice'[fbList[i].handle] = fbList[i].number
      <4>1. fbList[i].handle \in ToSet(fbPresent) /\ fbDevice[fbList[i].handle] = fbList[i].number
            /\ fbList[i].handle \in FbValues
        BY <1>1, <3>1 DEF FbStays, Stays, FbListed, NamedAfter
      <4> QED  BY <1>1, <2>1, <2>2, <4>1 DEF FbTypeOK
    <3> QED  BY <2>1, <3>1 DEF FbStays, Stays
  <2> QED  BY <1>3, <1>5, <2>1, <2>3, <2>4 DEF FbInv
<1> QED  BY <1>8, <1>9, <1>10, <1>11, <1>12, <1>13, <1>14, <1>15, <1>16 DEF FbNext

\* For every number of partitions, all labels and sizes, and handles whose values are
\* used again: an image goes only to the device of a handle that was listed for a
\* partition with the requested label, as far as labels are copied, and fits into it;
\* and the device is that partition unless the handle went since the list was made.
THEOREM FbWritesNamedHolds == FbSpec => []FbWritesNamed
<1>1. FbInit => FbInv
  <2> SUFFICES ASSUME FbInit PROVE FbInv
    OBVIOUS
  <2>1. fbPresent \in Seq(FbHandles)
    <3>1. <<Other>> \in Seq(FbHandles)
      BY DEF FbHandles
    <3> QED  BY <3>1, EnumerationIsSeq DEF FbInit
  <2>2. FbTypeOK
    BY <2>1 DEF FbInit, FbTypeOK
  <2>3. FbWritesNamed /\ FbListed /\ FbStays
    BY DEF FbInit, FbWritesNamed, FbListed, FbStays
  <2> QED  BY <2>2, <2>3 DEF FbInv
<1>2. FbInv => FbWritesNamed
  BY DEF FbInv
<1> QED  BY <1>1, <1>2, FbStep, PTL DEF FbSpec
=================================================================================
