--------------------------- MODULE SdMmcCommandProofs ---------------------------
(*****************************************************************************)
(* Proofs about the SD/MMC command protocol: what a command that reports     *)
(* success has really done, however commands, recoveries and initialisations *)
(* of the slot nest.                                                         *)
(*****************************************************************************)
EXTENDS SdMmcCommand, ListLemmas

Kinds  == {"none", "SoftReset", "ReadSingle", "ReadMulti", "WriteSingle", "WriteMulti", "GetDevInfo",
           "RpmbProgramKeyRequest", "RpmbReadCounterRequest", "RpmbAuthenticatedWriteRequest",
           "RpmbAuthenticatedReadRequest"}
Callees == {"SdhcSendCommand", "SdhcSendDataCommand", "SdhcWaitForTranState", "SdhcRecoverFromErrors",
            "InitializeDevice", "SdhcQueryCardType", "SdhcSendOpCond", "HostExt", "Check",
            "SdhcSendOpCondSd", "InitializeSdDevice", "InitializeMmcDevice", "SdhcSwitchBusWidthSd",
            "SdhcSwitchSpeedModeMmc", "SwitchPowerClass", "SdhcSwitchBusWidthMmc",
            "SdhcSwitchPartitionMmc", "RpmbRequest", "OpteeRpcCmdRpmb", "ByFunction", "PowerClass"}
Procs  == Kinds \cup Callees
Codes  == {"none", "GoIdle", "IfCond", "OpCondSdio", "CidAll", "Select", "SendStatus", "Stop",
           "SetBlockLength", "SetBlockCount", "OcrSd", "OpCondSd", "OpCondMmc", "RelativeAddr", "Cid",
           "Csd", "BusWidthSd", "ExtCsd", "SwitchHs", "SwitchPower", "SwitchWidth", "SwitchRpmb",
           "SwitchBack", "ReadSingle", "ReadMulti", "WriteSingle", "WriteMulti", "RpmbSend", "RpmbAsk",
           "RpmbFetch", "ResetAll", "ClockIdent", "Width4", "Width8", "MaxClock", "zero", "rca", "spec",
           "mode", "hs", "power", "enough", "unsupported", "done", "Rpmb", "Back"}
Labels == {"begin", "waited", "failed", "data", "moved", "stopped", "exit", "polled", "lines", "after",
           "reset", "status", "stop", "inited", "idled", "ifcond", "sdio", "idled2", "mmc", "switched",
           "served", "back", "backFailed"}
FrameType == [p : Procs, c : Codes, at : Labels, n : Nat]


\* The transfers of an RPMB request.
RpmbCodes == {"RpmbSend", "RpmbAsk", "RpmbFetch"}

\* The fields the invariant reads.
Fields ==
  /\ {"id", "st", "part", "count", "closed", "busy", "asked"} \subseteq DOMAIN card
  /\ {"ext", "cur", "st", "cid", "rpmb"} \subseteq DOMAIN host
  /\ {"kind", "part", "written", "answer"} \subseteq DOMAIN req /\ req.kind \in Kinds

\* The calls of the host controller's driver, and where the two procedures wait that are
\* told apart by where they are.
HostCodes   == {"ResetAll", "ClockIdent", "Width4", "Width8", "MaxClock"}
QueryLabels == {"begin", "idled", "ifcond", "sdio", "idled2", "mmc"}
RpmbLabels  == {"begin", "switched", "served", "back", "backFailed"}

\* A frame by itself.
FrameOK(f) ==
  /\ f.p = "SdhcSendCommand" /\ f.at = "waited" => f.c \in Switches
  /\ f.p = "HostExt" => f.c \in HostCodes
  /\ f.p = "SdhcQueryCardType" => f.at \in QueryLabels
  /\ f.p = "RpmbRequest" => f.at \in RpmbLabels
  /\ f.p \in Sequenced => f.n <= Len(Body(f))

\* A frame f and what it has called, procedure p with code c, which is the frame above it
\* or has just returned, while a request of kind q is served.
Waits(f, p, c, q) ==
  /\ f.p = "SdhcSendCommand" /\ f.at = "waited" => p = "SdhcWaitForTranState"
  /\ f.p = "SdhcSendCommand" /\ f.at = "failed" => p = "SdhcRecoverFromErrors"
  /\ f.p = "SdhcSendDataCommand" /\ f.at = "waited" => p = "SdhcWaitForTranState"
  /\ f.p = "SdhcSendDataCommand" /\ f.at = "stopped" => p = "SdhcSendCommand" /\ c = "Stop"
  /\ f.p = "SdhcSendDataCommand" /\ f.at = "failed" => p = "SdhcRecoverFromErrors"
  /\ f.p = "SdhcWaitForTranState" /\ f.at = "polled" => p = "SdhcSendCommand" /\ c = "SendStatus"
  /\ f.p = "SoftReset" /\ f.at = "inited" => p = "InitializeDevice"
  /\ f.p = "RpmbRequest" /\ f.at = "switched" => p = "SdhcSwitchPartitionMmc" /\ c = "Rpmb"
  /\ f.p = "RpmbRequest" /\ f.at = "served" => p = q /\ q \in RpmbRequests
  /\ f.p = "RpmbRequest" /\ f.at = "back" => p = "SdhcSwitchPartitionMmc" /\ c = "Back"
  /\ f.p = "OpteeRpcCmdRpmb" /\ f.at = "served" =>
       (p = "RpmbRequest" /\ q \in RpmbRequests) \/ (p = "Check" /\ c = "unsupported")

\* The same for the sequences.
Counts(f, p, c) ==
  /\ f.p = "SdhcSwitchPartitionMmc" /\ f.n = 2 => p = "SdhcSendDataCommand" /\ c = "ExtCsd"
  /\ f.p = "SdhcSwitchPartitionMmc" /\ f.n = 3 => p = "Check" /\ c = f.c
  /\ f.p \in {"InitializeSdDevice", "InitializeMmcDevice"} /\ f.n = 4 => p = "SdhcSendCommand" /\ c = "Cid"
  /\ f.p = "InitializeDevice" /\ f.n = 5 =>
       p \in {"InitializeSdDevice", "InitializeMmcDevice"} \/ (p = "Check" /\ c = "unsupported")
  /\ f.p \in RpmbRequests /\ f.n > 0 => p = Body(f)[f.n].p /\ c = Body(f)[f.n].c

\* Who calls the parts of an RPMB request.
Called(f, p, c) ==
  /\ f.p # "Check"
  /\ p # "OpteeRpcCmdRpmb"
  /\ p = "RpmbRequest" => f.p = "OpteeRpcCmdRpmb" /\ f.at = "served"
  /\ p \in RpmbRequests => f.p = "RpmbRequest" /\ f.at = "served"
  /\ p = "SdhcSendDataCommand" /\ c \in RpmbCodes => f.p \in RpmbRequests

\* A frame that is not on top has made a call.
Calling(f) ==
  /\ f.p = "SdhcSendCommand" => f.at \in {"waited", "failed"}
  /\ f.p = "SdhcSendDataCommand" => f.at \in {"stopped", "waited", "failed"}
  /\ f.p = "SdhcWaitForTranState" => f.at = "polled"
  /\ f.p = "OpteeRpcCmdRpmb" => f.at = "served"
  /\ f.p = "RpmbRequest" => f.at # "begin"
  /\ f.p \in Sequenced => f.n > 0

Rel(f, p, c, q) == Waits(f, p, c, q) /\ Counts(f, p, c) /\ Called(f, p, c)

FramesInv ==
  /\ stack \in Seq(FrameType)
  /\ Running => /\ stack[1].p \in {"SoftReset", "SdhcSendDataCommand", "OpteeRpcCmdRpmb"}
                /\ stack[1].p = "SdhcSendDataCommand" => stack[1].c \notin RpmbCodes
  /\ \A k \in 1 .. Len(stack) : FrameOK(stack[k])
  /\ \A k \in 1 .. Len(stack) - 1 : Calling(stack[k]) /\ Rel(stack[k], stack[k + 1].p, stack[k + 1].c, req.kind)
  /\ Running => Top.p = "Check" \/ Rel(Top, ret.p, ret.c, req.kind)

\* The driver knows the partition of the card when it looks at what it has read.
Looks(f) == f.p = "Check" /\ f.c \in {"Back", "Rpmb"}
FreshInv == Running /\ Looks(Top) => host.ext.part = card.part

\* What success means.
InUse == card.part = req.part /\ host.cur = req.part
ReturnsInv ==
  ret.s = "OK" =>
    /\ ret.p = "SdhcSendCommand" /\ ret.c = "SendStatus" /\ host.st = "tran" => card.st = "tran"
    /\ ret.p = "SdhcWaitForTranState" => card.st = "tran"
    /\ ret.p = "SdhcSendDataCommand" => card.st = "tran"
    /\ ret.p = "SdhcSendDataCommand" /\ ret.c = "ExtCsd" => host.ext.part = card.part
    /\ ret.p \in {"Check", "SdhcSwitchPartitionMmc"} /\ ret.c = "Back" => InUse
    /\ ret.p \in {"Check", "SdhcSwitchPartitionMmc"} /\ ret.c = "Rpmb" => card.part = "rpmb"
    /\ ret.p = "Check" => ret.c # "unsupported"
    /\ ret.p = "RpmbRequest" => InUse

CommandInv == Fields /\ FramesInv /\ FreshInv /\ ReturnsInv

-------------------------------------------------------------------------------
(* The moves of the stack.                                                   *)

SameBelow == \A k \in 1 .. Len(stack) - 1 : stack'[k] = stack[k]
Popped == stack' \in Seq(FrameType) /\ Len(stack') = Len(stack) - 1 /\ SameBelow
Retopped(f) ==
  /\ stack' \in Seq(FrameType) /\ Len(stack') = Len(stack) /\ SameBelow
  /\ stack'[Len(stack)] = f
Pushed(f, g) ==
  /\ stack' \in Seq(FrameType) /\ Len(stack') = Len(stack) + 1 /\ SameBelow
  /\ stack'[Len(stack)] = f /\ stack'[Len(stack) + 1] = g

\* The running procedure has a frame on top.
LEMMA TopFacts ==
  ASSUME FramesInv, Running
  PROVE  /\ Top \in FrameType /\ Top = stack[Len(stack)] /\ Len(stack) \in Nat \ {0}
         /\ FrameOK(Top) /\ (Top.p = "Check" \/ Rel(Top, ret.p, ret.c, req.kind))
<1>1. Len(stack) \in Nat \ {0} /\ Len(stack) \in 1 .. Len(stack) /\ stack[Len(stack)] \in FrameType
  BY StackTop DEF FramesInv, Running
<1> QED  BY <1>1, Zenon DEF FramesInv, Running, Top

\* A return pops the frame of the procedure.
LEMMA PopMove ==
  ASSUME FramesInv, Running, stack' = Below
  PROVE  Popped
BY StackPop DEF FramesInv, Running, Below, Popped, SameBelow

\* A step within a procedure changes its frame.
LEMMA RetopMove ==
  ASSUME FramesInv, Running, NEW f \in FrameType, stack' = Append(Below, f)
  PROVE  Retopped(f)
<1>1. /\ Below \in Seq(FrameType) /\ Len(Below) = Len(stack) - 1 /\ Len(stack) \in Nat \ {0}
      /\ \A k \in 1 .. Len(stack) - 1 : Below[k] = stack[k]
  BY StackPop DEF FramesInv, Running, Below
<1>2. /\ stack' \in Seq(FrameType) /\ Len(stack') = Len(Below) + 1
      /\ stack'[Len(Below) + 1] = f /\ \A k \in 1 .. Len(Below) : stack'[k] = Below[k]
  BY <1>1, StackPush
<1>3. Len(Below) + 1 = Len(stack)
  BY <1>1
<1> QED  BY <1>1, <1>2, <1>3, Zenon DEF Retopped, SameBelow

\* A call changes the caller's frame and pushes one.
LEMMA CallMove ==
  ASSUME FramesInv, Running, NEW f \in FrameType, NEW g \in FrameType, stack' = Below \o <<f, g>>
  PROVE  Pushed(f, g)
<1>1. /\ Below \in Seq(FrameType) /\ Len(Below) = Len(stack) - 1 /\ Len(stack) \in Nat \ {0}
      /\ \A k \in 1 .. Len(stack) - 1 : Below[k] = stack[k]
  BY StackPop DEF FramesInv, Running, Below
<1>2. <<f, g>> \in Seq(FrameType) /\ Len(<<f, g>>) = 2 /\ <<f, g>>[1] = f /\ <<f, g>>[2] = g
  OBVIOUS
<1>3. /\ stack' \in Seq(FrameType) /\ Len(stack') = Len(Below) + 2
      /\ \A i \in 1 .. Len(stack') :
           stack'[i] = IF i <= Len(Below) THEN Below[i] ELSE <<f, g>>[i - Len(Below)]
  BY <1>1, <1>2, ConcatProperties
<1>4. Len(stack') = Len(stack) + 1
  BY <1>1, <1>3
<1>5. stack'[Len(stack)] = f /\ stack'[Len(stack) + 1] = g
  <2>1. Len(stack) \in 1 .. Len(stack') /\ ~(Len(stack) <= Len(Below)) /\ Len(stack) - Len(Below) = 1
    BY <1>1, <1>3
  <2>2. /\ Len(stack) + 1 \in 1 .. Len(stack') /\ ~(Len(stack) + 1 <= Len(Below))
        /\ (Len(stack) + 1) - Len(Below) = 2
    BY <1>1, <1>3
  <2>3. stack'[Len(stack)] = <<f, g>>[Len(stack) - Len(Below)]
    BY <2>1, <1>3, Zenon
  <2>4. stack'[Len(stack) + 1] = <<f, g>>[(Len(stack) + 1) - Len(Below)]
    BY <2>2, <1>3, Zenon
  <2> QED  BY <2>1, <2>2, <2>3, <2>4, <1>2, Zenon
<1>6. SameBelow
  BY <1>1, <1>3 DEF SameBelow
<1> QED  BY <1>3, <1>4, <1>5, <1>6 DEF Pushed

\* After a return the caller finds what it waited for.
LEMMA PopKeeps ==
  ASSUME FramesInv, Running, Popped, NEW s, ret' = [p |-> Top.p, c |-> Top.c, s |-> s],
         req'.kind = req.kind
  PROVE  FramesInv' /\ (Running' => Top'.p # "Check")
<1> DEFINE n == Len(stack)
           q == req.kind
<1>1. n \in Nat \ {0} /\ Len(stack') = n - 1 /\ Top = stack[n] /\ stack' \in Seq(FrameType)
  BY TopFacts DEF Popped
<1>2. \A k \in 1 .. n - 1 : stack'[k] = stack[k] /\ k \in 1 .. n
  BY <1>1 DEF Popped, SameBelow
<1>3. /\ \A k \in 1 .. n : FrameOK(stack[k])
      /\ \A k \in 1 .. n - 1 : Calling(stack[k]) /\ Rel(stack[k], stack[k + 1].p, stack[k + 1].c, q)
      /\ stack[1].p \in {"SoftReset", "SdhcSendDataCommand", "OpteeRpcCmdRpmb"}
      /\ stack[1].p = "SdhcSendDataCommand" => stack[1].c \notin RpmbCodes
  BY DEF FramesInv
<1> HIDE DEF n, q
<1>4. \A k \in 1 .. Len(stack') : FrameOK(stack'[k])
  BY <1>1, <1>2, <1>3, Zenon
<1>5. ASSUME NEW k \in 1 .. Len(stack') - 1
      PROVE  Calling(stack'[k]) /\ Rel(stack'[k], stack'[k + 1].p, stack'[k + 1].c, q)
  <2>1. k \in 1 .. n - 1 /\ k + 1 \in 1 .. n - 1
    BY <1>1
  <2> QED  BY <2>1, <1>2, <1>3, Zenon
<1>6. CASE stack' = <<>>
  <2>1. ~Running'
    BY <1>6 DEF Running
  <2> QED  BY <2>1, <1>1, <1>4, <1>5, Zenon DEF FramesInv, q
<1>7. CASE stack' # <<>>
  <2>1. n - 1 \in 1 .. n - 1 /\ (n - 1) + 1 = n /\ 1 \in 1 .. n - 1
    BY <1>1, <1>7, StackTop
  <2>2. stack'[n - 1] = stack[n - 1] /\ stack'[1] = stack[1] /\ Top' = stack'[n - 1]
    BY <2>1, <1>1, <1>2, Zenon DEF Top
  <2>3. Rel(stack[n - 1], Top.p, Top.c, q)
    BY <2>1, <1>1, <1>3, Zenon
  <2>4. ret'.p = Top.p /\ ret'.c = Top.c
    OBVIOUS
  <2>5. Rel(Top', ret'.p, ret'.c, q)
    BY <2>2, <2>3, <2>4, Zenon
  <2>6. Top'.p # "Check"
    BY <2>5, Zenon DEF Rel, Called
  <2> QED  BY <2>2, <2>5, <2>6, <1>1, <1>3, <1>4, <1>5, Zenon DEF FramesInv, q
<1> QED  BY <1>6, <1>7

\* A step of the procedure on top.
LEMMA RetopKeeps ==
  ASSUME FramesInv, Running, NEW f, Retopped(f), f.p = Top.p, f.c = Top.c, FrameOK(f),
         Rel(f, ret'.p, ret'.c, req.kind), req'.kind = req.kind
  PROVE  FramesInv' /\ Running' /\ Top' = f
<1> DEFINE n == Len(stack)
           q == req.kind
<1>1. n \in Nat \ {0} /\ Len(stack') = n /\ Top = stack[n] /\ stack' \in Seq(FrameType) /\ stack'[n] = f
  BY TopFacts DEF Retopped
<1>2. \A k \in 1 .. n - 1 : stack'[k] = stack[k] /\ k \in 1 .. n
  BY <1>1 DEF Retopped, SameBelow
<1>3. /\ \A k \in 1 .. n : FrameOK(stack[k])
      /\ \A k \in 1 .. n - 1 : Calling(stack[k]) /\ Rel(stack[k], stack[k + 1].p, stack[k + 1].c, q)
      /\ stack[1].p \in {"SoftReset", "SdhcSendDataCommand", "OpteeRpcCmdRpmb"}
      /\ stack[1].p = "SdhcSendDataCommand" => stack[1].c \notin RpmbCodes
  BY DEF FramesInv
<1>4. stack' # <<>> /\ Top' = f
  BY <1>1 DEF Top
<1> HIDE DEF n, q
<1>5. \A k \in 1 .. n : (k = n \/ k \in 1 .. n - 1) /\ (k \in 1 .. n - 1 => (k + 1 = n \/ k + 1 \in 1 .. n - 1))
  BY <1>1
<1>6. \A k \in 1 .. Len(stack') : FrameOK(stack'[k])
  BY <1>1, <1>2, <1>3, <1>5, Zenon
<1>7. ASSUME NEW k \in 1 .. Len(stack') - 1
      PROVE  Calling(stack'[k]) /\ Rel(stack'[k], stack'[k + 1].p, stack'[k + 1].c, q)
  <2>1. k \in 1 .. n - 1 /\ (k + 1 = n \/ k + 1 \in 1 .. n - 1)
    BY <1>1, <1>2, <1>5
  <2>2. stack'[k + 1].p = stack[k + 1].p /\ stack'[k + 1].c = stack[k + 1].c
    BY <2>1, <1>1, <1>2, Zenon
  <2> QED  BY <2>1, <2>2, <1>2, <1>3, Zenon
<1>8. /\ stack'[1].p \in {"SoftReset", "SdhcSendDataCommand", "OpteeRpcCmdRpmb"}
      /\ stack'[1].p = "SdhcSendDataCommand" => stack'[1].c \notin RpmbCodes
  <2>1. 1 = n \/ 1 \in 1 .. n - 1
    BY <1>1
  <2> QED  BY <2>1, <1>1, <1>2, <1>3, Zenon
<1> QED  BY <1>1, <1>4, <1>6, <1>7, <1>8, Zenon DEF FramesInv, Running, q

\* A call of the procedure on top.
LEMMA CallKeeps ==
  ASSUME FramesInv, Running, NEW f, NEW g, Pushed(f, g), f.p = Top.p, f.c = Top.c, FrameOK(f), FrameOK(g),
         Calling(f), Rel(f, g.p, g.c, req.kind), g.p = "Check" \/ Rel(g, ret'.p, ret'.c, req.kind),
         req'.kind = req.kind
  PROVE  FramesInv' /\ Running' /\ Top' = g
<1> DEFINE n == Len(stack)
           q == req.kind
<1>1. /\ n \in Nat \ {0} /\ Len(stack') = n + 1 /\ Top = stack[n] /\ stack' \in Seq(FrameType)
      /\ stack'[n] = f /\ stack'[n + 1] = g
  BY TopFacts DEF Pushed
<1>2. \A k \in 1 .. n - 1 : stack'[k] = stack[k] /\ k \in 1 .. n
  BY <1>1 DEF Pushed, SameBelow
<1>3. /\ \A k \in 1 .. n : FrameOK(stack[k])
      /\ \A k \in 1 .. n - 1 : Calling(stack[k]) /\ Rel(stack[k], stack[k + 1].p, stack[k + 1].c, q)
      /\ stack[1].p \in {"SoftReset", "SdhcSendDataCommand", "OpteeRpcCmdRpmb"}
      /\ stack[1].p = "SdhcSendDataCommand" => stack[1].c \notin RpmbCodes
  BY DEF FramesInv
<1>4. stack' # <<>> /\ Top' = g
  BY <1>1 DEF Top
<1> HIDE DEF n, q
<1>5. \A k \in 1 .. n + 1 : k = n + 1 \/ k = n \/ k \in 1 .. n - 1
  BY <1>1
<1>6. \A k \in 1 .. Len(stack') : FrameOK(stack'[k])
  BY <1>1, <1>2, <1>3, <1>5, Zenon
<1>7. ASSUME NEW k \in 1 .. Len(stack') - 1
      PROVE  Calling(stack'[k]) /\ Rel(stack'[k], stack'[k + 1].p, stack'[k + 1].c, q)
  <2>1. k = n \/ (k \in 1 .. n - 1 /\ (k + 1 = n \/ k + 1 \in 1 .. n - 1))
    BY <1>1
  <2>2. CASE k = n
    BY <2>2, <1>1, Zenon DEF q
  <2>3. CASE k \in 1 .. n - 1 /\ (k + 1 = n \/ k + 1 \in 1 .. n - 1)
    <3>1. stack'[k + 1].p = stack[k + 1].p /\ stack'[k + 1].c = stack[k + 1].c
      BY <2>3, <1>1, <1>2, Zenon
    <3> QED  BY <2>3, <3>1, <1>2, <1>3, Zenon
  <2> QED  BY <2>1, <2>2, <2>3
<1>8. /\ stack'[1].p \in {"SoftReset", "SdhcSendDataCommand", "OpteeRpcCmdRpmb"}
      /\ stack'[1].p = "SdhcSendDataCommand" => stack'[1].c \notin RpmbCodes
  <2>1. 1 = n \/ 1 \in 1 .. n - 1
    BY <1>1
  <2> QED  BY <2>1, <1>1, <1>2, <1>3, Zenon
<1> QED  BY <1>1, <1>4, <1>6, <1>7, <1>8, Zenon DEF FramesInv, Running, q

-------------------------------------------------------------------------------
(* Frames.                                                                   *)

\* A frame that has just been pushed.
Fresh(g) ==
  /\ g \in FrameType /\ g.at = "begin" /\ g.n = 0
  /\ g.p = "HostExt" => g.c \in HostCodes
\* What a new frame is.
LEMMA NewFrame ==
  ASSUME NEW p \in Procs, NEW c \in Codes, p = "HostExt" => c \in HostCodes
  PROVE  LET g == Frame(p, c) IN Fresh(g) /\ g.p = p /\ g.c = c
BY DEF Frame, FrameType, Fresh, Labels

\* A jump.
LEMMA FrameAt ==
  ASSUME NEW t \in FrameType, NEW l \in Labels
  PROVE  LET f == [t EXCEPT !.at = l]
         IN f \in FrameType /\ f.p = t.p /\ f.c = t.c /\ f.at = l /\ f.n = t.n
BY DEF FrameType

\* One more turn of a loop.
LEMMA FrameTurn ==
  ASSUME NEW t \in FrameType, NEW l \in Labels
  PROVE  LET f == [t EXCEPT !.at = l, !.n = @ + 1]
         IN f \in FrameType /\ f.p = t.p /\ f.c = t.c /\ f.at = l /\ f.n = t.n + 1
<1>1. t.n + 1 \in Nat
  BY DEF FrameType
<1>2. \A m \in Nat : LET f == [t EXCEPT !.at = l, !.n = m]
                     IN f \in FrameType /\ f.p = t.p /\ f.c = t.c /\ f.at = l /\ f.n = m
  BY DEF FrameType
<1> QED  BY <1>1, <1>2, Zenon
\* One more call.
LEMMA FrameCount ==
  ASSUME NEW t \in FrameType
  PROVE  LET f == [t EXCEPT !.n = @ + 1]
         IN f \in FrameType /\ f.p = t.p /\ f.c = t.c /\ f.at = t.at /\ f.n = t.n + 1
BY DEF FrameType

RpmbReads  == {"RpmbReadCounterRequest", "RpmbAuthenticatedReadRequest"}
RpmbWrites == {"RpmbProgramKeyRequest", "RpmbAuthenticatedWriteRequest"}

\* The packets of an RPMB request, a block count before each.
IsPackets(s, m) ==
  /\ s[1] = SdhcSetBlockCount /\ s[2] = Data("RpmbSend") /\ s[3] = SdhcSetBlockCount
  /\ m = 4 => s[4] = Data("RpmbFetch")
  /\ m = 6 => s[4] = Data("RpmbAsk") /\ s[5] = SdhcSetBlockCount /\ s[6] = Data("RpmbFetch")

\* What holds of the i-th call b of a sequence f.
BodyOK(f, i, b) ==
  /\ Fresh(b)
  /\ b.p \notin RpmbRequests \cup {"RpmbRequest", "OpteeRpcCmdRpmb"}
  /\ b.p = "SdhcSendDataCommand" /\ b.c \in RpmbCodes => f.p \in RpmbRequests
  /\ b.p = "Check" /\ b.c \in {"Back", "Rpmb"} => f.p = "SdhcSwitchPartitionMmc" /\ i = 3
  /\ f.p = "SdhcSwitchPartitionMmc" /\ i = 2 => b.p = "SdhcSendDataCommand" /\ b.c = "ExtCsd"
  /\ f.p = "SdhcSwitchPartitionMmc" /\ i = 3 => b.p = "Check" /\ b.c = f.c
  /\ f.p \in {"InitializeSdDevice", "InitializeMmcDevice"} /\ i = 4 => b.p = "SdhcSendCommand" /\ b.c = "Cid"
  /\ f.p = "InitializeDevice" /\ i = 5 => b.p = "ByFunction"
  /\ f.p \in RpmbRequests => b.p \in {"SdhcSendCommand", "SdhcSendDataCommand"}
BodyLen(f) ==
  CASE f.p = "SdhcSwitchPartitionMmc" -> {3}
    [] f.p = "InitializeDevice"       -> {7}
    [] f.p = "InitializeSdDevice"     -> {8}
    [] f.p = "InitializeMmcDevice"    -> {11}
    [] f.p \in RpmbReads              -> {4}
    [] f.p \in RpmbWrites             -> {6}
    [] OTHER                          -> {2, 3, 4}

\* Two calls in a row, and four.
LEMMA SixPackets ==
  LET s == RpmbWrite \o RpmbQueryResult IN Len(s) = 6 /\ IsPackets(s, 6)
<1> DEFINE S == {SdhcSetBlockCount, Data("RpmbSend"), Data("RpmbAsk"), Data("RpmbFetch")}
           a == RpmbWrite
           b == RpmbQueryResult
<1>1. a \in Seq(S) /\ Len(a) = 2 /\ a[1] = SdhcSetBlockCount /\ a[2] = Data("RpmbSend")
  BY DEF RpmbWrite
<1>2. /\ b \in Seq(S) /\ Len(b) = 4 /\ b[1] = SdhcSetBlockCount /\ b[2] = Data("RpmbAsk")
      /\ b[3] = SdhcSetBlockCount /\ b[4] = Data("RpmbFetch")
  BY DEF RpmbQueryResult
<1> HIDE DEF S, a, b
<1>3. Len(a \o b) = Len(a) + Len(b)
  BY <1>1, <1>2, ConcatProperties
<1>4. \A i \in 1 .. Len(a) + Len(b) : (a \o b)[i] = IF i <= Len(a) THEN a[i] ELSE b[i - Len(a)]
  BY <1>1, <1>2, <1>3, ConcatProperties, Zenon
<1>5. Len(a) + Len(b) = 6
  BY <1>1, <1>2
<1> DEFINE s == a \o b
<1>6. Len(s) = 6 /\ \A i \in 1 .. 6 : s[i] = IF i <= 2 THEN a[i] ELSE b[i - 2]
  BY <1>1, <1>3, <1>4, <1>5, Zenon
<1> HIDE DEF s
<1>7. IsPackets(s, 6)
  BY <1>1, <1>2, <1>6 DEF IsPackets
<1> QED  BY <1>6, <1>7 DEF s, a, b

\* A frame of procedure p with code c.
Is(b, p, c) == Fresh(b) /\ b.p = p /\ b.c = c

\* The frames the sequences push.
LEMMA BodyFrames ==
  /\ Is(Chk("zero"), "Check", "zero")
  /\ Is(Chk("rca"), "Check", "rca")
  /\ Is(Chk("spec"), "Check", "spec")
  /\ Is(Chk("done"), "Check", "done")
  /\ Is(Chk("mode"), "Check", "mode")
  /\ Is(Chk("hs"), "Check", "hs")
  /\ Is(Chk("power"), "Check", "power")
  /\ Is(Ext("ResetAll"), "HostExt", "ResetAll")
  /\ Is(Ext("ClockIdent"), "HostExt", "ClockIdent")
  /\ Is(Ext("MaxClock"), "HostExt", "MaxClock")
  /\ Is(Ext("Width4"), "HostExt", "Width4")
  /\ Is(Ext("Width8"), "HostExt", "Width8")
  /\ Is(Proc("SdhcQueryCardType"), "SdhcQueryCardType", "none")
  /\ Is(Proc("ByFunction"), "ByFunction", "none")
  /\ Is(Proc("SdhcSendOpCondSd"), "SdhcSendOpCondSd", "none")
  /\ Is(Proc("SdhcSwitchBusWidthSd"), "SdhcSwitchBusWidthSd", "none")
  /\ Is(Proc("SdhcSwitchSpeedModeMmc"), "SdhcSwitchSpeedModeMmc", "none")
  /\ Is(Proc("SdhcSwitchBusWidthMmc"), "SdhcSwitchBusWidthMmc", "none")
  /\ Is(Proc("PowerClass"), "PowerClass", "none")
  /\ Is(Cmd("SetBlockLength"), "SdhcSendCommand", "SetBlockLength")
  /\ Is(Cmd("CidAll"), "SdhcSendCommand", "CidAll")
  /\ Is(Cmd("Select"), "SdhcSendCommand", "Select")
  /\ Is(Cmd("SetBlockCount"), "SdhcSendCommand", "SetBlockCount")
  /\ Is(Cmd("OcrSd"), "SdhcSendCommand", "OcrSd")
  /\ Is(Cmd("RelativeAddr"), "SdhcSendCommand", "RelativeAddr")
  /\ Is(Cmd("Cid"), "SdhcSendCommand", "Cid")
  /\ Is(Cmd("Csd"), "SdhcSendCommand", "Csd")
  /\ Is(Cmd("BusWidthSd"), "SdhcSendCommand", "BusWidthSd")
  /\ Is(Cmd("SwitchHs"), "SdhcSendCommand", "SwitchHs")
  /\ Is(Cmd("SwitchPower"), "SdhcSendCommand", "SwitchPower")
  /\ Is(Cmd("SwitchWidth"), "SdhcSendCommand", "SwitchWidth")
  /\ Is(Cmd("SwitchRpmb"), "SdhcSendCommand", "SwitchRpmb")
  /\ Is(Cmd("SwitchBack"), "SdhcSendCommand", "SwitchBack")
  /\ Is(Data("ExtCsd"), "SdhcSendDataCommand", "ExtCsd")
  /\ Is(Data("RpmbSend"), "SdhcSendDataCommand", "RpmbSend")
  /\ Is(Data("RpmbAsk"), "SdhcSendDataCommand", "RpmbAsk")
  /\ Is(Data("RpmbFetch"), "SdhcSendDataCommand", "RpmbFetch")
  /\ Is(Frame("SdhcSendOpCond", "OpCondSd"), "SdhcSendOpCond", "OpCondSd")
<1> DEFINE P == Procs \ {"HostExt"}
<1>1. /\ \A p \in P, c \in Codes : Is(Frame(p, c), p, c)
      /\ \A c \in HostCodes : Is(Frame("HostExt", c), "HostExt", c)
  BY NewFrame DEF Is, HostCodes, Codes, Procs, Callees
<1>2. /\ "zero" \in Codes /\ "rca" \in Codes /\ "spec" \in Codes /\ "done" \in Codes
      /\ "mode" \in Codes /\ "hs" \in Codes /\ "power" \in Codes /\ "ResetAll" \in HostCodes
      /\ "ClockIdent" \in HostCodes /\ "MaxClock" \in HostCodes /\ "Width4" \in HostCodes /\ "Width8" \in HostCodes
      /\ "SetBlockLength" \in Codes /\ "CidAll" \in Codes /\ "Select" \in Codes
      /\ "SetBlockCount" \in Codes /\ "OcrSd" \in Codes /\ "RelativeAddr" \in Codes
      /\ "Cid" \in Codes /\ "Csd" \in Codes /\ "BusWidthSd" \in Codes /\ "SwitchHs" \in Codes
      /\ "SwitchPower" \in Codes /\ "SwitchWidth" \in Codes /\ "SwitchRpmb" \in Codes
      /\ "SwitchBack" \in Codes /\ "ExtCsd" \in Codes /\ "RpmbSend" \in Codes /\ "RpmbAsk" \in Codes
      /\ "RpmbFetch" \in Codes /\ "OpCondSd" \in Codes /\ "none" \in Codes
  BY DEF Codes, HostCodes
<1> HIDE DEF P
<1>3. /\ "SdhcQueryCardType" \in P /\ "ByFunction" \in P /\ "SdhcSendOpCondSd" \in P
      /\ "SdhcSwitchBusWidthSd" \in P /\ "SdhcSwitchSpeedModeMmc" \in P
      /\ "SdhcSwitchBusWidthMmc" \in P /\ "PowerClass" \in P /\ "SdhcSendCommand" \in P
      /\ "SdhcSendDataCommand" \in P /\ "Check" \in P
      /\ "SdhcSendOpCond" \in P
  BY DEF Procs, Callees, P
<1> QED  BY <1>1, <1>2, <1>3, Zenon DEF Cmd, Data, Ext, Chk, Proc

\* The sequences of the driver.
LEMMA BodyFacts ==
  ASSUME NEW f \in FrameType, f.p \in Sequenced
  PROVE  /\ Len(Body(f)) \in BodyLen(f)
         /\ \A i \in 1 .. Len(Body(f)) : BodyOK(f, i, Body(f)[i])
         /\ f.p \in RpmbRequests => IsPackets(Body(f), Len(Body(f)))
<1> USE DEF RpmbRequests, RpmbReads, RpmbWrites
<1>1. CASE f.p = "InitializeDevice"
  <2>1. Body(f) = InitializeDevice /\ BodyLen(f) = {7} /\ f.p \notin RpmbRequests
    BY <1>1 DEF Body, BodyLen
  <2>2. Len(InitializeDevice) = 7
    BY DEF InitializeDevice
  <2>3. \A i \in 1 .. 7 : BodyOK(f, i, InitializeDevice[i])
    BY <1>1, BodyFrames DEF InitializeDevice, BodyOK, Is, RpmbCodes, SdhcSetBlockLength, SdhcSendCidAll, SdhcSelectDevice
  <2> QED  BY <2>1, <2>2, <2>3
<1>2. CASE f.p = "SdhcSendOpCondSd"
  <2>1. Body(f) = SdhcSendOpCondSd /\ BodyLen(f) = {2, 3, 4} /\ f.p \notin RpmbRequests
    BY <1>2 DEF Body, BodyLen
  <2>2. Len(SdhcSendOpCondSd) = 2
    BY DEF SdhcSendOpCondSd
  <2>3. \A i \in 1 .. 2 : BodyOK(f, i, SdhcSendOpCondSd[i])
    BY <1>2, BodyFrames DEF SdhcSendOpCondSd, BodyOK, Is, RpmbCodes, SdhcSetBlockLength, SdhcSendCidAll, SdhcSelectDevice
  <2> QED  BY <2>1, <2>2, <2>3
<1>3. CASE f.p = "InitializeSdDevice"
  <2>1. Body(f) = InitializeSdDevice /\ BodyLen(f) = {8} /\ f.p \notin RpmbRequests
    BY <1>3 DEF Body, BodyLen
  <2>2. Len(InitializeSdDevice) = 8
    BY DEF InitializeSdDevice
  <2>3. \A i \in 1 .. 8 : BodyOK(f, i, InitializeSdDevice[i])
    BY <1>3, BodyFrames DEF InitializeSdDevice, BodyOK, Is, RpmbCodes, SdhcSetBlockLength, SdhcSendCidAll, SdhcSelectDevice
  <2> QED  BY <2>1, <2>2, <2>3
<1>4. CASE f.p = "InitializeMmcDevice"
  <2>1. Body(f) = InitializeMmcDevice /\ BodyLen(f) = {11} /\ f.p \notin RpmbRequests
    BY <1>4 DEF Body, BodyLen
  <2>2. Len(InitializeMmcDevice) = 11
    BY DEF InitializeMmcDevice
  <2>3. \A i \in 1 .. 11 : BodyOK(f, i, InitializeMmcDevice[i])
    BY <1>4, BodyFrames DEF InitializeMmcDevice, BodyOK, Is, RpmbCodes, SdhcSetBlockLength, SdhcSendCidAll, SdhcSelectDevice
  <2> QED  BY <2>1, <2>2, <2>3
<1>5. CASE f.p = "SdhcSwitchBusWidthSd"
  <2>1. Body(f) = SdhcSwitchBusWidthSd /\ BodyLen(f) = {2, 3, 4} /\ f.p \notin RpmbRequests
    BY <1>5 DEF Body, BodyLen
  <2>2. Len(SdhcSwitchBusWidthSd) = 2
    BY DEF SdhcSwitchBusWidthSd
  <2>3. \A i \in 1 .. 2 : BodyOK(f, i, SdhcSwitchBusWidthSd[i])
    BY <1>5, BodyFrames DEF SdhcSwitchBusWidthSd, BodyOK, Is, RpmbCodes, SdhcSetBlockLength, SdhcSendCidAll, SdhcSelectDevice
  <2> QED  BY <2>1, <2>2, <2>3
<1>6. CASE f.p = "SdhcSwitchSpeedModeMmc"
  <2>1. Body(f) = SdhcSwitchSpeedModeMmc /\ BodyLen(f) = {2, 3, 4} /\ f.p \notin RpmbRequests
    BY <1>6 DEF Body, BodyLen
  <2>2. Len(SdhcSwitchSpeedModeMmc) = 4
    BY DEF SdhcSwitchSpeedModeMmc
  <2>3. \A i \in 1 .. 4 : BodyOK(f, i, SdhcSwitchSpeedModeMmc[i])
    BY <1>6, BodyFrames DEF SdhcSwitchSpeedModeMmc, BodyOK, Is, RpmbCodes, SdhcSetBlockLength, SdhcSendCidAll, SdhcSelectDevice
  <2> QED  BY <2>1, <2>2, <2>3
<1>7. CASE f.p = "SwitchPowerClass"
  <2>1. Body(f) = SwitchPowerClass /\ BodyLen(f) = {2, 3, 4} /\ f.p \notin RpmbRequests
    BY <1>7 DEF Body, BodyLen
  <2>2. Len(SwitchPowerClass) = 3
    BY DEF SwitchPowerClass
  <2>3. \A i \in 1 .. 3 : BodyOK(f, i, SwitchPowerClass[i])
    BY <1>7, BodyFrames DEF SwitchPowerClass, BodyOK, Is, RpmbCodes, SdhcSetBlockLength, SdhcSendCidAll, SdhcSelectDevice
  <2> QED  BY <2>1, <2>2, <2>3
<1>8. CASE f.p = "SdhcSwitchBusWidthMmc"
  <2>1. Body(f) = SdhcSwitchBusWidthMmc /\ BodyLen(f) = {2, 3, 4} /\ f.p \notin RpmbRequests
    BY <1>8 DEF Body, BodyLen
  <2>2. Len(SdhcSwitchBusWidthMmc) = 4
    BY DEF SdhcSwitchBusWidthMmc
  <2>3. \A i \in 1 .. 4 : BodyOK(f, i, SdhcSwitchBusWidthMmc[i])
    BY <1>8, BodyFrames DEF SdhcSwitchBusWidthMmc, BodyOK, Is, RpmbCodes, SdhcSetBlockLength, SdhcSendCidAll, SdhcSelectDevice
  <2> QED  BY <2>1, <2>2, <2>3
<1>9. CASE f.p = "SdhcSwitchPartitionMmc"
  <2> DEFINE s == SdhcSwitchPartitionMmc(f.c)
  <2>1. Body(f) = s /\ BodyLen(f) = {3} /\ f.p \notin RpmbRequests
    BY <1>9 DEF Body, BodyLen
  <2>2. Len(s) = 3 /\ s[1] \in {Cmd("SwitchRpmb"), Cmd("SwitchBack")} /\ s[2] = Data("ExtCsd") /\ s[3] = Chk(f.c)
    BY DEF SdhcSwitchPartitionMmc
  <2>3. Is(Chk(f.c), "Check", f.c)
    <3>1. f.c \in Codes /\ "Check" \in Procs
      BY DEF FrameType, Procs, Callees
    <3> QED  BY <3>1, NewFrame DEF Is, Chk
  <2> HIDE DEF s
  <2>4. \A i \in 1 .. 3 : BodyOK(f, i, s[i])
    BY <1>9, <2>2, <2>3, BodyFrames DEF BodyOK, Is, RpmbCodes
  <2> QED  BY <2>1, <2>2, <2>4
<1>10. CASE f.p \in RpmbReads
  <2>1. Body(f) = RpmbRead
    BY <1>10 DEF Body, RpmbReadCounterRequest, RpmbAuthenticatedReadRequest
  <2>2. Len(RpmbRead) = 4
    BY DEF RpmbRead
  <2>3. \A i \in 1 .. 4 : BodyOK(f, i, RpmbRead[i])
    BY <1>10, BodyFrames DEF RpmbRead, BodyOK, RpmbCodes, SdhcSetBlockCount, Is
  <2>4. IsPackets(RpmbRead, 4)
    BY DEF IsPackets, RpmbRead
  <2>5. BodyLen(f) = {4}
    <3>1. f.p = "RpmbReadCounterRequest" \/ f.p = "RpmbAuthenticatedReadRequest"
      BY <1>10
    <3> QED  BY <3>1 DEF BodyLen
  <2> QED  BY <2>1, <2>2, <2>3, <2>4, <2>5
<1>11. CASE f.p \in RpmbWrites
  <2> DEFINE s == RpmbWrite \o RpmbQueryResult
  <2>1. Body(f) = s
    BY <1>11 DEF Body, RpmbProgramKeyRequest, RpmbAuthenticatedWriteRequest
  <2>2. Len(s) = 6 /\ IsPackets(s, 6)
    BY SixPackets
  <2> HIDE DEF s
  <2>3. \A i \in 1 .. 6 : BodyOK(f, i, s[i])
    BY <1>11, <2>2, BodyFrames DEF IsPackets, BodyOK, RpmbCodes, SdhcSetBlockCount, Is
  <2>4. BodyLen(f) = {6}
    BY <1>11 DEF BodyLen
  <2> QED  BY <2>1, <2>2, <2>3, <2>4
<1> QED  BY <1>1, <1>2, <1>3, <1>4, <1>5, <1>6, <1>7, <1>8, <1>9, <1>10, <1>11 DEF Sequenced

\* A sequence has a length.
LEMMA BodyLength ==
  ASSUME NEW f \in FrameType, f.p \in Sequenced
  PROVE  Len(Body(f)) \in 2 .. 11
<1>1. Len(Body(f)) \in BodyLen(f)
  BY BodyFacts
<1>2. BodyLen(f) \subseteq 2 .. 11
  BY DEF BodyLen
<1> QED  BY <1>1, <1>2

\* A frame that has just been pushed has called nobody.
LEMMA FreshRel ==
  ASSUME NEW g, Fresh(g), NEW q
  PROVE  FrameOK(g) /\ (g.p = "Check" \/ Rel(g, "none", "none", q))
<1>1. g \in FrameType /\ g.at = "begin" /\ g.n = 0
  BY DEF Fresh
<1>2. g.p \in Sequenced => g.n <= Len(Body(g))
  BY <1>1, BodyLength
<1>3. FrameOK(g)
  BY <1>1, <1>2 DEF FrameOK, Fresh, QueryLabels, RpmbLabels
<1>4. Waits(g, "none", "none", q) /\ Counts(g, "none", "none")
  BY <1>1 DEF Waits, Counts
<1>5. g.p # "Check" => Called(g, "none", "none")
  BY DEF Called, RpmbRequests
<1> QED  BY <1>3, <1>4, <1>5 DEF Rel

\* Procedures that are no sequences.
Plain(p) == p \in Procs /\ p \notin Sequenced \cup {"Check", "HostExt"}

\* Steps that are no returns say nothing.
NothingReturned == ret' = [p |-> "none", c |-> "none", s |-> "OK"]
\* They leave nothing that a return could have told.
LEMMA NoReturn ==
  ASSUME NothingReturned
  PROVE  ReturnsInv' /\ ret'.p = "none" /\ ret'.c = "none" /\ ret'.s = "OK"
BY DEF NothingReturned, ReturnsInv, RpmbRequests

\* The procedure on top goes on.
LEMMA Goes ==
  ASSUME CommandInv, Running, NEW f \in FrameType, f.p = Top.p, f.c = Top.c, Plain(f.p),
         stack' = Append(Below, f), NothingReturned, Waits(f, "none", "none", req.kind),
         ~(f.p = "SdhcSendCommand" /\ f.at = "waited"), f.p \notin {"SdhcQueryCardType", "RpmbRequest"},
         Fields', req'.kind = req.kind
  PROVE  CommandInv'
<1>1. FramesInv /\ Retopped(f)
  BY RetopMove DEF CommandInv
<1>2. ret'.p = "none" /\ ret'.c = "none" /\ ReturnsInv'
  BY NoReturn
<1>3. FrameOK(f)
  BY DEF FrameOK, Plain
<1>4. Rel(f, "none", "none", req.kind)
  BY DEF Rel, Counts, Called, Plain, Sequenced, RpmbRequests
<1>5. FramesInv' /\ Top' = f
  BY <1>1, <1>2, <1>3, <1>4, RetopKeeps
<1>6. FreshInv'
  BY <1>5 DEF FreshInv, Looks, Plain
<1> QED  BY <1>2, <1>5, <1>6 DEF CommandInv

\* It calls another one.
LEMMA Calls ==
  ASSUME CommandInv, Running, NEW f \in FrameType, f.p = Top.p, f.c = Top.c, NEW g, Fresh(g),
         stack' = Below \o <<f, g>>, NothingReturned, FrameOK(f), Calling(f),
         Rel(f, g.p, g.c, req.kind), Looks(g) => host'.ext.part = card'.part,
         Fields', req'.kind = req.kind
  PROVE  CommandInv'
<1>1. FramesInv /\ Pushed(f, g)
  BY CallMove DEF CommandInv, Fresh
<1>2. ret'.p = "none" /\ ret'.c = "none" /\ ReturnsInv'
  BY NoReturn
<1>3. FrameOK(g) /\ (g.p = "Check" \/ Rel(g, "none", "none", req.kind))
  BY FreshRel
<1>4. FramesInv' /\ Top' = g
  BY <1>1, <1>2, <1>3, CallKeeps
<1>5. FreshInv'
  BY <1>4 DEF FreshInv, Looks
<1> QED  BY <1>2, <1>4, <1>5 DEF CommandInv

\* It returns.
LEMMA Returns ==
  ASSUME CommandInv, Running, NEW s, stack' = Below, ret' = [p |-> Top.p, c |-> Top.c, s |-> s],
         ReturnsInv', Fields', req'.kind = req.kind
  PROVE  CommandInv'
<1>1. FramesInv /\ Popped
  BY PopMove DEF CommandInv
<1>2. FramesInv' /\ (Running' => Top'.p # "Check")
  BY <1>1, PopKeeps
<1>3. FreshInv'
  BY <1>2 DEF FreshInv, Looks
<1> QED  BY <1>2, <1>3 DEF CommandInv

\* The forms in which the procedures use them.
LEMMA GotoStep ==
  ASSUME CommandInv, Running, NEW l \in Labels, Goto(l), Plain(Top.p),
         \A f \in FrameType : f.p = Top.p /\ f.at = l => Waits(f, "none", "none", req.kind),
         Top.p = "SdhcSendCommand" => l # "waited", Top.p \notin {"SdhcQueryCardType", "RpmbRequest"},
         Fields', req'.kind = req.kind
  PROVE  CommandInv'
<1> DEFINE f == [Top EXCEPT !.at = l]
<1>1. Top \in FrameType
  BY TopFacts DEF CommandInv
<1>2. f \in FrameType /\ f.p = Top.p /\ f.c = Top.c /\ f.at = l
  BY <1>1, FrameAt
<1>3. stack' = Append(Below, f) /\ NothingReturned
  BY DEF Goto, NoRet, NothingReturned
<1> HIDE DEF f
<1> QED  BY <1>2, <1>3, Goes

\* The call of a procedure that is no sequence.
LEMMA CallStep ==
  ASSUME CommandInv, Running, NEW l \in Labels, NEW g, Fresh(g), Call(g, l), Plain(Top.p), ~Looks(g),
         \A f \in FrameType : f.p = Top.p /\ f.c = Top.c /\ f.at = l =>
            Waits(f, g.p, g.c, req.kind) /\ Called(f, g.p, g.c) /\ Calling(f),
         Top.p = "SdhcSendCommand" /\ l = "waited" => Top.c \in Switches,
         Top.p = "SdhcQueryCardType" => l \in QueryLabels,
         Top.p = "RpmbRequest" => l \in RpmbLabels,
         Fields', req'.kind = req.kind
  PROVE  CommandInv'
<1> DEFINE f == [Top EXCEPT !.at = l]
<1>1. Top \in FrameType
  BY TopFacts DEF CommandInv
<1>2. f \in FrameType /\ f.p = Top.p /\ f.c = Top.c /\ f.at = l
  BY <1>1, FrameAt
<1>3. stack' = Below \o <<f, g>> /\ NothingReturned
  BY DEF Call, NoRet, NothingReturned
<1> HIDE DEF f
<1>4. FrameOK(f)
  BY <1>2 DEF FrameOK, Plain
<1>5. Counts(f, g.p, g.c)
  BY <1>2 DEF Counts, Plain, Sequenced, RpmbRequests
<1>6. Rel(f, g.p, g.c, req.kind)
  BY <1>2, <1>5 DEF Rel
<1> QED  BY <1>2, <1>3, <1>4, <1>6, Calls

\* The return of any procedure.
LEMMA ReturnStep ==
  ASSUME CommandInv, Running, NEW s, Return(s), Fields', req'.kind = req.kind, 
         (ret'.p = Top.p /\ ret'.c = Top.c /\ ret'.s = s) => ReturnsInv'
  PROVE  CommandInv'
BY Returns DEF Return

-------------------------------------------------------------------------------
(* The card and the host controller.                                         *)

SameFields == /\ DOMAIN card' = DOMAIN card /\ DOMAIN host' = DOMAIN host
              /\ DOMAIN req' = DOMAIN req /\ req'.kind = req.kind

\* No step adds or removes fields.
LEMMA FieldsKept ==
  ASSUME Fields, SameFields
  PROVE  Fields' /\ req'.kind = req.kind
BY DEF Fields, SameFields

\* A card that is busy keeps everything but its state.
LEMMA ProgrammingFacts ==
  ASSUME NEW k, NEW b
  PROVE  DOMAIN Programming(k, b) = DOMAIN k
BY DEF Programming

\* A status poll.
LEMMA PollFacts ==
  ASSUME NEW k, "st" \in DOMAIN k
  PROVE  /\ DOMAIN PollBusy(k) = DOMAIN k
         /\ k.st # "prog" => PollBusy(k) = k
BY ProgrammingFacts DEF PollBusy

\* A command changes no fields, and a card in the transfer state stays there when it is
\* asked for its status.
LEMMA PerformedFacts ==
  ASSUME Fields, NEW c, NEW b
  PROVE  /\ DOMAIN Performed(c, b) = DOMAIN card
         /\ c = "SendStatus" /\ card.st = "tran" => Performed(c, b).st = "tran"
<1> DEFINE k == [card EXCEPT !.count = FALSE]
<1>1. /\ DOMAIN k = DOMAIN card /\ "st" \in DOMAIN k /\ k.st = card.st
  BY DEF Fields
<1>2. \A r, d : DOMAIN Programming(r, d) = DOMAIN r
  BY ProgrammingFacts
<1>3. DOMAIN PollBusy(k) = DOMAIN card /\ (k.st = "tran" => PollBusy(k) = k)
  BY <1>1, PollFacts
<1>4. DOMAIN Performed(c, b) = DOMAIN card
  <2> USE DEF Performed, Reads, Writes, Multi
  <2>1. CASE c = "GoIdle"
    BY <2>1, <1>1, <1>2, <1>3
  <2>2. CASE c \in {"OpCondSd", "OpCondMmc"}
    BY <2>2, <1>1, <1>2, <1>3
  <2>3. CASE c \in {"CidAll", "RelativeAddr", "Select"}
    BY <2>3, <1>1, <1>2, <1>3
  <2>4. CASE c = "SendStatus"
    BY <2>4, <1>1, <1>2, <1>3
  <2>5. CASE c \in {"Stop", "BusWidthSd"}
    BY <2>5, <1>1, <1>2, <1>3
  <2>6. CASE c \in {"SwitchHs", "SwitchPower", "SwitchWidth"}
    <3>1. CASE c = "SwitchHs"
      BY <3>1, <1>1, <1>2
    <3>2. CASE c = "SwitchPower"
      <4>1. \A v : DOMAIN Programming([k EXCEPT !.power = v], b) = DOMAIN card
        BY <1>1, <1>2
      <4>2. Performed(c, b) = Programming([k EXCEPT !.power = k.need], b)
        BY <3>2
      <4> QED  BY <4>1, <4>2, Zenon
    <3>3. CASE c = "SwitchWidth"
      BY <3>3, <1>1, <1>2
    <3> QED  BY <2>6, <3>1, <3>2, <3>3
  <2>7. CASE c \in {"SwitchRpmb", "SwitchBack"}
    <3>1. \A v : DOMAIN Programming([k EXCEPT !.part = v], b) = DOMAIN card
      BY <1>1, <1>2
    <3>2. c = "SwitchRpmb" => Performed(c, b) = Programming([k EXCEPT !.part = "rpmb"], b)
      OBVIOUS
    <3>3. c = "SwitchBack" => Performed(c, b) = Programming([k EXCEPT !.part = req.part], b)
      OBVIOUS
    <3> QED  BY <2>7, <3>1, <3>2, <3>3, Zenon
  <2>8. CASE c = "SetBlockCount"
    BY <2>8, <1>1, <1>2, <1>3
  <2>9. CASE c \in Reads
    BY <2>9, <1>1, <1>2, <1>3
  <2>10. CASE c \in Writes
    BY <2>10, <1>1, <1>2, <1>3
  <2>11. CASE /\ c \notin {"GoIdle", "OpCondSd", "OpCondMmc", "CidAll", "RelativeAddr", "Select", "SendStatus"}
             /\ c \notin {"Stop", "BusWidthSd", "SwitchHs", "SwitchPower", "SwitchWidth", "SwitchRpmb"}
             /\ c \notin {"SwitchBack", "SetBlockCount"} \cup Reads \cup Writes
    BY <2>11, <1>1
  <2> QED  BY <2>1, <2>2, <2>3, <2>4, <2>5, <2>6, <2>7, <2>8, <2>9, <2>10, <2>11
<1>5. c = "SendStatus" => Performed(c, b) = PollBusy(k)
  <2> SUFFICES ASSUME c = "SendStatus" PROVE Performed(c, b) = PollBusy(k)
    OBVIOUS
  <2> QED  BY DEF Performed, Reads, Writes, Multi
<1> QED  BY <1>1, <1>3, <1>4, <1>5

\* The driver's record of a response.
LEMMA KeptFacts ==
  ASSUME NEW c, NEW h
  PROVE  /\ DOMAIN Kept(c, h) = DOMAIN h
         /\ c = "SendStatus" => Kept(c, h) = h
BY DEF Kept, SdhcSendCid, SdhcSendCsd, SdhcSendRelativeAddr

\* A command that is answered.
LEMMA HelperOkFacts ==
  ASSUME Fields, NEW c, HelperOk(c)
  PROVE  /\ DOMAIN card' = DOMAIN card /\ DOMAIN host' = DOMAIN host
         /\ c = "SendStatus" /\ host'.st = "tran" => card'.st = "tran"
<1> DEFINE h == Kept(c, host)
<1>1. CASE Answered(c) /\ host' = Successful(Kept(c, host), c)
  <2>1. PICK b : card' = Performed(c, b)
    BY <1>1 DEF Answered
  <2>2. DOMAIN h = DOMAIN host /\ "st" \in DOMAIN h
    BY KeptFacts DEF Fields
  <2> HIDE DEF h
  <2>3. DOMAIN host' = DOMAIN host /\ (c = "SendStatus" => host'.st = card.st)
    BY <1>1, <2>2 DEF Successful, h
  <2> QED  BY <2>1, <2>3, PerformedFacts
<1>2. CASE c = "GoIdle" /\ UNCHANGED card /\ host' = Successful(host, c)
  BY <1>2 DEF Successful
<1> QED  BY <1>1, <1>2 DEF HelperOk

\* A command that fails.
LEMMA HelperFailsFacts ==
  ASSUME Fields, NEW c, HelperFails(c)
  PROVE  DOMAIN card' = DOMAIN card /\ host' = host
BY PerformedFacts DEF HelperFails

\* A transfer.
LEMMA TransferFields ==
  ASSUME Fields, NEW c, NEW b, Transferred(c, b)
  PROVE  DOMAIN card' = DOMAIN card /\ DOMAIN req' = DOMAIN req /\ req'.kind = req.kind
<1>1. DOMAIN Moved(b) = DOMAIN card
  BY ProgrammingFacts DEF Moved
<1>2. DOMAIN card' = DOMAIN card
  BY <1>1 DEF Transferred
<1> QED  BY <1>2 DEF Transferred, Fields

\* The movement of data, or its failure, keeps the fields of the card and the request.
LEMMA DataFields ==
  ASSUME Fields, NEW c, DataMoves(c) \/ DataFails(c)
  PROVE  DOMAIN card' = DOMAIN card /\ DOMAIN req' = DOMAIN req /\ req'.kind = req.kind
BY TransferFields DEF DataMoves, DataFails


-------------------------------------------------------------------------------
(* One lemma for each action.                                                *)

\* The frames the other procedures push.
LEMMA CallFrames ==
  /\ Is(Proc("SdhcWaitForTranState"), "SdhcWaitForTranState", "none")
  /\ Is(Proc("SoftReset"), "SoftReset", "none")
  /\ Is(Proc("InitializeDevice"), "InitializeDevice", "none")
  /\ Is(Proc("InitializeSdDevice"), "InitializeSdDevice", "none")
  /\ Is(Proc("InitializeMmcDevice"), "InitializeMmcDevice", "none")
  /\ Is(Proc("SwitchPowerClass"), "SwitchPowerClass", "none")
  /\ Is(Proc("RpmbRequest"), "RpmbRequest", "none")
  /\ Is(Proc("OpteeRpcCmdRpmb"), "OpteeRpcCmdRpmb", "none")
  /\ Is(Chk("unsupported"), "Check", "unsupported") /\ Is(Chk("enough"), "Check", "enough")
  /\ Is(Frame("SdhcSendOpCond", "OpCondMmc"), "SdhcSendOpCond", "OpCondMmc")
  /\ Is(Frame("SdhcSwitchPartitionMmc", "Rpmb"), "SdhcSwitchPartitionMmc", "Rpmb")
  /\ Is(Frame("SdhcSwitchPartitionMmc", "Back"), "SdhcSwitchPartitionMmc", "Back")
  /\ \A c \in Codes : /\ Is(Frame("SdhcRecoverFromErrors", c), "SdhcRecoverFromErrors", c)
                      /\ Is(Cmd(c), "SdhcSendCommand", c)
                      /\ Is(Data(c), "SdhcSendDataCommand", c)
  /\ \A p \in RpmbRequests : Is(Proc(p), p, "none")
<1> DEFINE P == Procs \ {"HostExt"}
<1>1. \A p \in P, c \in Codes : Is(Frame(p, c), p, c)
  BY NewFrame DEF Is
<1> HIDE DEF P
<1>2. /\ "none" \in Codes /\ "unsupported" \in Codes /\ "enough" \in Codes /\ "OpCondMmc" \in Codes
      /\ "Rpmb" \in Codes /\ "Back" \in Codes
  BY DEF Codes
<1>3. /\ "SdhcWaitForTranState" \in P /\ "SoftReset" \in P /\ "InitializeDevice" \in P
      /\ "InitializeSdDevice" \in P /\ "InitializeMmcDevice" \in P
      /\ "SwitchPowerClass" \in P /\ "RpmbRequest" \in P /\ "OpteeRpcCmdRpmb" \in P
      /\ "Check" \in P /\ "SdhcSendOpCond" \in P /\ "SdhcSwitchPartitionMmc" \in P
      /\ "SdhcRecoverFromErrors" \in P /\ "SdhcSendCommand" \in P
      /\ "SdhcSendDataCommand" \in P /\ RpmbRequests \subseteq P
  BY DEF P, Procs, Callees, Kinds, RpmbRequests
<1> QED  BY <1>1, <1>2, <1>3, Zenon DEF Proc, Chk, Cmd, Data

\* Commands, and what is waited for after them.
LEMMA CommandCodes ==
  /\ "SendStatus" \in Codes /\ "Stop" \in Codes /\ "GoIdle" \in Codes /\ "IfCond" \in Codes
  /\ "OpCondSdio" \in Codes
  /\ {"waited", "failed", "data", "moved", "stopped", "exit", "polled", "lines", "after", "reset", "status",
      "stop", "inited", "idled", "ifcond", "sdio", "idled2", "mmc", "switched", "served", "back",
      "backFailed", "begin"} \subseteq Labels
BY DEF Codes, Labels

\* What holds while a procedure runs that is no sequence.
LEMMA RunningFacts ==
  ASSUME CommandInv, NEW p, In(p)
  PROVE  /\ Running /\ Top.p = p /\ Top \in FrameType /\ Top.c \in Codes /\ FrameOK(Top)
         /\ p # "Check" => Rel(Top, ret.p, ret.c, req.kind)
<1>1. FramesInv /\ Running /\ Top.p = p
  BY DEF CommandInv, In
<1>2. Top \in FrameType /\ FrameOK(Top) /\ (Top.p = "Check" \/ Rel(Top, ret.p, ret.c, req.kind))
  BY <1>1, TopFacts
<1> QED  BY <1>1, <1>2 DEF FrameType

\* A step of the driver alone.
LEMMA QuietFields ==
  ASSUME CommandInv, UNCHANGED <<card, host, req>>
  PROVE  Fields' /\ req'.kind = req.kind
BY FieldsKept DEF CommandInv, SameFields

\* A command keeps the invariant.
LEMMA SendCommandKeeps ==
  ASSUME CommandInv, SdhcSendCommand
  PROVE  CommandInv'
<1>1. /\ Running /\ Top.p = "SdhcSendCommand" /\ Top \in FrameType /\ Top.c \in Codes /\ FrameOK(Top)
      /\ Fields /\ Plain(Top.p)
  <2>1. In("SdhcSendCommand")
    BY DEF SdhcSendCommand, At
  <2> QED  BY <2>1, RunningFacts DEF Plain, Procs, Callees, Sequenced, RpmbRequests, CommandInv
<1>2. ASSUME HelperOk(Top.c), UNCHANGED <<attempts, req, reqs>> PROVE Fields' /\ req'.kind = req.kind
  <2>1. SameFields
    BY <1>1, <1>2, HelperOkFacts DEF SameFields
  <2> QED  BY <1>1, <2>1, FieldsKept
<1>3. CASE HelperOk(Top.c) /\ Call(Proc("SdhcWaitForTranState"), "waited") /\ Top.c \in Switches
           /\ UNCHANGED <<attempts, req, reqs>>
  <2>1. Fields' /\ req'.kind = req.kind
    BY <1>2, <1>3
  <2> DEFINE g == Proc("SdhcWaitForTranState")
  <2>2. Is(g, "SdhcWaitForTranState", "none") /\ "waited" \in Labels
    BY CallFrames, CommandCodes
  <2> HIDE DEF g
  <2>3. \A f \in FrameType : f.p = Top.p /\ f.c = Top.c /\ f.at = "waited" =>
           Waits(f, g.p, g.c, req.kind) /\ Called(f, g.p, g.c) /\ Calling(f)
    BY <1>1, <2>2 DEF Is, Waits, Called, RpmbRequests, Calling, Sequenced
  <2>4. Call(g, "waited")
    BY <1>3 DEF g
  <2> QED  BY <1>1, <1>3, <2>1, <2>2, <2>3, <2>4, CallStep DEF Is, Looks
<1>4. CASE HelperOk(Top.c) /\ Return("OK") /\ UNCHANGED <<attempts, req, reqs>>
  <2>1. Fields' /\ req'.kind = req.kind
    BY <1>2, <1>4
  <2>2. Top.c = "SendStatus" /\ host'.st = "tran" => card'.st = "tran"
    BY <1>1, <1>4, HelperOkFacts
  <2>3. (ret'.p = Top.p /\ ret'.c = Top.c) => ReturnsInv'
    BY <1>1, <2>2 DEF ReturnsInv
  <2> QED  BY <1>1, <1>4, <2>1, <2>3, ReturnStep
<1>5. CASE /\ HelperFails(Top.c) /\ UNCHANGED <<attempts, req, reqs>>
           /\ Call(Frame("SdhcRecoverFromErrors", Top.c), "failed")
  <2> DEFINE g == Frame("SdhcRecoverFromErrors", Top.c)
  <2>1. SameFields
    BY <1>1, <1>5, HelperFailsFacts DEF SameFields
  <2>2. Is(g, "SdhcRecoverFromErrors", Top.c) /\ "failed" \in Labels
    BY <1>1, CallFrames, CommandCodes
  <2> HIDE DEF g
  <2>3. \A f \in FrameType : f.p = Top.p /\ f.c = Top.c /\ f.at = "failed" =>
           Waits(f, g.p, g.c, req.kind) /\ Called(f, g.p, g.c) /\ Calling(f)
    BY <1>1, <2>2 DEF Is, Waits, Called, RpmbRequests, Calling, Sequenced
  <2>4. Call(g, "failed")
    BY <1>5 DEF g
  <2>5. Fields' /\ req'.kind = req.kind
    BY <1>1, <2>1, FieldsKept
  <2> QED  BY <1>1, <2>2, <2>3, <2>4, <2>5, CallStep DEF Is, Looks
<1>6. CASE At("SdhcSendCommand", "waited") /\ Return(ret.s) /\ UNCHANGED quiet
  <2>1. Fields' /\ req'.kind = req.kind
    BY <1>6, QuietFields DEF quiet
  <2>2. Top.c \in Switches
    BY <1>1, <1>6 DEF FrameOK, At
  <2>3. (ret'.p = Top.p /\ ret'.c = Top.c) => ReturnsInv'
    BY <1>1, <2>2 DEF ReturnsInv, Switches
  <2> QED  BY <1>1, <1>6, <2>1, <2>3, ReturnStep
<1>7. CASE At("SdhcSendCommand", "failed") /\ Return("ERR") /\ UNCHANGED quiet
  <2>1. Fields' /\ req'.kind = req.kind
    BY <1>7, QuietFields DEF quiet
  <2>2. ret'.s = "ERR" => ReturnsInv'
    BY DEF ReturnsInv
  <2> QED  BY <1>1, <1>7, <2>1, <2>2, ReturnStep
<1> QED  BY <1>3, <1>4, <1>5, <1>6, <1>7 DEF SdhcSendCommand


\* A transfer keeps it: it is over when the card is back in the transfer state, and the
\* driver has then read what the card says of itself.
LEMMA SendDataKeeps ==
  ASSUME CommandInv, SdhcSendDataCommand
  PROVE  CommandInv'
<1> DEFINE w == Proc("SdhcWaitForTranState")
<1>1. /\ Running /\ Top.p = "SdhcSendDataCommand" /\ Top \in FrameType /\ Top.c \in Codes
      /\ Rel(Top, ret.p, ret.c, req.kind) /\ Fields /\ Plain(Top.p)
  <2>1. In("SdhcSendDataCommand")
    BY DEF SdhcSendDataCommand, SdhcStopIfOpen, At
  <2> QED  BY <2>1, RunningFacts DEF Plain, Procs, Callees, Sequenced, RpmbRequests, CommandInv
<1>2. Is(w, "SdhcWaitForTranState", "none")
  BY CallFrames
<1> HIDE DEF w
<1>3. ASSUME NEW l \in {"data", "moved", "exit"}, Goto(l), SameFields
      PROVE  CommandInv'
  <2>1. \A f \in FrameType : f.p = Top.p /\ f.at = l => Waits(f, "none", "none", req.kind)
    BY <1>1 DEF Waits
  <2>2. l \in Labels
    BY <1>3, CommandCodes
  <2>3. Fields' /\ req'.kind = req.kind
    BY <1>1, <1>3, FieldsKept
  <2> QED  BY <1>1, <1>3, <2>1, <2>2, <2>3, GotoStep
<1>4. ASSUME NEW g, NEW l \in {"stopped", "waited", "failed"}, Call(g, l), UNCHANGED quiet,
             \/ l = "stopped" /\ Is(g, "SdhcSendCommand", "Stop")
             \/ l = "waited" /\ Is(g, "SdhcWaitForTranState", "none")
             \/ l = "failed" /\ Is(g, "SdhcRecoverFromErrors", Top.c)
      PROVE  CommandInv'
  <2>1. \A f \in FrameType : f.p = Top.p /\ f.c = Top.c /\ f.at = l =>
           Waits(f, g.p, g.c, req.kind) /\ Called(f, g.p, g.c) /\ Calling(f)
    BY <1>1, <1>4 DEF Is, Waits, Called, RpmbRequests, Calling, Sequenced
  <2>2. l \in Labels /\ Fresh(g) /\ ~Looks(g)
    BY <1>4, CommandCodes DEF Is, Looks
  <2>3. Fields' /\ req'.kind = req.kind
    BY <1>4, QuietFields DEF quiet
  <2> QED  BY <1>1, <1>4, <2>1, <2>2, <2>3, CallStep
<1>5. CASE HelperOk(Top.c) /\ Goto("data") /\ UNCHANGED <<attempts, req, reqs>>
  <2>1. SameFields
    BY <1>1, <1>5, HelperOkFacts DEF SameFields
  <2> QED  BY <1>3, <1>5, <2>1
<1>6. CASE HelperFails(Top.c) /\ Goto("exit") /\ UNCHANGED <<attempts, req, reqs>>
  <2>1. SameFields
    BY <1>1, <1>6, HelperFailsFacts DEF SameFields
  <2> QED  BY <1>3, <1>6, <2>1
<1>7. CASE ((DataMoves(Top.c) /\ Goto("moved")) \/ (DataFails(Top.c) /\ Goto("exit"))) /\ UNCHANGED host
  <2>1. SameFields
    BY <1>1, <1>7, DataFields DEF SameFields
  <2> QED  BY <1>3, <1>7, <2>1
<1>8. CASE SdhcStopIfOpen
  <2>1. Is(SdhcStopTransmission, "SdhcSendCommand", "Stop")
    BY CallFrames, CommandCodes DEF SdhcStopTransmission
  <2> QED  BY <1>2, <1>4, <1>8, <2>1 DEF SdhcStopIfOpen, w
<1>9. CASE /\ At("SdhcSendDataCommand", "stopped") /\ UNCHANGED quiet
           /\ IF Ok THEN Call(Proc("SdhcWaitForTranState"), "waited") ELSE Goto("exit")
  <2>1. SameFields
    BY <1>9 DEF quiet, SameFields
  <2> QED  BY <1>2, <1>3, <1>4, <1>9, <2>1 DEF w
<1>10. CASE /\ At("SdhcSendDataCommand", "waited") /\ Ok /\ Return("OK")
            /\ host' = (IF Top.c = "ExtCsd" THEN SdhcSendExtCsdMmc(host) ELSE host)
            /\ UNCHANGED <<card, attempts, req, faults, reqs>>
  <2>1. DOMAIN SdhcSendExtCsdMmc(host) = DOMAIN host /\ SdhcSendExtCsdMmc(host).ext.part = card.part
    BY <1>1 DEF SdhcSendExtCsdMmc, Fields
  <2>2. SameFields
    BY <1>10, <2>1 DEF SameFields
  <2>3. Fields' /\ req'.kind = req.kind
    BY <1>1, <2>2, FieldsKept
  <2>4. ret.p = "SdhcWaitForTranState"
    BY <1>1, <1>10 DEF Rel, Waits, At
  <2>5. card'.st = "tran"
    BY <1>10, <2>4 DEF CommandInv, ReturnsInv, Ok
  <2>6. Top.c = "ExtCsd" => host'.ext.part = card'.part
    BY <1>10, <2>1
  <2>7. (ret'.p = Top.p /\ ret'.c = Top.c) => ReturnsInv'
    BY <1>1, <2>5, <2>6 DEF ReturnsInv
  <2> QED  BY <1>1, <1>10, <2>3, <2>7, ReturnStep
<1>11. CASE Goto("exit") /\ UNCHANGED host /\ UNCHANGED <<card, attempts, req, faults, reqs>>
  <2>1. SameFields
    BY <1>11 DEF SameFields
  <2> QED  BY <1>3, <1>11, <2>1
<1>12. CASE Call(Frame("SdhcRecoverFromErrors", Top.c), "failed") /\ UNCHANGED quiet
  <2>1. Is(Frame("SdhcRecoverFromErrors", Top.c), "SdhcRecoverFromErrors", Top.c)
    BY <1>1, CallFrames
  <2> QED  BY <1>4, <1>12, <2>1
<1>13. CASE Return("ERR") /\ UNCHANGED quiet
  <2>1. Fields' /\ req'.kind = req.kind
    BY <1>13, QuietFields DEF quiet
  <2>2. ret'.s = "ERR" => ReturnsInv'
    BY DEF ReturnsInv
  <2> QED  BY <1>1, <1>13, <2>1, <2>2, ReturnStep
<1>14. CASE At("SdhcSendDataCommand", "begin") /\ ((HelperOk(Top.c) /\ Goto("data")) \/ (HelperFails(Top.c) /\ Goto("exit")))
            /\ UNCHANGED <<attempts, req, reqs>>
  BY <1>5, <1>6, <1>14, Zenon
<1>15. CASE At("SdhcSendDataCommand", "data") /\ ((DataMoves(Top.c) /\ Goto("moved")) \/ (DataFails(Top.c) /\ Goto("exit")))
            /\ UNCHANGED <<host, attempts, reqs>>
  BY <1>7, <1>15
<1>16. CASE /\ At("SdhcSendDataCommand", "waited") /\ UNCHANGED <<card, attempts, req, faults, reqs>>
            /\ IF Ok THEN /\ Return("OK")
                          /\ host' = IF Top.c = "ExtCsd" THEN SdhcSendExtCsdMmc(host) ELSE host
                     ELSE Goto("exit") /\ UNCHANGED host
  BY <1>10, <1>11, <1>16, Zenon
<1> QED
  <2>1. CASE At("SdhcSendDataCommand", "begin")
    BY <2>1, <1>14 DEF SdhcSendDataCommand, SdhcStopIfOpen, At
  <2>2. CASE At("SdhcSendDataCommand", "data")
    BY <2>2, <1>15 DEF SdhcSendDataCommand, SdhcStopIfOpen, At
  <2>3. CASE At("SdhcSendDataCommand", "moved")
    BY <2>3, <1>8 DEF SdhcSendDataCommand, At
  <2>4. CASE At("SdhcSendDataCommand", "stopped")
    BY <2>4, <1>9 DEF SdhcSendDataCommand, SdhcStopIfOpen, At
  <2>5. CASE At("SdhcSendDataCommand", "waited")
    BY <2>5, <1>16 DEF SdhcSendDataCommand, SdhcStopIfOpen, At
  <2>6. CASE At("SdhcSendDataCommand", "exit")
    BY <2>6, <1>12 DEF SdhcSendDataCommand, SdhcStopIfOpen, At
  <2>7. CASE At("SdhcSendDataCommand", "failed")
    BY <2>7, <1>13 DEF SdhcSendDataCommand, SdhcStopIfOpen, At
  <2> QED  BY <2>1, <2>2, <2>3, <2>4, <2>5, <2>6, <2>7 DEF SdhcSendDataCommand, SdhcStopIfOpen

\* So does the wait for the transfer state.
LEMMA WaitKeeps ==
  ASSUME CommandInv, SdhcWaitForTranState
  PROVE  CommandInv'
<1>1. /\ Running /\ Top.p = "SdhcWaitForTranState" /\ Top \in FrameType /\ Top.c \in Codes
      /\ Rel(Top, ret.p, ret.c, req.kind) /\ Plain(Top.p)
  <2>1. In("SdhcWaitForTranState")
    BY DEF SdhcWaitForTranState, At
  <2> QED  BY <2>1, RunningFacts DEF Plain, Procs, Callees, Sequenced, RpmbRequests, CommandInv
<1>2. Fields' /\ req'.kind = req.kind
  BY QuietFields DEF SdhcWaitForTranState, quiet
<1>3. CASE Call(SdhcSendStatus, "polled")
  <2>1. Is(SdhcSendStatus, "SdhcSendCommand", "SendStatus") /\ "polled" \in Labels
    BY CallFrames, CommandCodes DEF SdhcSendStatus
  <2> DEFINE g == SdhcSendStatus
  <2> HIDE DEF g
  <2>2. \A f \in FrameType : f.p = Top.p /\ f.c = Top.c /\ f.at = "polled" =>
           Waits(f, "SdhcSendCommand", "SendStatus", req.kind) /\ Called(f, "SdhcSendCommand", "SendStatus")
           /\ Calling(f)
    BY <1>1 DEF Waits, Called, RpmbRequests, Calling, Sequenced
  <2> QED  BY <1>1, <1>2, <1>3, <2>1, <2>2, CallStep DEF Is, Looks
<1>4. ASSUME NEW s, Return(s), s = "OK" => card.st = "tran", UNCHANGED quiet
      PROVE  CommandInv'
  <2>1. (ret'.p = Top.p /\ ret'.c = Top.c /\ ret'.s = s) => ReturnsInv'
    BY <1>1, <1>4 DEF ReturnsInv, quiet
  <2> QED  BY <1>1, <1>2, <1>4, <2>1, ReturnStep
<1>5. CASE At("SdhcWaitForTranState", "polled") /\ Ok /\ host.st = "tran" /\ Return("OK") /\ UNCHANGED quiet
  <2>1. ret.p = "SdhcSendCommand" /\ ret.c = "SendStatus"
    BY <1>1, <1>5 DEF At, Rel, Waits
  <2>2. card.st = "tran"
    BY <1>5, <2>1 DEF Ok, CommandInv, ReturnsInv
  <2> QED  BY <1>4, <1>5, <2>2
<1>6. CASE ~Ok /\ Return(ret.s) /\ UNCHANGED quiet
  BY <1>4, <1>6 DEF Ok
<1>7. CASE Return("TIMEOUT") /\ UNCHANGED quiet
  BY <1>4, <1>7
<1>8. CASE stack' = Append(Below, [Top EXCEPT !.at = "begin", !.n = @ + 1]) /\ ret' = NoRet
  <2> DEFINE f == [Top EXCEPT !.at = "begin", !.n = @ + 1]
  <2>1. f \in FrameType /\ f.p = Top.p /\ f.c = Top.c /\ f.at = "begin"
    BY <1>1, CommandCodes, FrameTurn
  <2> HIDE DEF f
  <2>2. Waits(f, "none", "none", req.kind)
    BY <1>1, <2>1 DEF Waits
  <2>3. stack' = Append(Below, f) /\ NothingReturned
    BY <1>8 DEF f, NothingReturned, NoRet
  <2> QED  BY <1>1, <1>2, <2>1, <2>2, <2>3, Goes
<1>9. CASE At("SdhcWaitForTranState", "polled") /\ ~(At("SdhcWaitForTranState", "begin") /\ Call(SdhcSendStatus, "polled"))
  <2>1. \/ ~Ok /\ Return(ret.s)
        \/ Return("TIMEOUT")
        \/ Ok /\ host.st = "tran" /\ Return("OK")
        \/ stack' = Append(Below, [Top EXCEPT !.at = "begin", !.n = @ + 1]) /\ ret' = NoRet
    BY <1>9 DEF SdhcWaitForTranState
  <2>2. UNCHANGED quiet
    BY DEF SdhcWaitForTranState
  <2> QED  BY <1>9, <1>5, <1>6, <1>7, <1>8, <2>1, <2>2, Zenon
<1> QED  BY <1>3, <1>9 DEF SdhcWaitForTranState


\* A recovery has changed nothing but its counter when it returns.
LEMMA LeaveKeeps ==
  ASSUME CommandInv, In("SdhcRecoverFromErrors"), NEW s, Return(s), UNCHANGED <<card, host, req>>
  PROVE  CommandInv'
<1>1. Running /\ Top.p = "SdhcRecoverFromErrors"
  BY RunningFacts
<1>2. Fields' /\ req'.kind = req.kind
  BY QuietFields
<1>3. (ret'.p = Top.p /\ ret'.c = Top.c) => ReturnsInv'
  BY <1>1 DEF ReturnsInv
<1> QED  BY <1>1, <1>2, <1>3, ReturnStep

\* The recovery from errors keeps it.
LEMMA RecoverKeeps ==
  ASSUME CommandInv, SdhcRecoverFromErrors
  PROVE  CommandInv'
<1>1. /\ In("SdhcRecoverFromErrors") /\ Fields /\ Running /\ Top.p = "SdhcRecoverFromErrors"
      /\ Plain(Top.p)
  <2>1. In("SdhcRecoverFromErrors")
    BY DEF SdhcRecoverFromErrors, RecoverBegin, RecoverLines, RecoverReset, RecoverStop, At
  <2> QED  BY <2>1, RunningFacts DEF Plain, Procs, Callees, Sequenced, RpmbRequests, CommandInv
<1>2. ASSUME NEW l \in {"lines", "after"}, Goto(l), SameFields
      PROVE  CommandInv'
  <2>1. \A f \in FrameType : f.p = Top.p /\ f.at = l => Waits(f, "none", "none", req.kind)
    BY <1>1 DEF Waits
  <2>2. l \in Labels /\ Fields' /\ req'.kind = req.kind
    BY <1>1, <1>2, CommandCodes, FieldsKept
  <2> QED  BY <1>1, <1>2, <2>1, <2>2, GotoStep
<1>3. ASSUME NEW g, NEW l \in {"reset", "status", "stop"}, Call(g, l), SameFields,
             NEW c, Is(g, "SdhcSendCommand", c) \/ Is(g, "SoftReset", c)
      PROVE  CommandInv'
  <2>1. \A f \in FrameType : f.p = Top.p /\ f.c = Top.c /\ f.at = l =>
           Waits(f, g.p, g.c, req.kind) /\ Called(f, g.p, g.c) /\ Calling(f)
    BY <1>1, <1>3 DEF Is, Waits, Called, RpmbRequests, Calling, Sequenced
  <2>2. l \in Labels /\ Fresh(g) /\ ~Looks(g) /\ Fields' /\ req'.kind = req.kind
    BY <1>1, <1>3, CommandCodes, FieldsKept DEF Is, Looks
  <2> QED  BY <1>1, <1>3, <2>1, <2>2, CallStep
<1>4. UNCHANGED <<card, host, req>> => SameFields
  BY DEF SameFields
<1>5. CASE RecoverBegin
  <2>1. UNCHANGED <<card, host, req>>
    BY <1>5 DEF RecoverBegin
  <2>2. Return("ERR") \/ Goto("lines")
    BY <1>5 DEF RecoverBegin
  <2> QED  BY <1>1, <1>2, <1>4, <2>1, <2>2, LeaveKeeps
<1>6. CASE RecoverLines
  <2>1. SameFields
    <3>1. DOMAIN host' = DOMAIN host /\ UNCHANGED <<card, req>>
      BY <1>6 DEF RecoverLines, LinesFail
    <3> QED  BY <3>1 DEF SameFields
  <2>2. Goto("after") \/ Call(Proc("SoftReset"), "reset")
    BY <1>6 DEF RecoverLines
  <2>3. Is(Proc("SoftReset"), "SoftReset", "none")
    BY CallFrames
  <2> QED  BY <1>2, <1>3, <2>1, <2>2, <2>3
<1>7. CASE RecoverReset
  <2>1. UNCHANGED <<card, host, req>>
    BY <1>7 DEF RecoverReset
  <2>2. Return("ERR") \/ Goto("after")
    BY <1>7 DEF RecoverReset, Leave
  <2> QED  BY <1>1, <1>2, <1>4, <2>1, <2>2, LeaveKeeps
<1>8. CASE RecoverStop
  <2>1. UNCHANGED <<card, host, req>>
    BY <1>8 DEF RecoverStop
  <2>2. Return("OK") \/ Return(ret.s) \/ Call(SdhcSendStatus, "status") \/ Call(SdhcStopTransmission, "stop")
    BY <1>8 DEF RecoverStop, Leave
  <2>3. Is(SdhcSendStatus, "SdhcSendCommand", "SendStatus") /\ Is(SdhcStopTransmission, "SdhcSendCommand", "Stop")
    BY CallFrames, CommandCodes DEF SdhcSendStatus, SdhcStopTransmission
  <2> QED  BY <1>1, <1>3, <1>4, <2>1, <2>2, <2>3, LeaveKeeps
<1> QED  BY <1>5, <1>6, <1>7, <1>8 DEF SdhcRecoverFromErrors

\* A reset of the slot keeps it.
LEMMA SoftResetKeeps ==
  ASSUME CommandInv, SoftReset
  PROVE  CommandInv'
<1>1. Fields /\ Running /\ Top.p = "SoftReset" /\ Plain(Top.p)
  <2>1. In("SoftReset")
    BY DEF SoftReset, At
  <2> QED  BY <2>1, RunningFacts DEF Plain, Procs, Kinds, Sequenced, RpmbRequests, CommandInv
<1>2. DOMAIN host' = DOMAIN host /\ UNCHANGED <<card, req>>
  BY DEF SoftReset
<1>3. Fields' /\ req'.kind = req.kind
  BY <1>1, <1>2, FieldsKept DEF SameFields
<1>4. CASE Call(Proc("InitializeDevice"), "inited")
  <2> DEFINE g == Proc("InitializeDevice")
  <2>1. Is(g, "InitializeDevice", "none") /\ "inited" \in Labels
    BY CallFrames, CommandCodes
  <2>2. Call(g, "inited")
    BY <1>4
  <2> HIDE DEF g
  <2>3. \A f \in FrameType : f.p = Top.p /\ f.c = Top.c /\ f.at = "inited" =>
           Waits(f, g.p, g.c, req.kind) /\ Called(f, g.p, g.c) /\ Calling(f)
    BY <1>1, <2>1 DEF Is, Waits, Called, RpmbRequests, Calling, Sequenced
  <2> QED  BY <1>1, <1>3, <2>1, <2>2, <2>3, CallStep DEF Is, Looks
<1>5. CASE Return(ret.s)
  <2>1. (ret'.p = Top.p /\ ret'.c = Top.c) => ReturnsInv'
    BY <1>1 DEF ReturnsInv
  <2> QED  BY <1>1, <1>3, <1>5, <2>1, ReturnStep
<1> QED  BY <1>4, <1>5 DEF SoftReset

\* The identification of the card, and the polls of its operating conditions, keep it.
LEMMA ProbesKeep ==
  ASSUME CommandInv, NEW p \in {"SdhcQueryCardType", "SdhcSendOpCond"}, In(p),
         DOMAIN host' = DOMAIN host, UNCHANGED <<card, req>>,
         \/ \E s : Return(s)
         \/ \E l \in (IF p = "SdhcQueryCardType" THEN QueryLabels ELSE {"polled"}) : \E g, c :
              Call(g, l) /\ (Is(g, "SdhcSendCommand", c) \/ Is(g, "SdhcSendOpCond", c))
         \/ /\ stack' = Append(Below, [Top EXCEPT !.at = "begin", !.n = @ + 1]) /\ ret' = NoRet
            /\ p = "SdhcSendOpCond"
  PROVE  CommandInv'
<1>1. Fields /\ Running /\ Top.p = p /\ Plain(Top.p) /\ Top \in FrameType
  BY RunningFacts DEF Plain, Procs, Callees, Sequenced, RpmbRequests, CommandInv
<1>2. Fields' /\ req'.kind = req.kind
  BY <1>1, FieldsKept DEF SameFields
<1>3. ASSUME NEW s, Return(s) PROVE CommandInv'
  <2>1. (ret'.p = Top.p /\ ret'.c = Top.c) => ReturnsInv'
    BY <1>1 DEF ReturnsInv
  <2> QED  BY <1>1, <1>2, <1>3, <2>1, ReturnStep
<1>4. ASSUME NEW l \in (IF p = "SdhcQueryCardType" THEN QueryLabels ELSE {"polled"}), NEW g, NEW c, Call(g, l),
             Is(g, "SdhcSendCommand", c) \/ Is(g, "SdhcSendOpCond", c)
      PROVE  CommandInv'
  <2>1. \A f \in FrameType : f.p = Top.p /\ f.c = Top.c /\ f.at = l =>
           Waits(f, g.p, g.c, req.kind) /\ Called(f, g.p, g.c) /\ Calling(f)
    BY <1>1, <1>4 DEF Is, Waits, Called, RpmbRequests, Calling, Sequenced, QueryLabels
  <2>2. l \in Labels /\ Fresh(g) /\ ~Looks(g)
    BY <1>4, CommandCodes DEF Is, Looks, QueryLabels
  <2>3. p = "SdhcQueryCardType" => l \in QueryLabels
    BY <1>4
  <2> QED  BY <1>1, <1>2, <1>4, <2>1, <2>2, <2>3, CallStep
<1>5. CASE /\ stack' = Append(Below, [Top EXCEPT !.at = "begin", !.n = @ + 1]) /\ ret' = NoRet
           /\ p = "SdhcSendOpCond"
  <2> DEFINE f == [Top EXCEPT !.at = "begin", !.n = @ + 1]
  <2>1. f \in FrameType /\ f.p = Top.p /\ f.c = Top.c /\ f.at = "begin"
    BY <1>1, CommandCodes, FrameTurn
  <2> HIDE DEF f
  <2>2. Waits(f, "none", "none", req.kind)
    BY <1>1, <2>1 DEF Waits
  <2>3. stack' = Append(Below, f) /\ NothingReturned
    BY <1>5 DEF f, NothingReturned, NoRet
  <2> QED  BY <1>1, <1>2, <1>5, <2>1, <2>2, <2>3, Goes
<1> QED  BY <1>3, <1>4, <1>5, Zenon

\* The query of the card's type keeps it.
LEMMA QueryKeeps ==
  ASSUME CommandInv, SdhcQueryCardType
  PROVE  CommandInv'
<1>1. In("SdhcQueryCardType") /\ UNCHANGED <<card, req>> /\ Top.at \in QueryLabels
  BY RunningFacts DEF SdhcQueryCardType, FrameOK
<1>2. /\ Is(SdhcGoIdleState, "SdhcSendCommand", "GoIdle") /\ Is(SdhcSendIfCondSd, "SdhcSendCommand", "IfCond")
      /\ Is(SdhcSendOpCondSdio, "SdhcSendCommand", "OpCondSdio")
      /\ Is(Frame("SdhcSendOpCond", "OpCondMmc"), "SdhcSendOpCond", "OpCondMmc")
  BY CallFrames, CommandCodes DEF SdhcGoIdleState, SdhcSendIfCondSd, SdhcSendOpCondSdio
<1>3. /\ DOMAIN host' = DOMAIN host
      /\ \/ \E s : Return(s)
         \/ Call(SdhcGoIdleState, "idled") \/ Call(SdhcSendIfCondSd, "ifcond")
         \/ Call(SdhcSendOpCondSdio, "sdio") \/ Call(SdhcGoIdleState, "idled2")
         \/ Call(Frame("SdhcSendOpCond", "OpCondMmc"), "mmc")
  BY <1>1 DEF SdhcQueryCardType, QueryLabels
<1> QED  BY <1>1, <1>2, <1>3, ProbesKeep DEF QueryLabels

\* The polls of the operating conditions keep it.
LEMMA OpCondKeeps ==
  ASSUME CommandInv, SdhcSendOpCond
  PROVE  CommandInv'
<1>1. In("SdhcSendOpCond") /\ UNCHANGED <<card, host, req>>
  BY DEF SdhcSendOpCond, At, quiet
<1>2. Is(Cmd(Top.c), "SdhcSendCommand", Top.c)
  BY <1>1, RunningFacts, CallFrames
<1>3. \/ \E s : Return(s)
      \/ Call(Cmd(Top.c), "polled")
      \/ stack' = Append(Below, [Top EXCEPT !.at = "begin", !.n = @ + 1]) /\ ret' = NoRet
  BY DEF SdhcSendOpCond
<1> QED  BY <1>1, <1>2, <1>3, ProbesKeep


\* A test keeps it: the partition that was read is the card's.
LEMMA CheckKeeps ==
  ASSUME CommandInv, Check
  PROVE  CommandInv'
<1>1. Fields /\ Running /\ Top.p = "Check" /\ In("Check") /\ UNCHANGED <<card, req>>
  BY RunningFacts DEF CommandInv, Check
<1>2. CASE Return("ERR") /\ UNCHANGED host
  <2>1. Fields' /\ req'.kind = req.kind
    BY <1>1, <1>2, QuietFields
  <2>2. ret'.s = "ERR" => ReturnsInv'
    BY DEF ReturnsInv
  <2> QED  BY <1>1, <1>2, <2>1, <2>2, ReturnStep
<1>3. CASE Passes(Top.c) /\ Return("OK") /\ host' = Assigned(Top.c)
  <2>1. DOMAIN host' = DOMAIN host
    BY <1>3 DEF Assigned
  <2>2. Fields' /\ req'.kind = req.kind
    BY <1>1, <2>1, FieldsKept DEF SameFields
  <2>3. Top.c \in {"Back", "Rpmb"} => host.ext.part = card.part
    BY <1>1 DEF CommandInv, FreshInv, Looks
  <2>4. Top.c = "Back" => InUse'
    <3>1. Top.c = "Back" => host.ext.part = req.part
      BY <1>3 DEF Passes
    <3>2. Top.c = "Back" => host'.cur = req.part
      BY <1>1, <1>3 DEF Assigned, Fields
    <3> QED  BY <1>1, <2>3, <3>1, <3>2 DEF InUse
  <2>5. Top.c = "Rpmb" => card.part = "rpmb"
    BY <1>3, <2>3 DEF Passes
  <2>6. Top.c # "unsupported"
    BY <1>3 DEF Passes
  <2>7. (ret'.p = Top.p /\ ret'.c = Top.c) => ReturnsInv'
    BY <1>1, <2>4, <2>5, <2>6 DEF ReturnsInv
  <2> QED  BY <1>1, <1>3, <2>2, <2>7, ReturnStep
<1> QED  BY <1>2, <1>3 DEF Check

\* A call of the host controller's driver keeps it.
LEMMA HostExtKeeps ==
  ASSUME CommandInv, HostExt
  PROVE  CommandInv'
<1>1. /\ Fields /\ Running /\ Top.p = "HostExt" /\ In("HostExt") /\ UNCHANGED <<card, req>>
      /\ Top.c \in HostCodes
  BY RunningFacts DEF CommandInv, HostExt, FrameOK
<1>2. DOMAIN host' = DOMAIN host
  BY <1>1 DEF HostExt, HostCodes
<1>3. Fields' /\ req'.kind = req.kind
  BY <1>1, <1>2, FieldsKept DEF SameFields
<1>4. PICK s : Return(s)
  BY DEF HostExt
<1>5. (ret'.p = Top.p /\ ret'.c = Top.c) => ReturnsInv'
  BY <1>1 DEF ReturnsInv
<1> QED  BY <1>1, <1>3, <1>4, <1>5, ReturnStep

\* What a sequence really calls.
LEMMA ChosenFacts ==
  ASSUME NEW b, Fresh(b)
  PROVE  LET g == Chosen(b)
         IN /\ Fresh(g)
            /\ b.p = "ByFunction" => \/ g.p \in {"InitializeSdDevice", "InitializeMmcDevice"}
                                     \/ g.p = "Check" /\ g.c = "unsupported"
            /\ b.p = "PowerClass" => g.p = "SwitchPowerClass" \/ (g.p = "Check" /\ g.c = "enough")
            /\ b.p \notin {"ByFunction", "PowerClass"} => g = b
<1> DEFINE g == Chosen(b)
<1>1. CASE b.p = "ByFunction"
  <2>1. g \in {Proc("InitializeSdDevice"), Proc("InitializeMmcDevice"), Chk("unsupported")}
    BY <1>1 DEF Chosen
  <2> HIDE DEF g
  <2> QED  BY <1>1, <2>1, CallFrames DEF Is, g
<1>2. CASE b.p = "PowerClass"
  <2>1. g \in {Proc("SwitchPowerClass"), Chk("enough")}
    BY <1>2 DEF Chosen
  <2> HIDE DEF g
  <2> QED  BY <1>2, <2>1, CallFrames DEF Is, g
<1>3. CASE b.p \notin {"ByFunction", "PowerClass"}
  BY <1>3 DEF Chosen
<1> QED  BY <1>1, <1>2, <1>3

\* The next call of a sequence: who it is, and what the driver knows when it is made.
LEMMA NextCall ==
  ASSUME CommandInv, Running, Top.p \in Sequenced, Top.n < Len(Body(Top)), Top.n = 0 \/ Ok,
         NEW f \in FrameType, f.p = Top.p, f.c = Top.c, f.n = Top.n + 1
  PROVE  LET g == Chosen(Body(Top)[Top.n + 1])
         IN /\ Fresh(g) /\ FrameOK(f) /\ Calling(f) /\ Rel(f, g.p, g.c, req.kind)
            /\ Looks(g) => host.ext.part = card.part
<1> DEFINE i == Top.n + 1
           b == Body(Top)[i]
           g == Chosen(b)
<1>1. /\ Top \in FrameType /\ Top.n \in Nat /\ Rel(Top, ret.p, ret.c, req.kind)
  <2>1. Top.p # "Check"
    BY DEF Sequenced, RpmbRequests
  <2> QED  BY <2>1, TopFacts DEF CommandInv, FrameType
<1>2. i \in 1 .. Len(Body(Top)) /\ Len(Body(Top)) \in 2 .. 11
  BY <1>1, BodyLength
<1> HIDE DEF i, b
<1>3. BodyOK(Top, i, b)
  BY <1>1, <1>2, BodyFacts DEF b
<1>4. /\ Fresh(g)
      /\ b.p = "ByFunction" => \/ g.p \in {"InitializeSdDevice", "InitializeMmcDevice"}
                               \/ g.p = "Check" /\ g.c = "unsupported"
      /\ b.p = "PowerClass" => g.p = "SwitchPowerClass" \/ (g.p = "Check" /\ g.c = "enough")
      /\ b.p \notin {"ByFunction", "PowerClass"} => g = b
  BY <1>3, ChosenFacts DEF BodyOK
<1> HIDE DEF g
<1>5. Body(f) = Body(Top) /\ f.n = i
  BY DEF Body, i
<1>6. FrameOK(f)
  <2>1. f.n <= Len(Body(f))
    BY <1>2, <1>5
  <2> QED  BY <2>1 DEF FrameOK, Sequenced, RpmbRequests
<1>7. Calling(f)
  BY <1>1 DEF Calling, Sequenced, RpmbRequests
<1>8. Waits(f, g.p, g.c, req.kind)
  BY DEF Waits, Sequenced, RpmbRequests
<1>9. Counts(f, g.p, g.c)
  <2>1. f.p = "SdhcSwitchPartitionMmc" /\ f.n = 2 => g.p = "SdhcSendDataCommand" /\ g.c = "ExtCsd"
    BY <1>3, <1>4, <1>5 DEF BodyOK
  <2>2. f.p = "SdhcSwitchPartitionMmc" /\ f.n = 3 => g.p = "Check" /\ g.c = f.c
    BY <1>3, <1>4, <1>5 DEF BodyOK
  <2>3. f.p \in {"InitializeSdDevice", "InitializeMmcDevice"} /\ f.n = 4 => g.p = "SdhcSendCommand" /\ g.c = "Cid"
    BY <1>3, <1>4, <1>5 DEF BodyOK
  <2>4. f.p = "InitializeDevice" /\ f.n = 5 =>
          g.p \in {"InitializeSdDevice", "InitializeMmcDevice"} \/ (g.p = "Check" /\ g.c = "unsupported")
    BY <1>3, <1>4, <1>5 DEF BodyOK
  <2>5. f.p \in RpmbRequests => g = b /\ b = Body(f)[f.n]
    BY <1>3, <1>4, <1>5 DEF BodyOK, b
  <2> QED  BY <2>1, <2>2, <2>3, <2>4, <2>5 DEF Counts
<1>10. Called(f, g.p, g.c)
  <2>1. f.p # "Check"
    BY DEF Sequenced, RpmbRequests
  <2>2. g.p \notin RpmbRequests \cup {"RpmbRequest", "OpteeRpcCmdRpmb"}
    BY <1>3, <1>4 DEF BodyOK, RpmbRequests
  <2>3. g.p = "SdhcSendDataCommand" /\ g.c \in RpmbCodes => f.p \in RpmbRequests
    BY <1>3, <1>4 DEF BodyOK
  <2> QED  BY <2>1, <2>2, <2>3 DEF Called
<1>11. Looks(g) => host.ext.part = card.part
  <2> SUFFICES ASSUME Looks(g) PROVE host.ext.part = card.part
    OBVIOUS
  <2>1. g = b
    BY <1>4 DEF Looks
  <2>2. Top.p = "SdhcSwitchPartitionMmc" /\ Top.n = 2
    BY <1>1, <1>3, <2>1 DEF BodyOK, Looks, i
  <2>3. ret.p = "SdhcSendDataCommand" /\ ret.c = "ExtCsd" /\ ret.s = "OK"
    BY <1>1, <2>2 DEF Rel, Counts, Ok
  <2> QED  BY <2>3 DEF CommandInv, ReturnsInv
<1> QED  BY <1>4, <1>6, <1>8, <1>9, <1>10, <1>11, <1>7 DEF g, b, i, Rel

\* What a sequence does: stop at an error, end, or make its next call.
LEMMA SequenceCases ==
  ASSUME CommandInv, Sequence
  PROVE  /\ Running /\ Top.p \in Sequenced /\ Top.p # "Check" /\ UNCHANGED quiet
         /\ Top \in FrameType /\ Top.n \in Nat /\ FrameOK(Top) /\ Rel(Top, ret.p, ret.c, req.kind)
         /\ Len(Body(Top)) \in BodyLen(Top) /\ Len(Body(Top)) \in 2 .. 11 /\ Top.n <= Len(Body(Top))
         /\ \/ ~Ok /\ Return(ret.s)
            \/ Ok /\ Top.n = Len(Body(Top)) /\ Return("OK")
            \/ /\ Top.n = 0 \/ Ok
               /\ Top.n # Len(Body(Top))
               /\ stack' = Below \o <<[Top EXCEPT !.n = @ + 1], Chosen(Body(Top)[Top.n + 1])>>
               /\ ret' = NoRet
<1>1. Running /\ Top.p \in Sequenced /\ Top.p # "Check" /\ UNCHANGED quiet
  BY DEF Sequence, Sequenced, RpmbRequests
<1>2. Top \in FrameType /\ Top.n \in Nat /\ FrameOK(Top) /\ Rel(Top, ret.p, ret.c, req.kind)
  BY <1>1, TopFacts DEF CommandInv, FrameType
<1>3. Len(Body(Top)) \in BodyLen(Top) /\ Len(Body(Top)) \in 2 .. 11 /\ Top.n <= Len(Body(Top))
  BY <1>1, <1>2, BodyFacts, BodyLength DEF FrameOK
<1>4. \/ ~Ok /\ Return(ret.s)
      \/ Ok /\ Top.n = Len(Body(Top)) /\ Return("OK")
      \/ /\ Top.n = 0 \/ Ok
         /\ Top.n # Len(Body(Top))
         /\ stack' = Below \o <<[Top EXCEPT !.n = @ + 1], Chosen(Body(Top)[Top.n + 1])>>
         /\ ret' = NoRet
  <2>1. CASE Top.n > 0 /\ ~Ok
    BY <1>2, <2>1 DEF Sequence
  <2>2. CASE Ok /\ Top.n = Len(Body(Top))
    BY <1>2, <2>2 DEF Sequence
  <2>3. CASE (Top.n = 0 \/ Ok) /\ Top.n # Len(Body(Top))
    BY <1>2, <2>3 DEF Sequence
  <2>4. \/ Top.n > 0 /\ ~Ok
        \/ Ok /\ Top.n = Len(Body(Top))
        \/ (Top.n = 0 \/ Ok) /\ Top.n # Len(Body(Top))
    <3>1. \A n \in Nat, m \in 2 .. 11 : n = 0 => n # m
      OBVIOUS
    <3>2. Top.n = 0 => Top.n # Len(Body(Top))
      BY <1>2, <1>3, <3>1, Zenon
    <3>3. Top.n > 0 \/ Top.n = 0
      BY <1>2
    <3> QED  BY <3>2, <3>3, Zenon
  <2> QED  BY <2>1, <2>2, <2>3, <2>4, Zenon
<1> QED  BY <1>1, <1>2, <1>3, <1>4

\* The sequences keep it.
LEMMA SequenceKeeps ==
  ASSUME CommandInv, Sequence
  PROVE  CommandInv'
<1>1. Running /\ Top.p \in Sequenced /\ Top.p # "Check" /\ UNCHANGED quiet
  BY SequenceCases
<1>2. Top \in FrameType /\ Top.n \in Nat /\ FrameOK(Top) /\ Rel(Top, ret.p, ret.c, req.kind)
  BY SequenceCases
<1>3. Len(Body(Top)) \in BodyLen(Top) /\ Len(Body(Top)) \in 2 .. 11 /\ Top.n <= Len(Body(Top))
  BY SequenceCases
<1>4. Fields' /\ req'.kind = req.kind
  BY <1>1, QuietFields DEF quiet
<1>5. CASE ~Ok /\ Return(ret.s)
  <2>1. ret'.s = ret.s => ReturnsInv'
    BY <1>5 DEF ReturnsInv, Ok
  <2> QED  BY <1>1, <1>4, <1>5, <2>1, ReturnStep
<1>6. CASE Ok /\ Top.n = Len(Body(Top)) /\ Return("OK")
  <2>1. Top.p = "SdhcSwitchPartitionMmc" => ret.p = "Check" /\ ret.c = Top.c
    <3>1. Top.p = "SdhcSwitchPartitionMmc" => BodyLen(Top) = {3}
      BY DEF BodyLen, RpmbReads, RpmbWrites
    <3>2. Top.p = "SdhcSwitchPartitionMmc" => Top.n = 3
      BY <1>3, <1>6, <3>1
    <3> QED  BY <1>2, <3>2 DEF Rel, Counts
  <2>2. /\ Top.p = "SdhcSwitchPartitionMmc" /\ Top.c = "Back" => InUse
        /\ Top.p = "SdhcSwitchPartitionMmc" /\ Top.c = "Rpmb" => card.part = "rpmb"
    BY <1>6, <2>1 DEF CommandInv, ReturnsInv, Ok
  <2>3. (ret'.p = Top.p /\ ret'.c = Top.c) => ReturnsInv'
    BY <1>1, <2>2 DEF ReturnsInv, InUse, quiet, Sequenced, RpmbRequests
  <2> QED  BY <1>1, <1>4, <1>6, <2>3, ReturnStep
<1>7. CASE /\ Top.n = 0 \/ Ok
           /\ Top.n # Len(Body(Top))
           /\ stack' = Below \o <<[Top EXCEPT !.n = @ + 1], Chosen(Body(Top)[Top.n + 1])>>
           /\ ret' = NoRet
  <2> DEFINE f == [Top EXCEPT !.n = @ + 1]
             g == Chosen(Body(Top)[Top.n + 1])
  <2>1. f \in FrameType /\ f.p = Top.p /\ f.c = Top.c /\ f.n = Top.n + 1
    BY <1>2, FrameCount
  <2>2. stack' = Below \o <<f, g>> /\ NothingReturned
    BY <1>7 DEF NothingReturned, NoRet
  <2>3. Top.n < Len(Body(Top))
    BY <1>2, <1>3, <1>7
  <2> HIDE DEF f
  <2>4. /\ Fresh(g) /\ FrameOK(f) /\ Calling(f) /\ Rel(f, g.p, g.c, req.kind)
        /\ Looks(g) => host.ext.part = card.part
    BY <1>1, <1>7, <2>1, <2>3, NextCall
  <2> HIDE DEF g
  <2>5. Looks(g) => host'.ext.part = card'.part
    BY <1>1, <2>4 DEF quiet
  <2> QED  BY <1>1, <1>4, <2>1, <2>2, <2>4, <2>5, Calls
<1> QED  BY <1>5, <1>6, <1>7, SequenceCases


\* A request for the RPMB partition is of one of the four kinds.
LEMMA RequestKind ==
  ASSUME CommandInv, In("RpmbRequest")
  PROVE  req.kind \in RpmbRequests
<1> DEFINE n == Len(stack)
<1>1. Running /\ Top.p = "RpmbRequest" /\ FramesInv
  BY RunningFacts DEF CommandInv
<1>2. n \in Nat \ {0} /\ Top = stack[n]
  BY <1>1, TopFacts
<1>3. n # 1
  BY <1>1, <1>2 DEF FramesInv
<1> HIDE DEF n
<1>4. n - 1 \in 1 .. n - 1 /\ (n - 1) + 1 = n
  BY <1>2, <1>3
<1>5. Rel(stack[n - 1], Top.p, Top.c, req.kind)
  <2>1. \A k \in 1 .. n - 1 : Rel(stack[k], stack[k + 1].p, stack[k + 1].c, req.kind)
    BY <1>1 DEF FramesInv, n
  <2> QED  BY <1>2, <1>4, <2>1, Zenon
<1> QED  BY <1>1, <1>5 DEF Rel, Called, Waits

\* An RPMB request keeps it.
LEMMA RpmbRequestKeeps ==
  ASSUME CommandInv, RpmbRequest
  PROVE  CommandInv'
<1>1. /\ In("RpmbRequest") /\ Running /\ Top.p = "RpmbRequest" /\ UNCHANGED quiet
      /\ Top.at \in RpmbLabels /\ Rel(Top, ret.p, ret.c, req.kind) /\ Plain(Top.p)
  BY RunningFacts DEF RpmbRequest, FrameOK, Plain, Procs, Callees, Sequenced, RpmbRequests
<1>2. Fields' /\ req'.kind = req.kind
  BY <1>1, QuietFields DEF quiet
<1>3. ASSUME NEW g, NEW l \in RpmbLabels, Call(g, l),
             \/ l = "switched" /\ Is(g, "SdhcSwitchPartitionMmc", "Rpmb")
             \/ l = "served" /\ Is(g, req.kind, "none")
             \/ l \in {"back", "backFailed"} /\ Is(g, "SdhcSwitchPartitionMmc", "Back")
      PROVE  CommandInv'
  <2>1. req.kind \in RpmbRequests
    BY <1>1, RequestKind
  <2>2. \A f \in FrameType : f.p = Top.p /\ f.c = Top.c /\ f.at = l =>
           Waits(f, g.p, g.c, req.kind) /\ Called(f, g.p, g.c) /\ Calling(f)
    BY <1>1, <1>3, <2>1 DEF Is, Waits, Called, RpmbRequests, Calling, Sequenced
  <2>3. l \in Labels /\ Fresh(g) /\ ~Looks(g)
    BY <1>3, <2>1, CommandCodes DEF Is, Looks, RpmbLabels, RpmbRequests
  <2> QED  BY <1>1, <1>2, <1>3, <2>2, <2>3, CallStep
<1>4. ASSUME NEW s, Return(s), s = "OK" => InUse
      PROVE  CommandInv'
  <2>1. (ret'.p = Top.p /\ ret'.c = Top.c /\ ret'.s = s) => ReturnsInv'
    BY <1>1, <1>4 DEF ReturnsInv, InUse, quiet, RpmbRequests
  <2> QED  BY <1>1, <1>2, <1>4, <2>1, ReturnStep
<1>5. CASE Top.at = "begin"
  <2>1. Call(Frame("SdhcSwitchPartitionMmc", "Rpmb"), "switched")
    BY <1>5 DEF RpmbRequest
  <2> QED  BY <1>3, <2>1, CallFrames DEF RpmbLabels
<1>6. CASE Top.at = "switched"
  <2>1. (Ok /\ Call(Proc(req.kind), "served")) \/ (~Ok /\ Return(ret.s))
    BY <1>6 DEF RpmbRequest
  <2>2. Is(Proc(req.kind), req.kind, "none")
    BY <1>1, RequestKind, CallFrames
  <2> QED  BY <1>3, <1>4, <2>1, <2>2 DEF RpmbLabels, Ok
<1>7. CASE Top.at = "served"
  <2>1. \/ Call(Frame("SdhcSwitchPartitionMmc", "Back"), "back")
        \/ Call(Frame("SdhcSwitchPartitionMmc", "Back"), "backFailed")
    BY <1>7 DEF RpmbRequest
  <2> QED  BY <1>3, <2>1, CallFrames DEF RpmbLabels
<1>8. CASE Top.at = "back"
  <2>1. ret.p = "SdhcSwitchPartitionMmc" /\ ret.c = "Back"
    BY <1>1, <1>8 DEF Rel, Waits
  <2>2. Return(ret.s)
    BY <1>8 DEF RpmbRequest
  <2>3. ret.s = "OK" => InUse
    BY <2>1 DEF CommandInv, ReturnsInv
  <2> QED  BY <1>4, <2>2, <2>3
<1>9. CASE Top.at = "backFailed"
  <2>1. Return("ERR")
    BY <1>9 DEF RpmbRequest
  <2> QED  BY <1>4, <2>1
<1> QED  BY <1>1, <1>5, <1>6, <1>7, <1>8, <1>9 DEF RpmbLabels

\* OP-TEE's request keeps it.
LEMMA OpteeRpcKeeps ==
  ASSUME CommandInv, OpteeRpcCmdRpmb
  PROVE  CommandInv'
<1>1. /\ Fields /\ Running /\ Top.p = "OpteeRpcCmdRpmb" /\ UNCHANGED <<card, host>> /\ Plain(Top.p)
  BY RunningFacts DEF OpteeRpcCmdRpmb, CommandInv, Plain, Procs, Callees, Sequenced, RpmbRequests
<1>2. DOMAIN req' = DOMAIN req /\ req'.kind = req.kind
  BY <1>1 DEF OpteeRpcCmdRpmb, Fields
<1>3. Fields' /\ req'.kind = req.kind
  BY <1>1, <1>2, FieldsKept DEF SameFields
<1>4. ASSUME NEW s, Return(s)
      PROVE  CommandInv'
  <2>1. (ret'.p = Top.p /\ ret'.c = Top.c) => ReturnsInv'
    BY <1>1 DEF ReturnsInv
  <2> QED  BY <1>1, <1>3, <1>4, <2>1, ReturnStep
<1>5. ASSUME NEW g, Call(g, "served"), req.kind \in RpmbRequests,
             Is(g, "RpmbRequest", "none") \/ Is(g, "Check", "unsupported")
      PROVE  CommandInv'
  <2>1. \A f \in FrameType : f.p = Top.p /\ f.c = Top.c /\ f.at = "served" =>
           Waits(f, g.p, g.c, req.kind) /\ Called(f, g.p, g.c) /\ Calling(f)
    BY <1>1, <1>5 DEF Is, Waits, Called, RpmbRequests, Calling, Sequenced
  <2>2. "served" \in Labels /\ Fresh(g) /\ ~Looks(g)
    BY <1>5, CommandCodes DEF Is, Looks
  <2> QED  BY <1>1, <1>3, <1>5, <2>1, <2>2, CallStep
<1>6. Is(Proc("RpmbRequest"), "RpmbRequest", "none") /\ Is(Chk("unsupported"), "Check", "unsupported")
  BY CallFrames
<1>7. \/ \E s : Return(s)
      \/ /\ req.kind \in RpmbRequests
         /\ Call(Proc("RpmbRequest"), "served") \/ Call(Chk("unsupported"), "served")
  BY DEF OpteeRpcCmdRpmb, RpmbRequests, RpmbIoProgramKey, RpmbIoReadCounter, RpmbIoAuthenticatedWrite,
         RpmbIoAuthenticatedRead
<1> QED  BY <1>4, <1>5, <1>6, <1>7

\* A request starts a stack of its own.
LEMMA RequestKeeps ==
  ASSUME CommandInv, NEW kind \in Kinds, NEW n, NEW p, NEW c, NEW f, Is(f, p, c), Request(kind, n, f),
         \/ p \in {"SoftReset", "OpteeRpcCmdRpmb"}
         \/ p = "SdhcSendDataCommand" /\ c \notin RpmbCodes
  PROVE  CommandInv'
<1>1. stack' = <<f>> /\ NothingReturned /\ UNCHANGED <<card, host>> /\ Fresh(f) /\ f.p = p /\ f.c = c
  BY DEF Request, NothingReturned, NoRet, Is
<1>2. {"kind", "part", "written", "answer"} \subseteq DOMAIN req' /\ req'.kind = kind
  BY DEF Request, NewReq
<1>3. Fields'
  BY <1>1, <1>2 DEF CommandInv, Fields
<1>4. f \in FrameType /\ FrameOK(f) /\ Rel(f, "none", "none", kind)
  <2>1. FrameOK(f) /\ (f.p = "Check" \/ Rel(f, "none", "none", kind))
    BY <1>1, FreshRel
  <2> QED  BY <1>1, <2>1 DEF Fresh
<1>5. /\ stack' \in Seq(FrameType) /\ Len(stack') = 1 /\ stack'[1] = f /\ stack' # <<>> /\ Top' = f
  BY <1>1, <1>4 DEF Top
<1>6. ret'.p = "none" /\ ret'.c = "none" /\ ReturnsInv'
  BY <1>1, NoReturn
<1>7. FramesInv'
  <2>1. \A k \in 1 .. Len(stack') : FrameOK(stack'[k])
    <3>1. \A k \in 1 .. Len(stack') : k = 1
      BY <1>5
    <3> QED  BY <1>4, <1>5, <3>1, Zenon
  <2>2. \A k \in 1 .. Len(stack') - 1 : FALSE
    BY <1>5
  <2>3. Rel(Top', ret'.p, ret'.c, req'.kind)
    BY <1>2, <1>4, <1>5, <1>6
  <2>4. stack'[1].p \in {"SoftReset", "SdhcSendDataCommand", "OpteeRpcCmdRpmb"}
    BY <1>1, <1>5
  <2>5. stack'[1].p = "SdhcSendDataCommand" => stack'[1].c \notin RpmbCodes
    BY <1>1, <1>5
  <2> QED  BY <1>5, <2>1, <2>2, <2>3, <2>4, <2>5 DEF FramesInv
<1>8. FreshInv'
  BY <1>1, <1>5 DEF FreshInv, Looks
<1> QED  BY <1>3, <1>6, <1>7, <1>8 DEF CommandInv


-------------------------------------------------------------------------------
(* The theorems.                                                             *)

\* A card that has just been inserted has all its fields.
LEMMA InsertedFields ==
  ASSUME NEW k, "id" \in DOMAIN k
  PROVE  {"id", "st", "part", "count", "closed", "busy", "asked"} \subseteq DOMAIN Inserted(k)
BY DEF Inserted, Unselected

\* Initially nothing runs and nothing has returned.
LEMMA InitKeeps ==
  ASSUME Init
  PROVE  CommandInv
<1>1. stack = <<>> /\ ret = NoRet /\ host = NewHost /\ req = NewReq
  BY DEF Init
<1>2. PICK k \in Cards : \E b : card = [Inserted(k) EXCEPT !.busy = b]
  BY DEF Init
<1>3. {"id", "st", "part", "count", "closed", "busy", "asked"} \subseteq DOMAIN card
  BY <1>2, InsertedFields, CommandAssumption DEF CommandAssumption
<1>4. Fields
  BY <1>1, <1>3 DEF Fields, NewHost, NewReq, Kinds
<1>5. FramesInv
  <2>1. stack \in Seq(FrameType) /\ Len(stack) = 0 /\ ~Running
    BY <1>1 DEF Running
  <2>2. (\A i \in 1 .. Len(stack) : FALSE) /\ (\A i \in 1 .. Len(stack) - 1 : FALSE)
    BY <2>1
  <2> QED  BY <2>1, <2>2 DEF FramesInv
<1>6. FreshInv
  BY <1>1 DEF FreshInv, Running
<1>7. ReturnsInv
  BY <1>1 DEF ReturnsInv, NoRet
<1> QED  BY <1>4, <1>5, <1>6, <1>7 DEF CommandInv

\* Every step keeps the invariant.
LEMMA NextKeeps ==
  ASSUME CommandInv, [Next]_vars
  PROVE  CommandInv'
<1>1. CASE Driver
  BY <1>1, SendCommandKeeps, SendDataKeeps, WaitKeeps, RecoverKeeps, SoftResetKeeps, QueryKeeps,
     OpCondKeeps, CheckKeeps, HostExtKeeps, SequenceKeeps, RpmbRequestKeeps, OpteeRpcKeeps DEF Driver
<1>2. CASE Insert
  <2>1. Request("SoftReset", 1, Proc("SoftReset")) /\ "SoftReset" \in Kinds
    BY <1>2 DEF Insert, Kinds
  <2>2. Is(Proc("SoftReset"), "SoftReset", "none")
    BY CallFrames
  <2> QED  BY <2>1, <2>2, RequestKeeps
<1>3. CASE BlockIo
  <2>1. PICK c \in {"ReadSingle", "ReadMulti", "WriteSingle", "WriteMulti"} : Request(c, 1, Data(c))
    BY <1>3 DEF BlockIo
  <2>2. c \in Codes /\ c \in Kinds /\ c \notin RpmbCodes
    BY DEF Codes, Kinds, RpmbCodes
  <2>3. Is(Data(c), "SdhcSendDataCommand", c)
    BY <2>2, CallFrames
  <2> QED  BY <2>1, <2>2, <2>3, RequestKeeps
<1>4. CASE Rpmb
  <2>1. PICK k \in RpmbRequests \cup {"GetDevInfo"} : \E n : Request(k, n, Proc("OpteeRpcCmdRpmb"))
    BY <1>4 DEF Rpmb
  <2>2. k \in Kinds
    BY DEF Kinds, RpmbRequests
  <2>3. Is(Proc("OpteeRpcCmdRpmb"), "OpteeRpcCmdRpmb", "none")
    BY CallFrames
  <2>4. PICK n : Request(k, n, Proc("OpteeRpcCmdRpmb"))
    BY <2>1
  <2> QED  BY <2>2, <2>3, <2>4, RequestKeeps
<1>5. CASE UNCHANGED vars
  <2>1. card' = card /\ host' = host /\ stack' = stack /\ ret' = ret /\ req' = req
    BY <1>5 DEF vars
  <2>2. Fields'
    BY <2>1 DEF CommandInv, Fields
  <2>3. FramesInv'
    BY <2>1 DEF CommandInv, FramesInv, Running, Top
  <2>4. FreshInv'
    BY <2>1 DEF CommandInv, FreshInv, Running, Top
  <2>5. ReturnsInv'
    BY <2>1 DEF CommandInv, ReturnsInv, InUse
  <2> QED  BY <2>2, <2>3, <2>4, <2>5 DEF CommandInv
<1> QED  BY <1>1, <1>2, <1>3, <1>4, <1>5 DEF Next

\* The inductive invariant.
LEMMA CommandInvariant == Spec => []CommandInv
<1>1. Init => CommandInv
  BY InitKeeps
<1>2. CommandInv /\ [Next]_vars => CommandInv'
  BY NextKeeps
<1> QED  BY <1>1, <1>2, PTL DEF Spec

\* A data command that reports success has left the card in the transfer state: an
\* open-ended transfer has been stopped, also when recoveries and whole initialisations
\* ran in between (SdhcSendDataCommand, SdhcWaitForTranState).
THEOREM TransferOverHolds == Spec => []TransferOver
<1>1. CommandInv => TransferOver
  BY DEF CommandInv, ReturnsInv, TransferOver, Returned
<1> QED  BY <1>1, CommandInvariant, PTL

\* An RPMB request that reports success has put back the partition that was in use, on
\* the card and in the driver's record (RpmbRequest, SdhcSwitchPartitionMmc).
THEOREM PartitionRestoredHolds == Spec => []PartitionRestored
<1>1. CommandInv => PartitionRestored
  BY DEF CommandInv, ReturnsInv, PartitionRestored, Returned, InUse
<1> QED  BY <1>1, CommandInvariant, PTL


-------------------------------------------------------------------------------
(* The RPMB requests of OP-TEE.                                              *)

\* The driver knows which card it has; once it does it goes on to.
Known == host.cid = card.id

\* The frames and the returns that follow the reading of the card's CID.
Learnt(f) ==
  \/ f.p \in {"InitializeSdDevice", "InitializeMmcDevice"} /\ f.n > 4
  \/ f.p = "InitializeDevice" /\ f.n > 5
Learns(p, c) ==
  \/ p = "SdhcSendCommand" /\ c = "Cid"
  \/ p \in {"InitializeSdDevice", "InitializeMmcDevice", "InitializeDevice"}

\* The request is carried out and answered.
Served(r) == IF r.kind \in WriteKinds THEN r.written = 1 /\ r.answer = "result"
                                      ELSE r.written = 0 /\ r.answer = r.kind

\* The frames of a request whose first packet has not been sent.
Unsent(f) ==
  \/ f.p = "OpteeRpcCmdRpmb" /\ f.at = "begin"
  \/ f.p = "RpmbRequest" /\ f.at \in {"begin", "switched"}
  \/ f.p \in RpmbRequests /\ f.n < 2
  \/ f.p = "SdhcSendDataCommand" /\ f.c = "RpmbSend" /\ f.at \in {"begin", "data"}

\* What a frame says of request r.
Says(f, known, r) ==
  /\ Learnt(f) => known
  /\ Unsent(f) => r.written = 0
  /\ f.p = "RpmbRequest" /\ f.at = "back" => Served(r)
SaysInv == \A k \in 1 .. Len(stack) : Says(stack[k], Known, req)

\* What a return says of it.
ToldInv ==
  ret.s = "OK" =>
    /\ Learns(ret.p, ret.c) => Known
    /\ ret.p \in RpmbRequests \cup {"RpmbRequest", "OpteeRpcCmdRpmb"} => Served(req)

\* The packets of a request are being exchanged.  A command that is going to fail, or whose
\* recovery runs, fails the whole request.
Inside   == Len(stack) > 2 /\ stack[3].p \in RpmbRequests
Doom(f)  == f.p \in {"SdhcSendCommand", "SdhcSendDataCommand"} /\ f.at \in {"exit", "failed"}
Doomed   == \E k \in 4 .. Len(stack) : Doom(stack[k])
Open     == Inside /\ ~Doomed

\* The packets that have been exchanged, and where that leaves the request and the card.
Moving   == stack[4].p = "SdhcSendDataCommand" /\ stack[4].at \in {"moved", "stopped", "waited"}
Complete == IF Len(stack) = 3 \/ Moving THEN stack[3].n ELSE stack[3].n - 1
Done(j, r, asked) ==
  LET w == r.kind \in WriteKinds
  IN /\ j > 1 => r.written = IF w THEN 1 ELSE 0
     /\ j \in {2, 3} => asked = r.kind
     /\ w /\ j \in {4, 5} => asked = "result"
     /\ w /\ j = 6 => r.answer = "result"
     /\ ~w /\ j = 4 => r.answer = r.kind
Progress ==
  /\ card.part = "rpmb" /\ Done(Complete, req, card.asked)
  /\ Len(stack) = 3 /\ stack[3].n \in {1, 3, 5} => card.count
  /\ Len(stack) = 4 /\ stack[4].p = "SdhcSendDataCommand" /\ stack[4].at = "begin" => card.count
  /\ Len(stack) = 4 /\ stack[4].p = "SdhcSendDataCommand" /\ stack[4].at = "data" => card.closed
PathInv == Open /\ Ok => Progress

\* A procedure that has not waited for anything has been told nothing.
Silent(f) ==
  \/ /\ f.p \in {"SdhcSendCommand", "SdhcSendDataCommand", "SdhcWaitForTranState"}
     /\ f.at \in {"begin", "data", "moved"}
  \/ f.p \in RpmbRequests /\ f.n = 0
SilentInv == Running /\ Silent(Top) => Ok

RpmbInv ==
  /\ host.rpmb => Known
  /\ req.written \in {0, 1}
  /\ SaysInv /\ ToldInv /\ PathInv /\ SilentInv


\* The caller of a frame that is not the first.
LEMMA Caller ==
  ASSUME FramesInv, NEW k \in 1 .. Len(stack), k # 1
  PROVE  /\ k - 1 \in 1 .. Len(stack) /\ k - 1 \in 1 .. Len(stack) - 1
         /\ Calling(stack[k - 1]) /\ FrameOK(stack[k - 1])
         /\ Rel(stack[k - 1], stack[k].p, stack[k].c, req.kind)
<1> DEFINE n == Len(stack)
<1>1. n \in Nat
  BY DEF FramesInv
<1>2. /\ \A i \in 1 .. n : FrameOK(stack[i])
      /\ \A i \in 1 .. n - 1 : Calling(stack[i]) /\ Rel(stack[i], stack[i + 1].p, stack[i + 1].c, req.kind)
  BY DEF FramesInv
<1> HIDE DEF n
<1>3. k \in 1 .. n
  BY DEF n
<1>4. k - 1 \in 1 .. n /\ k - 1 \in 1 .. n - 1 /\ (k - 1) + 1 = k
  BY <1>1, <1>3
<1>5. /\ Calling(stack[k - 1]) /\ FrameOK(stack[k - 1])
      /\ Rel(stack[k - 1], stack[(k - 1) + 1].p, stack[(k - 1) + 1].c, req.kind)
  BY <1>2, <1>4
<1> QED  BY <1>4, <1>5, Zenon DEF n

\* Where the frames of an RPMB request are.
LEMMA Places ==
  ASSUME FramesInv, NEW k \in 1 .. Len(stack)
  PROVE  /\ stack[k].p = "OpteeRpcCmdRpmb" => k = 1
         /\ stack[k].p = "RpmbRequest" => k = 2 /\ stack[1].p = "OpteeRpcCmdRpmb" /\ stack[1].at = "served"
         /\ stack[k].p \in RpmbRequests =>
              /\ k = 3 /\ stack[2].p = "RpmbRequest" /\ stack[2].at = "served"
              /\ stack[k].p = req.kind
         /\ stack[k].p = "SdhcSendDataCommand" /\ stack[k].c \in RpmbCodes =>
              k = 4 /\ stack[3].p \in RpmbRequests
<1>1. stack # <<>> => /\ stack[1].p \in {"SoftReset", "SdhcSendDataCommand", "OpteeRpcCmdRpmb"}
                      /\ stack[1].p = "SdhcSendDataCommand" => stack[1].c \notin RpmbCodes
  BY DEF FramesInv, Running
<1>2. stack # <<>>
  <2>1. Len(stack) \in Nat
    BY DEF FramesInv
  <2>2. Len(stack) # 0
    BY <2>1
  <2> QED  BY <2>2 DEF FramesInv
<1>3. ASSUME NEW i \in 1 .. Len(stack), stack[i].p = "OpteeRpcCmdRpmb" PROVE i = 1
  BY <1>3, Caller DEF Rel, Called
<1>4. ASSUME NEW i \in 1 .. Len(stack), stack[i].p = "RpmbRequest"
      PROVE  i = 2 /\ stack[1].p = "OpteeRpcCmdRpmb" /\ stack[1].at = "served"
  <2>1. i # 1
    BY <1>1, <1>2, <1>4
  <2>2. i - 1 \in 1 .. Len(stack) /\ stack[i - 1].p = "OpteeRpcCmdRpmb" /\ stack[i - 1].at = "served"
    BY <1>4, <2>1, Caller DEF Rel, Called
  <2>3. i - 1 = 1
    BY <2>2, <1>3
  <2>4. i = 2
    BY <2>3
  <2> QED  BY <2>2, <2>3, <2>4
<1>5. ASSUME NEW i \in 1 .. Len(stack), stack[i].p \in RpmbRequests
      PROVE  i = 3 /\ stack[2].p = "RpmbRequest" /\ stack[2].at = "served" /\ stack[i].p = req.kind
  <2>1. i # 1
    BY <1>1, <1>2, <1>5 DEF RpmbRequests
  <2>2. /\ i - 1 \in 1 .. Len(stack) /\ stack[i - 1].p = "RpmbRequest" /\ stack[i - 1].at = "served"
        /\ stack[i].p = req.kind
    BY <1>5, <2>1, Caller DEF Rel, Called, Waits
  <2>3. i - 1 = 2
    BY <2>2, <1>4
  <2>4. i = 3
    BY <2>3
  <2> QED  BY <2>2, <2>3, <2>4
<1>6. ASSUME NEW i \in 1 .. Len(stack), stack[i].p = "SdhcSendDataCommand", stack[i].c \in RpmbCodes
      PROVE  i = 4 /\ stack[3].p \in RpmbRequests
  <2>1. i # 1
    BY <1>1, <1>2, <1>6
  <2>2. i - 1 \in 1 .. Len(stack) /\ stack[i - 1].p \in RpmbRequests
    BY <1>6, <2>1, Caller DEF Rel, Called
  <2>3. i - 1 = 3
    BY <2>2, <1>5
  <2>4. i = 4
    BY <2>3
  <2> QED  BY <2>2, <2>3, <2>4
<1> QED  BY <1>3, <1>4, <1>5, <1>6

\* The packets of an RPMB request by number.
PacketCode(n, w) == IF n = 2 THEN "RpmbSend" ELSE IF n = 4 /\ w THEN "RpmbAsk" ELSE "RpmbFetch"
IsPacket(n, w, p, c) ==
  /\ n \in {1, 3, 5} => p = "SdhcSendCommand" /\ c = "SetBlockCount"
  /\ n \in {2, 4, 6} => p = "SdhcSendDataCommand" /\ c = PacketCode(n, w)

\* How many there are, and which one each is.
LEMMA PacketFacts ==
  ASSUME NEW f \in FrameType, f.p \in RpmbRequests
  PROVE  LET w == f.p \in WriteKinds
         IN /\ Len(Body(f)) = IF w THEN 6 ELSE 4
            /\ \A n \in 1 .. Len(Body(f)) : IsPacket(n, w, Body(f)[n].p, Body(f)[n].c)
<1> DEFINE s == Body(f)
           w == f.p \in WriteKinds
<1>1. Len(s) = IF w THEN 6 ELSE 4
  <2>1. Len(s) \in BodyLen(f)
    BY BodyFacts DEF Sequenced
  <2>2. BodyLen(f) = IF w THEN {6} ELSE {4}
    BY DEF BodyLen, RpmbRequests, RpmbReads, RpmbWrites, WriteKinds
  <2> QED  BY <2>1, <2>2
<1>2. IsPackets(s, Len(s))
  BY BodyFacts DEF Sequenced
<1>3. /\ SdhcSetBlockCount.p = "SdhcSendCommand" /\ SdhcSetBlockCount.c = "SetBlockCount"
      /\ Data("RpmbSend").p = "SdhcSendDataCommand" /\ Data("RpmbSend").c = "RpmbSend"
      /\ Data("RpmbAsk").p = "SdhcSendDataCommand" /\ Data("RpmbAsk").c = "RpmbAsk"
      /\ Data("RpmbFetch").p = "SdhcSendDataCommand" /\ Data("RpmbFetch").c = "RpmbFetch"
  BY DEF SdhcSetBlockCount, Cmd, Data, Frame
<1> HIDE DEF s
<1>4. CASE w
  <2>1. Len(s) = 6
    BY <1>1, <1>4
  <2>2. \A n \in 1 .. 6 : IsPacket(n, TRUE, s[n].p, s[n].c)
    BY <1>2, <1>3, <2>1 DEF IsPackets, IsPacket, PacketCode
  <2>3. w = TRUE
    BY <1>4
  <2> QED  BY <2>1, <2>2, <2>3 DEF s
<1>5. CASE ~w
  <2>1. Len(s) = 4
    BY <1>1, <1>5
  <2>2. \A n \in 1 .. 4 : IsPacket(n, FALSE, s[n].p, s[n].c)
    BY <1>2, <1>3, <2>1 DEF IsPackets, IsPacket, PacketCode
  <2>3. w = FALSE
    BY <1>5
  <2> QED  BY <2>1, <2>2, <2>3 DEF s
<1> QED  BY <1>1, <1>4, <1>5 DEF s

\* The packet of an RPMB request that is being exchanged.
LEMMA PacketOnStack ==
  ASSUME FramesInv, Inside, Len(stack) > 3
  PROVE  /\ stack[3].n \in 1 .. 6 /\ stack[3].p = req.kind
         /\ req.kind \notin WriteKinds => stack[3].n \in 1 .. 4
         /\ IsPacket(stack[3].n, req.kind \in WriteKinds, stack[4].p, stack[4].c)
<1> DEFINE f == stack[3]
<1>1. Len(stack) \in Nat /\ 3 \in 1 .. Len(stack) /\ 4 \in 1 .. Len(stack)
  BY DEF FramesInv
<1>2. f \in FrameType /\ f.n \in Nat /\ f.p \in RpmbRequests
  <2>1. f \in FrameType
    BY <1>1, StackElement, Zenon DEF FramesInv
  <2> QED  BY <2>1 DEF Inside, FrameType
<1>3. f.p = req.kind
  BY <1>1, <1>2, Places
<1>4. Calling(f) /\ FrameOK(f) /\ Rel(f, stack[4].p, stack[4].c, req.kind)
  <2>1. 4 - 1 = 3 /\ 4 # 1
    OBVIOUS
  <2> QED  BY <1>1, <2>1, Caller
<1>5. f.n > 0 /\ f.n <= Len(Body(f)) /\ stack[4].p = Body(f)[f.n].p /\ stack[4].c = Body(f)[f.n].c
  BY <1>2, <1>4 DEF Calling, FrameOK, Rel, Counts, Sequenced
<1>6. /\ Len(Body(f)) = IF f.p \in WriteKinds THEN 6 ELSE 4
      /\ \A n \in 1 .. Len(Body(f)) : IsPacket(n, f.p \in WriteKinds, Body(f)[n].p, Body(f)[n].c)
  BY <1>2, PacketFacts
<1>7. f.n \in 1 .. Len(Body(f))
  BY <1>2, <1>5, <1>6
<1> QED  BY <1>2, <1>3, <1>5, <1>6, <1>7


\* Who runs while the packets are exchanged and nothing has gone wrong.
LEMMA Shape ==
  ASSUME CommandInv, Open
  PROVE  /\ Running /\ Len(stack) \in 3 .. 6 /\ Top = stack[Len(stack)]
         /\ Len(stack) = 3 => Top.p \in RpmbRequests
         /\ Len(stack) = 4 => \/ Top.p = "SdhcSendCommand" /\ Top.c = "SetBlockCount"
                              \/ Top.p = "SdhcSendDataCommand" /\ Top.c \in RpmbCodes
         /\ Len(stack) > 4 => /\ Moving
                              /\ \/ Top.p = "SdhcSendCommand" /\ Top.c \in {"Stop", "SendStatus"}
                                 \/ Top.p = "SdhcWaitForTranState"
         /\ Len(stack) > 3 => ~Doom(Top)
<1> DEFINE n == Len(stack)
<1>1. n \in Nat /\ n > 2 /\ FramesInv /\ stack[3].p \in RpmbRequests
  BY DEF CommandInv, FramesInv, Open, Inside
<1>2. Running
  BY <1>1 DEF Running
<1>3. Top = stack[n]
  BY <1>1, <1>2, TopFacts
<1>4. \A k \in 1 .. n : k # 1 => /\ k - 1 \in 1 .. n /\ Calling(stack[k - 1]) /\ FrameOK(stack[k - 1])
                                 /\ Rel(stack[k - 1], stack[k].p, stack[k].c, req.kind)
  BY <1>1, Caller
<1>5. \A k \in 4 .. n : ~Doom(stack[k])
  BY DEF Open, Doomed
<1>6. n > 3 => \/ stack[4].p = "SdhcSendCommand" /\ stack[4].c = "SetBlockCount"
               \/ stack[4].p = "SdhcSendDataCommand" /\ stack[4].c \in RpmbCodes
  <2>1. ASSUME n > 3
        PROVE  stack[3].n \in 1 .. 6 /\ IsPacket(stack[3].n, req.kind \in WriteKinds, stack[4].p, stack[4].c)
    BY <1>1, <2>1, PacketOnStack DEF Open
  <2> QED  BY <2>1 DEF IsPacket, PacketCode, RpmbCodes
<1> HIDE DEF n
<1>7. ASSUME n > 4
      PROVE  /\ stack[4].p = "SdhcSendDataCommand" /\ stack[4].at \in {"stopped", "waited"}
             /\ \/ stack[5].p = "SdhcSendCommand" /\ stack[5].c = "Stop"
                \/ stack[5].p = "SdhcWaitForTranState"
  <2>1. 5 \in 1 .. n /\ 5 # 1 /\ 5 - 1 = 4 /\ 4 \in 4 .. n
    BY <1>1, <1>7
  <2>2. Calling(stack[4]) /\ FrameOK(stack[4]) /\ Rel(stack[4], stack[5].p, stack[5].c, req.kind) /\ ~Doom(stack[4])
    BY <1>4, <1>5, <2>1
  <2>3. ~(stack[4].p = "SdhcSendCommand")
    BY <1>6, <1>7, <1>1, <2>2 DEF Calling, FrameOK, Doom, Switches
  <2>4. stack[4].p = "SdhcSendDataCommand" /\ stack[4].at \in {"stopped", "waited"}
    BY <1>6, <1>7, <1>1, <2>2, <2>3 DEF Calling, Doom
  <2> QED  BY <2>2, <2>4 DEF Rel, Waits
<1>8. ASSUME n > 5
      PROVE  stack[6].p = "SdhcSendCommand" /\ stack[6].c = "SendStatus"
  <2>1. 6 \in 1 .. n /\ 6 # 1 /\ 6 - 1 = 5 /\ 5 \in 4 .. n /\ n > 4
    BY <1>1, <1>8
  <2>2. Calling(stack[5]) /\ FrameOK(stack[5]) /\ Rel(stack[5], stack[6].p, stack[6].c, req.kind) /\ ~Doom(stack[5])
    BY <1>4, <1>5, <2>1
  <2>3. ~(stack[5].p = "SdhcSendCommand" /\ stack[5].c = "Stop")
    BY <2>2 DEF Calling, FrameOK, Doom, Switches
  <2>4. stack[5].p = "SdhcWaitForTranState" /\ stack[5].at = "polled"
    BY <1>7, <2>1, <2>2, <2>3 DEF Calling
  <2> QED  BY <2>2, <2>4 DEF Rel, Waits
<1>9. ~(n > 6)
  <2> SUFFICES ASSUME n > 6 PROVE FALSE
    OBVIOUS
  <2>1. 7 \in 1 .. n /\ 7 # 1 /\ 7 - 1 = 6 /\ 6 \in 4 .. n /\ n > 5
    BY <1>1
  <2>2. Calling(stack[6]) /\ FrameOK(stack[6]) /\ ~Doom(stack[6])
    BY <1>4, <1>5, <2>1
  <2> QED  BY <1>8, <2>1, <2>2 DEF Calling, FrameOK, Doom, Switches
<1>10. n \in {3, 4, 5, 6}
  BY <1>1, <1>9
<1>11. CASE n = 3
  BY <1>1, <1>2, <1>3, <1>11 DEF n
<1>12. CASE n = 4
  BY <1>1, <1>2, <1>3, <1>5, <1>6, <1>12 DEF n
<1>13. CASE n = 5
  BY <1>1, <1>2, <1>3, <1>5, <1>7, <1>13 DEF n, Moving
<1>14. CASE n = 6
  BY <1>1, <1>2, <1>3, <1>5, <1>7, <1>8, <1>14 DEF n, Moving
<1> QED  BY <1>10, <1>11, <1>12, <1>13, <1>14

\* Who does not run then.
LEMMA Elsewhere ==
  ASSUME CommandInv, Running,
         Top.p \notin RpmbRequests \cup {"SdhcSendCommand", "SdhcSendDataCommand", "SdhcWaitForTranState"}
  PROVE  ~Open
<1> SUFFICES ASSUME Open PROVE FALSE
  OBVIOUS
<1>1. Len(stack) = 3 \/ Len(stack) = 4 \/ Len(stack) > 4
  BY Shape
<1> QED  BY <1>1, Shape

-------------------------------------------------------------------------------
(* What a step does to it.                                                   *)

\* A step that leaves the request alone and does not forget the card.
Remembers ==
  /\ req'.kind = req.kind /\ req'.written = req.written /\ req'.answer = req.answer
  /\ Known => Known'

\* What a frame says stays true then.
LEMMA SaysKept ==
  ASSUME Remembers, NEW f, Says(f, Known, req)
  PROVE  Says(f, Known', req')
BY DEF Remembers, Says, Served

\* A return.
LEMMA SaysPop ==
  ASSUME CommandInv, RpmbInv, Running, Popped, Remembers
  PROVE  SaysInv'
<1>1. \A k \in 1 .. Len(stack') : k \in 1 .. Len(stack) /\ stack'[k] = stack[k]
  BY TopFacts DEF Popped, SameBelow, CommandInv
<1>2. \A k \in 1 .. Len(stack) : Says(stack[k], Known, req)
  BY DEF RpmbInv, SaysInv
<1>3. \A k \in 1 .. Len(stack') : Says(stack'[k], Known', req')
  BY <1>1, <1>2, SaysKept, Zenon
<1> QED  BY <1>3, Zenon DEF SaysInv

\* A change of the frame on top.
LEMMA SaysRetop ==
  ASSUME CommandInv, RpmbInv, Running, Remembers, NEW f, Retopped(f), Says(f, Known', req')
  PROVE  SaysInv'
<1> DEFINE n == Len(stack)
<1>1. n \in Nat \ {0} /\ Len(stack') = n /\ stack'[n] = f /\ \A k \in 1 .. n - 1 : stack'[k] = stack[k]
  BY TopFacts DEF Retopped, SameBelow, CommandInv
<1>2. \A k \in 1 .. n : Says(stack[k], Known, req)
  BY DEF RpmbInv, SaysInv
<1> HIDE DEF n
<1>3. \A k \in 1 .. n : k = n \/ (k \in 1 .. n - 1 /\ k \in 1 .. n)
  BY <1>1
<1>4. \A k \in 1 .. Len(stack') : Says(stack'[k], Known', req')
  BY <1>1, <1>2, <1>3, SaysKept, Zenon
<1> QED  BY <1>4, Zenon DEF SaysInv

\* A call.
LEMMA SaysPush ==
  ASSUME CommandInv, RpmbInv, Running, Remembers, NEW f, NEW g, Pushed(f, g), Says(f, Known', req'),
         Says(g, Known', req')
  PROVE  SaysInv'
<1> DEFINE n == Len(stack)
<1>1. /\ n \in Nat \ {0} /\ Len(stack') = n + 1 /\ stack'[n] = f /\ stack'[n + 1] = g
      /\ \A k \in 1 .. n - 1 : stack'[k] = stack[k]
  BY TopFacts DEF Pushed, SameBelow, CommandInv
<1>2. \A k \in 1 .. n : Says(stack[k], Known, req)
  BY DEF RpmbInv, SaysInv
<1> HIDE DEF n
<1>3. \A k \in 1 .. n + 1 : k = n + 1 \/ k = n \/ (k \in 1 .. n - 1 /\ k \in 1 .. n)
  BY <1>1
<1>4. \A k \in 1 .. Len(stack') : Says(stack'[k], Known', req')
  BY <1>1, <1>2, <1>3, SaysKept, Zenon
<1> QED  BY <1>4, Zenon DEF SaysInv


\* The exchange of packets does not begin, or begin again, with a return, a step or a call
\* of a procedure that has no part in it.
LEMMA ClosedPop ==
  ASSUME CommandInv, Running, ~Open, Popped, Doom(Top) => ret'.s # "OK"
  PROVE  PathInv'
<1> DEFINE n == Len(stack)
<1>1. n \in Nat \ {0} /\ Len(stack') = n - 1 /\ Top = stack[n] /\ \A k \in 1 .. n - 1 : stack'[k] = stack[k]
  BY TopFacts DEF Popped, SameBelow, CommandInv
<1> HIDE DEF n
<1>2. SUFFICES ASSUME Open', Ok' PROVE FALSE
  BY DEF PathInv
<1>3. 3 \in 1 .. n - 1 /\ stack'[3] = stack[3]
  BY <1>1, <1>2 DEF Open, Inside
<1>4. Inside
  BY <1>1, <1>2, <1>3 DEF Open, Inside, n
<1>5. PICK k \in 4 .. n : Doom(stack[k])
  BY <1>4 DEF Open, Doomed, n
<1>6. k # n
  BY <1>1, <1>2, <1>5 DEF Ok
<1>7. k \in 1 .. n - 1 /\ k \in 4 .. n - 1
  BY <1>1, <1>5, <1>6
<1>8. Doom(stack'[k])
  BY <1>1, <1>5, <1>7
<1> QED  BY <1>1, <1>2, <1>7, <1>8 DEF Open, Doomed

\* The same for a step of the procedure on top.
LEMMA ClosedRetop ==
  ASSUME CommandInv, Running, NEW f, Retopped(f), f.p = Top.p,
         \/ ~Open /\ (Doom(Top) => Doom(f))
         \/ Doom(f) /\ Len(stack) > 3
  PROVE  ~Open'
<1> DEFINE n == Len(stack)
<1>1. /\ n \in Nat \ {0} /\ Len(stack') = n /\ Top = stack[n] /\ stack'[n] = f
      /\ \A k \in 1 .. n - 1 : stack'[k] = stack[k]
  BY TopFacts DEF Retopped, SameBelow, CommandInv
<1> HIDE DEF n
<1>2. SUFFICES ASSUME Open' PROVE FALSE
  OBVIOUS
<1>3. ~(Doom(f) /\ n > 3)
  <2>1. n > 3 => n \in 4 .. n
    BY <1>1
  <2> QED  BY <1>1, <1>2, <2>1 DEF Open, Doomed
<1>4. ~Open /\ (Doom(Top) => Doom(f))
  BY <1>3 DEF n
<1>5. n > 2 /\ (3 \in 1 .. n - 1 \/ 3 = n) /\ stack'[3].p \in RpmbRequests
  BY <1>1, <1>2 DEF Open, Inside
<1>6. Inside
  BY <1>1, <1>5 DEF Inside, n
<1>7. PICK k \in 4 .. n : Doom(stack[k])
  BY <1>4, <1>6 DEF Open, Doomed, n
<1>8. k # n
  BY <1>1, <1>3, <1>4, <1>7
<1>9. k \in 1 .. n - 1 /\ k \in 4 .. n
  BY <1>1, <1>7, <1>8
<1>10. Doom(stack'[k])
  BY <1>1, <1>7, <1>9
<1> QED  BY <1>1, <1>2, <1>9, <1>10 DEF Open, Doomed

\* The same for a call.
LEMMA ClosedPush ==
  ASSUME CommandInv, Running, NEW f, NEW g, Pushed(f, g), f.p = Top.p,
         \/ ~Open /\ (Doom(Top) => Doom(f)) /\ g.p \notin RpmbRequests
         \/ Doom(f) /\ Len(stack) > 3
  PROVE  ~Open'
<1> DEFINE n == Len(stack)
<1>1. /\ n \in Nat \ {0} /\ Len(stack') = n + 1 /\ Top = stack[n] /\ stack'[n] = f /\ stack'[n + 1] = g
      /\ \A k \in 1 .. n - 1 : stack'[k] = stack[k]
  BY TopFacts DEF Pushed, SameBelow, CommandInv
<1> HIDE DEF n
<1>2. SUFFICES ASSUME Open' PROVE FALSE
  OBVIOUS
<1>3. ~(Doom(f) /\ n > 3)
  <2>1. n > 3 => n \in 4 .. n + 1
    BY <1>1
  <2> QED  BY <1>1, <1>2, <2>1 DEF Open, Doomed
<1>4. ~Open /\ (Doom(Top) => Doom(f)) /\ g.p \notin RpmbRequests
  BY <1>3 DEF n
<1>5. n > 1 /\ (3 \in 1 .. n - 1 \/ 3 = n \/ 3 = n + 1) /\ stack'[3].p \in RpmbRequests
  BY <1>1, <1>2 DEF Open, Inside
<1>6. 3 # n + 1
  BY <1>1, <1>4, <1>5
<1>7. n > 2 /\ stack[3].p \in RpmbRequests
  BY <1>1, <1>5, <1>6
<1>8. PICK k \in 4 .. n : Doom(stack[k])
  BY <1>4, <1>7 DEF Open, Inside, Doomed, n
<1>9. k # n
  BY <1>1, <1>3, <1>4, <1>8
<1>10. k \in 1 .. n - 1 /\ k \in 4 .. n + 1
  BY <1>1, <1>8, <1>9
<1>11. Doom(stack'[k])
  BY <1>1, <1>8, <1>10
<1> QED  BY <1>1, <1>2, <1>10, <1>11 DEF Open, Doomed

\* A caller has been told something.
LEMMA SilentPop ==
  ASSUME CommandInv, Running, Popped
  PROVE  SilentInv'
<1> DEFINE n == Len(stack)
<1>1. /\ n \in Nat \ {0} /\ Len(stack') = n - 1 /\ stack' \in Seq(FrameType)
      /\ \A k \in 1 .. n - 1 : stack'[k] = stack[k]
  BY TopFacts DEF Popped, SameBelow, CommandInv
<1>2. \A k \in 1 .. n - 1 : Calling(stack[k])
  BY DEF CommandInv, FramesInv
<1>3. SUFFICES ASSUME Running' PROVE ~Silent(Top')
  BY DEF SilentInv
<1>4. stack' # <<>> /\ Top' = stack'[Len(stack')]
  BY <1>3 DEF Running, Top
<1> HIDE DEF n
<1>5. n - 1 \in 1 .. n - 1
  <2>1. Len(stack') \in 1 .. Len(stack')
    BY <1>1, <1>4, StackTop
  <2> QED  BY <1>1, <2>1
<1>6. Calling(Top')
  BY <1>1, <1>2, <1>4, <1>5
<1> QED  BY <1>6 DEF Calling, Silent, Sequenced


\* The parts of the invariant put together: a step, a call and a return.
LEMMA RpmbGoes ==
  ASSUME CommandInv, RpmbInv, Running, Remembers, host'.rpmb => Known', NothingReturned, PathInv',
         NEW f, Retopped(f), Says(f, Known', req')
  PROVE  RpmbInv'
<1>1. SaysInv'
  BY SaysRetop
<1>2. ret'.p = "none" /\ ret'.c = "none" /\ ret'.s = "OK"
  BY NoReturn
<1>3. ToldInv' /\ SilentInv'
  BY <1>2 DEF ToldInv, Learns, RpmbRequests, SilentInv, Ok
<1>4. req'.written \in {0, 1}
  BY DEF Remembers, RpmbInv
<1> QED  BY <1>1, <1>3, <1>4 DEF RpmbInv

\* A call keeps it, if the two frames say what is true.
LEMMA RpmbCalls ==
  ASSUME CommandInv, RpmbInv, Running, Remembers, host'.rpmb => Known', NothingReturned, PathInv',
         NEW f, NEW g, Pushed(f, g), Says(f, Known', req'), Says(g, Known', req')
  PROVE  RpmbInv'
<1>1. SaysInv'
  BY SaysPush
<1>2. ret'.p = "none" /\ ret'.c = "none" /\ ret'.s = "OK"
  BY NoReturn
<1>3. ToldInv' /\ SilentInv'
  BY <1>2 DEF ToldInv, Learns, RpmbRequests, SilentInv, Ok
<1>4. req'.written \in {0, 1}
  BY DEF Remembers, RpmbInv
<1> QED  BY <1>1, <1>3, <1>4 DEF RpmbInv

\* A return keeps it, if it tells what is true.
LEMMA RpmbReturns ==
  ASSUME CommandInv, RpmbInv, Running, Remembers, host'.rpmb => Known', PathInv', NEW s, Return(s),
         s = "OK" /\ Learns(Top.p, Top.c) => Known',
         s = "OK" /\ Top.p \in RpmbRequests \cup {"RpmbRequest", "OpteeRpcCmdRpmb"} => Served(req')
  PROVE  RpmbInv'
<1>1. Popped
  BY PopMove DEF CommandInv, Return
<1>2. SaysInv' /\ SilentInv'
  BY <1>1, SaysPop, SilentPop
<1>3. ret'.p = Top.p /\ ret'.c = Top.c /\ ret'.s = s
  BY DEF Return
<1>4. ToldInv'
  BY <1>3 DEF ToldInv
<1>5. req'.written \in {0, 1}
  BY DEF Remembers, RpmbInv
<1> QED  BY <1>2, <1>4, <1>5 DEF RpmbInv

\* A frame that has nothing to say of the request.
Mute(f) ==
  /\ ~Learnt(f) /\ f.p \notin RpmbRequests \cup {"OpteeRpcCmdRpmb", "RpmbRequest"}
  /\ ~(f.p = "SdhcSendDataCommand" /\ f.c = "RpmbSend" /\ f.at \in {"begin", "data"})
\* Such a frame says nothing.
LEMMA MuteSays ==
  ASSUME NEW f, Mute(f), NEW known, NEW r
  PROVE  Says(f, known, r)
BY DEF Mute, Says, Unsent

\* What a jump and a call do to the stack.
LEMMA GotoMove ==
  ASSUME CommandInv, Running, NEW l \in Labels, Goto(l)
  PROVE  \E f \in FrameType : /\ f.p = Top.p /\ f.c = Top.c /\ f.at = l /\ f.n = Top.n
                              /\ Retopped(f) /\ NothingReturned
<1> DEFINE f == [Top EXCEPT !.at = l]
<1>1. Top \in FrameType
  BY TopFacts DEF CommandInv
<1>2. f \in FrameType /\ f.p = Top.p /\ f.c = Top.c /\ f.at = l /\ f.n = Top.n
  BY <1>1, FrameAt
<1>3. stack' = Append(Below, f) /\ NothingReturned
  BY DEF Goto, NoRet, NothingReturned
<1> HIDE DEF f
<1>4. Retopped(f)
  BY <1>2, <1>3, RetopMove DEF CommandInv
<1> QED  BY <1>2, <1>3, <1>4

\* What another turn of a loop does to the stack.
LEMMA TurnMove ==
  ASSUME CommandInv, Running,
         stack' = Append(Below, [Top EXCEPT !.at = "begin", !.n = @ + 1]), ret' = NoRet
  PROVE  \E f \in FrameType : /\ f.p = Top.p /\ f.c = Top.c /\ f.at = "begin" /\ f.n = Top.n + 1
                              /\ Retopped(f) /\ NothingReturned
<1> DEFINE f == [Top EXCEPT !.at = "begin", !.n = @ + 1]
<1>1. Top \in FrameType /\ "begin" \in Labels
  BY TopFacts, CommandCodes DEF CommandInv
<1>2. f \in FrameType /\ f.p = Top.p /\ f.c = Top.c /\ f.at = "begin" /\ f.n = Top.n + 1
  BY <1>1, FrameTurn, Zenon
<1>3. stack' = Append(Below, f) /\ NothingReturned
  BY DEF NoRet, NothingReturned
<1> HIDE DEF f
<1>4. Retopped(f)
  BY <1>2, <1>3, RetopMove DEF CommandInv
<1> QED  BY <1>2, <1>3, <1>4

\* What a call does to the stack.
LEMMA CalledMove ==
  ASSUME CommandInv, Running, NEW l \in Labels, NEW g \in FrameType, Call(g, l)
  PROVE  \E f \in FrameType : /\ f.p = Top.p /\ f.c = Top.c /\ f.at = l /\ f.n = Top.n
                              /\ Pushed(f, g) /\ NothingReturned
<1> DEFINE f == [Top EXCEPT !.at = l]
<1>1. Top \in FrameType
  BY TopFacts DEF CommandInv
<1>2. f \in FrameType /\ f.p = Top.p /\ f.c = Top.c /\ f.at = l /\ f.n = Top.n
  BY <1>1, FrameAt
<1>3. stack' = Below \o <<f, g>> /\ NothingReturned
  BY DEF Call, NoRet, NothingReturned
<1> HIDE DEF f
<1>4. Pushed(f, g)
  BY <1>2, <1>3, CallMove DEF CommandInv
<1> QED  BY <1>2, <1>3, <1>4

\* The procedures that have no part in a request.
Others == {"SdhcRecoverFromErrors", "SoftReset", "SdhcQueryCardType", "SdhcSendOpCond", "Check", "HostExt"}
\* They keep it, as long as the driver does not forget the card.
LEMMA OthersKeep ==
  ASSUME CommandInv, RpmbInv, Running, Top.p \in Others, Remembers, host'.rpmb => Known',
         \/ \E s : Return(s)
         \/ \E l \in Labels : Goto(l)
         \/ \E l \in Labels : \E g : Call(g, l) /\ Fresh(g) /\ Mute(g)
         \/ stack' = Append(Below, [Top EXCEPT !.at = "begin", !.n = @ + 1]) /\ ret' = NoRet
  PROVE  RpmbInv'
<1>1. ~Open /\ ~Doom(Top)
  BY Elsewhere DEF Others, RpmbRequests, Doom
<1>2. \A f : f.p = Top.p => Mute(f)
  BY DEF Others, Mute, Learnt, RpmbRequests
<1>3. ASSUME NEW s, Return(s) PROVE RpmbInv'
  <2>1. Popped
    BY <1>3, PopMove DEF CommandInv, Return
  <2>2. PathInv'
    BY <1>1, <2>1, ClosedPop
  <2>3. /\ ~Learns(Top.p, Top.c) /\ Top.p \notin RpmbRequests \cup {"RpmbRequest", "OpteeRpcCmdRpmb"}
    BY DEF Others, Learns, RpmbRequests
  <2> QED  BY <1>3, <2>2, <2>3, RpmbReturns
<1>4. ASSUME NEW f, f.p = Top.p, Retopped(f), NothingReturned PROVE RpmbInv'
  <2>1. ~Open'
    BY <1>1, <1>4, ClosedRetop
  <2>2. PathInv'
    BY <2>1 DEF PathInv
  <2>3. Says(f, Known', req')
    BY <1>2, <1>4, MuteSays
  <2> QED  BY <1>4, <2>2, <2>3, RpmbGoes
<1>5. ASSUME NEW f, NEW g, f.p = Top.p, Pushed(f, g), NothingReturned, Mute(g) PROVE RpmbInv'
  <2>1. ~Open'
    BY <1>1, <1>5, ClosedPush DEF Mute
  <2>2. PathInv'
    BY <2>1 DEF PathInv
  <2>3. Says(f, Known', req') /\ Says(g, Known', req')
    BY <1>2, <1>5, MuteSays
  <2> QED  BY <1>5, <2>2, <2>3, RpmbCalls
<1>6. CASE \E l \in Labels : Goto(l)
  BY <1>4, <1>6, GotoMove
<1>7. CASE \E l \in Labels : \E g : Call(g, l) /\ Fresh(g) /\ Mute(g)
  BY <1>5, <1>7, CalledMove DEF Fresh
<1>8. CASE stack' = Append(Below, [Top EXCEPT !.at = "begin", !.n = @ + 1]) /\ ret' = NoRet
  BY <1>4, <1>8, TurnMove
<1> QED  BY <1>3, <1>6, <1>7, <1>8


\* The frames of procedures that do not serve requests.
LEMMA MuteFrames ==
  ASSUME NEW g, NEW p, NEW c, Is(g, p, c), p \notin RpmbRequests \cup {"OpteeRpcCmdRpmb", "RpmbRequest"},
         p = "SdhcSendDataCommand" => c # "RpmbSend"
  PROVE  Fresh(g) /\ Mute(g)
BY DEF Is, Fresh, Mute, Learnt

\* They leave the request, the card and what the driver knows of them alone.
LEMMA KnownKept ==
  ASSUME RpmbInv, UNCHANGED <<card, req>>, host'.cid = host.cid, host'.rpmb \in {FALSE, host.rpmb}
  PROVE  Remembers /\ (host'.rpmb => Known')
BY DEF RpmbInv, Remembers, Known

\* The recovery from errors.
LEMMA RecoverTells ==
  ASSUME CommandInv, RpmbInv, SdhcRecoverFromErrors
  PROVE  RpmbInv'
<1>1. Running /\ Top.p = "SdhcRecoverFromErrors"
  BY DEF SdhcRecoverFromErrors, RecoverBegin, RecoverLines, RecoverReset, RecoverStop, At, In
<1>2. UNCHANGED <<card, req>> /\ host'.cid = host.cid /\ host'.rpmb = host.rpmb
  BY DEF SdhcRecoverFromErrors, RecoverBegin, RecoverLines, RecoverReset, RecoverStop, LinesFail,
         CommandInv, Fields
<1>3. Remembers /\ (host'.rpmb => Known')
  BY <1>2, KnownKept
<1>4. /\ Fresh(Proc("SoftReset")) /\ Mute(Proc("SoftReset"))
      /\ Fresh(SdhcSendStatus) /\ Mute(SdhcSendStatus)
      /\ Fresh(SdhcStopTransmission) /\ Mute(SdhcStopTransmission)
  <2>1. /\ Is(Proc("SoftReset"), "SoftReset", "none")
        /\ Is(SdhcSendStatus, "SdhcSendCommand", "SendStatus")
        /\ Is(SdhcStopTransmission, "SdhcSendCommand", "Stop")
    BY CallFrames, CommandCodes DEF SdhcSendStatus, SdhcStopTransmission
  <2> QED  BY <2>1, MuteFrames DEF RpmbRequests
<1>5. \/ \E s : Return(s)
      \/ Goto("lines") \/ Goto("after")
      \/ Call(Proc("SoftReset"), "reset") \/ Call(SdhcSendStatus, "status") \/ Call(SdhcStopTransmission, "stop")
  BY DEF SdhcRecoverFromErrors, RecoverBegin, RecoverLines, RecoverReset, RecoverStop, Leave
<1>6. \/ \E s : Return(s)
      \/ \E l \in Labels : Goto(l)
      \/ \E l \in Labels : \E g : Call(g, l) /\ Fresh(g) /\ Mute(g)
  BY <1>4, <1>5, CommandCodes
<1>7. Top.p \in Others
  BY <1>1 DEF Others
<1> QED  BY <1>1, <1>3, <1>6, <1>7, OthersKeep

\* A reset of the slot: once it has made RPMB requests possible the driver has read the CID
\* of the card.
LEMMA SoftResetTells ==
  ASSUME CommandInv, RpmbInv, SoftReset
  PROVE  RpmbInv'
<1>1. Running /\ Top.p = "SoftReset" /\ Top.p # "Check" /\ In("SoftReset")
  BY DEF SoftReset, At, In
<1>2. UNCHANGED <<card, req>> /\ host'.cid = host.cid
  BY DEF SoftReset, CommandInv, Fields
<1>3. Remembers /\ (Known => Known')
  BY <1>2 DEF Remembers, Known
<1>4. host'.rpmb => Known'
  <2>1. CASE At("SoftReset", "begin") /\ host' = [host EXCEPT !.init = FALSE, !.up = FALSE, !.rpmb = FALSE, !.id = 0, !.last = 0]
    <3>1. "rpmb" \in DOMAIN host
      BY DEF CommandInv, Fields
    <3>2. ~host'.rpmb
      BY <2>1, <3>1
    <3> QED  BY <3>2
  <2>2. CASE At("SoftReset", "inited") /\ Ok
    <3>1. Rel(Top, ret.p, ret.c, req.kind)
      BY <1>1, RunningFacts
    <3>2. ret.p = "InitializeDevice"
      BY <1>1, <2>2, <3>1 DEF Rel, Waits, At
    <3>3. Known
      BY <2>2, <3>2 DEF RpmbInv, ToldInv, Learns, Ok
    <3> QED  BY <3>3, <1>3
  <2>3. CASE At("SoftReset", "inited") /\ ~Ok /\ host' = [host EXCEPT !.rpmb = FALSE]
    <3>1. "rpmb" \in DOMAIN host
      BY DEF CommandInv, Fields
    <3>2. ~host'.rpmb
      BY <2>3, <3>1
    <3> QED  BY <3>2
  <2> QED  BY <2>1, <2>2, <2>3 DEF SoftReset
<1>5. Fresh(Proc("InitializeDevice")) /\ Mute(Proc("InitializeDevice"))
  BY CallFrames, MuteFrames DEF RpmbRequests
<1>6. (\E s : Return(s)) \/ Call(Proc("InitializeDevice"), "inited")
  BY DEF SoftReset
<1>7. \/ \E s : Return(s)
      \/ \E l \in Labels : \E g : Call(g, l) /\ Fresh(g) /\ Mute(g)
  BY <1>5, <1>6, CommandCodes
<1>8. Top.p \in Others
  BY <1>1 DEF Others
<1> QED  BY <1>1, <1>3, <1>4, <1>7, <1>8, OthersKeep

\* The identification of the card.
LEMMA QueryTells ==
  ASSUME CommandInv, RpmbInv, SdhcQueryCardType
  PROVE  RpmbInv'
<1>1. Running /\ Top.p = "SdhcQueryCardType" /\ Top.at \in QueryLabels
  BY RunningFacts DEF SdhcQueryCardType, FrameOK
<1>2. UNCHANGED <<card, req>> /\ host'.cid = host.cid /\ host'.rpmb = host.rpmb
  BY <1>1 DEF SdhcQueryCardType, QueryLabels, CommandInv, Fields
<1>3. Remembers /\ (host'.rpmb => Known')
  BY <1>2, KnownKept
<1>4. \A g \in {SdhcGoIdleState, SdhcSendIfCondSd, SdhcSendOpCondSdio, Frame("SdhcSendOpCond", "OpCondMmc")} :
         Fresh(g) /\ Mute(g)
  <2>1. /\ Is(SdhcGoIdleState, "SdhcSendCommand", "GoIdle") /\ Is(SdhcSendIfCondSd, "SdhcSendCommand", "IfCond")
        /\ Is(SdhcSendOpCondSdio, "SdhcSendCommand", "OpCondSdio")
        /\ Is(Frame("SdhcSendOpCond", "OpCondMmc"), "SdhcSendOpCond", "OpCondMmc")
    BY CallFrames, CommandCodes DEF SdhcGoIdleState, SdhcSendIfCondSd, SdhcSendOpCondSdio
  <2> QED  BY <2>1, MuteFrames DEF RpmbRequests
<1>5. \/ \E s : Return(s)
      \/ Call(SdhcGoIdleState, "idled") \/ Call(SdhcSendIfCondSd, "ifcond")
      \/ Call(SdhcSendOpCondSdio, "sdio") \/ Call(SdhcGoIdleState, "idled2")
      \/ Call(Frame("SdhcSendOpCond", "OpCondMmc"), "mmc")
  BY <1>1 DEF SdhcQueryCardType, QueryLabels
<1>6. \/ \E s : Return(s)
      \/ \E l \in Labels : \E g : Call(g, l) /\ Fresh(g) /\ Mute(g)
  BY <1>4, <1>5, CommandCodes
<1>7. Top.p \in Others
  BY <1>1 DEF Others
<1> QED  BY <1>1, <1>3, <1>6, <1>7, OthersKeep

\* The polls of the operating conditions.
LEMMA OpCondTells ==
  ASSUME CommandInv, RpmbInv, SdhcSendOpCond
  PROVE  RpmbInv'
<1>1. Running /\ Top.p = "SdhcSendOpCond" /\ In("SdhcSendOpCond") /\ UNCHANGED <<card, host, req>>
  BY DEF SdhcSendOpCond, At, In, quiet
<1>2. Remembers /\ (host'.rpmb => Known')
  BY <1>1, KnownKept
<1>3. Fresh(Cmd(Top.c)) /\ Mute(Cmd(Top.c))
  <2>1. Is(Cmd(Top.c), "SdhcSendCommand", Top.c)
    BY <1>1, RunningFacts, CallFrames
  <2> QED  BY <2>1, MuteFrames DEF RpmbRequests
<1>4. \/ \E s : Return(s)
      \/ Call(Cmd(Top.c), "polled")
      \/ stack' = Append(Below, [Top EXCEPT !.at = "begin", !.n = @ + 1]) /\ ret' = NoRet
  BY DEF SdhcSendOpCond
<1>5. \/ \E s : Return(s)
      \/ \E l \in Labels : \E g : Call(g, l) /\ Fresh(g) /\ Mute(g)
      \/ stack' = Append(Below, [Top EXCEPT !.at = "begin", !.n = @ + 1]) /\ ret' = NoRet
  BY <1>3, <1>4, CommandCodes
<1>6. Top.p \in Others
  BY <1>1 DEF Others
<1> QED  BY <1>1, <1>2, <1>5, <1>6, OthersKeep

\* The tests, and the calls of the host controller's driver.
LEMMA CheckTells ==
  ASSUME CommandInv, RpmbInv, Check
  PROVE  RpmbInv'
<1>1. Running /\ Top.p = "Check" /\ UNCHANGED <<card, req>>
  BY DEF Check, In
<1>2. host'.cid = host.cid /\ host'.rpmb = host.rpmb
  <2>1. host' = host \/ host' = Assigned(Top.c)
    BY DEF Check
  <2>2. Assigned(Top.c).cid = host.cid /\ Assigned(Top.c).rpmb = host.rpmb
    BY DEF Assigned, CommandInv, Fields
  <2> QED  BY <2>1, <2>2
<1>3. Remembers /\ (host'.rpmb => Known')
  BY <1>1, <1>2, KnownKept
<1>4. \E s : Return(s)
  BY DEF Check
<1>5. Top.p \in Others
  BY <1>1 DEF Others
<1> QED  BY <1>1, <1>3, <1>4, <1>5, OthersKeep

\* The calls of the host controller's driver.
LEMMA HostExtTells ==
  ASSUME CommandInv, RpmbInv, HostExt
  PROVE  RpmbInv'
<1>1. Running /\ Top.p = "HostExt" /\ UNCHANGED <<card, req>> /\ Top.c \in HostCodes
  BY RunningFacts DEF HostExt, FrameOK, In
<1>2. host'.cid = host.cid /\ host'.rpmb = host.rpmb
  BY <1>1 DEF HostExt, HostCodes, CommandInv, Fields
<1>3. Remembers /\ (host'.rpmb => Known')
  BY <1>1, <1>2, KnownKept
<1>4. \E s : Return(s)
  BY DEF HostExt
<1>5. Top.p \in Others
  BY <1>1 DEF Others
<1> QED  BY <1>1, <1>3, <1>4, <1>5, OthersKeep


-------------------------------------------------------------------------------
(* What the commands leave alone of the card.                                *)

\* What a command leaves of the card: its serial number, the request its RPMB partition has
\* been asked, and the partition.
LEMMA PerformedCard ==
  ASSUME Fields, NEW c, NEW b
  PROVE  /\ Performed(c, b).id = card.id /\ Performed(c, b).asked = card.asked
         /\ c \notin {"GoIdle", "SwitchRpmb", "SwitchBack"} => Performed(c, b).part = card.part
         /\ c = "SetBlockCount" => Performed(c, b).count
         /\ c \in RpmbCodes /\ card.count => Performed(c, b).closed
<1>1. {"id", "part", "count", "closed", "asked"} \subseteq DOMAIN card
  BY DEF Fields
<1> USE <1>1 DEF Performed, Reads, Writes, Multi, Programming, PollBusy, RpmbCodes
<1>2. CASE c = "GoIdle"
  BY <1>2
<1>3. CASE c = "SwitchRpmb"
  BY <1>3
<1>4. CASE c = "SwitchBack"
  BY <1>4
<1>5. CASE c = "OpCondSd"
  BY <1>5
<1>6. CASE c = "OpCondMmc"
  BY <1>6
<1>7. CASE c = "CidAll"
  BY <1>7
<1>8. CASE c = "RelativeAddr"
  BY <1>8
<1>9. CASE c = "Select"
  BY <1>9
<1>10. CASE c = "BusWidthSd"
  BY <1>10
<1>11. CASE c = "SendStatus"
  BY <1>11
<1>12. CASE c = "Stop"
  BY <1>12
<1>13. CASE c = "SwitchHs"
  BY <1>13
<1>14. CASE c = "SwitchPower"
  BY <1>14
<1>15. CASE c = "SwitchWidth"
  BY <1>15
<1>16. CASE c = "SetBlockCount"
  BY <1>16
<1>17. CASE c \in Reads
  BY <1>17
<1>18. CASE c \in Writes
  BY <1>18
<1>19. CASE /\ c \notin {"GoIdle", "SwitchRpmb", "SwitchBack", "OpCondSd", "OpCondMmc", "CidAll", "RelativeAddr"}
            /\ c \notin {"Select", "BusWidthSd", "SendStatus", "Stop", "SwitchHs", "SwitchPower", "SwitchWidth"}
            /\ c \notin {"SetBlockCount"} \cup Reads \cup Writes
  <2>1. Performed(c, b) = [card EXCEPT !.count = FALSE]
    BY <1>19
  <2>2. c \notin RpmbCodes
    BY <1>19
  <2> HIDE DEF Performed, Reads, Writes
  <2> QED  BY <1>19, <2>1, <2>2
<1> HIDE DEF Performed, Reads, Writes, Multi, RpmbCodes
<1> QED  BY <1>2, <1>3, <1>4, <1>5, <1>6, <1>7, <1>8, <1>9, <1>10, <1>11, <1>12, <1>13, <1>14, <1>15, <1>16, <1>17, <1>18, <1>19


\* What the driver keeps of a response.
LEMMA KeptCard ==
  ASSUME NEW c, {"cid", "rpmb"} \subseteq DOMAIN host
  PROVE  /\ {"cid", "rpmb"} \subseteq DOMAIN Kept(c, host)
         /\ Kept(c, host).cid = IF c = "Cid" THEN card.id ELSE host.cid
         /\ Kept(c, host).rpmb = host.rpmb
<1> USE DEF Kept, SdhcSendCid
<1>1. CASE c = "Cid"
  BY <1>1
<1>2. CASE c = "Csd"
  BY <1>2 DEF SdhcSendCsd
<1>3. CASE c = "RelativeAddr"
  BY <1>3 DEF SdhcSendRelativeAddr
<1>4. CASE c \in {"OpCondSd", "OpCondMmc"}
  BY <1>4
<1>5. CASE c \notin {"Cid", "Csd", "RelativeAddr", "OpCondSd", "OpCondMmc"}
  BY <1>5
<1> QED  BY <1>1, <1>2, <1>3, <1>4, <1>5

\* A command that is answered.
LEMMA HelperOkCard ==
  ASSUME Fields, NEW c, HelperOk(c)
  PROVE  /\ card'.asked = card.asked /\ host'.rpmb = host.rpmb
         /\ Known => Known'
         /\ c = "Cid" => Known'
         /\ c \notin {"GoIdle", "SwitchRpmb", "SwitchBack"} => card'.part = card.part
         /\ c = "SetBlockCount" => card'.count
         /\ c \in RpmbCodes /\ card.count => card'.closed
<1>1. CASE Answered(c) /\ host' = Successful(Kept(c, host), c)
  <2>1. PICK b : card' = Performed(c, b)
    BY <1>1 DEF Answered
  <2> DEFINE h == Kept(c, host)
  <2>2. /\ {"cid", "rpmb"} \subseteq DOMAIN h /\ h.rpmb = host.rpmb
        /\ h.cid = IF c = "Cid" THEN card.id ELSE host.cid
    BY KeptCard DEF Fields
  <2>3. host' = Successful(h, c)
    BY <1>1
  <2> HIDE DEF h
  <2>4. host'.cid = h.cid /\ host'.rpmb = h.rpmb
    BY <2>2, <2>3 DEF Successful
  <2>5. card'.id = card.id
    BY <2>1, PerformedCard
  <2>6. (Known => Known') /\ (c = "Cid" => Known')
    BY <2>2, <2>4, <2>5 DEF Known
  <2> QED  BY <2>1, <2>2, <2>4, <2>6, PerformedCard
<1>2. CASE c = "GoIdle" /\ UNCHANGED card /\ host' = Successful(host, c)
  <2>1. host'.cid = host.cid /\ host'.rpmb = host.rpmb
    BY <1>2 DEF Successful, Fields
  <2> QED  BY <1>2, <2>1 DEF Known, RpmbCodes
<1> QED  BY <1>1, <1>2 DEF HelperOk

\* A command that fails.
LEMMA HelperFailsCard ==
  ASSUME Fields, NEW c, HelperFails(c)
  PROVE  (Known => Known') /\ host'.rpmb = host.rpmb
<1>1. card'.id = card.id
  BY PerformedCard DEF HelperFails
<1>2. host' = host
  BY DEF HelperFails
<1> QED  BY <1>1, <1>2 DEF Known

\* A transfer.
LEMMA TransferCard ==
  ASSUME Fields, NEW c, NEW b, Transferred(c, b)
  PROVE  /\ card'.id = card.id /\ card'.part = card.part /\ card'.asked = Asked(c)
         /\ req'.kind = req.kind
         /\ req'.written = IF c = "RpmbSend" /\ RpmbFrame /\ req.kind \in WriteKinds THEN req.written + 1
                                                                                    ELSE req.written
         /\ req'.answer = IF c = "RpmbFetch" /\ RpmbFrame THEN card.asked ELSE req.answer
<1>1. /\ Moved(b).id = card.id /\ Moved(b).part = card.part
      /\ {"id", "part", "asked"} \subseteq DOMAIN Moved(b)
  BY DEF Moved, Programming, Fields
<1>2. card' = [Moved(b) EXCEPT !.asked = Asked(c)]
  BY DEF Transferred
<1> DEFINE v == IF c = "RpmbSend" /\ RpmbFrame /\ req.kind \in WriteKinds THEN req.written + 1 ELSE req.written
           a == IF c = "RpmbFetch" /\ RpmbFrame THEN card.asked ELSE req.answer
<1>3. req' = [req EXCEPT !.written = v, !.answer = a]
  BY DEF Transferred
<1> HIDE DEF v, a
<1>4. req'.kind = req.kind /\ req'.written = v /\ req'.answer = a
  BY <1>3 DEF Fields
<1> QED  BY <1>1, <1>2, <1>4 DEF v, a

\* The movement of data, or its failure.
LEMMA DataCard ==
  ASSUME Fields, NEW c, DataMoves(c) \/ DataFails(c)
  PROVE  /\ card'.id = card.id /\ req'.kind = req.kind
         /\ c # "RpmbSend" => req'.written = req.written
         /\ req'.written \in {req.written, req.written + 1}
         /\ c # "RpmbFetch" => req'.answer = req.answer
<1>1. CASE \E b : Transferred(c, b)
  BY <1>1, TransferCard
<1>2. CASE UNCHANGED req /\ (card' = card \/ card' = [card EXCEPT !.st = "tran"])
  BY <1>2 DEF Fields
<1> QED  BY <1>1, <1>2 DEF DataMoves, DataFails


-------------------------------------------------------------------------------
(* The exchange goes on.                                                     *)

\* The card's partition, and what it has been asked, stay as they are.
CardRemembers == card'.part = card.part /\ card'.asked = card.asked

\* How deep the stack is then.
LEMMA Depths ==
  ASSUME NEW m \in 3 .. 6
  PROVE  /\ m \in {3, 4, 5, 6}
         /\ m > 3 <=> m \in {4, 5, 6}
         /\ m > 4 <=> m \in {5, 6}
OBVIOUS

\* Something else than the next packet is done.
LEMMA Carry ==
  ASSUME Progress, Moving, Len(stack) # 3, Moving', Len(stack') # 3,
         stack'[3].n = stack[3].n,
         Remembers, CardRemembers
  PROVE  Progress'
<1>1. Complete = stack[3].n /\ Complete' = stack[3].n
  BY DEF Complete
<1> DEFINE n == stack[3].n
<1>2. Done(n, req, card.asked) /\ card.part = "rpmb"
  BY <1>1 DEF Progress
<1>3. Done(n, req', card'.asked)
  BY <1>2 DEF Done, Remembers, CardRemembers
<1>4. Done(Complete', req', card'.asked)
  BY <1>1, <1>3
<1>5. ~(stack'[4].at \in {"begin", "data"})
  BY DEF Moving
<1> QED  BY <1>2, <1>4, <1>5, Zenon DEF Progress, CardRemembers

\* A return to a procedure that is no packet.
LEMMA PathPop ==
  ASSUME CommandInv, RpmbInv, Running, Popped, Ok, ~Doom(Top), Open => Len(stack) > 4,
         Remembers, Open => CardRemembers
  PROVE  PathInv'
<1>1. CASE ~Open
  BY <1>1, ClosedPop
<1>2. CASE Open
  <2>1. Progress /\ Len(stack) \in {5, 6} /\ Moving /\ CardRemembers
    <3>1. Progress
      BY <1>2 DEF RpmbInv, PathInv
    <3>2. Len(stack) \in 3 .. 6 /\ Len(stack) > 4 /\ Moving
      BY <1>2, Shape
    <3>3. Len(stack) \in {5, 6}
      BY <3>2, Depths, Zenon
    <3> QED  BY <1>2, <3>1, <3>2, <3>3
  <2>2. Len(stack') # 3 /\ stack'[3] = stack[3] /\ stack'[4] = stack[4]
    <3> DEFINE n == Len(stack)
    <3>1. Len(stack') = n - 1 /\ \A k \in 1 .. n - 1 : stack'[k] = stack[k]
      BY DEF Popped, SameBelow
    <3>2. n \in {5, 6}
      BY <2>1
    <3> HIDE DEF n
    <3>3. n - 1 # 3 /\ 3 \in 1 .. n - 1 /\ 4 \in 1 .. n - 1
      BY <3>2
    <3> QED  BY <3>1, <3>3, Zenon
  <2>3. Moving'
    BY <2>1, <2>2 DEF Moving
  <2>4. Len(stack) # 3 /\ stack'[3].n = stack[3].n
    BY <2>1, <2>2
  <2>5. Progress'
    BY <2>1, <2>2, <2>3, <2>4, Carry, Zenon
  <2> QED  BY <2>5 DEF PathInv
<1> QED  BY <1>1, <1>2

\* A call made while a packet is moving, or a turn of a loop.
LEMMA PathPush ==
  ASSUME CommandInv, RpmbInv, Running, NEW f, NEW g, Pushed(f, g), Ok, ~Doom(Top), f.p = Top.p,
         g.p \notin RpmbRequests,
         Open => /\ Len(stack) > 3
                 /\ Len(stack) = 4 => Moving /\ f.p = "SdhcSendDataCommand" /\ f.at \in {"stopped", "waited"},
         Remembers, CardRemembers
  PROVE  PathInv'
<1>1. CASE ~Open
  <2>1. ~Open'
    BY <1>1, ClosedPush
  <2> QED  BY <2>1 DEF PathInv
<1>2. CASE Open
  <2>1. Progress /\ Len(stack) \in {4, 5, 6} /\ Moving
    <3>1. Progress
      BY <1>2 DEF RpmbInv, PathInv
    <3>2. Len(stack) \in 3 .. 6 /\ (Len(stack) > 4 => Moving)
      BY <1>2, Shape
    <3>3. Len(stack) \in {4, 5, 6} /\ (Len(stack) \in {5, 6} => Moving)
      BY <1>2, <3>2, Depths, Zenon
    <3>4. Len(stack) = 4 => Moving
      BY <1>2
    <3> QED  BY <3>1, <3>3, <3>4, Zenon
  <2>2. /\ Len(stack') # 3 /\ stack'[3] = stack[3]
        /\ stack'[4] = stack[4] \/ (Len(stack) = 4 /\ stack'[4] = f)
    <3> DEFINE n == Len(stack)
    <3>1. /\ Len(stack') = n + 1 /\ stack'[n] = f
          /\ \A k \in 1 .. n - 1 : stack'[k] = stack[k]
      BY DEF Pushed, SameBelow
    <3>2. n \in {4, 5, 6}
      BY <2>1
    <3> HIDE DEF n
    <3>3. n + 1 # 3 /\ 3 \in 1 .. n - 1 /\ (n # 4 => 4 \in 1 .. n - 1)
      BY <3>2
    <3>4. n = 4 => stack'[4] = f
      BY <3>1, Zenon
    <3> QED  BY <3>1, <3>3, <3>4, Zenon DEF n
  <2>3. Moving'
    BY <1>2, <2>1, <2>2 DEF Moving
  <2>4. Len(stack) # 3 /\ stack'[3].n = stack[3].n
    BY <2>1, <2>2
  <2>5. Progress'
    BY <2>1, <2>2, <2>3, <2>4, Carry, Zenon
  <2> QED  BY <2>5 DEF PathInv
<1> QED  BY <1>1, <1>2

\* Another turn of the status poll inside a packet.
LEMMA PathTurn ==
  ASSUME CommandInv, RpmbInv, Running, NEW f, Retopped(f), Ok, ~Doom(Top), f.p = Top.p,
         Open => Len(stack) > 4, Remembers, CardRemembers
  PROVE  PathInv'
<1>1. CASE ~Open
  <2>1. ~Open'
    BY <1>1, ClosedRetop
  <2> QED  BY <2>1 DEF PathInv
<1>2. CASE Open
  <2>1. Progress /\ Len(stack) \in {5, 6} /\ Moving
    <3>1. Progress
      BY <1>2 DEF RpmbInv, PathInv
    <3>2. Len(stack) \in 3 .. 6 /\ Len(stack) > 4 /\ Moving
      BY <1>2, Shape
    <3>3. Len(stack) \in {5, 6}
      BY <3>2, Depths, Zenon
    <3> QED  BY <1>2, <3>1, <3>2, <3>3
  <2>2. Len(stack') # 3 /\ stack'[3] = stack[3] /\ stack'[4] = stack[4]
    <3> DEFINE n == Len(stack)
    <3>1. Len(stack') = n /\ \A k \in 1 .. n - 1 : stack'[k] = stack[k]
      BY DEF Retopped, SameBelow
    <3>2. n \in {5, 6}
      BY <2>1
    <3> HIDE DEF n
    <3>3. n # 3 /\ 3 \in 1 .. n - 1 /\ 4 \in 1 .. n - 1
      BY <3>2
    <3> QED  BY <3>1, <3>3, Zenon
  <2>3. Moving'
    BY <2>1, <2>2 DEF Moving
  <2>4. Len(stack) # 3 /\ stack'[3].n = stack[3].n
    BY <2>1, <2>2
  <2>5. Progress'
    BY <2>1, <2>2, <2>3, <2>4, Carry, Zenon
  <2> QED  BY <2>5 DEF PathInv
<1> QED  BY <1>1, <1>2

\* A packet, or the block count before it, is done.
LEMMA PathNext ==
  ASSUME CommandInv, Open, Popped, Len(stack) = 4, card'.part = "rpmb",
         Done(stack[3].n, req', card'.asked), stack[3].n \in {1, 3, 5} => card'.count
  PROVE  PathInv'
<1>1. Len(stack') = 3 /\ stack'[3] = stack[3]
  BY DEF Popped, SameBelow
<1>2. Complete' = stack[3].n
  BY <1>1 DEF Complete
<1>3. Done(Complete', req', card'.asked)
  BY <1>2
<1>4. Progress'
  BY <1>1, <1>3 DEF Progress
<1> QED  BY <1>4 DEF PathInv


\* What runs while packets are exchanged is no deeper than it must be.
LEMMA ShapeCommand ==
  ASSUME CommandInv, Open, Top.p \in {"SdhcSendCommand", "SdhcSendDataCommand", "SdhcWaitForTranState"}
  PROVE  /\ Len(stack) \in {4, 5, 6} /\ Len(stack) > 3 /\ ~Doom(Top)
         /\ Len(stack) # 4 => Len(stack) > 4
         /\ Len(stack) = 4 => Top = stack[4]
         /\ Top.p = "SdhcSendCommand" => /\ Top.c \in {"SetBlockCount", "Stop", "SendStatus"}
                                         /\ Len(stack) = 4 <=> Top.c = "SetBlockCount"
         /\ Top.p = "SdhcSendDataCommand" => Len(stack) = 4 /\ Top.c \in RpmbCodes
         /\ Top.p = "SdhcWaitForTranState" => Len(stack) > 4
<1> DEFINE n == Len(stack)
<1>1. /\ n \in 3 .. 6 /\ Top = stack[n]
      /\ n = 3 => Top.p \in RpmbRequests
      /\ n = 4 => \/ Top.p = "SdhcSendCommand" /\ Top.c = "SetBlockCount"
                  \/ Top.p = "SdhcSendDataCommand" /\ Top.c \in RpmbCodes
      /\ n > 4 => \/ Top.p = "SdhcSendCommand" /\ Top.c \in {"Stop", "SendStatus"}
                  \/ Top.p = "SdhcWaitForTranState"
      /\ n > 3 => ~Doom(Top)
  BY Shape
<1> HIDE DEF n
<1>2. n \in {3, 4, 5, 6} /\ (n > 3 <=> n \in {4, 5, 6}) /\ (n > 4 <=> n \in {5, 6})
  BY <1>1, Depths
<1>3. n # 3
  BY <1>1 DEF RpmbRequests
<1>4. n \in {4, 5, 6} /\ n > 3 /\ (n # 4 => n > 4) /\ ~Doom(Top)
  BY <1>1, <1>2, <1>3
<1>5. CASE n = 4
  <2>1. ~(n > 4)
    BY <1>5
  <2> QED  BY <1>1, <1>4, <1>5, <2>1 DEF n
<1>6. CASE n # 4
  BY <1>1, <1>4, <1>6 DEF n
<1> QED  BY <1>5, <1>6

\* A command: the block count before a packet, the stop and the status polls after it, or one
\* that has nothing to do with the request.
LEMMA SendCommandTells ==
  ASSUME CommandInv, RpmbInv, SdhcSendCommand
  PROVE  RpmbInv'
<1> DEFINE w == Proc("SdhcWaitForTranState")
           r == Frame("SdhcRecoverFromErrors", Top.c)
<1>1. /\ Running /\ Top.p = "SdhcSendCommand" /\ Top \in FrameType /\ Top.c \in Codes /\ FrameOK(Top)
      /\ Fields
  <2>1. In("SdhcSendCommand")
    BY DEF SdhcSendCommand, At
  <2> QED  BY <2>1, RunningFacts DEF CommandInv
<1>2. Fresh(w) /\ Mute(w) /\ Fresh(r) /\ Mute(r)
  BY <1>1, CallFrames, MuteFrames DEF RpmbRequests
<1> HIDE DEF w, r
<1>3. Open => /\ Len(stack) > 3 /\ ~Doom(Top) /\ (Len(stack) # 4 => Len(stack) > 4)
              /\ Top.c \in {"SetBlockCount", "Stop", "SendStatus"}
              /\ Len(stack) = 4 <=> Top.c = "SetBlockCount"
  BY <1>1, ShapeCommand
<1>4. \A f : f.p = Top.p => Mute(f)
  BY <1>1 DEF Mute, Learnt, RpmbRequests
<1>5. ASSUME NEW f, NEW g, f.p = Top.p, Pushed(f, g), NothingReturned, Mute(g), Remembers, host'.rpmb => Known',
             \/ ~Open /\ ~Doom(Top)
             \/ Doom(f)
      PROVE  RpmbInv'
  <2>1. ~Open'
    BY <1>1, <1>3, <1>5, ClosedPush DEF Mute
  <2>2. PathInv'
    BY <2>1 DEF PathInv
  <2>3. Says(f, Known', req') /\ Says(g, Known', req')
    BY <1>4, <1>5, MuteSays
  <2> QED  BY <1>1, <1>5, <2>2, <2>3, RpmbCalls
<1>6. ASSUME HelperOk(Top.c), UNCHANGED <<attempts, req, reqs>>
      PROVE  /\ Remembers /\ (host'.rpmb => Known') /\ card'.asked = card.asked
             /\ Open => CardRemembers
             /\ Top.c = "Cid" => Known'
  <2>1. /\ card'.asked = card.asked /\ host'.rpmb = host.rpmb /\ (Known => Known')
        /\ Top.c = "Cid" => Known'
        /\ Top.c \notin {"GoIdle", "SwitchRpmb", "SwitchBack"} => card'.part = card.part
    BY <1>1, <1>6, HelperOkCard
  <2>2. Open => CardRemembers
    BY <1>3, <2>1 DEF CardRemembers
  <2> QED  BY <1>6, <2>1, <2>2 DEF Remembers, RpmbInv
<1>7. CASE At("SdhcSendCommand", "begin") /\ HelperOk(Top.c) /\ Call(w, "waited") /\ Top.c \in Switches
           /\ UNCHANGED <<attempts, req, reqs>>
  <2>1. Remembers /\ (host'.rpmb => Known')
    BY <1>6, <1>7
  <2>2. PICK f \in FrameType : f.p = Top.p /\ Pushed(f, w) /\ NothingReturned
    BY <1>1, <1>2, <1>7, CalledMove, CommandCodes DEF Fresh
  <2>3. ~Open /\ ~Doom(Top)
    BY <1>3, <1>7 DEF Switches, Doom, At
  <2> QED  BY <1>2, <1>5, <2>1, <2>2, <2>3
<1>8. CASE At("SdhcSendCommand", "begin") /\ HelperOk(Top.c) /\ Return("OK") /\ UNCHANGED <<attempts, req, reqs>>
  <2>1. /\ Remembers /\ (host'.rpmb => Known') /\ (Open => CardRemembers)
        /\ Top.c = "Cid" => Known'
    BY <1>6, <1>8
  <2>2. Popped /\ Ok /\ ~Doom(Top)
    <3>1. Popped
      BY <1>1, <1>8, PopMove DEF CommandInv, Return
    <3>2. Silent(Top) /\ ~Doom(Top)
      BY <1>1, <1>8 DEF Silent, Doom, At
    <3> QED  BY <1>1, <3>1, <3>2 DEF RpmbInv, SilentInv
  <2>3. CASE ~(Open /\ Len(stack) = 4)
    <3>1. PathInv'
      BY <1>1, <1>3, <2>1, <2>2, <2>3, PathPop
    <3> QED  BY <1>1, <1>8, <2>1, <3>1, RpmbReturns DEF Learns, RpmbRequests
  <2>4. CASE Open /\ Len(stack) = 4
    <3> DEFINE n == stack[3].n
    <3>1. Progress /\ CardRemembers /\ card'.count
      BY <1>1, <1>3, <1>8, <2>1, <2>2, <2>4, HelperOkCard DEF RpmbInv, PathInv
    <3>2. Top = stack[4]
      BY <1>1, <2>4, ShapeCommand
    <3>3. n \in {1, 3, 5}
      <4>1. n \in 1 .. 6 /\ IsPacket(n, req.kind \in WriteKinds, Top.p, Top.c)
        BY <2>4, <3>2, PacketOnStack DEF CommandInv, Open
      <4> HIDE DEF n
      <4> QED  BY <1>1, <4>1 DEF IsPacket
    <3>4. Complete = n - 1
      BY <1>1, <2>4, <3>2 DEF Complete, Moving
    <3> HIDE DEF n
    <3>5. Done(n - 1, req, card.asked) /\ card.part = "rpmb"
      BY <3>1, <3>4 DEF Progress
    <3>6. Done(n, req, card.asked)
      BY <3>3, <3>5 DEF Done
    <3>7. Done(n, req', card'.asked) /\ card'.part = "rpmb"
      BY <3>1, <3>5, <3>6, <1>8 DEF CardRemembers
    <3>8. PathInv'
      BY <2>2, <2>4, <3>1, <3>7, PathNext DEF n
    <3> QED  BY <1>1, <1>8, <2>1, <3>8, RpmbReturns DEF Learns, RpmbRequests
  <2> QED  BY <2>3, <2>4
<1>9. CASE At("SdhcSendCommand", "begin") /\ HelperFails(Top.c) /\ UNCHANGED <<attempts, req, reqs>> /\ Call(r, "failed")
  <2>1. Remembers /\ (host'.rpmb => Known')
    BY <1>1, <1>9, HelperFailsCard DEF Remembers, RpmbInv
  <2>2. PICK f \in FrameType : f.p = Top.p /\ f.at = "failed" /\ Pushed(f, r) /\ NothingReturned
    BY <1>1, <1>2, <1>9, CalledMove, CommandCodes DEF Fresh
  <2>3. Doom(f)
    BY <1>1, <2>2 DEF Doom
  <2> QED  BY <1>2, <1>5, <2>1, <2>2, <2>3
<1>10. ASSUME UNCHANGED quiet PROVE Remembers /\ (host'.rpmb => Known')
  BY <1>10, KnownKept DEF quiet
<1>11. CASE At("SdhcSendCommand", "waited") /\ Return(ret.s) /\ UNCHANGED quiet
  <2>1. ~Open /\ ~Doom(Top) /\ Top.c \in Switches
    BY <1>1, <1>3, <1>11 DEF FrameOK, Switches, Doom, At
  <2>2. Popped
    BY <1>1, <1>11, PopMove DEF CommandInv, Return
  <2>3. PathInv'
    BY <1>1, <2>1, <2>2, ClosedPop
  <2> QED  BY <1>1, <1>10, <1>11, <2>1, <2>3, RpmbReturns DEF Learns, RpmbRequests, Switches
<1>12. CASE At("SdhcSendCommand", "failed") /\ Return("ERR") /\ UNCHANGED quiet
  <2>1. ~Open
    BY <1>1, <1>3, <1>12 DEF Doom, At
  <2>2. Popped /\ ret'.s = "ERR"
    BY <1>1, <1>12, PopMove DEF CommandInv, Return
  <2>3. PathInv'
    BY <1>1, <2>1, <2>2, ClosedPop
  <2> QED  BY <1>1, <1>10, <1>12, <2>3, RpmbReturns
<1> QED  BY <1>7, <1>8, <1>9, <1>11, <1>12 DEF SdhcSendCommand, w, r


\* The wait for the transfer state, after a packet or after anything else.
LEMMA WaitTells ==
  ASSUME CommandInv, RpmbInv, SdhcWaitForTranState
  PROVE  RpmbInv'
<1>1. /\ Running /\ Top.p = "SdhcWaitForTranState" /\ ~Doom(Top) /\ UNCHANGED quiet
  BY DEF SdhcWaitForTranState, At, In, Doom
<1>2. Remembers /\ (host'.rpmb => Known') /\ CardRemembers
  BY <1>1, KnownKept DEF quiet, CardRemembers
<1>3. Fresh(SdhcSendStatus) /\ Mute(SdhcSendStatus)
  <2>1. Is(SdhcSendStatus, "SdhcSendCommand", "SendStatus")
    BY CallFrames, CommandCodes DEF SdhcSendStatus
  <2> QED  BY <2>1, MuteFrames DEF RpmbRequests
<1>4. Open => Len(stack) > 4 /\ Len(stack) > 3 /\ ~(Len(stack) = 4)
  <2>1. Open => Len(stack) > 4 /\ Len(stack) > 3
    BY <1>1, ShapeCommand
  <2>2. \A m \in {4, 5, 6} : m > 4 => ~(m = 4)
    OBVIOUS
  <2> QED  BY <1>1, <2>1, <2>2, ShapeCommand, Zenon
<1>5. \A f : f.p = Top.p => Mute(f)
  BY <1>1 DEF Mute, Learnt, RpmbRequests
<1>6. CASE At("SdhcWaitForTranState", "begin") /\ Call(SdhcSendStatus, "polled")
  <2>1. Ok
    BY <1>1, <1>6 DEF RpmbInv, SilentInv, Silent, At
  <2>2. PICK f \in FrameType : f.p = Top.p /\ Pushed(f, SdhcSendStatus) /\ NothingReturned
    BY <1>1, <1>3, <1>6, CalledMove, CommandCodes DEF Fresh
  <2>3. PathInv'
    BY <1>1, <1>2, <1>3, <1>4, <2>1, <2>2, PathPush DEF Mute
  <2>4. Says(f, Known', req') /\ Says(SdhcSendStatus, Known', req')
    BY <1>3, <1>5, <2>2, MuteSays
  <2> QED  BY <1>1, <1>2, <2>2, <2>3, <2>4, RpmbCalls
<1>7. ASSUME NEW s, Return(s), s = "OK" => Ok PROVE RpmbInv'
  <2>1. Popped /\ ret'.s = s
    BY <1>1, <1>7, PopMove DEF CommandInv, Return
  <2>2. PathInv'
    <3>1. CASE s = "OK"
      BY <1>1, <1>2, <1>4, <1>7, <2>1, <3>1, PathPop
    <3>2. CASE s # "OK"
      BY <2>1, <3>2 DEF PathInv, Ok
    <3> QED  BY <3>1, <3>2
  <2> QED  BY <1>1, <1>2, <1>7, <2>2, RpmbReturns DEF Learns, RpmbRequests
<1>8. CASE Ok /\ stack' = Append(Below, [Top EXCEPT !.at = "begin", !.n = @ + 1]) /\ ret' = NoRet
  <2>1. PICK f \in FrameType : f.p = Top.p /\ Retopped(f) /\ NothingReturned
    BY <1>1, <1>8, TurnMove
  <2>2. PathInv'
    BY <1>1, <1>2, <1>4, <1>8, <2>1, PathTurn
  <2>3. Says(f, Known', req')
    BY <1>5, <2>1, MuteSays
  <2> QED  BY <1>1, <1>2, <2>1, <2>2, <2>3, RpmbGoes
<1>9. \/ At("SdhcWaitForTranState", "begin") /\ Call(SdhcSendStatus, "polled")
      \/ \E s : Return(s) /\ (s = "OK" => Ok)
      \/ Ok /\ stack' = Append(Below, [Top EXCEPT !.at = "begin", !.n = @ + 1]) /\ ret' = NoRet
  <2>1. CASE At("SdhcWaitForTranState", "begin") /\ Call(SdhcSendStatus, "polled")
    BY <2>1
  <2>2. CASE ~Ok /\ Return(ret.s)
    BY <2>2 DEF Ok
  <2>3. CASE Ok /\ (Return("TIMEOUT") \/ Return("OK"))
    BY <2>3
  <2>4. CASE Ok /\ stack' = Append(Below, [Top EXCEPT !.at = "begin", !.n = @ + 1]) /\ ret' = NoRet
    BY <2>4
  <2> QED  BY <2>1, <2>2, <2>3, <2>4 DEF SdhcWaitForTranState
<1> QED  BY <1>6, <1>7, <1>8, <1>9


\* What a frame on top says.
LEMMA SaysTop ==
  ASSUME CommandInv, RpmbInv, Running
  PROVE  Says(Top, Known, req)
<1>1. Len(stack) \in Nat \ {0} /\ Top = stack[Len(stack)]
  BY TopFacts DEF CommandInv
<1>2. Len(stack) \in 1 .. Len(stack)
  BY <1>1
<1> QED  BY <1>1, <1>2 DEF RpmbInv, SaysInv

\* A data command that runs while packets are exchanged transfers one of them.
LEMMA DataOpen ==
  ASSUME CommandInv, Open, Top.p = "SdhcSendDataCommand"
  PROVE  /\ Len(stack) = 4 /\ Top = stack[4] /\ Top.c \in RpmbCodes /\ ~Doom(Top)
         /\ stack[3].n \in {2, 4, 6} /\ Top.c = PacketCode(stack[3].n, req.kind \in WriteKinds)
         /\ req.kind \notin WriteKinds => stack[3].n # 6
<1> DEFINE n == stack[3].n
<1>1. Len(stack) = 4 /\ Top = stack[4] /\ Top.c \in RpmbCodes /\ ~Doom(Top) /\ Len(stack) > 3
  BY ShapeCommand
<1>2. /\ n \in 1 .. 6 /\ IsPacket(n, req.kind \in WriteKinds, Top.p, Top.c)
      /\ req.kind \notin WriteKinds => n \in 1 .. 4
  BY <1>1, PacketOnStack DEF CommandInv, Open
<1> HIDE DEF n
<1>3. n \in {2, 4, 6}
  BY <1>2 DEF IsPacket
<1>4. Top.c = PacketCode(n, req.kind \in WriteKinds)
  BY <1>2, <1>3 DEF IsPacket
<1>5. req.kind \notin WriteKinds => n # 6
  BY <1>2
<1> QED  BY <1>1, <1>3, <1>4, <1>5 DEF n

\* Once the first packet has been sent no frame says otherwise.
LEMMA PacketSays ==
  ASSUME CommandInv, RpmbInv, Running, Top.p = "SdhcSendDataCommand", Top.c \in RpmbCodes,
         NEW f, Retopped(f), f.p = Top.p, f.at \in {"moved", "exit"}, Known => Known'
  PROVE  SaysInv'
<1>1. Len(stack) = 4 /\ Top = stack[4] /\ stack[3].p \in RpmbRequests /\ FramesInv
  <2>1. Len(stack) \in Nat \ {0} /\ Top = stack[Len(stack)] /\ FramesInv
    BY TopFacts DEF CommandInv
  <2>2. Len(stack) \in 1 .. Len(stack)
    BY <2>1
  <2> QED  BY <2>1, <2>2, Places
<1>2. 1 \in 1 .. Len(stack) /\ 2 \in 1 .. Len(stack) /\ 3 \in 1 .. Len(stack)
  BY <1>1
<1>3. stack[2].p = "RpmbRequest" /\ stack[2].at = "served"
  BY <1>1, <1>2, Places
<1>4. stack[1].p = "OpteeRpcCmdRpmb" /\ stack[1].at = "served"
  BY <1>1, <1>2, <1>3, Places
<1>5. stack[3].n \in 1 .. 6 /\ ~(stack[3].n < 2)
  <2>1. Inside /\ Len(stack) > 3
    BY <1>1 DEF Inside
  <2>2. stack[3].n \in 1 .. 6 /\ IsPacket(stack[3].n, req.kind \in WriteKinds, Top.p, Top.c)
    BY <1>1, <2>1, PacketOnStack
  <2> QED  BY <2>2 DEF IsPacket
<1>6. \A k \in 1 .. 3 : (Learnt(stack[k]) => Known') /\ ~Unsent(stack[k]) /\ ~(stack[k].p = "RpmbRequest" /\ stack[k].at = "back")
  <2>1. \A k \in 1 .. 3 : Learnt(stack[k]) => Known'
    BY <1>1 DEF RpmbInv, SaysInv, Says
  <2>2. ~Unsent(stack[1]) /\ ~Unsent(stack[2])
    BY <1>3, <1>4 DEF Unsent, RpmbRequests
  <2>3. ~Unsent(stack[3]) /\ stack[3].p # "RpmbRequest"
    BY <1>1, <1>5 DEF Unsent, RpmbRequests
  <2>4. \A k \in 1 .. 3 : k = 1 \/ k = 2 \/ k = 3
    OBVIOUS
  <2> QED  BY <1>3, <1>4, <2>1, <2>2, <2>3, <2>4
<1>7. Len(stack') = 4 /\ stack'[4] = f /\ \A k \in 1 .. 3 : stack'[k] = stack[k]
  BY <1>1 DEF Retopped, SameBelow
<1>8. Says(f, Known', req')
  <2>1. Mute(f)
    BY DEF Mute, Learnt, RpmbRequests
  <2> QED  BY <2>1, MuteSays
<1>9. \A k \in 1 .. 4 : k = 4 \/ k \in 1 .. 3
  OBVIOUS
<1>10. \A k \in 1 .. 3 : Says(stack'[k], Known', req')
  BY <1>6, <1>7 DEF Says
<1>11. \A k \in 1 .. Len(stack') : Says(stack'[k], Known', req')
  BY <1>7, <1>8, <1>9, <1>10, Zenon
<1> QED  BY <1>11, Zenon DEF SaysInv


\* A data command jumps to its exit.
LEMMA DataExits ==
  ASSUME CommandInv, Running, Top.p = "SdhcSendDataCommand", NEW f, Retopped(f), f.p = Top.p, f.at = "exit"
  PROVE  PathInv'
<1>1. Doom(f)
  BY DEF Doom
<1>2. Open => Len(stack) > 3
  BY ShapeCommand
<1>3. ~Open'
  BY <1>1, <1>2, ClosedRetop
<1> QED  BY <1>3 DEF PathInv

\* The command of a transfer: a packet whose block count has been set is a counted one.
LEMMA DataBegins ==
  ASSUME CommandInv, RpmbInv, At("SdhcSendDataCommand", "begin"), UNCHANGED <<attempts, req, reqs>>,
         \/ HelperOk(Top.c) /\ Goto("data")
         \/ HelperFails(Top.c) /\ Goto("exit")
  PROVE  RpmbInv'
<1>1. /\ Running /\ Top.p = "SdhcSendDataCommand" /\ Top.at = "begin" /\ Fields /\ ~Doom(Top) /\ Ok
  <2>1. Silent(Top)
    BY DEF At, In, Silent
  <2> QED  BY <2>1 DEF At, In, CommandInv, Doom, RpmbInv, SilentInv
<1>2. CASE HelperOk(Top.c) /\ Goto("data")
  <2>1. PICK f \in FrameType : /\ f.p = Top.p /\ f.c = Top.c /\ f.at = "data" /\ Retopped(f) /\ NothingReturned
    BY <1>1, <1>2, GotoMove, CommandCodes
  <2>2. /\ card'.asked = card.asked /\ Remembers /\ (host'.rpmb => Known')
        /\ Top.c \in RpmbCodes => card'.part = card.part /\ (card.count => card'.closed)
    BY <1>1, <1>2, HelperOkCard DEF Remembers, RpmbInv, RpmbCodes
  <2>3. Says(f, Known', req')
    <3>1. CASE Top.c = "RpmbSend"
      <4>1. req.written = 0
        BY <1>1, <3>1, SaysTop DEF Says, Unsent
      <4> QED  BY <1>1, <2>1, <2>2, <4>1 DEF Says, Unsent, Learnt, Remembers
    <3>2. CASE Top.c # "RpmbSend"
      <4>1. Mute(f)
        BY <1>1, <2>1, <3>2 DEF Mute, Learnt, RpmbRequests
      <4> QED  BY <4>1, MuteSays
    <3> QED  BY <3>1, <3>2
  <2>4. PathInv'
    <3>1. CASE ~Open
      <4>1. ~Open'
        BY <1>1, <2>1, <3>1, ClosedRetop
      <4> QED  BY <4>1 DEF PathInv
    <3>2. CASE Open
      <4>1. Len(stack) = 4 /\ Top = stack[4] /\ Top.c \in RpmbCodes /\ Progress
        BY <1>1, <3>2, DataOpen DEF RpmbInv, PathInv
      <4>2. Len(stack') = 4 /\ stack'[3] = stack[3] /\ stack'[4] = f
        BY <2>1, <4>1 DEF Retopped, SameBelow
      <4>3. Complete' = stack[3].n - 1 /\ Complete = stack[3].n - 1
        BY <1>1, <2>1, <4>1, <4>2 DEF Complete, Moving
      <4>4. card'.closed /\ card'.part = "rpmb"
        BY <1>1, <2>2, <4>1 DEF Progress
      <4>5. Done(Complete', req', card'.asked)
        BY <2>2, <4>1, <4>3 DEF Progress, Done, Remembers
      <4>6. Progress'
        BY <2>1, <4>2, <4>4, <4>5 DEF Progress
      <4> QED  BY <4>6 DEF PathInv
    <3> QED  BY <3>1, <3>2
  <2> QED  BY <1>1, <2>1, <2>2, <2>3, <2>4, RpmbGoes
<1>3. CASE HelperFails(Top.c) /\ Goto("exit")
  <2>1. PICK f \in FrameType : /\ f.p = Top.p /\ f.c = Top.c /\ f.at = "exit" /\ Retopped(f) /\ NothingReturned
    BY <1>1, <1>3, GotoMove, CommandCodes
  <2>2. Remembers /\ (host'.rpmb => Known')
    BY <1>1, <1>3, HelperFailsCard DEF Remembers, RpmbInv
  <2>3. Mute(f)
    BY <1>1, <2>1 DEF Mute, Learnt, RpmbRequests
  <2>4. Says(f, Known', req')
    BY <2>3, MuteSays
  <2>5. PathInv'
    BY <1>1, <2>1, DataExits
  <2> QED  BY <1>1, <2>1, <2>2, <2>4, <2>5, RpmbGoes
<1> QED  BY <1>2, <1>3

\* The data of a transfer: a packet carries the request on.
LEMMA DataTransfers ==
  ASSUME CommandInv, RpmbInv, At("SdhcSendDataCommand", "data"), UNCHANGED <<host, attempts, reqs>>,
         \/ DataMoves(Top.c) /\ Goto("moved")
         \/ DataFails(Top.c) /\ Goto("exit")
  PROVE  RpmbInv'
<1>1. /\ Running /\ Top.p = "SdhcSendDataCommand" /\ Top.at = "data" /\ Fields /\ ~Doom(Top) /\ Ok
  <2>1. Silent(Top)
    BY DEF At, In, Silent
  <2> QED  BY <2>1 DEF At, In, CommandInv, Doom, RpmbInv, SilentInv
<1>2. PICK l \in {"moved", "exit"} : Goto(l) /\ (l = "moved" => DataMoves(Top.c))
  OBVIOUS
<1>3. PICK f \in FrameType : /\ f.p = Top.p /\ f.c = Top.c /\ f.at = l /\ Retopped(f) /\ NothingReturned
  BY <1>1, <1>2, GotoMove, CommandCodes
<1>4. /\ card'.id = card.id /\ req'.kind = req.kind
      /\ Top.c # "RpmbSend" => req'.written = req.written
      /\ req'.written \in {req.written, req.written + 1}
      /\ Top.c # "RpmbFetch" => req'.answer = req.answer
  BY <1>1, DataCard
<1>5. (Known => Known') /\ (host'.rpmb => Known')
  BY <1>4 DEF Known, RpmbInv
<1>6. Top.c = "RpmbSend" => req.written = 0
  BY <1>1, SaysTop DEF Says, Unsent
<1>7. req'.written \in {0, 1}
  <2>1. CASE Top.c = "RpmbSend"
    BY <1>4, <1>6, <2>1
  <2>2. CASE Top.c # "RpmbSend"
    BY <1>4, <2>2 DEF RpmbInv
  <2> QED  BY <2>1, <2>2
<1>8. SaysInv'
  <2>1. CASE Top.c \in RpmbCodes
    BY <1>1, <1>3, <1>5, <2>1, PacketSays
  <2>2. CASE Top.c \notin RpmbCodes
    <3>1. Remembers
      BY <1>4, <1>5, <2>2 DEF Remembers, RpmbCodes
    <3>2. Mute(f)
      BY <1>1, <1>3 DEF Mute, Learnt, RpmbRequests
    <3>3. Says(f, Known', req')
      BY <3>2, MuteSays
    <3> QED  BY <1>1, <1>3, <3>1, <3>3, SaysRetop
  <2> QED  BY <2>1, <2>2
<1>9. PathInv'
  <2>1. CASE l = "exit"
    BY <1>1, <1>3, <2>1, DataExits
  <2>2. CASE ~Open /\ l = "moved"
    <3>1. ~Open'
      BY <1>1, <1>3, <2>2, ClosedRetop
    <3> QED  BY <3>1 DEF PathInv
  <2>3. CASE Open /\ l = "moved"
    <3> DEFINE n == stack[3].n
               w == req.kind \in WriteKinds
    <3>1. /\ Len(stack) = 4 /\ Top = stack[4] /\ Progress /\ n \in {2, 4, 6} /\ Top.c = PacketCode(n, w)
          /\ ~w => n # 6
      BY <1>1, <2>3, DataOpen DEF RpmbInv, PathInv
    <3>2. Len(stack') = 4 /\ stack'[3] = stack[3] /\ stack'[4] = f
      BY <1>3, <3>1 DEF Retopped, SameBelow
    <3>3. Complete' = n /\ Complete = n - 1
      BY <1>1, <1>3, <2>3, <3>1, <3>2 DEF Complete, Moving
    <3>4. card.part = "rpmb" /\ card.closed /\ Done(n - 1, req, card.asked)
      BY <1>1, <3>1, <3>3 DEF Progress
    <3>5. PICK b : Transferred(Top.c, b)
      BY <1>2, <2>3 DEF DataMoves
    <3> HIDE DEF n
    <3>6. /\ card'.part = "rpmb" /\ card'.asked = Asked(Top.c) /\ req'.kind = req.kind
          /\ req'.written = IF Top.c = "RpmbSend" /\ w THEN req.written + 1 ELSE req.written
          /\ req'.answer = IF Top.c = "RpmbFetch" THEN card.asked ELSE req.answer
      BY <1>1, <3>4, <3>5, TransferCard DEF RpmbFrame
    <3>7. card'.asked = IF Top.c = "RpmbSend" THEN req.kind ELSE IF Top.c = "RpmbAsk" THEN "result" ELSE card.asked
      BY <3>4, <3>6 DEF Asked, RpmbFrame
    <3>8. Done(n, req', card'.asked)
      <4>1. CASE n = 2
        <5>1. Top.c = "RpmbSend" /\ req.written = 0
          BY <1>6, <3>1, <4>1 DEF PacketCode
        <5> QED  BY <3>6, <3>7, <4>1, <5>1 DEF Done
      <4>2. CASE n = 4 /\ w
        <5>1. Top.c = "RpmbAsk" /\ req.written = 1
          BY <3>1, <3>4, <4>2 DEF PacketCode, Done
        <5> QED  BY <3>6, <3>7, <4>2, <5>1 DEF Done
      <4>3. CASE n = 4 /\ ~w
        <5>1. Top.c = "RpmbFetch" /\ req.written = 0 /\ card.asked = req.kind
          BY <3>1, <3>4, <4>3 DEF PacketCode, Done
        <5> QED  BY <3>6, <3>7, <4>3, <5>1 DEF Done
      <4>4. CASE n = 6
        <5>1. w /\ Top.c = "RpmbFetch" /\ req.written = 1 /\ card.asked = "result"
          BY <3>1, <3>4, <4>4 DEF PacketCode, Done
        <5> QED  BY <3>6, <3>7, <4>4, <5>1 DEF Done
      <4> QED  BY <3>1, <4>1, <4>2, <4>3, <4>4
    <3>9. Progress'
      BY <1>3, <2>3, <3>2, <3>3, <3>6, <3>8 DEF Progress
    <3> QED  BY <3>9 DEF PathInv
  <2> QED  BY <2>1, <2>2, <2>3
<1>10. ret'.p = "none" /\ ret'.c = "none" /\ ret'.s = "OK"
  BY <1>3, NoReturn
<1>11. ToldInv' /\ SilentInv'
  BY <1>10 DEF ToldInv, Learns, RpmbRequests, SilentInv, Ok
<1> QED  BY <1>5, <1>7, <1>8, <1>9, <1>11 DEF RpmbInv


\* The end of a transfer, in success and in error.
LEMMA DataTells ==
  ASSUME CommandInv, RpmbInv, SdhcSendDataCommand
  PROVE  RpmbInv'
<1> DEFINE w == Proc("SdhcWaitForTranState")
           r == Frame("SdhcRecoverFromErrors", Top.c)
<1>1. /\ Running /\ Top.p = "SdhcSendDataCommand" /\ Top.c \in Codes
  <2>1. In("SdhcSendDataCommand")
    BY DEF SdhcSendDataCommand, SdhcStopIfOpen, At
  <2> QED  BY <2>1, RunningFacts
<1>2. Fresh(w) /\ Mute(w) /\ Fresh(r) /\ Mute(r) /\ Fresh(SdhcStopTransmission) /\ Mute(SdhcStopTransmission)
  <2>1. Is(SdhcStopTransmission, "SdhcSendCommand", "Stop")
    BY CallFrames, CommandCodes DEF SdhcStopTransmission
  <2> QED  BY <1>1, <2>1, CallFrames, MuteFrames DEF RpmbRequests
<1> HIDE DEF w, r
<1>3. ASSUME UNCHANGED quiet PROVE Remembers /\ (host'.rpmb => Known') /\ CardRemembers
  BY <1>3, KnownKept DEF quiet, CardRemembers
<1>4. \A f : f.p = Top.p /\ f.at \notin {"begin", "data"} => Mute(f)
  BY <1>1 DEF Mute, Learnt, RpmbRequests
<1>5. Open => /\ Len(stack) = 4 /\ Len(stack) > 3 /\ Top = stack[4] /\ ~Doom(Top) /\ stack[3].n \in {2, 4, 6}
  BY <1>1, DataOpen, ShapeCommand
<1>6. ASSUME NEW l \in {"stopped", "waited"}, NEW g, Call(g, l), Fresh(g), Mute(g), UNCHANGED quiet, Ok,
             Top.at \in {"moved", "stopped"}
      PROVE  RpmbInv'
  <2>1. PICK f \in FrameType : f.p = Top.p /\ f.at = l /\ Pushed(f, g) /\ NothingReturned
    BY <1>1, <1>6, CalledMove, CommandCodes DEF Fresh
  <2>2. ~Doom(Top) /\ g.p \notin RpmbRequests
    BY <1>6 DEF Doom, Mute
  <2>3. Open => /\ Len(stack) > 3
                /\ Len(stack) = 4 => Moving /\ f.p = "SdhcSendDataCommand" /\ f.at \in {"stopped", "waited"}
    BY <1>1, <1>5, <1>6, <2>1 DEF Moving
  <2>4. PathInv'
    BY <1>1, <1>3, <1>6, <2>1, <2>2, <2>3, PathPush
  <2>5. Says(f, Known', req') /\ Says(g, Known', req')
    BY <1>4, <1>6, <2>1, MuteSays
  <2> QED  BY <1>1, <1>3, <1>6, <2>1, <2>4, <2>5, RpmbCalls
<1>7. ASSUME Goto("exit"), UNCHANGED quiet PROVE RpmbInv'
  <2>1. PICK f \in FrameType : f.p = Top.p /\ f.at = "exit" /\ Retopped(f) /\ NothingReturned
    BY <1>1, <1>7, GotoMove, CommandCodes
  <2>2. PathInv'
    BY <1>1, <2>1, DataExits
  <2>3. Says(f, Known', req')
    BY <1>4, <2>1, MuteSays
  <2> QED  BY <1>1, <1>3, <1>7, <2>1, <2>2, <2>3, RpmbGoes
<1>8. CASE SdhcStopIfOpen
  <2>1. Top.at = "moved" /\ UNCHANGED quiet /\ (Call(SdhcStopTransmission, "stopped") \/ Call(w, "waited"))
    BY <1>8 DEF SdhcStopIfOpen, At, w
  <2>2. Ok
    BY <1>1, <2>1 DEF RpmbInv, SilentInv, Silent
  <2> QED  BY <1>2, <1>6, <2>1, <2>2
<1>9. CASE /\ At("SdhcSendDataCommand", "stopped") /\ UNCHANGED quiet
           /\ (Ok /\ Call(w, "waited")) \/ Goto("exit")
  BY <1>2, <1>6, <1>7, <1>9 DEF At
<1>10. CASE /\ At("SdhcSendDataCommand", "waited") /\ Ok /\ Return("OK")
            /\ host' = IF Top.c = "ExtCsd" THEN SdhcSendExtCsdMmc(host) ELSE host
            /\ UNCHANGED <<card, attempts, req, faults, reqs>>
  <2>1. host'.cid = host.cid /\ host'.rpmb = host.rpmb
    BY <1>10 DEF SdhcSendExtCsdMmc, CommandInv, Fields
  <2>2. Remembers /\ (host'.rpmb => Known')
    BY <1>10, <2>1, KnownKept
  <2>3. Popped /\ ~Doom(Top) /\ Top.at = "waited"
    BY <1>1, <1>10, PopMove DEF CommandInv, Return, Doom, At
  <2>4. PathInv'
    <3>1. CASE ~Open
      BY <1>1, <2>3, <3>1, ClosedPop
    <3>2. CASE Open
      <4>1. Progress /\ Complete = stack[3].n
        BY <1>1, <1>5, <1>10, <2>3, <3>2 DEF RpmbInv, PathInv, Complete, Moving
      <4>2. card'.part = "rpmb" /\ Done(stack[3].n, req', card'.asked)
        BY <1>10, <4>1 DEF Progress
      <4>3. stack[3].n \notin {1, 3, 5}
        BY <1>5, <3>2
      <4> QED  BY <1>5, <2>3, <3>2, <4>2, <4>3, PathNext
    <3> QED  BY <3>1, <3>2
  <2> QED  BY <1>1, <1>10, <2>2, <2>4, RpmbReturns DEF Learns, RpmbRequests
<1>11. CASE At("SdhcSendDataCommand", "waited") /\ ~Ok /\ Goto("exit") /\ UNCHANGED quiet
  BY <1>7, <1>11
<1>12. CASE At("SdhcSendDataCommand", "exit") /\ Call(r, "failed") /\ UNCHANGED quiet
  <2>1. PICK f \in FrameType : f.p = Top.p /\ f.at = "failed" /\ Pushed(f, r) /\ NothingReturned
    BY <1>1, <1>2, <1>12, CalledMove, CommandCodes DEF Fresh
  <2>2. ~Open /\ Doom(f)
    BY <1>1, <1>5, <1>12, <2>1 DEF Doom, At
  <2>3. ~Open'
    BY <1>1, <1>2, <2>1, <2>2, ClosedPush DEF Mute
  <2>4. PathInv'
    BY <2>3 DEF PathInv
  <2>5. Says(f, Known', req') /\ Says(r, Known', req')
    BY <1>2, <1>4, <2>1, MuteSays
  <2> QED  BY <1>1, <1>3, <1>12, <2>1, <2>4, <2>5, RpmbCalls
<1>13. CASE At("SdhcSendDataCommand", "failed") /\ Return("ERR") /\ UNCHANGED quiet
  <2>1. ~Open
    BY <1>1, <1>5, <1>13 DEF Doom, At
  <2>2. Popped /\ ret'.s = "ERR"
    BY <1>1, <1>13, PopMove DEF CommandInv, Return
  <2>3. PathInv'
    BY <1>1, <2>1, <2>2, ClosedPop
  <2> QED  BY <1>1, <1>3, <1>13, <2>3, RpmbReturns
<1>14. UNCHANGED <<card, attempts, req, faults, reqs>> /\ UNCHANGED host => UNCHANGED quiet
  BY DEF quiet
<1> QED  BY <1>8, <1>9, <1>10, <1>11, <1>12, <1>13, <1>14, DataBegins, DataTransfers
         DEF SdhcSendDataCommand, w, r


\* The sequences that are no RPMB requests.
LEMMA OtherSequenceTells ==
  ASSUME CommandInv, RpmbInv, Sequence, Top.p \notin RpmbRequests
  PROVE  RpmbInv'
<1>1. /\ Running /\ Top.p \in Sequenced /\ UNCHANGED quiet
      /\ Top \in FrameType /\ Top.n \in Nat /\ Rel(Top, ret.p, ret.c, req.kind)
      /\ Len(Body(Top)) \in BodyLen(Top) /\ Len(Body(Top)) \in 2 .. 11 /\ Top.n <= Len(Body(Top))
  BY SequenceCases
<1>2. ~Open /\ ~Doom(Top)
  BY <1>1, Elsewhere DEF Sequenced, RpmbRequests, Doom
<1>3. Remembers /\ (host'.rpmb => Known') /\ (Known => Known')
  BY <1>1, KnownKept DEF quiet, Known
<1>4. Learnt(Top) => Known
  BY <1>1, SaysTop DEF Says
<1>5. Top.p \notin RpmbRequests \cup {"RpmbRequest", "OpteeRpcCmdRpmb"}
  BY <1>1 DEF Sequenced, RpmbRequests
<1>6. ASSUME NEW s, Return(s), s = "OK" /\ Learns(Top.p, Top.c) => Known PROVE RpmbInv'
  <2>1. Popped
    BY <1>1, <1>6, PopMove DEF CommandInv, Return
  <2>2. PathInv'
    BY <1>1, <1>2, <2>1, ClosedPop
  <2> QED  BY <1>1, <1>3, <1>5, <1>6, <2>2, RpmbReturns
<1>7. CASE ~Ok /\ Return(ret.s)
  BY <1>6, <1>7 DEF Ok
<1>8. CASE Ok /\ Top.n = Len(Body(Top)) /\ Return("OK")
  <2>1. /\ Top.p = "InitializeSdDevice" => BodyLen(Top) = {8}
        /\ Top.p = "InitializeMmcDevice" => BodyLen(Top) = {11}
        /\ Top.p = "InitializeDevice" => BodyLen(Top) = {7}
    BY DEF BodyLen, RpmbReads, RpmbWrites
  <2>2. Top.n \in BodyLen(Top)
    BY <1>1, <1>8
  <2>3. Top.p \in {"InitializeSdDevice", "InitializeMmcDevice", "InitializeDevice"} => Learnt(Top)
    BY <2>1, <2>2 DEF Learnt
  <2>4. Learns(Top.p, Top.c) => Known
    BY <1>1, <1>4, <2>3 DEF Learns, Sequenced, RpmbRequests
  <2> QED  BY <1>6, <1>8, <2>4
<1>9. CASE /\ Top.n = 0 \/ Ok
           /\ Top.n # Len(Body(Top))
           /\ stack' = Below \o <<[Top EXCEPT !.n = @ + 1], Chosen(Body(Top)[Top.n + 1])>>
           /\ ret' = NoRet
  <2> DEFINE f == [Top EXCEPT !.n = @ + 1]
             g == Chosen(Body(Top)[Top.n + 1])
  <2>1. f \in FrameType /\ f.p = Top.p /\ f.c = Top.c /\ f.n = Top.n + 1
    BY <1>1, FrameCount
  <2>2. stack' = Below \o <<f, g>> /\ NothingReturned
    BY <1>9 DEF NothingReturned, NoRet
  <2>3. Top.n < Len(Body(Top))
    BY <1>1, <1>9
  <2> HIDE DEF f
  <2>4. Fresh(g) /\ Rel(f, g.p, g.c, req.kind)
    BY <1>1, <1>9, <2>1, <2>3, NextCall
  <2> HIDE DEF g
  <2>5. Pushed(f, g)
    BY <1>1, <2>1, <2>2, <2>4, CallMove DEF CommandInv, Fresh
  <2>6. Mute(g)
    BY <1>1, <2>1, <2>4, <1>5 DEF Mute, Learnt, Fresh, Rel, Called, RpmbCodes, RpmbRequests
  <2>7. Learnt(f) => Known
    <3>1. SUFFICES ASSUME Learnt(f) PROVE Known
      OBVIOUS
    <3>2. CASE Learnt(Top)
      BY <1>4, <3>2
    <3>3. CASE ~Learnt(Top)
      <4>1. \/ Top.p \in {"InitializeSdDevice", "InitializeMmcDevice"} /\ Top.n = 4
            \/ Top.p = "InitializeDevice" /\ Top.n = 5
        BY <1>1, <2>1, <3>1, <3>3 DEF Learnt
      <4>2. \/ ret.p = "SdhcSendCommand" /\ ret.c = "Cid"
            \/ ret.p \in {"InitializeSdDevice", "InitializeMmcDevice"}
            \/ ret.p = "Check" /\ ret.c = "unsupported"
        BY <1>1, <4>1 DEF Rel, Counts
      <4>3. ret.s = "OK"
        BY <1>9, <4>1 DEF Ok
      <4> QED  BY <4>2, <4>3 DEF CommandInv, ReturnsInv, RpmbInv, ToldInv, Learns
    <3> QED  BY <3>2, <3>3
  <2>8. Says(f, Known', req')
    BY <1>3, <1>5, <2>1, <2>7, <1>1 DEF Says, Unsent, Sequenced, RpmbRequests
  <2>9. ~Open'
    BY <1>1, <1>2, <2>1, <2>5, <2>6, ClosedPush DEF Mute
  <2>10. PathInv'
    BY <2>9 DEF PathInv
  <2>11. Says(g, Known', req')
    BY <2>6, MuteSays
  <2> QED  BY <1>1, <1>3, <2>2, <2>5, <2>8, <2>10, <2>11, RpmbCalls
<1> QED  BY <1>7, <1>8, <1>9, SequenceCases

\* The sequence of the packets of a request.
LEMMA PacketsTell ==
  ASSUME CommandInv, RpmbInv, Sequence, Top.p \in RpmbRequests
  PROVE  RpmbInv'
<1> DEFINE w == req.kind \in WriteKinds
<1>1. /\ Running /\ UNCHANGED quiet
      /\ Top \in FrameType /\ Top.n \in Nat /\ Rel(Top, ret.p, ret.c, req.kind)
      /\ Top.n <= Len(Body(Top))
  BY SequenceCases
<1>2. Len(stack) = 3 /\ Top = stack[3] /\ Top.p = req.kind
  <2>1. Len(stack) \in Nat \ {0} /\ Top = stack[Len(stack)] /\ FramesInv
    BY <1>1, TopFacts DEF CommandInv
  <2>2. Len(stack) \in 1 .. Len(stack)
    BY <2>1
  <2> QED  BY <2>1, <2>2, Places
<1>3. Open
  BY <1>2 DEF Open, Inside, Doomed
<1>4. Remembers /\ (host'.rpmb => Known') /\ (Known => Known')
  BY <1>1, KnownKept DEF quiet, Known
<1>5. /\ Len(Body(Top)) = IF w THEN 6 ELSE 4
      /\ \A n \in 1 .. Len(Body(Top)) : IsPacket(n, w, Body(Top)[n].p, Body(Top)[n].c)
  BY <1>1, <1>2, PacketFacts
<1>6. Complete = Top.n
  BY <1>2 DEF Complete
<1>7. Unsent(Top) => req.written = 0
  BY <1>1, SaysTop DEF Says
<1>8. ASSUME NEW s, Return(s), s = "OK" => Served(req) PROVE RpmbInv'
  <2>1. Popped
    BY <1>1, <1>8, PopMove DEF CommandInv, Return
  <2>2. Len(stack') = 2
    BY <1>2, <2>1 DEF Popped
  <2>3. PathInv'
    BY <2>2 DEF PathInv, Open, Inside
  <2>4. ~Learns(Top.p, Top.c)
    BY DEF Learns, RpmbRequests
  <2>5. s = "OK" => Served(req')
    BY <1>4, <1>8 DEF Remembers, Served
  <2> QED  BY <1>1, <1>4, <1>8, <2>3, <2>4, <2>5, RpmbReturns
<1>9. CASE ~Ok /\ Return(ret.s)
  BY <1>8, <1>9 DEF Ok
<1>10. CASE Ok /\ Top.n = Len(Body(Top)) /\ Return("OK")
  <2>1. Done(Top.n, req, card.asked)
    BY <1>3, <1>6, <1>10 DEF RpmbInv, PathInv, Progress
  <2>2. Top.n = IF w THEN 6 ELSE 4
    BY <1>5, <1>10
  <2>3. Served(req)
    BY <2>1, <2>2 DEF Done, Served
  <2> QED  BY <1>8, <1>10, <2>3
<1>11. CASE /\ Top.n = 0 \/ Ok
            /\ Top.n # Len(Body(Top))
            /\ stack' = Below \o <<[Top EXCEPT !.n = @ + 1], Chosen(Body(Top)[Top.n + 1])>>
            /\ ret' = NoRet
  <2> DEFINE f == [Top EXCEPT !.n = @ + 1]
             g == Chosen(Body(Top)[Top.n + 1])
  <2>1. f \in FrameType /\ f.p = Top.p /\ f.c = Top.c /\ f.n = Top.n + 1
    BY <1>1, FrameCount
  <2>2. stack' = Below \o <<f, g>> /\ NothingReturned
    BY <1>11 DEF NothingReturned, NoRet
  <2>3. Top.n < Len(Body(Top)) /\ f.n \in 1 .. Len(Body(Top)) /\ f.n \in 1 .. 6
    <3>1. \A n \in Nat, m \in {4, 6} : n <= m /\ n # m => n < m /\ n + 1 \in 1 .. m /\ n + 1 \in 1 .. 6
      OBVIOUS
    <3>2. Len(Body(Top)) \in {4, 6}
      BY <1>5, Zenon
    <3> QED  BY <1>1, <1>11, <2>1, <3>1, <3>2, Zenon
  <2> HIDE DEF f
  <2>4. Fresh(g) /\ Rel(f, g.p, g.c, req.kind)
    BY <1>1, <1>11, <2>1, <2>3, NextCall DEF Sequenced
  <2> HIDE DEF g
  <2>5. Pushed(f, g)
    BY <1>1, <2>1, <2>2, <2>4, CallMove DEF CommandInv, Fresh
  <2>6. IsPacket(f.n, w, g.p, g.c)
    <3>1. Body(f) = Body(Top)
      BY <2>1 DEF Body
    <3>2. g.p = Body(f)[f.n].p /\ g.c = Body(f)[f.n].c
      BY <2>1, <2>3, <2>4 DEF Rel, Counts
    <3> QED  BY <1>5, <2>3, <3>1, <3>2
  <2>7. Progress
    <3>1. Ok
      BY <1>1, <1>11 DEF RpmbInv, SilentInv, Silent
    <3> QED  BY <1>3, <3>1 DEF RpmbInv, PathInv
  <2>8. f.n \in 1 .. 6
    BY <2>3, Zenon
  <2>9. Len(stack') = 4 /\ stack'[3] = f /\ stack'[4] = g
    BY <1>2, <2>5 DEF Pushed
  <2>10. Complete' = Top.n
    <3>1. ~Moving' /\ Len(stack') # 3
      BY <2>4, <2>9 DEF Moving, Fresh
    <3>2. Complete' = f.n - 1
      BY <2>9, <3>1 DEF Complete
    <3> QED  BY <1>1, <2>1, <3>2
  <2>11. g.p = "SdhcSendDataCommand" => card.count
    <3>1. SUFFICES ASSUME g.p = "SdhcSendDataCommand" PROVE card.count
      OBVIOUS
    <3>2. f.n \in {2, 4, 6}
      BY <2>6, <2>8, <3>1 DEF IsPacket
    <3>3. Top.n \in {1, 3, 5}
      BY <1>1, <2>1, <3>2
    <3> QED  BY <1>2, <2>7, <3>3 DEF Progress
  <2>12. Progress'
    <3>1. Done(Complete', req', card'.asked)
      BY <1>1, <1>6, <2>7, <2>10 DEF Progress, Done, quiet
    <3>2. card'.part = "rpmb" /\ card'.count = card.count
      BY <1>1, <2>7 DEF Progress, quiet
    <3>3. g.at = "begin" /\ Len(stack') # 3
      BY <2>4, <2>9 DEF Fresh
    <3> QED  BY <2>9, <2>11, <3>1, <3>2, <3>3 DEF Progress
  <2>13. PathInv'
    BY <2>12 DEF PathInv
  <2>14. Says(f, Known', req')
    <3>1. f.p \in RpmbRequests /\ ~Learnt(f)
      BY <2>1 DEF Learnt, RpmbRequests
    <3>2. Unsent(f) => Top.n < 2
      BY <1>1, <2>1 DEF Unsent, RpmbRequests
    <3>3. Unsent(f) => req'.written = 0
      BY <1>1, <1>7, <3>2 DEF Unsent, quiet
    <3> QED  BY <3>1, <3>3 DEF Says, RpmbRequests
  <2>15. Says(g, Known', req')
    <3>1. g.p \in {"SdhcSendCommand", "SdhcSendDataCommand"}
      BY <2>6, <2>8 DEF IsPacket
    <3>2. Unsent(g) => f.n = 2
      BY <2>6, <2>8, <3>1 DEF IsPacket, PacketCode, Unsent, RpmbRequests
    <3>3. Unsent(g) => Top.n < 2
      BY <1>1, <2>1, <3>2
    <3>4. Unsent(g) => req'.written = 0
      BY <1>1, <1>7, <3>3 DEF Unsent, quiet
    <3> QED  BY <3>1, <3>4 DEF Says, Learnt
  <2> QED  BY <1>1, <1>4, <2>2, <2>5, <2>13, <2>14, <2>15, RpmbCalls
<1> QED  BY <1>9, <1>10, <1>11, SequenceCases


\* An RPMB request.
LEMMA RpmbRequestTells ==
  ASSUME CommandInv, RpmbInv, RpmbRequest
  PROVE  RpmbInv'
<1>1. /\ In("RpmbRequest") /\ Running /\ Top.p = "RpmbRequest" /\ UNCHANGED quiet
      /\ Top.at \in RpmbLabels /\ Rel(Top, ret.p, ret.c, req.kind)
  BY RunningFacts DEF RpmbRequest, FrameOK
<1>2. req.kind \in RpmbRequests
  BY <1>1, RequestKind
<1>3. Len(stack) = 2
  <2>1. Len(stack) \in Nat \ {0} /\ Top = stack[Len(stack)] /\ FramesInv
    BY <1>1, TopFacts DEF CommandInv
  <2>2. Len(stack) \in 1 .. Len(stack)
    BY <2>1
  <2> QED  BY <1>1, <2>1, <2>2, Places
<1>4. ~Open /\ ~Doom(Top) /\ Top.p \notin RpmbRequests
  BY <1>1, <1>3 DEF Open, Inside, Doom, RpmbRequests
<1>5. Remembers /\ (host'.rpmb => Known') /\ req'.written = req.written
  BY <1>1, KnownKept DEF quiet
<1>6. Says(Top, Known, req)
  BY <1>1, SaysTop
<1>7. ASSUME NEW s, Return(s), s = "OK" => Served(req) PROVE RpmbInv'
  <2>1. Popped
    BY <1>1, <1>7, PopMove DEF CommandInv, Return
  <2>2. PathInv'
    BY <1>1, <1>4, <2>1, ClosedPop
  <2>3. ~Learns(Top.p, Top.c) /\ (s = "OK" => Served(req'))
    BY <1>1, <1>5, <1>7 DEF Learns, Remembers, Served
  <2> QED  BY <1>1, <1>5, <1>7, <2>2, <2>3, RpmbReturns
<1>8. ASSUME NEW c \in {"Rpmb", "Back"}, NEW l \in {"switched", "back", "backFailed"},
             Call(Frame("SdhcSwitchPartitionMmc", c), l),
             l = "switched" => req.written = 0, l = "back" => Served(req)
      PROVE  RpmbInv'
  <2> DEFINE g == Frame("SdhcSwitchPartitionMmc", c)
  <2>1. Fresh(g) /\ Mute(g)
    BY CallFrames, MuteFrames DEF RpmbRequests
  <2> HIDE DEF g
  <2>2. PICK f \in FrameType : f.p = Top.p /\ f.at = l /\ Pushed(f, g) /\ NothingReturned
    BY <1>1, <1>8, <2>1, CalledMove, CommandCodes DEF Fresh, g
  <2>3. ~Open'
    BY <1>1, <1>4, <2>1, <2>2, ClosedPush DEF Mute, Doom
  <2>4. PathInv'
    BY <2>3 DEF PathInv
  <2>5. Says(f, Known', req')
    BY <1>1, <1>4, <1>5, <1>8, <2>2 DEF Says, Learnt, Unsent, Remembers, Served
  <2>6. Says(g, Known', req')
    BY <2>1, MuteSays
  <2> QED  BY <1>1, <1>5, <2>2, <2>4, <2>5, <2>6, RpmbCalls
<1>9. CASE Top.at = "begin"
  <2>1. Call(Frame("SdhcSwitchPartitionMmc", "Rpmb"), "switched")
    BY <1>9 DEF RpmbRequest
  <2>2. req.written = 0
    BY <1>1, <1>6, <1>9 DEF Says, Unsent
  <2> QED  BY <1>8, <2>1, <2>2
<1>10. CASE Top.at = "switched" /\ ~Ok
  BY <1>7, <1>10 DEF RpmbRequest, Ok
<1>11. CASE Top.at = "switched" /\ Ok
  <2> DEFINE g == Proc(req.kind)
  <2>1. Is(g, req.kind, "none")
    BY <1>2, CallFrames
  <2> HIDE DEF g
  <2>2. Call(g, "served")
    BY <1>11 DEF RpmbRequest, g
  <2>3. PICK f \in FrameType : f.p = Top.p /\ f.at = "served" /\ Pushed(f, g) /\ NothingReturned
    BY <1>1, <2>1, <2>2, CalledMove, CommandCodes DEF Fresh, Is
  <2>4. Len(stack') = 3 /\ stack'[3] = g /\ g.n = 0
    BY <1>3, <2>1, <2>3 DEF Pushed, Is, Fresh
  <2>5. card'.part = "rpmb"
    BY <1>1, <1>11 DEF Rel, Waits, CommandInv, ReturnsInv, Ok, quiet
  <2>6. Done(0, req', card'.asked)
    BY DEF Done
  <2>7. Progress'
    BY <2>4, <2>5, <2>6 DEF Progress, Complete
  <2>8. PathInv'
    BY <2>7 DEF PathInv
  <2>9. req.written = 0
    BY <1>1, <1>6, <1>11 DEF Says, Unsent
  <2>10. Says(f, Known', req')
    BY <1>1, <1>4, <2>3 DEF Says, Learnt, Unsent
  <2>11. Says(g, Known', req')
    BY <1>2, <1>5, <2>1, <2>9 DEF Says, Learnt, Is, RpmbRequests
  <2> QED  BY <1>1, <1>5, <2>3, <2>8, <2>10, <2>11, RpmbCalls
<1>12. CASE Top.at = "served"
  <2>1. Ok => Served(req)
    BY <1>1, <1>12 DEF Rel, Waits, RpmbInv, ToldInv, Ok
  <2>2. \/ Ok /\ Call(Frame("SdhcSwitchPartitionMmc", "Back"), "back")
        \/ Call(Frame("SdhcSwitchPartitionMmc", "Back"), "backFailed")
    BY <1>12 DEF RpmbRequest
  <2> QED  BY <1>8, <2>1, <2>2
<1>13. CASE Top.at = "back"
  <2>1. Return(ret.s)
    BY <1>13 DEF RpmbRequest
  <2>2. Served(req)
    BY <1>1, <1>6, <1>13 DEF Says
  <2> QED  BY <1>7, <2>1, <2>2
<1>14. CASE Top.at = "backFailed"
  BY <1>7, <1>14 DEF RpmbRequest
<1> QED  BY <1>1, <1>9, <1>10, <1>11, <1>12, <1>13, <1>14 DEF RpmbLabels

\* OP-TEE's request.
LEMMA OpteeRpcTells ==
  ASSUME CommandInv, RpmbInv, OpteeRpcCmdRpmb
  PROVE  RpmbInv'
<1>1. /\ Running /\ Top.p = "OpteeRpcCmdRpmb" /\ UNCHANGED <<card, host>>
      /\ Rel(Top, ret.p, ret.c, req.kind)
  BY RunningFacts DEF OpteeRpcCmdRpmb
<1>2. Len(stack) = 1
  <2>1. Len(stack) \in Nat \ {0} /\ Top = stack[Len(stack)] /\ FramesInv
    BY <1>1, TopFacts DEF CommandInv
  <2>2. Len(stack) \in 1 .. Len(stack)
    BY <2>1
  <2> QED  BY <1>1, <2>1, <2>2, Places
<1>3. ~Open /\ ~Doom(Top)
  BY <1>1, <1>2 DEF Open, Inside, Doom
<1>4. Top.at = "begin" => req.written = 0
  BY <1>1, SaysTop DEF Says, Unsent
<1>5. ASSUME UNCHANGED req PROVE Remembers /\ (host'.rpmb => Known')
  BY <1>1, <1>5, KnownKept
<1>6. ASSUME NEW s, Return(s)
      PROVE  Popped /\ Len(stack') = 0 /\ PathInv' /\ ret'.p = Top.p /\ ret'.c = Top.c /\ ret'.s = s
  <2>1. Popped
    BY <1>1, <1>6, PopMove DEF CommandInv, Return
  <2>2. Len(stack') = 0
    BY <1>2, <2>1 DEF Popped
  <2>3. PathInv'
    BY <2>2 DEF PathInv, Open, Inside
  <2> QED  BY <1>6, <2>1, <2>2, <2>3 DEF Return
<1>7. ASSUME NEW s, Return(s), UNCHANGED req, s = "OK" => Served(req) PROVE RpmbInv'
  <2>1. ~Learns(Top.p, Top.c) /\ (s = "OK" => Served(req'))
    BY <1>1, <1>7 DEF Learns
  <2> QED  BY <1>1, <1>5, <1>6, <1>7, <2>1, RpmbReturns
<1>8. CASE Top.at = "begin" /\ ~host.rpmb /\ Return("ERR") /\ UNCHANGED req
  BY <1>7, <1>8
<1>9. CASE /\ Top.at = "begin" /\ host.rpmb /\ req.kind = "GetDevInfo" /\ Return("OK")
           /\ req' = [req EXCEPT !.answer = IF host.cid = card.id THEN req.kind ELSE "none"]
  <2>1. Known /\ Known'
    BY <1>1, <1>9 DEF RpmbInv, Known
  <2>2. req'.kind = req.kind /\ req'.written = 0 /\ req'.answer = req.kind
    BY <1>4, <1>9, <2>1 DEF Known, CommandInv, Fields
  <2>3. Served(req')
    BY <1>9, <2>2 DEF Served, WriteKinds
  <2>4. SaysInv' /\ SilentInv'
    <3>1. \A k \in 1 .. Len(stack') : FALSE
      BY <1>6, <1>9
    <3> QED  BY <1>1, <1>6, <1>9, <3>1, SilentPop DEF SaysInv
  <2>5. ToldInv'
    BY <2>1, <2>3 DEF ToldInv
  <2> QED  BY <1>6, <1>9, <2>1, <2>2, <2>4, <2>5 DEF RpmbInv
<1>10. ASSUME NEW g, Call(g, "served"), Is(g, "RpmbRequest", "none") \/ Is(g, "Check", "unsupported"),
              Top.at = "begin", UNCHANGED req
       PROVE  RpmbInv'
  <2>1. PICK f \in FrameType : f.p = Top.p /\ f.at = "served" /\ Pushed(f, g) /\ NothingReturned
    BY <1>1, <1>10, CalledMove, CommandCodes DEF Fresh, Is
  <2>2. ~Open'
    BY <1>1, <1>3, <1>10, <2>1, ClosedPush DEF Is, RpmbRequests, Doom
  <2>3. PathInv'
    BY <2>2 DEF PathInv
  <2>4. Says(f, Known', req')
    BY <1>1, <2>1 DEF Says, Learnt, Unsent, RpmbRequests
  <2>5. Says(g, Known', req')
    BY <1>4, <1>10 DEF Says, Learnt, Is, Fresh
  <2> QED  BY <1>1, <1>5, <1>10, <2>1, <2>3, <2>4, <2>5, RpmbCalls
<1>11. CASE Top.at = "served" /\ Return(ret.s) /\ UNCHANGED req
  <2>1. ret.p = "RpmbRequest" \/ (ret.p = "Check" /\ ret.c = "unsupported")
    BY <1>1, <1>11 DEF Rel, Waits
  <2>2. ret.s = "OK" => Served(req)
    BY <2>1 DEF CommandInv, ReturnsInv, RpmbInv, ToldInv
  <2> QED  BY <1>7, <1>11, <2>2
<1>12. Is(Proc("RpmbRequest"), "RpmbRequest", "none") /\ Is(Chk("unsupported"), "Check", "unsupported")
  BY CallFrames
<1>13. \/ Top.at = "begin" /\ ~host.rpmb /\ Return("ERR") /\ UNCHANGED req
       \/ /\ Top.at = "begin" /\ host.rpmb /\ req.kind = "GetDevInfo" /\ Return("OK")
          /\ req' = [req EXCEPT !.answer = IF host.cid = card.id THEN req.kind ELSE "none"]
       \/ /\ Top.at = "begin" /\ UNCHANGED req
          /\ Call(Proc("RpmbRequest"), "served") \/ Call(Chk("unsupported"), "served")
       \/ Top.at = "served" /\ Return(ret.s) /\ UNCHANGED req
  BY DEF OpteeRpcCmdRpmb, RpmbRequests, RpmbIoProgramKey, RpmbIoReadCounter, RpmbIoAuthenticatedWrite,
         RpmbIoAuthenticatedRead
<1> QED  BY <1>8, <1>9, <1>10, <1>11, <1>12, <1>13

\* A request of the system starts with nothing written.
LEMMA RequestTells ==
  ASSUME RpmbInv, NEW kind, NEW n, NEW p, NEW c, NEW f, Is(f, p, c), Request(kind, n, f),
         p \in {"SoftReset", "OpteeRpcCmdRpmb", "SdhcSendDataCommand"}
  PROVE  RpmbInv'
<1>1. /\ stack' = <<f>> /\ NothingReturned /\ UNCHANGED <<card, host>>
      /\ f \in FrameType /\ f.p = p /\ f.n = 0 /\ req'.written = 0
  BY DEF Request, NothingReturned, NoRet, Is, Fresh, NewReq
<1>2. Len(stack') = 1 /\ stack'[1] = f
  BY <1>1
<1>3. Says(f, Known', req')
  BY <1>1 DEF Says, Learnt
<1>4. SaysInv'
  <2>1. \A k \in 1 .. Len(stack') : k = 1
    BY <1>2
  <2>2. \A k \in 1 .. Len(stack') : Says(stack'[k], Known', req')
    BY <1>2, <1>3, <2>1, Zenon
  <2> QED  BY <2>2, Zenon DEF SaysInv
<1>5. ret'.p = "none" /\ ret'.c = "none" /\ ret'.s = "OK"
  BY <1>1 DEF NothingReturned
<1>6. ToldInv' /\ SilentInv'
  BY <1>5 DEF ToldInv, Learns, RpmbRequests, SilentInv, Ok
<1>7. PathInv'
  BY <1>2 DEF PathInv, Open, Inside
<1>8. host'.rpmb => Known'
  BY <1>1 DEF RpmbInv, Known
<1> QED  BY <1>1, <1>4, <1>6, <1>7, <1>8 DEF RpmbInv

\* Nothing has been asked at first.
LEMMA InitTells ==
  ASSUME Init
  PROVE  RpmbInv
<1>1. stack = <<>> /\ ret = NoRet /\ host = NewHost /\ req = NewReq
  BY DEF Init
<1>2. Len(stack) = 0 /\ ~Running
  BY <1>1 DEF Running
<1>3. SaysInv
  <2>1. \A k \in 1 .. Len(stack) : FALSE
    BY <1>2
  <2> QED  BY <2>1 DEF SaysInv
<1>4. PathInv /\ SilentInv
  BY <1>2 DEF PathInv, Open, Inside, SilentInv
<1>5. ToldInv
  BY <1>1 DEF ToldInv, NoRet, Learns, RpmbRequests
<1> QED  BY <1>1, <1>3, <1>4, <1>5 DEF RpmbInv, NewHost, NewReq

\* Every step keeps what is said of the request.
LEMMA NextTells ==
  ASSUME CommandInv, RpmbInv, [Next]_vars
  PROVE  RpmbInv'
<1>1. CASE Driver
  <2>1. Sequence => RpmbInv'
    BY OtherSequenceTells, PacketsTell
  <2> QED  BY <1>1, <2>1, SendCommandTells, DataTells, WaitTells, RecoverTells, SoftResetTells, QueryTells,
           OpCondTells, CheckTells, HostExtTells, RpmbRequestTells, OpteeRpcTells DEF Driver
<1>2. CASE Insert
  BY <1>2, CallFrames, RequestTells DEF Insert
<1>3. CASE BlockIo
  <2>1. PICK c \in {"ReadSingle", "ReadMulti", "WriteSingle", "WriteMulti"} : Request(c, 1, Data(c))
    BY <1>3 DEF BlockIo
  <2>2. Is(Data(c), "SdhcSendDataCommand", c)
    BY CallFrames DEF Codes
  <2> QED  BY <2>1, <2>2, RequestTells
<1>4. CASE Rpmb
  <2>1. PICK k : \E n : Request(k, n, Proc("OpteeRpcCmdRpmb"))
    BY <1>4 DEF Rpmb
  <2> QED  BY <2>1, CallFrames, RequestTells
<1>5. CASE UNCHANGED vars
  <2>1. card' = card /\ host' = host /\ stack' = stack /\ ret' = ret /\ req' = req
    BY <1>5 DEF vars
  <2>2. (Known' <=> Known) /\ (Ok' <=> Ok) /\ (Running' <=> Running) /\ Top' = Top
    BY <2>1 DEF Known, Ok, Running, Top
  <2>3. SaysInv' /\ ToldInv' /\ SilentInv'
    <3>1. SaysInv'
      BY <2>1 DEF RpmbInv, SaysInv, Known
    <3>2. ToldInv'
      BY <2>1 DEF RpmbInv, ToldInv, Known
    <3>3. SilentInv'
      BY <2>1, <2>2 DEF RpmbInv, SilentInv
    <3> QED  BY <3>1, <3>2, <3>3
  <2>4. (Open' <=> Open) /\ (Progress' <=> Progress)
    BY <2>1 DEF Open, Inside, Doomed, Progress, Complete, Moving
  <2>5. PathInv'
    BY <2>2, <2>4 DEF RpmbInv, PathInv
  <2> QED  BY <2>1, <2>2, <2>3, <2>5 DEF RpmbInv
<1> QED  BY <1>1, <1>2, <1>3, <1>4, <1>5 DEF Next

\* The inductive invariant of the RPMB requests.
LEMMA RpmbInvariant == Spec => []RpmbInv
<1>1. Init => RpmbInv
  BY InitTells
<1>2. CommandInv /\ RpmbInv /\ [Next]_vars => RpmbInv'
  BY NextTells
<1> QED  BY <1>1, <1>2, CommandInvariant, PTL DEF Spec

\* A write to the RPMB partition is carried out at most once, and a request of OP-TEE that
\* reports success has been carried out exactly once and answered with its own answer,
\* whatever failed and was recovered on the way (OpteeRpcCmdRpmb, RpmbRequest, RpmbIo.c).
THEOREM RpmbServedHolds == Spec => []RpmbServed
<1>1. RpmbInv => RpmbServed
  BY DEF RpmbInv, ToldInv, RpmbServed, Returned, Served
<1> QED  BY <1>1, RpmbInvariant, PTL

===============================================================================
