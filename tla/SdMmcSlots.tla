------------------------------ MODULE SdMmcSlots ------------------------------
(*****************************************************************************)
(* The life of an SD/MMC slot (SdMmc.c): a host controller is started and    *)
(* stopped by the UEFI driver model, its card is inserted and ejected at any *)
(* time, and SoftReset brings the protocols on its handle in line with that. *)
(*                                                                           *)
(* SoftReset is called at TPL_APPLICATION (from SdMmcDriverStart, from       *)
(* BlockIoReset and from error recovery) and from a periodic timer at        *)
(* TPL_CALLBACK, which preempts the former between any two of its steps.     *)
(* The calls in progress form a stack of which only the top runs.            *)
(*****************************************************************************)
EXTENDS Integers, Sequences, FiniteSets

CONSTANTS
  Hosts,         \* the SD host controllers of the platform
  Cards,         \* kinds of card a slot can hold: a subset of {"sd", "mmc"}
  Faults,        \* what may fail: a subset of AllFaults
  MaxAttempts    \* SDMMC_ERROR_RECOVERY_ATTEMPT_THRESHOLD

\* "create": CreateSdhcInstance is out of memory; "uninstall", "install": a boot
\* service refuses; "init": a command of InitializeDevice fails; "recover": a
\* command and the line resets after it fail; "text": no memory for the path text.
AllFaults == {"create", "uninstall", "install", "init", "recover", "text"}

ASSUME SlotsAssumption ==
  /\ IsFiniteSet(Hosts)
  /\ Cards \subseteq {"sd", "mmc"}
  /\ Faults \subseteq AllFaults
  /\ MaxAttempts \in Nat

Protos == {"BlockIo", "DevicePath", "RpmbIo"}

VARIABLES
  card,     \* per host: the card in its slot, or "none"
  opened,   \* hosts on which this driver holds the SDHC protocol open BY_DRIVER
  pool,     \* gSdhcInstancePool
  inst,     \* per host: what its SDHC_INSTANCE says
  db,       \* per host: the protocols on its handle in the UEFI database
  stack     \* the calls in progress, the running one last

vars == <<card, opened, pool, inst, db, stack>>

\* MediaPresent, SlotInitialized, CardFunction and the ...ProtocolInstalled flags.
NewInstance == [media |-> FALSE, init |-> FALSE, fn |-> "unknown", flags |-> {}]

Frame(op, h, at) ==
  [op |-> op, host |-> h, at |-> at, proto |-> "BlockIo", absent |-> FALSE,
   err |-> FALSE, recover |-> FALSE, tick |-> FALSE, link |-> 1, seen |-> FALSE]

CheckFrame(h, tick) == [Frame("check", h, "peek") EXCEPT !.tick = tick]
ResetFrame(h)       == Frame("reset", h, "uninstall")
RecoverFrame(h)     == [ResetFrame(h) EXCEPT !.recover = TRUE]

Top     == stack[Len(stack)]
At(l)   == stack # <<>> /\ Top.at = l
H       == Top.host
I       == inst[H]
Goto(f) == stack' = [stack EXCEPT ![Len(stack)] = f]
Return  == stack' = SubSeq(stack, 1, Len(stack) - 1)
Push(f) == stack' = Append(stack, f)
SetI(i) == inst' = [inst EXCEPT ![H] = i]

Init ==
  /\ card \in [Hosts -> Cards \cup {"none"}]
  /\ opened = {} /\ pool = <<>> /\ stack = <<>>
  /\ inst = [h \in Hosts |-> NewInstance]
  /\ db = [h \in Hosts |-> {}]

-----------------------------------------------------------------------------
\* The boot services that change the handle database.

UninstallProtocol ==
  /\ Top.proto \in db[H]
  /\ db' = [db EXCEPT ![H] = @ \ {Top.proto}]
UninstallFails == Top.proto \notin db[H] \/ "uninstall" \in Faults

InstallProtocol ==
  /\ Top.proto \notin db[H]
  /\ db' = [db EXCEPT ![H] = @ \cup {Top.proto}]
InstallFails == Top.proto \in db[H] \/ "install" \in Faults

\* A protocol's place in the sequence that uninstalls all, and in the exit path.
UninstallNext == [BlockIo |-> "RpmbIo", RpmbIo |-> "DevicePath", DevicePath |-> "end"]

-----------------------------------------------------------------------------
\* SoftReset.  The exit path runs only on an error.

Fail(f) == [f EXCEPT !.at = "exit", !.proto = "RpmbIo", !.err = TRUE]

\* UninstallAllProtocols, one protocol at a time.
AfterUninstall ==
  IF UninstallNext[Top.proto] # "end"
  THEN Goto([Top EXCEPT !.at = "uninstall", !.proto = UninstallNext[@]])
  ELSE Goto([Top EXCEPT !.at = IF Top.op = "reset" THEN "clear" ELSE "free"])

UninstallSkip ==
  /\ At("uninstall") /\ Top.proto \notin I.flags
  /\ AfterUninstall
  /\ UNCHANGED <<card, opened, pool, inst, db>>

UninstallCall ==
  /\ At("uninstall") /\ Top.proto \in I.flags
  /\ \/ UninstallProtocol /\ Goto([Top EXCEPT !.at = "uninstalled"])
     \/ /\ UninstallFails
        /\ IF Top.op = "reset" THEN Goto(Fail(Top)) ELSE Return
        /\ UNCHANGED db
  /\ UNCHANGED <<card, opened, pool, inst>>

\* Faulty variant: the flag is left set.
UninstallFlagKept ==
  /\ At("uninstalled")
  /\ AfterUninstall
  /\ UNCHANGED <<card, opened, pool, inst, db>>

UninstallFlag ==
  /\ At("uninstalled")
  /\ SetI([I EXCEPT !.flags = @ \ {Top.proto}])
  /\ AfterUninstall
  /\ UNCHANGED <<card, opened, pool, db>>

ClearMedia ==
  /\ At("clear")
  /\ SetI([I EXCEPT !.init = FALSE, !.media = FALSE])
  /\ Goto([Top EXCEPT !.at = "present"])
  /\ UNCHANGED <<card, opened, pool, db>>

ReadPresence ==
  /\ At("present")
  /\ LET present == card[H] # "none"
     IN /\ SetI([I EXCEPT !.media = present])
        /\ Goto([Top EXCEPT !.at = IF present THEN "init" ELSE "install",
                            !.proto = "BlockIo", !.absent = ~present])
  /\ UNCHANGED <<card, opened, pool, db>>

\* InitializeDevice clears CardInfo, identifies the card and sets it up.
InitializeBegin ==
  /\ At("init")
  /\ SetI([I EXCEPT !.fn = "unknown"])
  /\ Goto([Top EXCEPT !.at = "identify"])
  /\ UNCHANGED <<card, opened, pool, db>>

InitializeEnd ==
  /\ At("identify")
  /\ \/ /\ card[H] # "none"
        /\ SetI([I EXCEPT !.fn = card[H], !.init = TRUE])
        /\ \/ Goto([Top EXCEPT !.at = "install"])
           \/ "text" \in Faults /\ Goto(Fail(Top))
     \/ /\ card[H] = "none" \/ "init" \in Faults
        /\ Goto(Fail(Top))
        /\ UNCHANGED inst
  /\ UNCHANGED <<card, opened, pool, db>>

\* SdhcRecoverFromErrors: attempts are counted per instance, nested ones only.
Attempts(h) ==
  Cardinality({k \in 1 .. Len(stack) : stack[k].host = h /\ stack[k].recover})

SdhcRecoverFromErrors ==
  /\ "recover" \in Faults
  /\ At("identify")
  /\ Attempts(H) < MaxAttempts
  /\ Push(RecoverFrame(H))
  /\ UNCHANGED <<card, opened, pool, inst, db>>

InstallCall ==
  /\ At("install")
  /\ \/ InstallProtocol /\ Goto([Top EXCEPT !.at = "installed"])
     \/ InstallFails /\ Goto(Fail(Top)) /\ UNCHANGED db
  /\ UNCHANGED <<card, opened, pool, inst>>

InstallFlag ==
  /\ At("installed")
  /\ SetI([I EXCEPT !.flags = @ \cup {Top.proto}])
  /\ IF Top.absent \/ Top.proto = "RpmbIo" THEN Return
     ELSE IF Top.proto = "BlockIo"
          THEN Goto([Top EXCEPT !.at = "install", !.proto = "DevicePath"])
          ELSE Goto([Top EXCEPT !.at = "rpmb"])
  /\ UNCHANGED <<card, opened, pool, db>>

IsRpmbInstalledOnTheSystem == \E h \in Hosts : "RpmbIo" \in db[h]

CheckRpmb ==
  /\ At("rpmb")
  /\ IF I.fn = "mmc" /\ ~IsRpmbInstalledOnTheSystem
     THEN Goto([Top EXCEPT !.at = "install", !.proto = "RpmbIo"])
     ELSE Return
  /\ UNCHANGED <<card, opened, pool, inst, db>>

\* The exit path uninstalls RpmbIo and DevicePath; Status is overwritten.
ExitNext(f) == IF f.proto = "RpmbIo" THEN Goto([f EXCEPT !.at = "exit", !.proto = "DevicePath"])
                                     ELSE Return

ExitCall ==
  /\ At("exit")
  /\ IF Top.proto \notin I.flags
     THEN ExitNext(Top) /\ UNCHANGED db
     ELSE \/ UninstallProtocol /\ Goto([Top EXCEPT !.at = "exited", !.err = FALSE])
          \/ UninstallFails /\ ExitNext([Top EXCEPT !.err = TRUE]) /\ UNCHANGED db
  /\ UNCHANGED <<card, opened, pool, inst>>

ExitFlag ==
  /\ At("exited")
  /\ SetI([I EXCEPT !.flags = @ \ {Top.proto}])
  /\ ExitNext(Top)
  /\ UNCHANGED <<card, opened, pool, db>>

SoftReset ==
  \/ UninstallSkip \/ UninstallCall \/ UninstallFlag \/ ClearMedia \/ ReadPresence
  \/ InitializeBegin \/ InitializeEnd \/ SdhcRecoverFromErrors
  \/ InstallCall \/ InstallFlag \/ CheckRpmb \/ ExitCall \/ ExitFlag

-----------------------------------------------------------------------------
\* CheckCardsCallback walks the pool: read the presence, then compare it.

CheckPeek ==
  /\ At("peek")
  /\ IF Top.link > Len(pool) THEN Return
     ELSE LET h == pool[Top.link]
          IN Goto([Top EXCEPT !.at = "decide", !.host = h, !.seen = card[h] # "none"])
  /\ UNCHANGED <<card, opened, pool, inst, db>>

\* Faulty variant: only an insertion is acted on.
CheckDecideInsertedOnly ==
  /\ At("decide")
  /\ LET onward == [Top EXCEPT !.at = "peek", !.link = @ + 1, !.seen = FALSE]
         walk   == [stack EXCEPT ![Len(stack)] = onward]
     IN stack' = IF ~I.media /\ Top.seen THEN Append(walk, ResetFrame(H)) ELSE walk
  /\ UNCHANGED <<card, opened, pool, inst, db>>

CheckDecide ==
  /\ At("decide")
  /\ LET onward == [Top EXCEPT !.at = "peek", !.link = @ + 1, !.seen = FALSE]
         walk   == [stack EXCEPT ![Len(stack)] = onward]
     IN stack' = IF I.media # Top.seen THEN Append(walk, ResetFrame(H)) ELSE walk
  /\ UNCHANGED <<card, opened, pool, inst, db>>

CheckCardsCallback == CheckPeek \/ CheckDecide

\* The timer fires between any two steps of code at TPL_APPLICATION.
TimerTick ==
  /\ pool # <<>>
  /\ \A k \in 1 .. Len(stack) : ~stack[k].tick
  /\ Push(CheckFrame(pool[1], TRUE))
  /\ UNCHANGED <<card, opened, pool, inst, db>>

-----------------------------------------------------------------------------
\* The driver binding and the BlockIo protocol, called at TPL_APPLICATION.

\* A controller that is already open is reported as started.
SdMmcDriverStart(h) ==
  /\ stack = <<>> /\ h \notin opened
  /\ opened' = opened \cup {h}
  /\ \/ /\ pool' = Append(pool, h)
        /\ inst' = [inst EXCEPT ![h] = NewInstance]
        /\ Push(CheckFrame(h, FALSE))
     \/ "create" \in Faults /\ UNCHANGED <<pool, inst, stack>>
  /\ UNCHANGED <<card, db>>

\* CloseProtocol is handed the address of HostExt where the agent handle belongs
\* and refuses it, so that the loop ends after the first instance of the pool,
\* whichever controller was to be stopped, and the controller stays open.
SdMmcDriverStop(h) ==
  /\ stack = <<>> /\ h \in opened /\ pool # <<>>
  /\ pool' = Tail(pool)
  /\ Push(Frame("destroy", Head(pool), "uninstall"))
  /\ UNCHANGED <<card, opened, inst, db>>

\* The end of DestroySdhcInstance.
DestroyFree ==
  /\ At("free")
  /\ SetI(NewInstance)
  /\ Return
  /\ UNCHANGED <<card, opened, pool, db>>

BlockIoReset(h) ==
  /\ stack = <<>> /\ "BlockIo" \in db[h]
  /\ Push(ResetFrame(h))
  /\ UNCHANGED <<card, opened, pool, inst, db>>

\* A transfer fails and so do the line resets of SdhcRecoverFromErrors.
TransferFails(h) ==
  /\ "recover" \in Faults /\ MaxAttempts > 0
  /\ stack = <<>> /\ "BlockIo" \in db[h] /\ inst[h].media
  /\ Push(RecoverFrame(h))
  /\ UNCHANGED <<card, opened, pool, inst, db>>

-----------------------------------------------------------------------------
\* The world.

CardInsert(h, c) ==
  /\ card[h] = "none"
  /\ card' = [card EXCEPT ![h] = c]
  /\ UNCHANGED <<opened, pool, inst, db, stack>>

CardEject(h) ==
  /\ card[h] # "none"
  /\ card' = [card EXCEPT ![h] = "none"]
  /\ UNCHANGED <<opened, pool, inst, db, stack>>

Driver == SoftReset \/ CheckCardsCallback \/ DestroyFree

Next ==
  \/ Driver \/ TimerTick
  \/ \E h \in Hosts :
       \/ SdMmcDriverStart(h) \/ SdMmcDriverStop(h)
       \/ BlockIoReset(h) \/ TransferFails(h)
       \/ CardEject(h) \/ \E c \in Cards : CardInsert(h, c)

Spec == Init /\ [][Next]_vars

\* A check and the reset it makes, twice if the timer interrupts, and the nested
\* resets of error recovery.
MaxDepth == 4 + MaxAttempts * Cardinality(Hosts)

\* The timer is periodic, and its period (1 s) is far longer than its handler runs:
\* it interrupts a call of any depth of nesting, but never stops it for good.
SlotsFairness ==
  /\ WF_vars(TimerTick)
  /\ \A d \in 1 .. MaxDepth : SF_vars(Driver /\ Len(stack) = d)

-----------------------------------------------------------------------------
\* The protocols between whose (un)installation and flag the driver is.
InFlight(h) == {stack[k].proto : k \in {j \in 1 .. Len(stack) :
                 stack[j].host = h /\ stack[j].at \in {"uninstalled", "installed", "exited"}}}

\* The ...ProtocolInstalled flags say what is on the handle, but for a protocol a
\* call in progress has just installed or uninstalled: no nesting of resets makes
\* SoftReset forget an interface or remember one that is gone.
FlagsTrackDatabase ==
  \A h \in Hosts : \A p \in Protos \ InFlight(h) : p \in inst[h].flags <=> p \in db[h]

Empty(h) == card[h] = "none" /\ \E k \in 1 .. Len(pool) : pool[k] = h

UninstallRefused == UninstallCall /\ db' = db

\* Once protocols can be uninstalled again, the driver stops claiming a media in a
\* slot of the pool that stays empty, whatever else fails and however resets nest.
AbsenceNoticed ==
  <>[][~UninstallRefused]_vars => \A h \in Hosts : <>[]Empty(h) => <>[]~inst[h].media

-----------------------------------------------------------------------------
\* Only one MMC of the system has the RpmbIo protocol (SdMmc.c:636-639).
OneRpmb == \A g, h \in Hosts : "RpmbIo" \in db[g] \cap db[h] => g = h
=============================================================================
