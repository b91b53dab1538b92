------------------------------ MODULE Tpm2Device ------------------------------
(*****************************************************************************)
(* The TPM device library over OP-TEE (Tpm2DeviceLibOptee.c): every command  *)
(* goes in shared memory to the firmware TPM's session, and the TPM is given *)
(* up by an ExitBootServices event.  Events are dispatched by task priority  *)
(* level: the measurement of ExitBootServices by SecurityPkg (external, at   *)
(* TPL_NOTIFY) still has to find the TPM.                                    *)
(*                                                                           *)
(* The assertions of the source are those of a release build: they do        *)
(* nothing.                                                                  *)
(*****************************************************************************)
EXTENDS Integers, FiniteSets

CONSTANTS
  TpmSessions     \* sessions the TEE can hand out

CALLBACK == 8
NOTIFY   == 16
NoneOpen == 0

ASSUME TpmAssumption == IsFiniteSet(TpmSessions) /\ NoneOpen \notin TpmSessions

VARIABLES
  tpmApi,         \* the OP-TEE client library holds its shared memory
  tpmInitialized, \* Initialized
  tpmSession,     \* FtpmSession
  tpmRefused,     \* OP-TEE refused the last request for a session that reached it
  tpmOpen,        \* the sessions of the TPM open in the TEE
  tpmMem,         \* shared memory of a command is allocated
  tpmPc,          \* "loading", "idle", "allocated", "invoked" or "failed"
  tpmCaller,      \* who submits the command: "driver" or "exit"
  tpmEvents,      \* events signalled and not yet dispatched
  tpmTpl,         \* the priority the relinquishing event was created with
  tpmWorld,       \* "boot", "exiting" or "os"
  tpmUsable,      \* Initialized when ExitBootServices began
  tpmRet          \* the last command's status, per caller

tpmVars == <<tpmApi, tpmInitialized, tpmSession, tpmRefused, tpmOpen, tpmMem, tpmPc, tpmCaller, tpmEvents,
             tpmTpl, tpmWorld, tpmUsable, tpmRet>>

TpmInit ==
  /\ tpmApi = FALSE /\ tpmInitialized = FALSE /\ tpmSession = NoneOpen /\ tpmOpen = {}
  /\ tpmRefused = FALSE
  /\ tpmMem = FALSE /\ tpmPc = "loading" /\ tpmCaller = "driver" /\ tpmEvents = {}
  /\ tpmTpl = 0 /\ tpmWorld = "boot" /\ tpmUsable = FALSE
  /\ tpmRet = [driver |-> "none", exit |-> "none"]

\* Faulty variant: the event runs at the level of SecurityPkg's.
RelinquishTplNotify == NOTIFY
RelinquishTpl == CALLBACK

\* Tpm2DeviceLibOpTEEEntry: a client library that does not initialize is only
\* reported; the event is registered in any case.
Tpm2DeviceLibOpTEEEntry ==
  /\ tpmPc = "loading"
  /\ tpmApi' \in BOOLEAN /\ tpmTpl' = RelinquishTpl /\ tpmPc' = "idle"
  /\ UNCHANGED <<tpmInitialized, tpmSession, tpmRefused, tpmOpen, tpmMem, tpmCaller, tpmEvents, tpmWorld, tpmUsable, tpmRet>>

\* Tpm2RequestUseTpm: a session is opened, whether or not there is one already.
\* A request OP-TEE refuses leaves identifier 0 in FtpmSession (OpteeClientSMC.c:137)
\* and Initialized as it was; one that does not reach OP-TEE changes nothing.
Tpm2RequestUseTpm ==
  /\ tpmPc = "idle" /\ tpmWorld = "boot"
  /\ \/ UNCHANGED <<tpmInitialized, tpmSession, tpmRefused, tpmOpen>>
     \/ /\ tpmApi /\ tpmSession' = NoneOpen /\ tpmRefused' = TRUE
        /\ UNCHANGED <<tpmInitialized, tpmOpen>>
     \/ \E s \in TpmSessions \ tpmOpen :
          /\ tpmApi /\ tpmSession' = s /\ tpmRefused' = FALSE
          /\ tpmOpen' = tpmOpen \cup {s} /\ tpmInitialized' = TRUE
  /\ UNCHANGED <<tpmApi, tpmMem, tpmPc, tpmCaller, tpmEvents, tpmTpl, tpmWorld, tpmUsable, tpmRet>>

Refused(who, status) ==
  /\ tpmRet' = [tpmRet EXCEPT ![who] = status]
  /\ UNCHANGED <<tpmMem, tpmPc, tpmCaller>>

\* Tpm2SubmitCommand: refused when no session is open or no memory is left ...
SubmitAllocates(who) ==
  /\ tpmPc = "idle"
  /\ \/ ~tpmInitialized /\ Refused(who, "NOT_READY")
     \/ tpmInitialized /\ \E status \in {"OUT_OF_RESOURCES", "DEVICE_ERROR"} : Refused(who, status)
     \/ tpmInitialized /\ tpmApi /\ tpmMem' = TRUE /\ tpmPc' = "allocated" /\ tpmCaller' = who /\ UNCHANGED tpmRet
  /\ UNCHANGED <<tpmApi, tpmInitialized, tpmSession, tpmRefused, tpmOpen, tpmTpl, tpmWorld, tpmUsable>>

\* ... then the trusted application is called, which may fail ...
SubmitInvokes ==
  /\ tpmPc = "allocated"
  /\ \/ tpmSession \in tpmOpen /\ tpmPc' = "invoked"
     \/ tpmPc' = "failed"
  /\ UNCHANGED <<tpmApi, tpmInitialized, tpmSession, tpmRefused, tpmOpen, tpmMem, tpmCaller, tpmEvents,
                 tpmTpl, tpmWorld, tpmUsable, tpmRet>>

\* ... and the shared memory is released on every way out.
Tpm2SubmitCommandEnd ==
  /\ tpmPc \in {"invoked", "failed"}
  /\ tpmRet' = [tpmRet EXCEPT ![tpmCaller] = IF tpmPc = "invoked" THEN "SUCCESS" ELSE "DEVICE_ERROR"]
  /\ tpmMem' = FALSE /\ tpmPc' = "idle"
  /\ UNCHANGED <<tpmApi, tpmInitialized, tpmSession, tpmRefused, tpmOpen, tpmCaller, tpmEvents, tpmTpl, tpmWorld, tpmUsable>>

\* A driver submits a command.
Tpm2SubmitCommand == tpmWorld = "boot" /\ SubmitAllocates("driver") /\ UNCHANGED tpmEvents

\* External: the OS loader calls ExitBootServices, between commands, which
\* signals the event group: SecurityPkg's measurement and this library's event.
ExitBootServicesSignalled ==
  /\ tpmWorld = "boot" /\ tpmPc = "idle"
  /\ tpmWorld' = "exiting" /\ tpmUsable' = tpmInitialized
  /\ tpmEvents' = {[tpl |-> NOTIFY, who |-> "measure"], [tpl |-> tpmTpl, who |-> "relinquish"]}
  /\ UNCHANGED <<tpmApi, tpmInitialized, tpmSession, tpmRefused, tpmOpen, tpmMem, tpmPc, tpmCaller, tpmTpl, tpmRet>>

\* External: the dispatcher takes an event of the highest level.
Dispatched(e) == e \in tpmEvents /\ \A f \in tpmEvents : f.tpl <= e.tpl

MeasureExit ==
  \E e \in tpmEvents :
    /\ tpmPc = "idle" /\ Dispatched(e) /\ e.who = "measure"
    /\ tpmEvents' = tpmEvents \ {e}
    /\ SubmitAllocates("exit")

\* Tpm2RelinquishUseTpm: the last session is closed, the client library finalized.
Tpm2RelinquishUseTpm ==
  \E e \in tpmEvents :
    /\ tpmPc = "idle" /\ Dispatched(e) /\ e.who = "relinquish"
    /\ tpmEvents' = tpmEvents \ {e}
    /\ tpmInitialized' = FALSE
    /\ tpmOpen' = IF tpmInitialized THEN tpmOpen \ {tpmSession} ELSE tpmOpen
    /\ tpmApi' = FALSE
    /\ UNCHANGED <<tpmSession, tpmRefused, tpmMem, tpmPc, tpmCaller, tpmTpl, tpmWorld, tpmUsable, tpmRet>>

\* External: the event group is done and the OS runs.
OsStarts ==
  /\ tpmWorld = "exiting" /\ tpmEvents = {} /\ tpmPc = "idle" /\ tpmWorld' = "os"
  /\ UNCHANGED <<tpmApi, tpmInitialized, tpmSession, tpmRefused, tpmOpen, tpmMem, tpmPc, tpmCaller, tpmEvents,
                 tpmTpl, tpmUsable, tpmRet>>

TpmNext ==
  \/ Tpm2DeviceLibOpTEEEntry \/ Tpm2RequestUseTpm \/ Tpm2SubmitCommand
  \/ SubmitInvokes \/ Tpm2SubmitCommandEnd
  \/ ExitBootServicesSignalled \/ MeasureExit \/ Tpm2RelinquishUseTpm \/ OsStarts

TpmSpec == TpmInit /\ [][TpmNext]_tpmVars

-------------------------------------------------------------------------------
\* "To avoid race condition with SecurityPkg ExitBootServices measurements": where
\* Initialized held when ExitBootServices began, the last measurement still finds the
\* library in use, with the shared memory to reach the TPM.  Its session is open, as
\* for every command, unless OP-TEE refused the request for a session it answered
\* last: then Initialized still holds, and the commands and the measurement go to
\* session 0 and miss the TPM.
TpmMeasuredAtExit ==
  /\ tpmUsable => tpmRet.exit # "NOT_READY"
  /\ tpmPc = "allocated" => tpmApi /\ (tpmSession \in tpmOpen <=> ~tpmRefused)
===============================================================================
