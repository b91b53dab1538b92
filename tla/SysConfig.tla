------------------------------- MODULE SysConfig ------------------------------
(*****************************************************************************)
(* The system configuration registers of the Versatile Express motherboard   *)
(* (ArmVExpressSysConfig.c, and the copy of it for runtime drivers): a       *)
(* request is written to SYS_CFGCTRL, the motherboard's micro-controller     *)
(* (MCC, external) carries it out and sets COMPLETE in SYS_CFGSTAT.          *)
(*                                                                           *)
(* A request is what the fields of SYS_CFGCTRL say; the masks of the fields  *)
(* leave every function, site and device used here as it is.                 *)
(*****************************************************************************)
EXTENDS Integers

CONSTANTS
  SccRegisters, \* the board has an ARM_VE_SCC_BASE
  CfgFunctions, \* the SYS_CONFIG_FUNCTIONs asked for
  CfgValues     \* the values written and read back

AllFunctions ==
  {"OSC", "OSC_SITE1", "OSC_SITE2", "MUXFPGA", "VOLT", "AMP", "TEMP", "RESET", "SCC",
   "SHUTDOWN", "REBOOT", "DVIMODE", "POWER", "RTC", "OTHER"}

ASSUME CfgAssumption ==
  SccRegisters \in BOOLEAN /\ CfgFunctions \subseteq AllFunctions

VARIABLES
  scReg,      \* the registers: complete, error, data and the control word
  scMcc,      \* the request the MCC works on, or NoRequest
  scDone,     \* what the MCC last did: the request, the value, an error
  scPc,       \* "idle", "start", "poll"
  scCall,     \* the request of the call under way
  scRet,      \* what the last call returned: status, request, value
  scLibrary,  \* "boot" or "runtime": which of the two libraries the caller links
  scRuntime   \* EfiAtRuntime ()

scVars == <<scReg, scMcc, scDone, scPc, scCall, scRet, scLibrary, scRuntime>>

NoRequest == [rw |-> "none"]
CfgZero   == "zero"
Request(rw, f, site, device, v) == [rw |-> rw, function |-> f, site |-> site, device |-> device, value |-> v]

ScInit ==
  /\ scReg = [complete |-> FALSE, error |-> FALSE, data |-> CfgZero]
  /\ scMcc = NoRequest /\ scDone = [request |-> NoRequest, value |-> CfgZero, error |-> FALSE]
  /\ scPc = "idle" /\ scCall = NoRequest
  /\ scRet = [status |-> "SUCCESS", request |-> NoRequest, value |-> CfgZero]
  /\ scLibrary \in {"boot", "runtime"} /\ scRuntime = FALSE

\* The oscillators of the daughterboards are OSC at their site.
Intercepted(f) == IF f \in {"OSC_SITE1", "OSC_SITE2"} THEN "OSC" ELSE f
SiteOf(f, v) == CASE f = "OSC_SITE1" -> "DAUGHTERBOARD_1"
                  [] f = "OSC_SITE2" -> "DAUGHTERBOARD_2"
                  [] f = "MUXFPGA"   -> v
                  [] OTHER           -> "MOTHERBOARD"

\* The functions each entry point knows.
Readable == {"OSC_SITE1", "OSC_SITE2", "MUXFPGA", "OSC", "VOLT", "AMP", "TEMP", "RESET", "SCC", "DVIMODE", "POWER"}
Writable == {"OSC_SITE1", "OSC_SITE2", "MUXFPGA", "RESET", "SCC", "SHUTDOWN", "REBOOT", "DVIMODE", "POWER"}
DeviceWritable ==
  {"OSC_SITE1", "OSC_SITE2", "MUXFPGA", "OSC", "VOLT", "AMP", "TEMP", "RESET", "SHUTDOWN", "REBOOT", "DVIMODE", "POWER"}

Unsupported ==
  /\ scRet' = [status |-> "UNSUPPORTED", request |-> NoRequest, value |-> CfgZero]
  /\ UNCHANGED <<scReg, scMcc, scDone, scPc, scCall, scLibrary, scRuntime>>

\* The runtime library does not touch the registers once the OS runs.
RuntimeRefuses == scLibrary = "runtime" /\ scRuntime

\* Faulty variant: COMPLETE of the request before is left standing.
AccessUncleared(request) ==
  /\ scReg' = [scReg EXCEPT !.data = IF request.rw = "WRITE" THEN request.value ELSE @]
  /\ scCall' = request /\ scPc' = "start"
  /\ UNCHANGED <<scMcc, scDone, scRet, scLibrary, scRuntime>>

\* AccessSysCfgRegister: COMPLETE is cleared, the data of a write put in place.
AccessSysCfgRegister(request) ==
  /\ scReg' = [scReg EXCEPT !.complete = FALSE,
                            !.data = IF request.rw = "WRITE" THEN request.value ELSE @]
  /\ scCall' = request /\ scPc' = "start"
  /\ UNCHANGED <<scMcc, scDone, scRet, scLibrary, scRuntime>>

Access(request) == IF RuntimeRefuses THEN Unsupported ELSE AccessSysCfgRegister(request)

\* Writing SYS_CFGCTRL with START set hands the request to the MCC.
StartRequest ==
  /\ scPc = "start"
  /\ scMcc' = scCall /\ scPc' = "poll"
  /\ UNCHANGED <<scReg, scDone, scCall, scRet, scLibrary, scRuntime>>

\* The loop on COMPLETE ends, however long it takes; then errors, then the data.
RequestEnds ==
  /\ scPc = "poll" /\ scReg.complete
  /\ scRet' = [status |-> IF scReg.error THEN "DEVICE_ERROR" ELSE "SUCCESS", request |-> scCall,
               value |-> IF scCall.rw = "READ" /\ ~scReg.error THEN scReg.data ELSE scCall.value]
  /\ scPc' = "idle" /\ scCall' = NoRequest
  /\ UNCHANGED <<scReg, scMcc, scDone, scLibrary, scRuntime>>

\* ArmPlatformSysConfigGet: for MUXFPGA the value passed in names the site.
ArmPlatformSysConfigGet(f, v) ==
  /\ scPc = "idle"
  /\ IF f \in Readable THEN Access(Request("READ", Intercepted(f), SiteOf(f, v), 0, v))
                       ELSE Unsupported

ArmPlatformSysConfigGetValues == scPc = "idle" /\ Unsupported

ArmPlatformSysConfigSet(f, v) ==
  /\ scPc = "idle"
  /\ IF f \in Writable THEN Access(Request("WRITE", Intercepted(f), SiteOf(f, v), 0, v))
                       ELSE Unsupported

\* A write to the SCC registers, where the board has them, needs no MCC.
SccWrite(v) ==
  IF SccRegisters /\ ~RuntimeRefuses
  THEN /\ scRet' = [status |-> "SUCCESS", request |-> NoRequest, value |-> v]
       /\ UNCHANGED <<scReg, scMcc, scDone, scPc, scCall, scLibrary, scRuntime>>
  ELSE Unsupported

ArmPlatformSysConfigSetDevice(f, device, v) ==
  /\ scPc = "idle"
  /\ \/ f = "SCC" /\ SccWrite(v)
     \/ f \in DeviceWritable /\ Access(Request("WRITE", Intercepted(f), SiteOf(f, v), device, v))
     \/ f \notin DeviceWritable \cup {"SCC"} /\ Unsupported

\* External: the MCC carries out the request it was handed, or reports an error.
MccCompletes(v, error) ==
  /\ scMcc # NoRequest
  /\ scDone' = [request |-> scMcc, error |-> error,
                value   |-> IF scMcc.rw = "READ" THEN v ELSE scReg.data]
  /\ scReg' = [complete |-> TRUE, error |-> error,
               data |-> IF scMcc.rw = "READ" /\ ~error THEN v ELSE scReg.data]
  /\ scMcc' = NoRequest
  /\ UNCHANGED <<scPc, scCall, scRet, scLibrary, scRuntime>>

\* External: ExitBootServices has been called.
OsRuns ==
  /\ scPc = "idle" /\ ~scRuntime /\ scRuntime' = TRUE
  /\ UNCHANGED <<scReg, scMcc, scDone, scPc, scCall, scRet, scLibrary>>

ScNext ==
  \/ \E f \in CfgFunctions, v \in CfgValues :
       \/ ArmPlatformSysConfigGet(f, v) \/ ArmPlatformSysConfigSet(f, v)
       \/ \E device \in {0, 1} : ArmPlatformSysConfigSetDevice(f, device, v)
  \/ ArmPlatformSysConfigGetValues \/ StartRequest \/ RequestEnds \/ OsRuns
  \/ \E v \in CfgValues, error \in BOOLEAN : MccCompletes(v, error)

ScSpec == ScInit /\ [][ScNext]_scVars

-------------------------------------------------------------------------------
\* AccessSysCfgRegister, "Wait until the COMPLETE bit is set": a call that
\* returns has been carried out by the MCC, for that very request and not for
\* the one before; its status is the MCC's, a read returns what the MCC read and
\* a write has put the caller's value where it was to go.
ScCarriedOut ==
  scPc = "idle" /\ scRet.request # NoRequest =>
    /\ scDone.request = scRet.request
    /\ scRet.status = (IF scDone.error THEN "DEVICE_ERROR" ELSE "SUCCESS")
    /\ ~scDone.error => scRet.value = scDone.value
===============================================================================
