------------------------------- MODULE AuthVars -------------------------------
(*****************************************************************************)
(* The authenticated variable driver (AuthVarsDxe.c, Measurement.c): it      *)
(* keeps one session with the variable TA and one pair of transport buffers  *)
(* for all services, measures changes of the Secure Boot policy, and gives   *)
(* session and buffers back when boot services end.                          *)
(*                                                                           *)
(* A service is three steps: check and fill the parameter buffer, invoke the *)
(* TA, take the result out of the result buffer.  The buffers are global and *)
(* no lock is held, so a callback that calls a service may run in between.   *)
(* The TA, the DXE core and the TPM are external.                            *)
(*****************************************************************************)
EXTENDS Integers, Sequences, FiniteSetsExt

CONSTANTS
  Payloads,       \* what callers pass to SetVariable: sequences of bytes
  Sizes,          \* the buffer sizes callers offer
  MaxData,        \* PcdMaxVariableSize, scaled down
  PcdSecureBootEnable,
  MaxCalls,       \* bound on calls of services from outside
  MaxUpsets       \* bound on callbacks that run in the middle of a service and
                  \* failures of the TEE and of the core, together

ASSUME AuthVarsAssumption ==
  /\ IsFiniteSet(Payloads) /\ \A d \in Payloads : d \in Seq({0, 1})
  /\ Sizes \subseteq Nat /\ MaxData \in Nat \ {0} /\ PcdSecureBootEnable \in BOOLEAN
  /\ MaxCalls \in Nat /\ MaxUpsets \in Nat

VARIABLES
  phase,    \* of the platform, as far as this driver is concerned
  drv,      \* the driver's globals and what it has installed
  pbuf,     \* *mVariableParamMem.buffer
  rbuf,     \* *mVariableResultMem.buffer
  store,    \* the variables the TA keeps; <<>> is an absent one
  served,   \* the sessions OP-TEE has open with the TA
  told,     \* whether the TA knows that boot services have ended
  stack,    \* frames of the calls in progress, innermost last
  ret,      \* what the last step returned, if it returned
  pcr,      \* the last measurement of each policy variable
  changed,  \* policy variables set since the driver can measure
  calls, callbacks, faults

vars == <<phase, drv, pbuf, rbuf, store, served, told, stack, ret, pcr, changed, calls, callbacks, faults>>
world == <<phase, drv, pbuf, rbuf, store, served, told, pcr, changed, calls, callbacks, faults>>

Names  == {"PK", "SecureBootEnable", "SetupMode", "SecureBoot", "CustomMode", "db", "Boot"}
Order  == <<"PK", "SecureBootEnable", "SetupMode", "SecureBoot", "CustomMode", "db", "Boot">>

\* What callers may name; "test" is the name of the session test hook, "long" does
\* not fit the parameter buffer, "null" is a null pointer among the arguments.
Public == {"PK", "db"}
Odd    == {"null", "empty", "test", "long"}

\* IsSecureBootPolicyVariable: mVariableType, KEK and dbx left out as they are like db.
Policy == {"SecureBoot", "PK", "db"}
IsSecureBootPolicyVariable(n) == n \in Policy

\* Sizes of the headers of parameters and results, and of the transport buffers.
GetHeader == 1
SetHeader == 2
MemSize   == MaxData + SetHeader
UintN     == 3                    \* sizeof (UINTN), the size the test hook answers to
NameSize(n) == IF n = "long" THEN MemSize ELSE 1

Sids  == {1, 2}                   \* the driver's own session, another one

Off   == <<0>>
On    == <<1>>
Never == <<2>>                    \* not measured

Zero   == [op |-> "none", name |-> "none", data |-> <<>>, attr |-> "none"]
Frame(fn, n, size, d, attr) ==
  [fn |-> fn, at |-> "begin", name |-> n, size |-> size, data |-> d, attr |-> attr,
   st |-> "none", rsize |-> 0, cb |-> FALSE, dirty |-> FALSE]
Get(n, size)    == Frame("get", n, size, <<>>, "none")
GetNext(n, size) == Frame("next", n, size, <<>>, "none")
Set(n, d, attr) == Frame("set", n, Len(d), d, attr)
Query(attr)     == Frame("query", "none", 0, <<>>, attr)
Proc(fn, n)     == Frame(fn, n, 0, <<>>, "none")
Services == {"get", "next", "set", "query"}

Running == stack # <<>>
Top     == stack[Len(stack)]
Below   == SubSeq(stack, 1, Len(stack) - 1)
At(fn, l) == Running /\ Top.fn = fn /\ Top.at = l

NoRet == [fn |-> "none", s |-> "none", name |-> "none", asked |-> 0, size |-> 0, data |-> <<>>,
          dirty |-> FALSE]
Goto(l)    == stack' = Append(Below, [Top EXCEPT !.at = l]) /\ ret' = NoRet
Call(f, l) == stack' = Below \o <<[Top EXCEPT !.at = l], f>> /\ ret' = NoRet
Answer(s, n, size, d) ==
  /\ stack' = Below
  /\ ret' = [fn |-> Top.fn, s |-> s, name |-> n, asked |-> Top.size, size |-> size, data |-> d,
             dirty |-> Top.dirty]
Return(s) == Answer(s, Top.name, Top.size, <<>>)

Fault == faults + callbacks < MaxUpsets /\ faults' = faults + 1

NewDriver == [session |-> FALSE, sid |-> 0, param |-> FALSE, result |-> FALSE, api |-> FALSE,
              services |-> FALSE, arch |-> FALSE, write |-> FALSE, event |-> FALSE,
              runtime |-> FALSE]

\* The TA has what was stored in earlier boots; the volatile variables are gone.
Init ==
  /\ phase = "init" /\ stack = <<Proc("init", "none")>> /\ ret = NoRet
  /\ drv = NewDriver
  /\ \E pk \in {<<>>, <<1, 0>>}, e \in {<<>>, Off, On} :
       store = [n \in Names |-> CASE n = "PK" -> pk [] n = "SecureBootEnable" -> e [] OTHER -> <<>>]
  /\ served = {} /\ pbuf = Zero /\ rbuf = Zero /\ told = FALSE
  /\ pcr = [n \in Policy |-> Never] /\ changed = {}
  /\ calls = 0 /\ callbacks = 0 /\ faults = 0

-------------------------------------------------------------------------------
\* The TA (external).  It reads the parameter buffer as the invoked command says.

Teec(s, size, d, n) == [s |-> s, size |-> size, data |-> d, name |-> n]
TaGet(p, room) ==
  LET d == store[p.name]
  IN IF p.op # "get" THEN Teec("BAD_PARAMETERS", 0, <<>>, "none")
     ELSE IF p.name \notin Names \/ d = <<>> THEN Teec("ITEM_NOT_FOUND", 0, <<>>, "none")
     ELSE IF GetHeader + Len(d) > room THEN Teec("SHORT_BUFFER", GetHeader + Len(d), <<>>, "none")
     ELSE Teec("SUCCESS", GetHeader + Len(d), d, p.name)

Following(n) ==
  LET from == IF n = "empty" THEN 0 ELSE CHOOSE i \in 1 .. Len(Order) : Order[i] = n
      rest == {i \in (from + 1) .. Len(Order) : store[Order[i]] # <<>>}
  IN IF rest = {} THEN "none" ELSE Order[Min(rest)]
TaGetNext(p, room) ==
  IF p.op # "next" THEN Teec("BAD_PARAMETERS", 0, <<>>, "none")
  ELSE IF p.name \notin Names \cup {"empty"} \/ Following(p.name) = "none"
       THEN Teec("ITEM_NOT_FOUND", 0, <<>>, "none")
  ELSE IF GetHeader + NameSize(Following(p.name)) > room
       THEN Teec("SHORT_BUFFER", GetHeader + NameSize(Following(p.name)), <<>>, "none")
  ELSE Teec("SUCCESS", GetHeader + NameSize(Following(p.name)), <<>>, Following(p.name))

\* What the TA stores: an authenticated write carries a signature in front, an
\* appending one adds to what there is, no data deletes.
Stored(p) ==
  CASE p.attr = "auth" /\ p.data # <<>> -> Tail(p.data)
    [] p.attr = "append"                -> store[p.name] \o p.data
    [] OTHER                            -> p.data
TaSet(p) ==
  IF p.op # "set" \/ p.name \notin Names THEN "BAD_PARAMETERS"
  ELSE IF Stored(p) = <<>> /\ store[p.name] = <<>> THEN "ITEM_NOT_FOUND"
  ELSE IF Len(Stored(p)) > MaxData THEN "OUT_OF_MEMORY"
  ELSE IF p.name = "PK" /\ Len(Stored(p)) = 1 THEN "ACCESS_DENIED"
  ELSE "SUCCESS"

-------------------------------------------------------------------------------
\* OpteeRuntimeVariableInvokeCommand: the command goes to mTeecSession.session_id,
\* and OP-TEE refuses one for a session it does not have.
Served == drv.sid \in served

EfiStatus(t) ==
  CASE t = "SUCCESS"        -> "OK"
    [] t = "ITEM_NOT_FOUND" -> "NotFound"
    [] t = "SHORT_BUFFER"   -> "BufferTooSmall"
    [] t = "OUT_OF_MEMORY"  -> "OutOfResources"
    [] t = "ACCESS_DENIED"  -> "SecurityViolation"
    [] OTHER                -> "ProtocolError"

\* It sends the whole parameter buffer, whoever filled it last.
Invoked(s, size) ==   \* its status, and ResultSize
  /\ stack' = Append(Below, [Top EXCEPT !.at = "take", !.st = s, !.rsize = size])
  /\ ret' = NoRet
InvokeGet ==
  LET a == IF Top.fn = "get" THEN TaGet(pbuf, GetHeader + Top.size) ELSE TaGetNext(pbuf, GetHeader + Top.size)
  IN /\ rbuf' = IF a.s = "SUCCESS" THEN [op |-> Top.fn, name |-> a.name, data |-> a.data, attr |-> "none"] ELSE rbuf
     /\ Invoked(EfiStatus(a.s), a.size)
     /\ UNCHANGED <<store, changed>>
InvokeSet ==
  LET t == TaSet(pbuf)
  IN /\ store' = IF t = "SUCCESS" THEN [store EXCEPT ![pbuf.name] = Stored(pbuf)] ELSE store
     /\ changed' = IF t = "SUCCESS" /\ drv.arch THEN changed \cup ({pbuf.name} \cap Policy) ELSE changed
     /\ Invoked(EfiStatus(t), 0)
     /\ UNCHANGED rbuf
InvokeQuery ==
  /\ rbuf' = [Zero EXCEPT !.op = "query"]
  /\ Invoked("OK", GetHeader)
  /\ UNCHANGED <<store, changed>>

OpteeRuntimeVariableInvokeCommand ==
  /\ Running /\ Top.fn \in Services /\ Top.at = "invoke"
  /\ UNCHANGED <<phase, drv, pbuf, served, told, pcr, calls, callbacks>>
  /\ \/ Served /\ Top.fn \in {"get", "next"} /\ InvokeGet /\ UNCHANGED faults
     \/ Served /\ Top.fn = "set" /\ InvokeSet /\ UNCHANGED faults
     \/ Served /\ Top.fn = "query" /\ InvokeQuery /\ UNCHANGED faults
     \/ ~Served /\ Invoked(EfiStatus("BAD_PARAMETERS"), 0) /\ UNCHANGED <<rbuf, store, changed, faults>>
     \/ /\ Fault
        /\ \E t \in {"OUT_OF_MEMORY", "ACCESS_DENIED", "COMMUNICATION"} : Invoked(EfiStatus(t), 0)
        /\ UNCHANGED <<rbuf, store, changed>>

-------------------------------------------------------------------------------
\* The services.  A list of checks in the order of the code; the first that bites
\* decides what is returned.

FirstFailure(checks) ==
  LET bad == {i \in DOMAIN checks : checks[i][1]}
  IN IF bad = {} THEN "OK" ELSE checks[Min(bad)][2]

TooBig(psize, rsize, phead, rhead) ==
  \/ psize >= MemSize \/ rsize >= MemSize
  \/ phead + psize > MemSize \/ rhead + rsize > MemSize

TestHook(f) == f.name = "test" /\ f.size = UintN

\* The session the test hook of SetVariable is given: the driver's own, 1, or another.
SessionIn(d) == IF Head(d) = 0 THEN 1 ELSE 2

GetChecks(f) == <<
  <<drv.runtime, "NotFound">>,
  <<f.name = "null", "InvalidParameter">>,
  <<TestHook(f), "TestHook">>,
  <<~drv.session, "NotReady">>,
  <<~drv.param \/ ~drv.result, "OutOfResources">>,
  <<TooBig(NameSize(f.name), f.size, GetHeader, GetHeader), "BadBufferSize">> >>

GetNextChecks(f) == <<
  <<drv.runtime, "Unsupported">>,
  <<f.name = "null", "InvalidParameter">>,
  <<~drv.session, "NotReady">>,
  <<~drv.param \/ ~drv.result, "OutOfResources">>,
  <<TooBig(IF f.name = "empty" THEN 0 ELSE NameSize(f.name), f.size, GetHeader, GetHeader), "BadBufferSize">> >>

SetChecks(f) == <<
  <<drv.runtime, "Unsupported">>,
  <<f.name \in {"null", "empty"}, "InvalidParameter">>,
  <<~drv.session, "NotReady">>,
  <<TestHook(f), "TestHook">>,
  <<NameSize(f.name) >= MemSize \/ f.size >= MemSize
      \/ SetHeader + NameSize(f.name) + f.size > MemSize, "BadBufferSize">> >>

QueryChecks(f) == <<
  <<drv.runtime, "Unsupported">>,
  <<f.attr = "zero", "InvalidParameter">>,
  <<~drv.session, "NotReady">>,
  <<~drv.param \/ ~drv.result, "OutOfResources">> >>

Checked(f) ==
  FirstFailure(CASE f.fn = "get"  -> GetChecks(f)
                 [] f.fn = "next" -> GetNextChecks(f)
                 [] f.fn = "set"  -> SetChecks(f)
                 [] OTHER         -> QueryChecks(f))

\* The buffers are cleared, then the parameters filled in.
Fill == [op |-> Top.fn, name |-> Top.name, data |-> Top.data, attr |-> Top.attr]
BeginService ==
  /\ Running /\ Top.fn \in Services /\ Top.at = "begin"
  /\ UNCHANGED <<phase, store, served, told, pcr, changed, calls, callbacks, faults>>
  /\ \/ /\ Checked(Top) = "OK"
        /\ pbuf' = Fill /\ rbuf' = Zero
        /\ Goto("invoke") /\ UNCHANGED drv
     \/ /\ Checked(Top) = "TestHook"
        /\ drv' = IF Top.fn = "set" THEN [drv EXCEPT !.sid = SessionIn(Top.data)] ELSE drv
        /\ Return("OK") /\ UNCHANGED <<pbuf, rbuf>>
     \/ /\ Checked(Top) \notin {"OK", "TestHook"}
        /\ Return(Checked(Top))
        /\ UNCHANGED <<drv, pbuf, rbuf>>

\* Faulty variant: the size of the buffer is reported for the size of the data.
GetReportsBufferSize ==
  /\ At("get", "take")
  /\ UNCHANGED world
  /\ CASE Top.st = "BufferTooSmall"       -> Answer(Top.st, Top.name, Top.rsize, <<>>)
       [] Top.st # "OK" /\ Top.st # "BufferTooSmall" -> Return(Top.st)
       [] OTHER -> Answer("OK", Top.name, Len(rbuf.data), rbuf.data)

\* The result is taken from the result buffer, whoever filled it last.
OpteeRuntimeGetVariable ==
  /\ At("get", "take")
  /\ UNCHANGED world
  /\ CASE Top.st = "BufferTooSmall"       -> Answer(Top.st, Top.name, Top.rsize - GetHeader, <<>>)
       [] Top.st # "OK" /\ Top.st # "BufferTooSmall" -> Return(Top.st)
       [] OTHER -> IF Len(rbuf.data) > Top.size
                   THEN Answer("BadBufferSize", Top.name, Len(rbuf.data), <<>>)
                   ELSE Answer("OK", Top.name, Len(rbuf.data), rbuf.data)

OpteeRuntimeGetNextVariableName ==
  /\ At("next", "take")
  /\ UNCHANGED world
  /\ CASE Top.st = "BufferTooSmall"       -> Answer(Top.st, Top.name, Top.rsize - GetHeader, <<>>)
       [] Top.st # "OK" /\ Top.st # "BufferTooSmall" -> Return(Top.st)
       [] OTHER -> IF NameSize(rbuf.name) > Top.size
                   THEN Answer("BadBufferSize", Top.name, NameSize(rbuf.name), <<>>)
                   ELSE Answer("OK", rbuf.name, NameSize(rbuf.name), <<>>)

\* SetVariable and the guard of SecureBootHook at its end.
OpteeRuntimeSetVariable ==
  /\ At("set", "take")
  /\ UNCHANGED world
  /\ \/ Top.st # "OK" /\ Return(Top.st)
     \/ /\ Top.st = "OK" /\ drv.arch /\ IsSecureBootPolicyVariable(Top.name)
        /\ Call(Proc("hook", Top.name), "hooked")
     \/ /\ Top.st = "OK" /\ ~(drv.arch /\ IsSecureBootPolicyVariable(Top.name))
        /\ Return("OK")
SetReturns == At("set", "hooked") /\ Return("OK") /\ UNCHANGED world

OpteeRuntimeQueryVariableInfo == At("query", "take") /\ Return(Top.st) /\ UNCHANGED world

-------------------------------------------------------------------------------
\* SecureBootHook re-reads the variable, as what was passed to SetVariable may hold
\* a signature or only a part, and measures it.  An error is measured as a deletion.

Measure(d) == stack' = Append(Below, [Top EXCEPT !.at = "measure", !.data = d]) /\ ret' = NoRet
HookMeasuresArgument ==   \* faulty variant
  /\ At("hook", "begin")
  /\ Measure(Below[Len(Below)].data)
  /\ UNCHANGED world

SecureBootHook == At("hook", "begin") /\ Call(Get(Top.name, 0), "probed") /\ UNCHANGED world

\* InternalGetVariable: the size first, then the data in a buffer of that size.
InternalGetVariable ==
  \/ /\ At("hook", "probed") /\ ret.s = "BufferTooSmall"
     /\ \/ Call(Get(Top.name, ret.size), "fetched") /\ UNCHANGED world
        \/ Fault /\ Measure(<<>>) /\ UNCHANGED <<phase, drv, pbuf, rbuf, store, served, told, pcr, changed, calls, callbacks>>
  \/ /\ At("hook", "probed") /\ ret.s # "BufferTooSmall"
     /\ Measure(<<>>) /\ UNCHANGED world
  \/ /\ At("hook", "fetched")
     /\ Measure(IF ret.s = "OK" THEN ret.data ELSE <<>>) /\ UNCHANGED world

MeasureVariable ==
  /\ At("hook", "measure")
  /\ Return("OK")
  /\ \/ pcr' = [pcr EXCEPT ![Top.name] = Top.data] /\ UNCHANGED faults
     \/ Fault /\ UNCHANGED pcr            \* no memory for the log, or no TPM
  /\ UNCHANGED <<phase, drv, pbuf, rbuf, store, served, told, changed, calls, callbacks>>

-------------------------------------------------------------------------------
\* The entry point.

Device == <<pbuf, rbuf, store, told, pcr, changed, calls, callbacks>>
InitEnds(s) == Return(s) /\ phase' = IF s = "OK" THEN "boot" ELSE "failed"

OpteeClientApiInitialize ==
  /\ At("init", "begin")
  /\ \/ Goto("open") /\ drv' = [drv EXCEPT !.api = TRUE] /\ UNCHANGED <<phase, faults>>
     \/ Fault /\ InitEnds("Error") /\ UNCHANGED drv
  /\ UNCHANGED served /\ UNCHANGED Device

\* TaOpenSession: what was opened or allocated before a failure is kept.
Opened == [drv EXCEPT !.session = TRUE, !.sid = 1]
Granted == served' = IF drv'.session THEN {drv'.sid} ELSE served
TaOpenSessionUnchecked ==   \* faulty variant: the second allocation is not checked
  /\ At("init", "open")
  /\ \/ /\ Goto("opened") /\ UNCHANGED phase
        /\ \/ drv' = [Opened EXCEPT !.param = TRUE, !.result = TRUE] /\ UNCHANGED faults
           \/ Fault /\ drv' = [Opened EXCEPT !.param = TRUE]
     \/ Fault /\ InitEnds("Error") /\ drv' \in {drv, Opened}
  /\ Granted /\ UNCHANGED Device
TaOpenSession ==
  /\ At("init", "open")
  /\ \/ /\ Goto("opened") /\ UNCHANGED <<phase, faults>>
        /\ drv' = [Opened EXCEPT !.param = TRUE, !.result = TRUE]
     \/ Fault /\ InitEnds("Error") /\ drv' \in {drv, Opened, [Opened EXCEPT !.param = TRUE]}
  /\ Granted /\ UNCHANGED Device

\* InitSecureBootVariables.  The platform is in user mode when the PK is there, that
\* is when one byte is too small for it.
Mode(on) == IF on THEN On ELSE Off
Keep(setup, enable, f, l) ==   \* the locals SetupMode and SecureBootEnable, and a call
  /\ stack' = Below \o <<[Top EXCEPT !.at = l, !.attr = setup, !.data = enable]>> \o f
  /\ ret' = NoRet
AlwaysUserMode == TRUE   \* faulty variant
UserMode == Top.attr = "user"
InitSecureBootVariables ==
  /\ Running /\ Top.fn = "secureboot"
  /\ UNCHANGED world
  /\ \/ Top.at = "begin" /\ Call(Get("PK", 1), "pk")
     \/ /\ Top.at = "pk" /\ ret.s = "BufferTooSmall"
        /\ Keep("user", Off, <<Set("SetupMode", Off, "plain")>>, "setup")
     \/ /\ Top.at = "pk" /\ ret.s # "BufferTooSmall"
        /\ Keep("setup", Off, <<Set("SetupMode", On, "plain")>>, "setup")
     \/ Top.at = "setup" /\ ret.s = "OK" /\ Call(Get("SecureBootEnable", 1), "enable")
     \/ Top.at = "enable" /\ ~UserMode /\ Goto("mode")
     \/ Top.at = "enable" /\ UserMode /\ ret.s = "OK" /\ Keep("user", ret.data, <<>>, "mode")
     \/ /\ Top.at = "enable" /\ UserMode /\ ret.s # "OK"
        /\ Keep("user", Mode(PcdSecureBootEnable),
                <<Set("SecureBootEnable", Mode(PcdSecureBootEnable), "plain")>>, "created")
     \/ Top.at = "created" /\ ret.s = "OK" /\ Goto("mode")
     \/ /\ Top.at = "mode"
        /\ Call(Set("SecureBoot", Mode(Top.data = On /\ UserMode), "plain"), "custom")
     \/ Top.at = "custom" /\ ret.s = "OK" /\ Call(Set("CustomMode", Off, "plain"), "end")
     \/ Top.at = "end" /\ Return(ret.s)
     \/ Top.at \in {"setup", "created", "custom"} /\ ret.s # "OK" /\ Return(ret.s)

\* The rest of the entry point: services, the two architectural protocols, the event.
VariableAuthOpteeRuntimeInitialize ==
  /\ Running /\ Top.fn = "init"
  /\ UNCHANGED served /\ UNCHANGED Device
  /\ \/ At("init", "opened") /\ Call(Proc("secureboot", "none"), "vars") /\ UNCHANGED <<phase, drv, faults>>
     \/ At("init", "vars") /\ ret.s # "OK" /\ InitEnds(ret.s) /\ UNCHANGED <<drv, faults>>
     \/ /\ At("init", "vars") /\ ret.s = "OK"
        /\ \/ /\ drv' = [drv EXCEPT !.services = TRUE, !.arch = TRUE]
              /\ Goto("write") /\ UNCHANGED <<phase, faults>>
           \/ Fault /\ drv' = [drv EXCEPT !.services = TRUE] /\ InitEnds("Error")
     \/ /\ At("init", "write")
        /\ \/ drv' = [drv EXCEPT !.write = TRUE] /\ Goto("event") /\ UNCHANGED <<phase, faults>>
           \/ Fault /\ InitEnds("Error") /\ UNCHANGED drv
     \/ /\ At("init", "event")
        /\ \/ drv' = [drv EXCEPT !.event = TRUE] /\ InitEnds("OK") /\ UNCHANGED faults
           \/ Fault /\ InitEnds("Error") /\ UNCHANGED drv

-------------------------------------------------------------------------------
\* The end of boot services.  EfiAtRuntime () is true before the driver's own
\* notification runs, as its library is notified at a higher priority.

ExitBootServices ==
  /\ phase = "boot" /\ ~Running
  /\ phase' = "exiting" /\ drv' = [drv EXCEPT !.runtime = TRUE] /\ ret' = NoRet
  /\ UNCHANGED <<pbuf, rbuf, store, served, told, stack, pcr, changed, calls, callbacks, faults>>

Released == [drv EXCEPT !.session = FALSE, !.param = FALSE, !.result = FALSE, !.api = FALSE]
OnExitClosesFirst ==   \* faulty variant: the session is closed before the signal
  /\ phase = "exiting" /\ ~Running
  /\ drv' = Released /\ served' = served \ {drv.sid} /\ phase' = "rebooted" /\ ret' = NoRet
  /\ UNCHANGED <<pbuf, rbuf, store, told, stack, pcr, changed, calls, callbacks, faults>>

\* The TA is told with the transport buffers, in the session the driver uses now, which
\* is then closed, and everything is released, also when OP-TEE does not close it; when
\* the TA cannot be told the platform is reset.
OpteeRuntimeOnExitBootServices ==
  /\ phase = "exiting" /\ ~Running
  /\ \/ /\ Served /\ told' = TRUE /\ drv' = Released /\ phase' = "runtime"
        /\ \/ drv.session /\ served' = served \ {drv.sid} /\ UNCHANGED faults
           \/ drv.session /\ Fault /\ UNCHANGED served
           \/ ~drv.session /\ UNCHANGED <<served, faults>>
     \/ /\ (~Served /\ UNCHANGED faults) \/ (Served /\ Fault)
        /\ phase' = "rebooted" /\ UNCHANGED <<drv, served, told>>
  /\ ret' = NoRet
  /\ UNCHANGED <<pbuf, rbuf, store, stack, pcr, changed, calls, callbacks>>

-------------------------------------------------------------------------------
\* Callers (external): boot-time code, other handlers of ExitBootServices, the
\* operating system; and callbacks, which may interrupt a caller of low priority but
\* not each other.

Requests ==
  {Get(n, s) : n \in Public, s \in Sizes}
  \cup {Set(n, d, a) : n \in Public, d \in Payloads, a \in {"plain", "auth", "append"}}
OddRequests ==
  {Get(n, UintN) : n \in Odd} \cup {Get("db", MemSize)}
  \cup {GetNext(n, s) : n \in Odd \cup {"PK"}, s \in {0, UintN}}
  \cup {Set(n, d, "plain") : n \in Odd \cup {"Boot"}, d \in {<<0, 1, 1>>, <<1, 1, 1>>}} \cup {Query(a) : a \in {"zero", "some"}}
CallbackRequests == {Get("db", MaxData), Set("db", On, "plain"), Set("Boot", On, "plain"), Query("some")}

ClientCall ==
  /\ phase \in {"boot", "exiting", "runtime"} /\ ~Running /\ calls < MaxCalls
  /\ \E f \in Requests \cup OddRequests : stack' = <<f>>
  /\ calls' = calls + 1 /\ ret' = NoRet
  /\ UNCHANGED <<phase, drv, pbuf, rbuf, store, served, told, pcr, changed, callbacks, faults>>

\* The driver's test "needs to close & open the session as a way to simulate the boot
\* code path in the TA that reconstructs the variable state from the actual storage":
\* sessions with the TA are opened and closed behind the driver's back, and the
\* volatile variables are gone.
Volatile == {"SetupMode", "SecureBoot"}
TestSessions(sids) ==
  /\ phase = "boot" /\ ~Running /\ calls < MaxCalls
  /\ served' = sids /\ calls' = calls + 1 /\ ret' = NoRet
  /\ store' = [n \in Names |-> IF n \in Volatile THEN <<>> ELSE store[n]]
  /\ changed' = changed \ Volatile
  /\ UNCHANGED <<phase, drv, pbuf, rbuf, told, stack, pcr, callbacks, faults>>

Interruptible == (Top.fn \in Services /\ Top.at \in {"invoke", "take"}) \/ At("hook", "measure")
Callback ==
  /\ phase = "boot" /\ Running /\ Interruptible /\ faults + callbacks < MaxUpsets
  /\ \A i \in DOMAIN stack : ~stack[i].cb
  /\ \E f \in CallbackRequests :
       stack' = [i \in DOMAIN stack |-> [stack[i] EXCEPT !.dirty = TRUE]] \o <<[f EXCEPT !.cb = TRUE]>>
  /\ callbacks' = callbacks + 1 /\ ret' = NoRet
  /\ UNCHANGED <<phase, drv, pbuf, rbuf, store, served, told, pcr, changed, calls, faults>>

\* Nothing happens after a failed start or a reset, or once the bounds are reached.
Stopped ==
  /\ ~Running
  /\ phase \in {"failed", "rebooted"} \/ (calls = MaxCalls /\ phase = "runtime")
  /\ UNCHANGED vars

Driver ==
  \/ OpteeClientApiInitialize \/ TaOpenSession \/ InitSecureBootVariables
  \/ VariableAuthOpteeRuntimeInitialize \/ OpteeRuntimeOnExitBootServices
  \/ BeginService \/ OpteeRuntimeVariableInvokeCommand
  \/ OpteeRuntimeGetVariable \/ OpteeRuntimeGetNextVariableName
  \/ OpteeRuntimeSetVariable \/ SetReturns \/ OpteeRuntimeQueryVariableInfo
  \/ SecureBootHook \/ InternalGetVariable \/ MeasureVariable
Next ==
  \/ Driver \/ ExitBootServices \/ ClientCall \/ Callback \/ Stopped
  \/ \E sids \in SUBSET Sids : TestSessions(sids)

\* The driver's code runs; nobody has to call it.
Spec == Init /\ [][Next]_vars /\ WF_vars(Driver)

-------------------------------------------------------------------------------
\* GetVariable gives what the TA stores for the variable asked for, or the size with
\* which a retry succeeds, when no callback used the transport buffers meanwhile.
AnswersAreStored ==
  ret.fn = "get" /\ ret.name \in Names /\ ~ret.dirty =>
    /\ ret.s = "OK" => ret.data = store[ret.name] /\ ret.size = Len(ret.data) /\ ret.size <= ret.asked
    /\ ret.s = "BufferTooSmall" => ret.size = Len(store[ret.name]) /\ ret.size > ret.asked
    /\ ret.s = "NotFound" => store[ret.name] = <<>> \/ drv.runtime

\* "@retval EFI_SUCCESS Find the specified variable." (AuthVarsDxe.c): whoever else
\* calls, a successful GetVariable returns the data of the variable asked for.
SuccessIsTheVariable ==
  ret.fn = "get" /\ ret.name \in Names /\ ret.s = "OK" => ret.data = store[ret.name]

\* SecureBootHook: between calls, what was last measured of a policy variable that has
\* been set is what the TA stores, not what was passed to SetVariable.
MeasuredIsStored ==
  ~Running /\ faults = 0 /\ callbacks = 0 => \A n \in changed : pcr[n] = store[n]

\* The driver starts with Secure Boot on only if a PK and the enabling variable are
\* stored, whatever failed on the way; and if nothing failed, then also if.
SecureBootNeedsKey ==
  phase = "boot" /\ calls = 0 =>
    /\ store["SecureBoot"] = On => store["PK"] # <<>> /\ store["SecureBootEnable"] = On
    /\ store["SetupMode"] = Off => store["PK"] # <<>>
    /\ faults = 0 =>
         (store["SecureBoot"] = On <=> store["PK"] # <<>> /\ store["SecureBootEnable"] = On)

\* Nobody writes to the transport buffers unless both are allocated: neither before
\* TaOpenSession succeeded nor after they are released for the operating system.
BuffersAllocated ==
  [][pbuf' # pbuf \/ rbuf' # rbuf => drv.param /\ drv.result]_vars

\* ExitBootServices ends at runtime or in a reset.  Where OP-TEE has the session the
\* driver uses, it leads to a platform at runtime, the TA told, the buffers given back
\* and that session closed unless OP-TEE failed to, and to a reset only if OP-TEE failed.
\* The test hook and the test may leave the driver with a session OP-TEE does not have:
\* then the platform is reset although nothing failed.
ExitCompletes ==
  /\ phase = "exiting" ~> phase \in {"runtime", "rebooted"}
  /\ phase = "exiting" /\ Served ~>
       \/ /\ phase = "runtime" /\ told /\ ~drv.session /\ ~drv.param /\ ~drv.result
          /\ ~Served \/ faults > 0
       \/ phase = "rebooted" /\ faults > 0
===============================================================================
