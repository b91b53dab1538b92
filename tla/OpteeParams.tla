------------------------------ MODULE OpteeParams -----------------------------
(*****************************************************************************)
(* The parameters of a call into a trusted application: how the TEEC_SMC     *)
(* functions of OpteeClientSMC.c copy them from the caller's TEEC_Operation  *)
(* into the message and, when the call has completed, back.                  *)
(*                                                                           *)
(* A parameter is a type and a payload; a payload stands for a value pair or *)
(* a buffer reference.  Parameters are numbered from 0 as in the source.     *)
(*****************************************************************************)
EXTENDS Integers

CONSTANTS
  RefCount,   \* TEEC_CONFIG_PAYLOAD_REF_COUNT
  Payloads,   \* what a caller or a trusted application can put in a parameter
  Uuid,       \* the payloads of the two meta parameters of OPEN_SESSION
  Login,
  Commands    \* the commands clients send: "OPEN_SESSION", "INVOKE_COMMAND"

ASSUME ParamsAssumption ==
  /\ RefCount \in Nat \ {0}
  /\ Commands \subseteq {"OPEN_SESSION", "INVOKE_COMMAND"}

Kinds    == {"VALUE", "TMEM"}
Dirs     == {"INPUT", "OUTPUT", "INOUT"}
None     == [kind |-> "NONE", dir |-> "NONE"]
Types    == {None} \cup [kind : Kinds, dir : Dirs]
Params   == 0 .. (RefCount - 1)
Zero     == "zero"
Contents == Payloads \cup {Uuid, Login, Zero}

VARIABLES
  phase,      \* "idle", "sent", "done" (in the TEE) or "returned"
  cmd,
  types,      \* Operation->paramTypes
  op,         \* Operation->params
  msg,        \* MsgArg->params: attribute and payload
  passed,     \* what the caller passed in
  written     \* what the trusted application left in the caller's parameters

paramsVars == <<phase, cmd, types, op, msg, passed, written>>

MetaParamCount(c) == IF c = "OPEN_SESSION" THEN 2 ELSE 0
Slots(c)          == 0 .. (RefCount + MetaParamCount(c) - 1)
Meta(x)           == [attr |-> [kind |-> "VALUE", dir |-> "INPUT"], u |-> x]
Cleared           == [attr |-> None, u |-> Zero]

ParamsInit ==
  /\ phase = "idle" /\ cmd \in Commands
  /\ types = [i \in Params |-> None]
  /\ op = [i \in Params |-> Zero]
  /\ msg = [i \in Slots(cmd) |-> Cleared]
  /\ passed = op /\ written = op

\* SetMsgParams: parameter i of the operation goes to the given slot.
SetMsgParams(m, first, t, p) ==
  [s \in DOMAIN m |->
     IF s \in {first + i : i \in Params} /\ t[s - first] # None
     THEN [attr |-> t[s - first], u |-> p[s - first]]
     ELSE m[s]]

\* Faulty variant: the slot does not advance.
GetMsgParamsNoAdvance(m, first, t, p) ==
  [i \in Params |-> IF t[i] = None THEN p[i] ELSE m[first].u]

\* GetMsgParams: parameter i of the operation comes from the given slot.
GetMsgParams(m, first, t, p) ==
  [i \in Params |-> IF t[i] = None THEN p[i] ELSE m[first + i].u]

\* The message as OpenSession and InvokeCommand build it: cleared, then the
\* meta parameters, then the caller's.
SmcSend(c, t, p) ==
  /\ phase = "idle"
  /\ cmd' = c /\ types' = t /\ op' = p /\ passed' = p
  /\ LET zero == [s \in Slots(c) |-> Cleared]
         meta == IF c = "OPEN_SESSION" THEN [zero EXCEPT ![0] = Meta(Uuid), ![1] = Meta(Login)]
                                       ELSE zero
     IN msg' = SetMsgParams(meta, MetaParamCount(c), t, p)
  /\ phase' = "sent"
  /\ UNCHANGED written

\* External: the trusted application is given the parameters behind the meta
\* parameters and may write those that are outputs.
TaRuns(w) ==
  LET first == MetaParamCount(cmd)
      out(i) == msg[first + i].attr.dir \in {"OUTPUT", "INOUT"}
  IN /\ phase = "sent"
     /\ written' = [i \in Params |-> IF out(i) THEN w[i] ELSE msg[first + i].u]
     /\ msg' = [s \in DOMAIN msg |->
                  IF s >= first THEN [msg[s] EXCEPT !.u = written'[s - first]] ELSE msg[s]]
     /\ phase' = "done"
     /\ UNCHANGED <<cmd, types, op, passed>>

\* External: the call is refused or fails on the way.
SmcFails ==
  /\ phase = "sent"
  /\ phase' = "failed"
  /\ UNCHANGED <<cmd, types, op, msg, passed, written>>

\* TEEC_SMC_InvokeCommand reads the parameters back from the first slot on, and
\* so does TEEC_SMC_OpenSession; a call that failed leaves them alone.
FirstReturned(c) == 0

SmcReceive ==
  /\ phase = "done"
  /\ op' = GetMsgParams(msg, FirstReturned(cmd), types, op)
  /\ phase' = "returned"
  /\ UNCHANGED <<cmd, types, msg, passed, written>>

Again ==
  /\ phase \in {"returned", "failed"}
  /\ phase' = "idle"
  /\ types' = [i \in Params |-> None]
  /\ op' = [i \in Params |-> Zero] /\ passed' = op' /\ written' = op'
  /\ msg' = [s \in Slots(cmd) |-> Cleared]
  /\ UNCHANGED cmd

ParamsNext ==
  \/ \E c \in Commands, t \in [Params -> Types], p \in [Params -> Payloads] : SmcSend(c, t, p)
  \/ \E w \in [Params -> Payloads] : TaRuns(w)
  \/ SmcFails \/ SmcReceive \/ Again

ParamsSpec == ParamsInit /\ [][ParamsNext]_paramsVars

-------------------------------------------------------------------------------
\* "Update the caller supplied Operation parameters with those returned from the
\* call": after the call each parameter the caller supplied is what the trusted
\* application left in it, so that its inputs are as they were passed in, and
\* after a failed call all of them are.
OutputsReturned ==
  /\ phase = "returned" => \A i \in Params :
       /\ types[i] # None => op[i] = written[i]
       /\ types[i].dir = "INPUT" => op[i] = passed[i]
  /\ phase = "failed" => op = passed
===============================================================================
