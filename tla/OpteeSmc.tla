------------------------------- MODULE OpteeSmc -------------------------------
(*****************************************************************************)
(* The calls from UEFI into OP-TEE: the TEEC API (OpteeClientApiLib.c), the  *)
(* SMC loop (OpteeClientSMC.c) and the RPCs OP-TEE makes back into the       *)
(* normal world while a call is in progress (OpteeClientRPC.c).              *)
(*                                                                           *)
(* A client is a driver image.  Boot services run on one processor, but an   *)
(* event of a higher TPL may interrupt a call whenever it is in the normal   *)
(* world and start another one: calls in progress form a stack, of which     *)
(* only the top runs.  Every call carries its own copy of the SMC registers. *)
(*                                                                           *)
(* Memory is the pool SharedPool promises: a set of buffers, of which some   *)
(* are allocated; OpteeClientMem implements it, and counts the allocations.  *)
(* A free may fail in the GCD, after which the buffer stays allocated.       *)
(*****************************************************************************)
EXTENDS Integers, Sequences, FiniteSets

CONSTANTS
  Clients,    \* the driver images
  Buffers,    \* the buffers the shared memory has room for
  Sessions,   \* the session identifiers OP-TEE can hand out
  Null,       \* the NULL pointer, and the session identifier 0
  RpcFuncs,   \* the RPC functions OP-TEE may ask for: a subset of Funcs
  RpcCmds,    \* and the commands it sends with RPC_FUNC_CMD: a subset of Cmds
  Threads,    \* the numbers of OP-TEE threads that can serve calls: OP-TEE may
              \* have one of them busy on its own account
  MaxRpcs     \* bound on the RPCs OP-TEE makes in one call

Funcs == {"ALLOC", "FREE", "CMD", "FOREIGN_INTR", "OTHER"}
Cmds  == {"LOAD_TA", "RPMB", "GET_TIME", "SHM_ALLOC", "SHM_FREE", "WAIT_QUEUE", "OTHER"}
Calls == {"OPEN_SESSION", "CLOSE_SESSION", "INVOKE_COMMAND"}

ASSUME SmcAssumption ==
  /\ Null \notin Buffers \cup Clients \cup Sessions /\ "size" \notin Buffers /\ Null # "size"
  /\ IsFiniteSet(Clients) /\ IsFiniteSet(Buffers)
  /\ RpcFuncs \subseteq Funcs /\ RpcCmds \subseteq Cmds
  /\ Threads \subseteq Nat \ {0} /\ MaxRpcs \in Nat

VARIABLES
  live,       \* allocated buffers
  stack,      \* the calls in progress, the running one last
  cached,     \* buffers that OP-TEE obtained through RPCs and holds
  lost,       \* allocated buffers nobody has a use for any more (history)
  shm,        \* per client: the buffer of TEEC_AllocateSharedMemory, or Null
  session,    \* per client: Session->session_id
  holds,      \* per client: "open" if OP-TEE granted the session it asked for
              \* last, "refused" if it refused one to a client that had one,
              \* "no" if it has none or has closed it
  teeOpen,    \* the sessions OP-TEE keeps state for
  finalized   \* clients that called OpteeClientApiFinalize

client == <<shm, session, holds>>
vars   == <<live, stack, cached, lost, shm, session, holds, teeOpen, finalized>>

\* A call in progress: the caller, the command, the message buffer and the
\* session in it, which world it is in, and the registers: Arg0, the pointer in
\* Arg1 and Arg2, what the pending RPC is, and the ret field of the two messages.
Frame(c, cmd, arg, sid) ==
  [client |-> c, cmd |-> cmd, arg |-> arg, sid |-> sid, world |-> "normal",
   Arg0 |-> "CALL_WITH_ARG", ptr |-> arg, rpc |-> "none", rpcCmd |-> "none",
   ret |-> "none", rpcRet |-> "none", rpcs |-> 0]

Idle(c) == \A k \in 1 .. Len(stack) : stack[k].client # c
Top     == stack[Len(stack)]
SetTop(f) == stack' = [stack EXCEPT ![Len(stack)] = f]
Pop     == stack' = SubSeq(stack, 1, Len(stack) - 1)

\* An event may run whenever the running call is in the normal world.
MayStart(c) ==
  /\ c \notin finalized
  /\ Idle(c)
  /\ stack # <<>> => Top.world = "normal"

\* OpteeClientMemAlloc and OpteeClientMemFree as the pool promises them.
MemAlloc(b) == b \in Buffers \ live /\ live' = live \cup {b} /\ UNCHANGED lost
MemFull     == live = Buffers /\ UNCHANGED <<live, lost>>
MemFree(b)  == live' = live \ {b} /\ UNCHANGED lost
\* A buffer whose free failed, or was not even tried, by the last to know of it.
Lose(b)     == lost' = lost \cup {b} /\ UNCHANGED live
MemFreeOrLose(b) == MemFree(b) \/ Lose(b)

Init ==
  /\ live = {} /\ stack = <<>> /\ cached = {} /\ lost = {}
  /\ shm = [c \in Clients |-> Null]
  /\ session = [c \in Clients |-> Null]
  /\ holds = [c \in Clients |-> "no"]
  /\ teeOpen = {}
  /\ finalized = {}

-------------------------------------------------------------------------------
(* Shared memory of the clients. *)
TEEC_AllocateSharedMemory(c) ==
  /\ MayStart(c) /\ shm[c] = Null
  /\ \/ \E b \in Buffers : /\ MemAlloc(b)
                           /\ shm' = [shm EXCEPT ![c] = b]
     \/ MemFull /\ UNCHANGED shm
  /\ UNCHANGED <<stack, cached, session, holds, teeOpen, finalized>>

\* When the free fails the client keeps the pointer.
TEEC_ReleaseSharedMemory(c) ==
  /\ MayStart(c) /\ shm[c] # Null
  /\ \/ MemFree(shm[c]) /\ shm' = [shm EXCEPT ![c] = Null]
     \/ UNCHANGED <<live, lost, shm>>
  /\ UNCHANGED <<stack, cached, session, holds, teeOpen, finalized>>

\* The clients finalize after closing the session and releasing their buffers.
OpteeClientApiFinalize(c) ==
  /\ MayStart(c) /\ shm[c] = Null /\ holds[c] = "no"
  /\ finalized' = finalized \cup {c}
  /\ UNCHANGED <<live, stack, cached, lost, client, teeOpen>>

-------------------------------------------------------------------------------
(* TEEC_SMC_OpenSession, TEEC_SMC_InvokeCommand, TEEC_SMC_CloseSession, up   *)
(* to the SMC: allocate and fill the message.  TEEC_CloseSession drops the   *)
(* result: for the client the session is closed whatever happens.  A client  *)
(* invokes and closes what it was granted, but may ask for a session again.  *)
AfterClose(cmd, h) == IF cmd = "CLOSE_SESSION" THEN "no" ELSE h

SmcBegin(c, cmd) ==
  /\ MayStart(c)
  /\ cmd = "OPEN_SESSION" \/ holds[c] # "no"
  /\ \/ \E b \in Buffers :
          /\ MemAlloc(b)
          /\ stack' = Append(stack, Frame(c, cmd, b, IF cmd = "OPEN_SESSION" THEN Null ELSE session[c]))
          /\ UNCHANGED holds
     \/ /\ MemFull
        /\ holds' = [holds EXCEPT ![c] = AfterClose(cmd, @)]
        /\ UNCHANGED stack
  /\ UNCHANGED <<cached, shm, session, teeOpen, finalized>>

Running(w) == stack # <<>> /\ Top.world = w
IsRpc(f)   == f.Arg0 = "RPC"

\* ArmCallSmc: into the secure world.  OP-TEE reads the registers and takes
\* note of the buffer that answers its RPC.
ArmCallSmc ==
  /\ Running("normal")
  /\ Top.Arg0 \in {"CALL_WITH_ARG", "CALL_RETURN_FROM_RPC"}
  /\ SetTop([Top EXCEPT !.world = "secure", !.ptr = Null, !.rpc = "none",
                        !.rpcCmd = "none", !.rpcRet = "none"])
  /\ cached' = cached \cup {b \in Buffers : /\ b = Top.ptr
                                            /\ Top.Arg0 = "CALL_RETURN_FROM_RPC"
                                            /\ \/ Top.rpc = "ALLOC"
                                               \/ Top.rpcCmd = "SHM_ALLOC" /\ Top.rpcRet = "SUCCESS"}
  /\ UNCHANGED <<live, lost, client, teeOpen, finalized>>

-------------------------------------------------------------------------------
(* OpteeRpcCallback: the register and message effects of each RPC.  Every    *)
(* branch ends with Arg0 = OPTEE_SMC_CALL_RETURN_FROM_RPC.                   *)
ResumeKeepsArg0(f) == SetTop(f)   \* faulty variant: Arg0 is not set
Resume(f) == SetTop([f EXCEPT !.Arg0 = "CALL_RETURN_FROM_RPC"])

\* Arg1 holds the size on entry; it is overwritten by the address on success
\* only.
OpteeRpcAlloc ==
  /\ Top.rpc = "ALLOC"
  /\ \/ Top.ptr = Null /\ Resume(Top) /\ UNCHANGED <<live, lost>>
     \/ /\ Top.ptr # Null
        /\ \E b \in Buffers : MemAlloc(b) /\ Resume([Top EXCEPT !.ptr = b])
     \/ Top.ptr # Null /\ MemFull /\ Resume(Top)

\* A free that fails is not reported to OP-TEE, which has dropped the buffer.
OpteeRpcFree ==
  /\ Top.rpc = "FREE"
  /\ MemFreeOrLose(Top.ptr)
  /\ Resume(Top)

Answer(code) == Resume([Top EXCEPT !.rpcRet = code])

\* A request with other parameters than the protocol's is refused.  One for an
\* unsupported type of memory goes on after the switch: the buffer is allocated
\* and put into the message, but the answer is BAD_PARAMETERS, so that OP-TEE
\* does not take it.
OpteeRpcCmdShmAlloc ==
  /\ Top.rpcCmd = "SHM_ALLOC"
  /\ \/ Answer("BAD_PARAMETERS") /\ UNCHANGED <<live, lost>>
     \/ \E b \in Buffers : /\ MemAlloc(b)
                           /\ Resume([Top EXCEPT !.ptr = b, !.rpcRet = "SUCCESS"])
     \/ \E b \in Buffers \ live : /\ live' = live \cup {b} /\ lost' = lost \cup {b}
                                  /\ Resume([Top EXCEPT !.ptr = b, !.rpcRet = "BAD_PARAMETERS"])
     \/ MemFull /\ Answer("OUT_OF_MEMORY")

\* The same checks; an unsupported type is reported, but the buffer is freed.
OpteeRpcCmdShmFree ==
  /\ Top.rpcCmd = "SHM_FREE"
  /\ \/ MemFree(Top.ptr) /\ \E code \in {"SUCCESS", "BAD_PARAMETERS"} : Answer(code)
     \/ Lose(Top.ptr) /\ \E code \in {"BAD_PARAMETERS", "BAD_STATE"} : Answer(code)

\* LOAD_TA, RPMB, GET_TIME and WAIT_QUEUE touch no state of the client library
\* and answer with a code; a wait-queue request returns at once.
OpteeRpcCmdService ==
  /\ Top.rpcCmd \in {"LOAD_TA", "RPMB", "GET_TIME", "WAIT_QUEUE"}
  /\ \E code \in [LOAD_TA    |-> {"SUCCESS", "BAD_PARAMETERS", "ITEM_NOT_FOUND"},
                  RPMB       |-> {"SUCCESS", "BAD_PARAMETERS", "NOT_SUPPORTED", "GENERIC"},
                  GET_TIME   |-> {"SUCCESS", "BAD_PARAMETERS"},
                  WAIT_QUEUE |-> {"SUCCESS", "BAD_PARAMETERS", "NOT_IMPLEMENTED"}][Top.rpcCmd] :
       Answer(code)
  /\ UNCHANGED <<live, lost>>

OpteeRpcUnsupported ==
  /\ \/ Top.rpcCmd = "OTHER" /\ Answer("NOT_IMPLEMENTED")
     \/ Top.rpc \in {"OTHER", "FOREIGN_INTR"} /\ Resume(Top)
  /\ UNCHANGED <<live, lost>>

OpteeRpcCallback ==
  /\ Running("normal") /\ IsRpc(Top)
  /\ \/ OpteeRpcAlloc \/ OpteeRpcFree
     \/ OpteeRpcCmdShmAlloc \/ OpteeRpcCmdShmFree \/ OpteeRpcCmdService
     \/ OpteeRpcUnsupported
  /\ UNCHANGED <<cached, client, teeOpen, finalized>>

-------------------------------------------------------------------------------
(* The end of OpteeSmcCall's loop and of the TEEC_SMC functions: look at     *)
(* Arg0, read the message, free it, whether or not the free succeeds.        *)
\* OpenSession takes the identifier over whatever the trusted application
\* answered: a refusal leaves 0, also where there was a session.  A client that
\* had one goes on with it (Tpm2DeviceLibOptee.c:177 keeps Initialized).
Opens(f) == f.cmd = "OPEN_SESSION" /\ f.Arg0 = "OK"

AfterCall(f, h) ==
  IF Opens(f) /\ f.ret = "SUCCESS" THEN "open"
  ELSE IF Opens(f) /\ h # "no" THEN "refused"
  ELSE AfterClose(f.cmd, h)

\* Faulty variants: the message is freed only when the SMC succeeded; the
\* session is taken over before the result of the SMC is looked at.
SmcEndLeaks ==
  /\ Running("normal")
  /\ Top.Arg0 \in {"OK", "UNKNOWN_FUNCTION", "ETHREAD_LIMIT"}
  /\ session' = IF Opens(Top) THEN [session EXCEPT ![Top.client] = Top.sid] ELSE session
  /\ holds' = [holds EXCEPT ![Top.client] = AfterCall(Top, @)]
  /\ IF Top.Arg0 = "OK" THEN MemFree(Top.arg) ELSE UNCHANGED <<live, lost>>
  /\ Pop
  /\ UNCHANGED <<cached, shm, teeOpen, finalized>>
SmcEndUnchecked ==
  /\ Running("normal")
  /\ Top.Arg0 \in {"OK", "UNKNOWN_FUNCTION", "ETHREAD_LIMIT"}
  /\ session' = IF Top.cmd = "OPEN_SESSION" THEN [session EXCEPT ![Top.client] = Top.sid] ELSE session
  /\ holds' = [holds EXCEPT ![Top.client] = AfterCall(Top, @)]
  /\ MemFree(Top.arg)
  /\ Pop
  /\ UNCHANGED <<cached, shm, teeOpen, finalized>>

SmcEnd ==
  /\ Running("normal")
  /\ Top.Arg0 \in {"OK", "UNKNOWN_FUNCTION", "ETHREAD_LIMIT"}
  /\ session' = IF Opens(Top) THEN [session EXCEPT ![Top.client] = Top.sid] ELSE session
  /\ holds' = [holds EXCEPT ![Top.client] = AfterCall(Top, @)]
  /\ MemFreeOrLose(Top.arg)
  /\ Pop
  /\ UNCHANGED <<cached, shm, teeOpen, finalized>>

-------------------------------------------------------------------------------
(* External: OP-TEE, as the headers under Optee/ describe it.                *)
(* A thread of its own serves each call; a call that finds none is refused.  *)
TeeAccepts == Top.Arg0 = "CALL_RETURN_FROM_RPC" \/ \E n \in Threads : Len(stack) <= n
TeeMayBeFull == \E n \in Threads : Len(stack) > n

\* Where no trusted OS is present the SMC is unknown.
TeeRefuse ==
  /\ Running("secure") /\ Top.Arg0 = "CALL_WITH_ARG"
  /\ \E code \in {"UNKNOWN_FUNCTION", "ETHREAD_LIMIT"} :
       /\ IF code = "ETHREAD_LIMIT" THEN TeeMayBeFull ELSE teeOpen = {} /\ cached = {}
       /\ SetTop([Top EXCEPT !.world = "normal", !.Arg0 = code])
  /\ UNCHANGED <<live, cached, lost, client, teeOpen, finalized>>

\* OP-TEE asks for memory, gives back a buffer it holds, or sends a command.
TeeRpc ==
  /\ Running("secure") /\ TeeAccepts
  /\ Top.rpcs < MaxRpcs
  /\ \E fn \in RpcFuncs, cmd \in RpcCmds \cup {"none"}, p \in cached \cup {Null, "size"} :
       /\ (fn = "CMD") = (cmd # "none")
       /\ fn = "FREE" \/ cmd = "SHM_FREE" <=> p \in cached
       /\ p = Null => fn = "ALLOC"
       /\ SetTop([Top EXCEPT !.world = "normal", !.Arg0 = "RPC", !.ptr = p, !.rpc = fn,
                             !.rpcCmd = cmd, !.rpcs = @ + 1])
       /\ cached' = cached \ {p}
  /\ UNCHANGED <<live, lost, client, teeOpen, finalized>>

\* The call completes: a session is granted under an unused identifier, used and
\* closed under the one in the message; or the call is refused, always when
\* there is no such session.
TeeDone(code, sid) == SetTop([Top EXCEPT !.world = "normal", !.Arg0 = "OK", !.ret = code, !.sid = sid])

TeeReturn ==
  /\ Running("secure") /\ TeeAccepts
  /\ \/ /\ Top.cmd = "OPEN_SESSION"
        /\ \E s \in Sessions \ teeOpen : TeeDone("SUCCESS", s) /\ teeOpen' = teeOpen \cup {s}
     \/ /\ Top.cmd = "CLOSE_SESSION" /\ Top.sid \in teeOpen
        /\ TeeDone("SUCCESS", Top.sid) /\ teeOpen' = teeOpen \ {Top.sid}
     \/ /\ Top.cmd = "INVOKE_COMMAND" /\ Top.sid \in teeOpen
        /\ TeeDone("SUCCESS", Top.sid) /\ UNCHANGED teeOpen
     \/ /\ Top.cmd # "CLOSE_SESSION" \/ Top.sid \notin teeOpen
        /\ TeeDone("ACCESS_DENIED", Top.sid) /\ UNCHANGED teeOpen
  /\ UNCHANGED <<live, cached, lost, client, finalized>>

-------------------------------------------------------------------------------
NormalWorld == ArmCallSmc \/ OpteeRpcCallback \/ SmcEnd
SecureWorld == TeeRefuse \/ TeeRpc \/ TeeReturn

Next ==
  \/ \E c \in Clients : \/ TEEC_AllocateSharedMemory(c)
                        \/ TEEC_ReleaseSharedMemory(c)
                        \/ OpteeClientApiFinalize(c)
                        \/ \E cmd \in Calls : SmcBegin(c, cmd)
  \/ NormalWorld
  \/ SecureWorld

Spec == Init /\ [][Next]_vars

\* The call on top runs on, OP-TEE serves what it is asked, and a call that was
\* interrupted gets the processor back between the events that interrupt it.
FairSpec ==
  /\ Spec
  /\ WF_vars(SecureWorld)
  /\ \A d \in 1 .. Cardinality(Clients) : SF_vars(Len(stack) = d /\ NormalWorld)

-------------------------------------------------------------------------------
\* The buffer a call carries between the worlds: one OP-TEE gives back, or one
\* that answers its request.
InTransit(f) ==
  {b \in Buffers : /\ b = f.ptr /\ f.world = "normal"
                   /\ \/ f.Arg0 = "RPC" /\ (f.rpc = "FREE" \/ f.rpcCmd = "SHM_FREE")
                      \/ /\ f.Arg0 = "CALL_RETURN_FROM_RPC"
                         /\ \/ f.rpc = "ALLOC"
                            \/ f.rpcCmd = "SHM_ALLOC" /\ f.rpcRet = "SUCCESS"}

CallBuffers(f) == {f.arg} \cup InTransit(f)
ClientBuffers  == {shm[c] : c \in Clients} \ {Null}

\* Buffers outside the client library: those OP-TEE holds and those that are lost.
Outside == cached \cup lost

\* Every allocated buffer has exactly one owner: the message of a call in
\* progress, an RPC on its way, a client, OP-TEE, or nobody once it is lost.  It
\* is lost only where the code gives up on it: a free of the GCD fails for its
\* last owner, or a request of OP-TEE about it is refused
\* (OpteeClientRPC.c:520-523, 569-590).  So no path of the TEEC_SMC functions and
\* of OpteeRpcCallback otherwise leaks a buffer, and none frees one in use or
\* twice, whichever call fails and whichever interrupts which.
OneOwner ==
  /\ live = (UNION {CallBuffers(stack[k]) : k \in 1 .. Len(stack)}) \cup ClientBuffers \cup Outside
  /\ \A k, m \in 1 .. Len(stack) : k # m => CallBuffers(stack[k]) \cap CallBuffers(stack[m]) = {}
  /\ \A k \in 1 .. Len(stack) : /\ CallBuffers(stack[k]) \cap (ClientBuffers \cup Outside) = {}
                                /\ stack[k].arg \notin InTransit(stack[k])
  /\ ClientBuffers \cap Outside = {}
  /\ \A c, d \in Clients : shm[c] = shm[d] /\ shm[c] # Null => c = d
  /\ cached \cap lost = {}

\* A client whose last request for a session was granted, and that has no call in
\* progress, holds one that OP-TEE still serves and no other such client holds: a
\* request that did not reach OP-TEE leaves the session in use, and no
\* interrupting call closes another's.  A client that asks again and is refused
\* by OP-TEE is left with identifier 0 (OpteeClientSMC.c:137).
SessionServed ==
  \A c \in Clients : holds[c] = "open" /\ Idle(c) =>
    /\ session[c] \in teeOpen
    /\ \A d \in Clients \ {c} : holds[d] = "open" /\ Idle(d) => session[d] # session[c]

\* Every call into OP-TEE comes back to its caller, however many RPCs OP-TEE
\* makes on the way and whatever interrupts it.
CallsReturn == \A c \in Clients : ~Idle(c) ~> Idle(c)

\* optee_smc.h: an RPC_ALLOC is answered with a null pointer "if size was 0 or
\* if memory can't be allocated"; otherwise with the buffer OpteeRpcAlloc got.
RpcAllocAnswered ==
  \A k \in 1 .. Len(stack) :
    stack[k].rpc = "ALLOC" /\ stack[k].Arg0 = "CALL_RETURN_FROM_RPC"
      => stack[k].ptr \in live \cup {Null}
===============================================================================
