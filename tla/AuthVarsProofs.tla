----------------------------- MODULE AuthVarsProofs ----------------------------
(*****************************************************************************)
(* Proofs about the authenticated variable driver: what its services answer, *)
(* what it measures, with what it starts Secure Boot, and when it touches    *)
(* the transport buffers.                                                    *)
(*****************************************************************************)
EXTENDS AuthVars, ListLemmas

Bits      == Seq({0, 1})
Labels    == {"begin", "invoke", "take", "hooked", "probed", "fetched", "measure", "open", "opened",
              "vars", "write", "event", "pk", "setup", "enable", "created", "mode", "custom", "end"}
Attrs     == {"none", "plain", "auth", "append", "zero", "some", "user", "setup"}
Statuses  == {"none", "OK", "NotFound", "BufferTooSmall", "OutOfResources", "SecurityViolation",
              "ProtocolError"}
FrameType ==
  [fn : Services \cup {"init", "secureboot", "hook"}, at : Labels,
   name : Names \cup Odd \cup {"none"}, size : Int, data : Bits, attr : Attrs,
   st : Statuses, rsize : Int, cb : BOOLEAN, dirty : BOOLEAN]
DrvType ==
  [session : BOOLEAN, sid : Int, param : BOOLEAN, result : BOOLEAN, api : BOOLEAN,
   services : BOOLEAN, arch : BOOLEAN, write : BOOLEAN, event : BOOLEAN, runtime : BOOLEAN]

AuthTypeOK ==
  /\ stack \in Seq(FrameType)
  /\ drv \in DrvType
  /\ store \in [Names -> Bits]
  /\ pbuf.data \in Bits /\ rbuf.data \in Bits
  /\ ret.data \in Bits /\ ret.size \in Int
  /\ pcr \in [Policy -> Seq({0, 1, 2})] /\ changed \subseteq Policy
  /\ calls \in Nat /\ callbacks \in Nat /\ faults \in Nat

-------------------------------------------------------------------------------
(* The stack and the buffers.                                                *)

\* A service between filling the parameter buffer and taking its result.
InBuffers(f) == f.fn \in Services /\ f.at \in {"invoke", "take"}

\* The entry point has no caller; a service that has filled the buffer has a session;
\* whoever runs on top of a service that uses the buffers is a callback.
StackInv ==
  /\ \A k \in 1 .. Len(stack) :
       /\ stack[k].fn = "init" => k = 1
       /\ stack[k].at = "invoke" => drv.session
       /\ stack[k].dirty => callbacks > 0
  /\ \A k \in 1 .. Len(stack) - 1 : InBuffers(stack[k]) => stack[k].dirty

\* A session comes with both buffers, unless the driver failed to start.
DriverInv ==
  /\ phase = "failed" => stack = <<>>
  /\ drv.session /\ phase # "failed" => drv.param /\ drv.result

\* What the buffers p and r say about the call f that nobody interrupted, when the TA
\* stores s and bad tells whether something has failed or the session is not OP-TEE's.
Filled(f, p) == p = [op |-> f.fn, name |-> f.name, data |-> f.data, attr |-> f.attr]
GotInv(f, r, s, bad) ==
  /\ f.st = "OK" => r.data = s[f.name] /\ Len(r.data) <= f.size /\ r.data # <<>>
  /\ f.st = "BufferTooSmall" => f.rsize = GetHeader + Len(s[f.name]) /\ Len(s[f.name]) > f.size
  /\ f.st = "NotFound" => s[f.name] = <<>>
  /\ f.st \notin {"OK", "BufferTooSmall", "NotFound"} => bad
BuffersInv(f, p, r, s, bad) ==
  InBuffers(f) /\ ~f.dirty =>
    /\ f.at = "invoke" => Filled(f, p)
    /\ f.at = "take" /\ f.fn = "get" /\ f.name \in Names => GotInv(f, r, s, bad)
    /\ f.at = "take" /\ f.fn = "set" /\ f.name \in Names /\ f.attr = "plain" /\ f.st = "OK" =>
         s[f.name] = f.data
Bad == faults > 0 \/ ~Served
TopInv == stack # <<>> => BuffersInv(stack[Len(stack)], pbuf, rbuf, store, Bad)

CallsInv == AuthTypeOK /\ StackInv /\ DriverInv /\ TopInv /\ AnswersAreStored

-------------------------------------------------------------------------------
(* Measurements.  As long as nothing failed and no callback came in between. *)

Fits == \A n \in Names : Len(store[n]) <= MaxData + 1

\* The calls a service makes once the driver can measure.
HookShape ==
  /\ Len(stack) <= 3
  /\ \A k \in 1 .. Len(stack) :
       stack[k].fn = "set" /\ stack[k].at # "begin" => drv.session /\ ~drv.runtime
  /\ \A k \in 1 .. Len(stack) :
       stack[k].fn = "set" /\ stack[k].at = "take" /\ stack[k].st = "OK" => Served
  /\ Len(stack) >= 2 => Served
  /\ Len(stack) >= 1 => stack[1].fn \in Services \cup {"init"}
  /\ Len(stack) >= 1 /\ stack[1].fn = "init" => stack[1].at \in {"write", "event"} /\ Len(stack) = 1
  /\ Len(stack) >= 2 => /\ stack[1].fn = "set" /\ stack[1].at = "hooked"
                        /\ stack[2].fn = "hook" /\ stack[2].name \in Policy
  /\ Len(stack) = 3 => /\ stack[3].fn = "get" /\ stack[3].name = stack[2].name
                       /\ stack[2].at \in {"probed", "fetched"}
                       /\ stack[2].at = "probed" => stack[3].size = 0
                       /\ stack[2].at = "fetched" => stack[3].size = Len(store[stack[2].name])

\* What the hook on top knows of the variable.
HookKnows(h) ==
  /\ h.at = "probed" => IF ret.s = "BufferTooSmall" THEN ret.size = Len(store[h.name])
                                                   ELSE store[h.name] = <<>>
  /\ h.at = "fetched" => IF ret.s = "OK" THEN ret.data = store[h.name] ELSE store[h.name] = <<>>
  /\ h.at = "measure" => h.data = store[h.name]
  /\ h.at \in {"begin", "probed", "fetched", "measure"}

\* A variable not measured yet is the one a call in progress is about to measure.
Pending(n) ==
  \/ /\ Len(stack) = 1 /\ stack[1].fn = "set" /\ stack[1].at = "take" 
     /\ stack[1].st = "OK" /\ stack[1].name = n
  \/ Len(stack) >= 2 /\ stack[2].name = n

HookInv ==
  /\ HookShape
  /\ Len(stack) = 2 => HookKnows(stack[2])
  /\ \A n \in changed : pcr[n] = store[n] \/ Pending(n)

Calm == drv.arch /\ faults = 0 /\ callbacks = 0

MeasureInv == Fits /\ (~drv.arch => changed = {}) /\ (Calm => HookInv)

-------------------------------------------------------------------------------
(* The start with or without Secure Boot.                                    *)

Good ==
  /\ store["SecureBoot"] = On => store["PK"] # <<>> /\ store["SecureBootEnable"] = On
  /\ store["SetupMode"] = Off => store["PK"] # <<>>
  /\ faults = 0 =>
       (store["SecureBoot"] = On <=> store["PK"] # <<>> /\ store["SecureBootEnable"] = On)

\* The call InitSecureBootVariables makes at a label.
StartCall(f, g) ==
  CASE f.at = "pk"      -> g.fn = "get" /\ g.name = "PK" /\ g.size = 1
    [] f.at = "setup"   -> g.fn = "set" /\ g.name = "SetupMode"
                           /\ g.data = (IF f.attr = "user" THEN Off ELSE On)
    [] f.at = "enable"  -> g.fn = "get" /\ g.name = "SecureBootEnable" /\ g.size = 1
    [] f.at = "created" -> g.fn = "set" /\ g.name = "SecureBootEnable" /\ g.data = f.data
    [] f.at = "custom"  -> g.fn = "set" /\ g.name = "SecureBoot"
                           /\ g.data = Mode(f.data = On /\ f.attr = "user")
    [] f.at = "end"     -> g.fn = "set" /\ g.name = "CustomMode"
    [] OTHER            -> FALSE

\* What InitSecureBootVariables knows when the call it made at a label has returned.
StartKnows(f) ==
  /\ f.at = "pk" /\ ret.s = "BufferTooSmall" => store["PK"] # <<>>
  /\ f.at = "pk" /\ ret.s # "BufferTooSmall" /\ faults = 0 => store["PK"] = <<>>
  /\ f.at = "enable" /\ ret.s = "OK" => ret.data = store["SecureBootEnable"]
  /\ f.at = "created" /\ ret.s = "OK" => store["SecureBootEnable"] = f.data
  /\ f.at = "mode" /\ f.attr = "user" => store["SecureBootEnable"] = f.data
  /\ f.at = "custom" /\ ret.s = "OK" => store["SecureBoot"] = Mode(f.data = On /\ f.attr = "user")

StartLocals(f) ==
  /\ f.at \in {"begin", "pk", "setup", "enable", "created", "mode", "custom", "end"}
  /\ f.at \in {"begin", "pk", "setup", "enable", "created", "mode"} => store["SecureBoot"] = <<>>
  /\ f.at \in {"begin", "pk"} => store["SetupMode"] = <<>>
  /\ f.at \notin {"begin", "pk"} =>
       /\ f.attr \in {"user", "setup"}
       /\ f.attr = "user" => store["PK"] # <<>>
       /\ f.attr = "setup" /\ faults = 0 => store["PK"] = <<>>
  /\ f.at = "created" => f.data \in {Off, On}
  /\ f.at \in {"custom", "end"} /\ f.attr = "user" => store["SecureBootEnable"] = f.data
  /\ f.at = "custom" /\ store["SecureBoot"] = On => f.data = On /\ f.attr = "user"
  /\ f.at = "end" => Good

StartShape ==
  /\ ~drv.runtime /\ Len(stack) \in 1 .. 3
  /\ stack[1].fn = "init"
  /\ stack[1].at \in {"begin", "open", "opened", "vars", "write", "event"}
  /\ Len(stack) >= 2 => stack[1].at = "vars" /\ stack[2].fn = "secureboot"
  /\ Len(stack) = 3 => StartCall(stack[2], stack[3]) /\ (stack[3].fn = "set" => stack[3].attr = "plain")
                       /\ stack[3].at \in {"begin", "invoke", "take"}
  /\ stack[1].at \in {"begin", "open", "opened", "vars"} => ~drv.arch
  /\ stack[1].at \notin {"begin", "open"} => drv.session /\ Served

StartOK ==
  /\ calls = 0 /\ callbacks = 0 /\ StartShape
  /\ Len(store["PK"]) # 1 /\ Len(store["SecureBootEnable"]) <= 1
  /\ store["SetupMode"] = Off => store["PK"] # <<>>
  /\ stack[1].at \in {"begin", "open", "opened"} =>
       store["SetupMode"] = <<>> /\ store["SecureBoot"] = <<>>
  /\ Len(stack) >= 2 => StartLocals(stack[2])
  /\ Len(stack) = 2 => StartKnows(stack[2])
  /\ Len(stack) = 1 /\ stack[1].at = "vars" /\ ret.s = "OK" => Good
  /\ stack[1].at \in {"write", "event"} => Good

StartInv ==
  /\ phase = "init" => StartOK
  /\ phase # "init" /\ calls = 0 => stack = <<>>
  /\ phase = "boot" /\ calls = 0 => Good

-------------------------------------------------------------------------------
(* The moves of the stack.                                                   *)

SameBelow == \A k \in 1 .. Len(stack) - 1 : stack'[k] = stack[k]
Popped == stack' \in Seq(FrameType) /\ Len(stack') = Len(stack) - 1 /\ SameBelow
Moved(f) ==
  /\ stack' \in Seq(FrameType) /\ Len(stack') = Len(stack) /\ SameBelow
  /\ stack'[Len(stack)] = f /\ f \in FrameType
Called(f, g) ==
  /\ stack' \in Seq(FrameType) /\ Len(stack') = Len(stack) + 1 /\ SameBelow
  /\ stack'[Len(stack)] = f /\ stack'[Len(stack) + 1] = g
  /\ f \in FrameType /\ g \in FrameType

\* A call in progress has a frame on top.
LEMMA TopFacts ==
  ASSUME AuthTypeOK, Running
  PROVE  Top \in FrameType /\ Top = stack[Len(stack)] /\ Len(stack) \in Nat \ {0}
BY StackTop DEF AuthTypeOK, Running, Top

\* A return pops the frame of the call.
LEMMA PopMove ==
  ASSUME AuthTypeOK, Running, stack' = Below
  PROVE  Popped
BY StackPop DEF AuthTypeOK, Running, Below, Popped, SameBelow

\* A step within a call changes its frame.
LEMMA RetopMove ==
  ASSUME AuthTypeOK, Running, NEW f \in FrameType, stack' = Append(Below, f)
  PROVE  Moved(f)
<1>1. /\ Below \in Seq(FrameType) /\ Len(Below) = Len(stack) - 1 /\ Len(stack) \in Nat \ {0}
      /\ \A k \in 1 .. Len(stack) - 1 : Below[k] = stack[k]
  BY StackPop DEF AuthTypeOK, Running, Below
<1>2. /\ stack' \in Seq(FrameType) /\ Len(stack') = Len(Below) + 1
      /\ stack'[Len(Below) + 1] = f /\ \A k \in 1 .. Len(Below) : stack'[k] = Below[k]
  BY <1>1, StackPush
<1>3. Len(Below) + 1 = Len(stack)
  BY <1>1
<1> QED  BY <1>1, <1>2, <1>3, Zenon DEF Moved, SameBelow

\* A call changes the caller's frame and pushes one.
LEMMA CallMove ==
  ASSUME AuthTypeOK, Running, NEW f \in FrameType, NEW g \in FrameType, stack' = Below \o <<f, g>>
  PROVE  Called(f, g)
<1>1. /\ Below \in Seq(FrameType) /\ Len(Below) = Len(stack) - 1 /\ Len(stack) \in Nat \ {0}
      /\ \A k \in 1 .. Len(stack) - 1 : Below[k] = stack[k]
  BY StackPop DEF AuthTypeOK, Running, Below
<1>2. <<f, g>> \in Seq(FrameType) /\ Len(<<f, g>>) = 2 /\ <<f, g>>[1] = f /\ <<f, g>>[2] = g
  OBVIOUS
<1>3. /\ stack' \in Seq(FrameType) /\ Len(stack') = Len(Below) + 2
      /\ \A i \in 1 .. Len(stack') :
           stack'[i] = IF i <= Len(Below) THEN Below[i] ELSE <<f, g>>[i - Len(Below)]
  BY <1>1, <1>2, ConcatProperties
<1>4. Len(stack') = Len(stack) + 1
  BY <1>1, <1>3
<1>5. stack'[Len(stack)] = f /\ stack'[Len(stack) + 1] = g
  <2>1. Len(stack) \in 1 .. Len(stack') /\ ~(Len(stack) <= Len(Below)) /\ Len(stack) - Len(Below) = 1
    BY <1>1, <1>3
  <2>2. /\ Len(stack) + 1 \in 1 .. Len(stack') /\ ~(Len(stack) + 1 <= Len(Below))
        /\ (Len(stack) + 1) - Len(Below) = 2
    BY <1>1, <1>3
  <2>3. stack'[Len(stack)] = <<f, g>>[Len(stack) - Len(Below)]
    BY <2>1, <1>3, Zenon
  <2>4. stack'[Len(stack) + 1] = <<f, g>>[(Len(stack) + 1) - Len(Below)]
    BY <2>2, <1>3, Zenon
  <2> QED  BY <2>1, <2>2, <2>3, <2>4, <1>2, Zenon
<1>6. SameBelow
  BY <1>1, <1>3 DEF SameBelow
<1> QED  BY <1>3, <1>4, <1>5, <1>6 DEF Called

-------------------------------------------------------------------------------
(* Frames.                                                                   *)

\* Two frames of one call: what the code never changes in it.
SameCall(f, t) == /\ f.fn = t.fn /\ f.name = t.name /\ f.size = t.size /\ f.cb = t.cb
                  /\ f.dirty = t.dirty /\ f \in FrameType

\* A jump.
LEMMA FrameAt ==
  ASSUME NEW t \in FrameType, NEW l \in Labels
  PROVE  LET f == [t EXCEPT !.at = l]
         IN SameCall(f, t) /\ f.at = l /\ f.data = t.data /\ f.attr = t.attr
BY DEF FrameType, SameCall

\* The frame after the TA returned, and with the locals of InitSecureBootVariables.
TakeFrame(t, s, size) == [t EXCEPT !.at = "take", !.st = s, !.rsize = size]
LocalsFrame(t, l, a, d) == [t EXCEPT !.at = l, !.attr = a, !.data = d]

\* The return of the TA.
LEMMA FrameTake ==
  ASSUME NEW t \in FrameType, NEW s \in Statuses, NEW size \in Int
  PROVE  LET f == TakeFrame(t, s, size)
         IN /\ SameCall(f, t) /\ f.at = "take" /\ f.data = t.data /\ f.attr = t.attr
            /\ f.st = s /\ f.rsize = size
<1>1. \A l \in Labels : LET h == [t EXCEPT !.at = l, !.st = s, !.rsize = size]
                       IN /\ SameCall(h, t) /\ h.at = l /\ h.data = t.data /\ h.attr = t.attr
                          /\ h.st = s /\ h.rsize = size
  BY DEF FrameType, SameCall
<1> QED  BY <1>1, Zenon DEF Labels, TakeFrame

\* What the hook will measure.
LEMMA FrameData ==
  ASSUME NEW t \in FrameType, NEW d \in Bits
  PROVE  LET f == [t EXCEPT !.at = "measure", !.data = d]
         IN SameCall(f, t) /\ f.at = "measure" /\ f.data = d
<1>1. \A l \in Labels : LET f == [t EXCEPT !.at = l, !.data = d]
                       IN SameCall(f, t) /\ f.at = l /\ f.data = d
  BY DEF FrameType, SameCall
<1> QED  BY <1>1, Zenon DEF Labels

\* The locals of InitSecureBootVariables.
LEMMA FrameLocals ==
  ASSUME NEW t \in FrameType, NEW l \in Labels, NEW a \in Attrs, NEW d \in Bits
  PROVE  LET f == LocalsFrame(t, l, a, d)
         IN SameCall(f, t) /\ f.at = l /\ f.data = d /\ f.attr = a
BY DEF FrameType, SameCall, LocalsFrame

\* A new call.
NewCall(f, fn, n, size, d, a) ==
  /\ f \in FrameType /\ f.fn = fn /\ f.at = "begin" /\ f.name = n /\ f.size = size
  /\ f.data = d /\ f.attr = a /\ ~f.dirty /\ ~f.cb

\* The frame of a call is one.
LEMMA FrameNew ==
  ASSUME NEW fn \in Services \cup {"init", "secureboot", "hook"}, NEW n \in Names \cup Odd \cup {"none"},
         NEW size \in Int, NEW d \in Bits, NEW a \in Attrs
  PROVE  NewCall(Frame(fn, n, size, d, a), fn, n, size, d, a)
<1>1. \A l \in Labels, s \in Statuses, b \in BOOLEAN :
        LET f == [fn |-> fn, at |-> l, name |-> n, size |-> size, data |-> d, attr |-> a,
                  st |-> s, rsize |-> 0, cb |-> b, dirty |-> b]
        IN /\ f \in FrameType /\ f.fn = fn /\ f.at = l /\ f.name = n /\ f.size = size
           /\ f.data = d /\ f.attr = a /\ f.dirty = b /\ f.cb = b
  BY DEF FrameType
<1>2. "begin" \in Labels /\ "none" \in Statuses
  BY DEF Labels, Statuses
<1> QED  BY <1>1, <1>2, Zenon DEF Frame, NewCall

-------------------------------------------------------------------------------
(* What a move does to the invariant of the stack and of the buffers.        *)

\* What the steps have in common.
Steady == callbacks' = callbacks /\ (drv.session => drv'.session)

\* After a return the caller is on top, and a service in the buffers is dirty.
LEMMA PopKeeps ==
  ASSUME AuthTypeOK, StackInv, Running, Popped, Steady
  PROVE  StackInv' /\ TopInv'
<1> DEFINE n == Len(stack)
<1>1. n \in Nat \ {0} /\ Len(stack') = n - 1 /\ \A k \in 1 .. n - 1 : stack'[k] = stack[k]
  BY TopFacts DEF Popped, SameBelow
<1>2. /\ \A k \in 1 .. n : /\ stack[k].fn = "init" => k = 1
                           /\ stack[k].at = "invoke" => drv.session
                           /\ stack[k].dirty => callbacks > 0
      /\ \A k \in 1 .. n - 1 : InBuffers(stack[k]) => stack[k].dirty
  BY DEF StackInv
<1> HIDE DEF n
<1>3. \A k \in 1 .. n - 1 : k \in 1 .. n
  BY <1>1
<1>4. \A k \in 1 .. (n - 1) - 1 : k \in 1 .. n - 1
  BY <1>1
<1>5. StackInv'
  BY <1>1, <1>2, <1>3, <1>4, Zenon DEF StackInv, Steady, InBuffers
<1>6. TopInv'
  <2>1. SUFFICES ASSUME stack' # <<>>
                 PROVE  BuffersInv(stack'[Len(stack')], pbuf', rbuf', store', Bad')
    BY DEF TopInv, BuffersInv, GotInv, Filled, InBuffers
  <2>2. Len(stack') \in 1 .. n - 1
    BY <2>1, <1>1, StackTop DEF Popped
  <2>3. stack'[Len(stack')] = stack[Len(stack')]
    BY <2>2, <1>1
  <2> QED  BY <2>2, <2>3, <1>2 DEF BuffersInv
<1> QED  BY <1>5, <1>6

\* Below the top nothing changes.
LEMMA BelowKeeps ==
  ASSUME AuthTypeOK, StackInv, Running, SameBelow, Steady, NEW k \in 1 .. Len(stack) - 1
  PROVE  /\ stack'[k].fn = "init" => k = 1
         /\ stack'[k].at = "invoke" => drv'.session
         /\ stack'[k].dirty => callbacks' > 0
         /\ InBuffers(stack'[k]) => stack'[k].dirty
<1>1. k \in 1 .. Len(stack) /\ stack'[k] = stack[k]
  BY TopFacts DEF SameBelow
<1> QED  BY <1>1, Zenon DEF StackInv, Steady

\* A step of the call on top.
LEMMA RetopKeeps ==
  ASSUME AuthTypeOK, StackInv, Running, Steady, NEW f, Moved(f), f.fn = Top.fn, f.dirty = Top.dirty,
         f.at = "invoke" => drv'.session, BuffersInv(f, pbuf', rbuf', store', Bad')
  PROVE  StackInv' /\ TopInv'
<1> DEFINE n == Len(stack)
<1>1. n \in Nat \ {0} /\ Len(stack') = n /\ stack'[n] = f /\ SameBelow /\ Top = stack[n]
  BY TopFacts DEF Moved
<1>2. \A k \in 1 .. n - 1 : /\ stack'[k].fn = "init" => k = 1
                            /\ stack'[k].at = "invoke" => drv'.session
                            /\ stack'[k].dirty => callbacks' > 0
                            /\ InBuffers(stack'[k]) => stack'[k].dirty
  BY <1>1, BelowKeeps
<1>3. /\ f.fn = "init" => n = 1
      /\ f.dirty => callbacks' > 0
  <2>1. n \in 1 .. n
    BY <1>1
  <2> QED  BY <2>1, <1>1, Zenon DEF StackInv, Steady
<1> HIDE DEF n
<1>4. \A k \in 1 .. n : k = n \/ k \in 1 .. n - 1
  BY <1>1
<1>5. StackInv'
  BY <1>1, <1>2, <1>3, <1>4, Zenon DEF StackInv, InBuffers
<1>6. TopInv'
  BY <1>1, Zenon DEF TopInv, BuffersInv, GotInv, Filled, InBuffers
<1> QED  BY <1>5, <1>6

\* A call of the call on top, which does not use the buffers while it waits.
LEMMA CallKeeps ==
  ASSUME AuthTypeOK, StackInv, Running, Steady, NEW f, NEW g, Called(f, g),
         f.fn = Top.fn, f.dirty = Top.dirty, f.at \notin {"invoke", "take"},
         g.fn # "init", g.at = "begin", ~g.dirty
  PROVE  StackInv' /\ TopInv'
<1> DEFINE n == Len(stack)
<1>1. /\ n \in Nat \ {0} /\ Len(stack') = n + 1 /\ stack'[n] = f /\ stack'[n + 1] = g
      /\ SameBelow /\ Top = stack[n]
  BY TopFacts DEF Called
<1>2. \A k \in 1 .. n - 1 : /\ stack'[k].fn = "init" => k = 1
                            /\ stack'[k].at = "invoke" => drv'.session
                            /\ stack'[k].dirty => callbacks' > 0
                            /\ InBuffers(stack'[k]) => stack'[k].dirty
  BY <1>1, BelowKeeps
<1>3. /\ f.fn = "init" => n = 1
      /\ f.dirty => callbacks' > 0
  <2>1. n \in 1 .. n
    BY <1>1
  <2> QED  BY <2>1, <1>1, Zenon DEF StackInv, Steady
<1> HIDE DEF n
<1>4. \A k \in 1 .. n + 1 : k = n \/ k = n + 1 \/ k \in 1 .. n - 1
  BY <1>1
<1>5. \A k \in 1 .. (n + 1) - 1 : k = n \/ k \in 1 .. n - 1
  BY <1>1
<1>6. ~InBuffers(f) /\ ~InBuffers(g) /\ f.at # "invoke" /\ g.at # "invoke"
  BY DEF InBuffers
<1>7. StackInv'
  <2>1. ASSUME NEW k \in 1 .. Len(stack')
        PROVE  /\ stack'[k].fn = "init" => k = 1
               /\ stack'[k].at = "invoke" => drv'.session
               /\ stack'[k].dirty => callbacks' > 0
    BY <1>1, <1>2, <1>3, <1>4, <1>6, Zenon
  <2>2. ASSUME NEW k \in 1 .. Len(stack') - 1
        PROVE  InBuffers(stack'[k]) => stack'[k].dirty
    BY <1>1, <1>2, <1>5, <1>6, Zenon
  <2> QED  BY <2>1, <2>2, Zenon DEF StackInv, InBuffers
<1>8. TopInv'
  BY <1>1, <1>6, Zenon DEF TopInv, BuffersInv, GotInv, Filled, InBuffers
<1> QED  BY <1>7, <1>8

-------------------------------------------------------------------------------
(* The checks of the services.                                               *)

\* The first check that bites decides.
LEMMA FirstFailureFacts ==
  ASSUME NEW c, NEW m \in {4, 5, 6}, DOMAIN c = 1 .. m
  PROVE  \/ FirstFailure(c) = "OK" /\ \A i \in 1 .. m : ~c[i][1]
         \/ \E i \in 1 .. m : c[i][1] /\ FirstFailure(c) = c[i][2] /\ \A j \in 1 .. i - 1 : ~c[j][1]
<1> DEFINE bad == {i \in DOMAIN c : c[i][1]}
<1>1. CASE bad = {}
  BY <1>1 DEF FirstFailure
<1>2. CASE bad # {}
  <2>1. \E x \in bad : \A y \in bad : x <= y
    <3>1. \A i \in bad : i \in {1, 2, 3, 4, 5, 6}
      OBVIOUS
    <3> HIDE DEF bad
    <3> QED  BY <3>1, <1>2
  <2>2. Min(bad) \in bad /\ \A y \in bad : Min(bad) <= y
    BY <2>1, Zenon DEF Min
  <2>3. FirstFailure(c) = c[Min(bad)][2]
    BY <1>2 DEF FirstFailure
  <2>4. \A j \in 1 .. Min(bad) - 1 : j \notin bad /\ j \in DOMAIN c
    <3>1. bad \subseteq 1 .. m
      OBVIOUS
    <3> HIDE DEF bad
    <3>2. Min(bad) \in 1 .. m
      BY <2>2, <3>1
    <3>3. \A x \in 1 .. m : \A j \in 1 .. x - 1 : j \in 1 .. m /\ ~(x <= j)
      OBVIOUS
    <3> QED  BY <2>2, <3>2, <3>3, Zenon
  <2> QED  BY <2>2, <2>3, <2>4
<1> QED  BY <1>1, <1>2

\* What a service that passes its checks can rely on, and why one does not.
LEMMA CheckedFacts ==
  ASSUME AuthTypeOK, NEW f \in FrameType, f.fn \in Services
  PROVE  /\ Checked(f) = "OK" => drv.session /\ ~drv.runtime
         /\ Checked(f) # "BufferTooSmall"
         /\ Checked(f) = "TestHook" => f.name = "test"
         /\ Checked(f) = "NotFound" => drv.runtime
         /\ /\ f.fn = "get" /\ f.name \in Names /\ ~drv.runtime
            /\ drv.session /\ drv.param /\ drv.result
            /\ f.size \in 0 .. MaxData + 1
            => Checked(f) = "OK"
<1>1. CASE f.fn = "get"
  <2> DEFINE c == GetChecks(f)
  <2>1. Checked(f) = FirstFailure(c)
    BY <1>1 DEF Checked
  <2>2. DOMAIN c = 1 .. 6
    BY DEF GetChecks
  <2>3. (c[1][1] <=> drv.runtime) /\ c[1][2] = "NotFound"
    BY DEF GetChecks
  <2>4. (c[2][1] <=> f.name = "null") /\ c[2][2] = "InvalidParameter"
    BY DEF GetChecks
  <2>5. (c[3][1] <=> TestHook(f)) /\ c[3][2] = "TestHook"
    BY DEF GetChecks
  <2>6. (c[4][1] <=> ~drv.session) /\ c[4][2] = "NotReady"
    BY DEF GetChecks
  <2>7. (c[5][1] <=> (~drv.param \/ ~drv.result)) /\ c[5][2] = "OutOfResources"
    BY DEF GetChecks
  <2>8. (c[6][1] <=> TooBig(NameSize(f.name), f.size, GetHeader, GetHeader)) /\ c[6][2] = "BadBufferSize"
    BY DEF GetChecks
  <2> HIDE DEF c
  <2>9. \/ FirstFailure(c) = "OK" /\ \A i \in 1 .. 6 : ~c[i][1]
        \/ \E i \in 1 .. 6 : c[i][1] /\ FirstFailure(c) = c[i][2] /\ \A j \in 1 .. i - 1 : ~c[j][1]
    BY <2>2, FirstFailureFacts
  <2>10. TestHook(f) => f.name = "test"
    BY DEF TestHook
  <2>11. f.name \in Names => f.name # "null" /\ f.name # "test" /\ f.name # "long"
    BY DEF Names
  <2>12. f.name \in Names /\ f.size \in 0 .. MaxData + 1 =>
           ~TooBig(NameSize(f.name), f.size, GetHeader, GetHeader)
    BY <2>11, AuthVarsAssumption DEF TooBig, NameSize, GetHeader, SetHeader, MemSize
  <2> QED  BY <1>1, <2>1, <2>3, <2>4, <2>5, <2>6, <2>7, <2>8, <2>9, <2>10, <2>11, <2>12
<1>2. CASE f.fn = "next"
  <2> DEFINE c == GetNextChecks(f)
  <2>1. Checked(f) = FirstFailure(c)
    BY <1>2 DEF Checked
  <2>2. DOMAIN c = 1 .. 5
    BY DEF GetNextChecks
  <2>3. (c[1][1] <=> drv.runtime) /\ c[1][2] = "Unsupported"
    BY DEF GetNextChecks
  <2>4. (c[2][1] <=> f.name = "null") /\ c[2][2] = "InvalidParameter"
    BY DEF GetNextChecks
  <2>5. (c[3][1] <=> ~drv.session) /\ c[3][2] = "NotReady"
    BY DEF GetNextChecks
  <2>6. (c[4][1] <=> (~drv.param \/ ~drv.result)) /\ c[4][2] = "OutOfResources"
    BY DEF GetNextChecks
  <2>7. (c[5][1] <=> TooBig(IF f.name = "empty" THEN 0 ELSE NameSize(f.name), f.size, GetHeader, GetHeader)) /\ c[5][2] = "BadBufferSize"
    BY DEF GetNextChecks
  <2> HIDE DEF c
  <2>8. \/ FirstFailure(c) = "OK" /\ \A i \in 1 .. 5 : ~c[i][1]
        \/ \E i \in 1 .. 5 : c[i][1] /\ FirstFailure(c) = c[i][2] /\ \A j \in 1 .. i - 1 : ~c[j][1]
    BY <2>2, FirstFailureFacts
  <2> QED  BY <1>2, <2>1, <2>3, <2>4, <2>5, <2>6, <2>7, <2>8
<1>3. CASE f.fn = "set"
  <2> DEFINE c == SetChecks(f)
  <2>1. Checked(f) = FirstFailure(c)
    BY <1>3 DEF Checked
  <2>2. DOMAIN c = 1 .. 5
    BY DEF SetChecks
  <2>3. (c[1][1] <=> drv.runtime) /\ c[1][2] = "Unsupported"
    BY DEF SetChecks
  <2>4. (c[2][1] <=> f.name \in {"null", "empty"}) /\ c[2][2] = "InvalidParameter"
    BY DEF SetChecks
  <2>5. (c[3][1] <=> ~drv.session) /\ c[3][2] = "NotReady"
    BY DEF SetChecks
  <2>6. (c[4][1] <=> TestHook(f)) /\ c[4][2] = "TestHook"
    BY DEF SetChecks
  <2>7. (c[5][1] <=> (NameSize(f.name) >= MemSize \/ f.size >= MemSize \/ SetHeader + NameSize(f.name) + f.size > MemSize)) /\ c[5][2] = "BadBufferSize"
    BY DEF SetChecks
  <2> HIDE DEF c
  <2>8. \/ FirstFailure(c) = "OK" /\ \A i \in 1 .. 5 : ~c[i][1]
        \/ \E i \in 1 .. 5 : c[i][1] /\ FirstFailure(c) = c[i][2] /\ \A j \in 1 .. i - 1 : ~c[j][1]
    BY <2>2, FirstFailureFacts
  <2>9. TestHook(f) => f.name = "test"
    BY DEF TestHook
  <2> QED  BY <1>3, <2>1, <2>3, <2>4, <2>5, <2>6, <2>7, <2>8, <2>9
<1>4. CASE f.fn = "query"
  <2> DEFINE c == QueryChecks(f)
  <2>1. Checked(f) = FirstFailure(c)
    BY <1>4 DEF Checked
  <2>2. DOMAIN c = 1 .. 4
    BY DEF QueryChecks
  <2>3. (c[1][1] <=> drv.runtime) /\ c[1][2] = "Unsupported"
    BY DEF QueryChecks
  <2>4. (c[2][1] <=> f.attr = "zero") /\ c[2][2] = "InvalidParameter"
    BY DEF QueryChecks
  <2>5. (c[3][1] <=> ~drv.session) /\ c[3][2] = "NotReady"
    BY DEF QueryChecks
  <2>6. (c[4][1] <=> (~drv.param \/ ~drv.result)) /\ c[4][2] = "OutOfResources"
    BY DEF QueryChecks
  <2> HIDE DEF c
  <2>7. \/ FirstFailure(c) = "OK" /\ \A i \in 1 .. 4 : ~c[i][1]
        \/ \E i \in 1 .. 4 : c[i][1] /\ FirstFailure(c) = c[i][2] /\ \A j \in 1 .. i - 1 : ~c[j][1]
    BY <2>2, FirstFailureFacts
  <2> QED  BY <1>4, <2>1, <2>3, <2>4, <2>5, <2>6, <2>7
<1> QED  BY <1>1, <1>2, <1>3, <1>4 DEF Services

-------------------------------------------------------------------------------
(* The TA.                                                                   *)

\* What the codes of the TEE become.
LEMMA EfiStatusFacts ==
  ASSUME NEW t
  PROVE  /\ EfiStatus(t) \in Statuses /\ EfiStatus(t) # "none"
         /\ EfiStatus(t) = "OK" <=> t = "SUCCESS"
         /\ EfiStatus(t) = "BufferTooSmall" <=> t = "SHORT_BUFFER"
         /\ EfiStatus(t) = "NotFound" <=> t = "ITEM_NOT_FOUND"
BY DEF EfiStatus, Statuses

\* A read of a variable, when the parameter buffer asks for one.
LEMMA TaGetFacts ==
  ASSUME AuthTypeOK, NEW p, p.op = "get", p.name \in Names, NEW size \in Int
  PROVE  LET a == TaGet(p, GetHeader + size)
             d == store[p.name]
         IN \/ a.s = "SUCCESS" /\ a.data = d /\ d # <<>> /\ Len(d) <= size
            \/ a.s = "SHORT_BUFFER" /\ a.size = GetHeader + Len(d) /\ Len(d) > size
            \/ a.s = "ITEM_NOT_FOUND" /\ d = <<>>
<1>1. store[p.name] \in Bits /\ Len(store[p.name]) \in Nat
  BY DEF AuthTypeOK, Bits
<1>2. \A l \in Nat : (GetHeader + l > GetHeader + size) <=> l > size
  BY DEF GetHeader
<1>3. \A l \in Nat : l > size \/ l <= size
  OBVIOUS
<1> QED  BY <1>1, <1>2, <1>3, Zenon DEF TaGet, Teec

\* Whatever the parameter buffer holds, the TA answers with a size and with bytes.
LEMMA TaTypes ==
  ASSUME AuthTypeOK, NEW p, NEW room \in Int
  PROVE  /\ TaGet(p, room).size \in Int /\ TaGet(p, room).data \in Bits
         /\ TaGetNext(p, room).size \in Int /\ TaGetNext(p, room).data \in Bits
<1>1. <<>> \in Bits /\ \A d \in Bits : GetHeader + Len(d) \in Int
  BY DEF Bits, GetHeader
<1>2. \A n : GetHeader + NameSize(n) \in Int
  BY AuthVarsAssumption DEF GetHeader, NameSize, MemSize, SetHeader
<1>3. p.name \in Names => store[p.name] \in Bits
  BY DEF AuthTypeOK
<1>4. 0 \in Int
  OBVIOUS
<1> QED  BY <1>1, <1>2, <1>3, <1>4, Zenon DEF TaGet, TaGetNext, Teec

\* What a successful write stores.
LEMMA TaSetFacts ==
  ASSUME AuthTypeOK, NEW p, p.data \in Bits, TaSet(p) = "SUCCESS"
  PROVE  /\ p.name \in Names /\ Stored(p) \in Bits /\ Len(Stored(p)) <= MaxData
         /\ p.name = "PK" => Len(Stored(p)) # 1
         /\ p.attr = "plain" => Stored(p) = p.data
<1>1. p.name \in Names /\ ~(Len(Stored(p)) > MaxData) /\ ~(p.name = "PK" /\ Len(Stored(p)) = 1)
  BY DEF TaSet
<1>2. Stored(p) \in Bits
  <2>1. p.data # <<>> => Tail(p.data) \in Bits
    BY DEF Bits
  <2>2. store[p.name] \o p.data \in Bits
    BY <1>1 DEF Bits, AuthTypeOK
  <2> QED  BY <2>1, <2>2, Zenon DEF Stored
<1>3. Len(Stored(p)) <= MaxData
  BY <1>1, <1>2, AuthVarsAssumption DEF Bits
<1>4. p.attr = "plain" => Stored(p) = p.data
  BY DEF Stored
<1> QED  BY <1>1, <1>2, <1>3, <1>4

-------------------------------------------------------------------------------
(* One step keeps the invariant of the calls.                                *)

RestTyped ==
  /\ drv' \in DrvType /\ store' \in [Names -> Bits] /\ pbuf'.data \in Bits /\ rbuf'.data \in Bits
  /\ pcr' \in [Policy -> Seq({0, 1, 2})] /\ changed' \subseteq Policy
  /\ calls' \in Nat /\ faults' \in Nat

\* Most steps leave the driver's globals alone.
LEMMA DrvKept ==
  ASSUME CallsInv, Running, phase' = phase, drv' = drv, callbacks' = callbacks
  PROVE  DriverInv' /\ Steady
BY DEF CallsInv, DriverInv, Running, Steady

\* And many nearly everything.
LEMMA WorldKept ==
  ASSUME CallsInv, Running, UNCHANGED world
  PROVE  /\ RestTyped /\ DriverInv' /\ Steady
         /\ pbuf' = pbuf /\ rbuf' = rbuf /\ store' = store /\ faults' = faults /\ drv' = drv
         /\ phase' = phase /\ callbacks' = callbacks /\ calls' = calls /\ pcr' = pcr /\ changed' = changed
<1>1. /\ pbuf' = pbuf /\ rbuf' = rbuf /\ store' = store /\ faults' = faults /\ drv' = drv
      /\ phase' = phase /\ callbacks' = callbacks /\ calls' = calls /\ pcr' = pcr /\ changed' = changed
  BY DEF world
<1> QED  BY <1>1, DrvKept DEF RestTyped, CallsInv, AuthTypeOK

\* A step that returns from a call.
LEMMA StepPop ==
  ASSUME CallsInv, Running, Popped, Steady, DriverInv', RestTyped,
         ret'.data \in Bits, ret'.size \in Int, AnswersAreStored'
  PROVE  CallsInv'
<1>1. StackInv' /\ TopInv'
  BY PopKeeps DEF CallsInv
<1>2. AuthTypeOK'
  BY DEF AuthTypeOK, CallsInv, Popped, RestTyped, Steady
<1> QED  BY <1>1, <1>2 DEF CallsInv

\* A step that does not return leaves no answer.
LEMMA NoAnswer ==
  ASSUME ret' = NoRet
  PROVE  ret'.data \in Bits /\ ret'.size \in Int /\ AnswersAreStored'
<1>1. ret'.fn = "none" /\ ret'.data = <<>> /\ ret'.size = 0
  BY DEF NoRet
<1>2. <<>> \in Bits
  BY DEF Bits
<1>3. AnswersAreStored'
  BY <1>1 DEF AnswersAreStored
<1> QED  BY <1>1, <1>2, <1>3

\* A step within a call.
LEMMA StepMove ==
  ASSUME CallsInv, Running, Steady, DriverInv', RestTyped, ret' = NoRet, NEW f, Moved(f),
         f.fn = Top.fn, f.dirty = Top.dirty, f.at = "invoke" => drv'.session,
         BuffersInv(f, pbuf', rbuf', store', Bad')
  PROVE  CallsInv'
<1>1. StackInv' /\ TopInv'
  BY RetopKeeps DEF CallsInv
<1>2. AuthTypeOK'
  BY NoAnswer DEF AuthTypeOK, CallsInv, Moved, RestTyped, Steady
<1> QED  BY <1>1, <1>2, NoAnswer DEF CallsInv

\* A step that makes a call.
LEMMA StepCall ==
  ASSUME CallsInv, Running, Steady, DriverInv', RestTyped, ret' = NoRet, NEW f, NEW g, Called(f, g),
         f.fn = Top.fn, f.dirty = Top.dirty, f.at \notin {"invoke", "take"},
         g.fn # "init", g.at = "begin", ~g.dirty
  PROVE  CallsInv'
<1>1. StackInv' /\ TopInv'
  BY CallKeeps DEF CallsInv
<1>2. AuthTypeOK'
  BY NoAnswer DEF AuthTypeOK, CallsInv, Called, RestTyped, Steady
<1> QED  BY <1>1, <1>2, NoAnswer DEF CallsInv

-------------------------------------------------------------------------------
(* How the code moves.                                                       *)

\* A jump within the call on top.
LEMMA GotoMove ==
  ASSUME AuthTypeOK, Running, NEW l \in Labels, Goto(l)
  PROVE  /\ ret' = NoRet
         /\ \E f : /\ Moved(f) /\ SameCall(f, Top) /\ f.at = l
                   /\ f.data = Top.data /\ f.attr = Top.attr
<1> DEFINE f == [Top EXCEPT !.at = l]
<1>1. SameCall(f, Top) /\ f.at = l /\ f.data = Top.data /\ f.attr = Top.attr
  <2>1. Top \in FrameType
    BY TopFacts
  <2> QED  BY <2>1, FrameAt, Zenon
<1>2. stack' = Append(Below, f) /\ ret' = NoRet
  BY DEF Goto
<1> HIDE DEF f
<1> QED  BY <1>1, <1>2, RetopMove DEF SameCall

\* A call of g, to be continued at l.
LEMMA CallingMove ==
  ASSUME AuthTypeOK, Running, NEW g \in FrameType, NEW l \in Labels, Call(g, l)
  PROVE  /\ ret' = NoRet
         /\ \E f : /\ Called(f, g) /\ SameCall(f, Top) /\ f.at = l
                   /\ f.data = Top.data /\ f.attr = Top.attr
<1> DEFINE f == [Top EXCEPT !.at = l]
<1>1. SameCall(f, Top) /\ f.at = l /\ f.data = Top.data /\ f.attr = Top.attr
  <2>1. Top \in FrameType
    BY TopFacts
  <2> QED  BY <2>1, FrameAt, Zenon
<1>2. stack' = Below \o <<f, g>> /\ ret' = NoRet
  BY DEF Call
<1> HIDE DEF f
<1> QED  BY <1>1, <1>2, CallMove DEF SameCall

\* A return with an answer.
LEMMA AnswerMove ==
  ASSUME AuthTypeOK, Running, NEW s, NEW n, NEW size, NEW d, Answer(s, n, size, d)
  PROVE  /\ Popped
         /\ ret'.fn = Top.fn /\ ret'.s = s /\ ret'.name = n /\ ret'.asked = Top.size
         /\ ret'.size = size /\ ret'.data = d /\ ret'.dirty = Top.dirty
<1>1. stack' = Below /\ ret' = [fn |-> Top.fn, s |-> s, name |-> n, asked |-> Top.size, size |-> size,
                                data |-> d, dirty |-> Top.dirty]
  BY DEF Answer
<1>2. Popped
  BY <1>1, PopMove
<1> QED  BY <1>1, <1>2

\* A return with a status only.
LEMMA ReturnMove ==
  ASSUME AuthTypeOK, Running, NEW s, Return(s)
  PROVE  /\ Popped
         /\ ret'.fn = Top.fn /\ ret'.s = s /\ ret'.name = Top.name /\ ret'.asked = Top.size
         /\ ret'.size = Top.size /\ ret'.data = <<>> /\ ret'.dirty = Top.dirty
         /\ ret'.data \in Bits /\ ret'.size \in Int
<1>1. /\ Popped
      /\ ret'.fn = Top.fn /\ ret'.s = s /\ ret'.name = Top.name /\ ret'.asked = Top.size
      /\ ret'.size = Top.size /\ ret'.data = <<>> /\ ret'.dirty = Top.dirty
  BY AnswerMove DEF Return
<1>2. Top.size \in Int /\ <<>> \in Bits
  BY TopFacts DEF FrameType, Bits
<1> QED  BY <1>1, <1>2

\* The return of the TA.
LEMMA InvokedMove ==
  ASSUME AuthTypeOK, Running, NEW s \in Statuses, NEW size \in Int, Invoked(s, size)
  PROVE  /\ ret' = NoRet
         /\ \E f : /\ Moved(f) /\ SameCall(f, Top) /\ f.at = "take" /\ f.st = s /\ f.rsize = size
                   /\ f.data = Top.data /\ f.attr = Top.attr
<1> DEFINE f == TakeFrame(Top, s, size)
<1>1. SameCall(f, Top) /\ f.at = "take" /\ f.data = Top.data /\ f.attr = Top.attr /\ f.st = s /\ f.rsize = size
  <2>1. Top \in FrameType
    BY TopFacts
  <2> QED  BY <2>1, FrameTake
<1>2. stack' = Append(Below, f) /\ ret' = NoRet
  BY DEF Invoked, TakeFrame
<1> HIDE DEF f
<1> QED  BY <1>1, <1>2, RetopMove DEF SameCall

\* The hook decides what it measures.
LEMMA MeasureMove ==
  ASSUME AuthTypeOK, Running, NEW d \in Bits, Measure(d)
  PROVE  /\ ret' = NoRet
         /\ \E f : Moved(f) /\ SameCall(f, Top) /\ f.at = "measure" /\ f.data = d
<1> DEFINE f == [Top EXCEPT !.at = "measure", !.data = d]
<1>1. SameCall(f, Top) /\ f.at = "measure" /\ f.data = d
  <2>1. Top \in FrameType
    BY TopFacts
  <2> QED  BY <2>1, FrameData, Zenon
<1>2. stack' = Append(Below, f) /\ ret' = NoRet
  BY DEF Measure
<1> HIDE DEF f
<1> QED  BY <1>1, <1>2, RetopMove DEF SameCall

\* InitSecureBootVariables sets its locals, and goes on or makes a call.
LEMMA KeepMove ==
  ASSUME AuthTypeOK, Running, NEW a \in Attrs, NEW d \in Bits, NEW l \in Labels, Keep(a, d, <<>>, l)
  PROVE  /\ ret' = NoRet
         /\ \E f : Moved(f) /\ SameCall(f, Top) /\ f.at = l /\ f.attr = a /\ f.data = d
<1> DEFINE f == LocalsFrame(Top, l, a, d)
<1>1. SameCall(f, Top) /\ f.at = l /\ f.attr = a /\ f.data = d
  <2>1. Top \in FrameType
    BY TopFacts
  <2> QED  BY <2>1, FrameLocals
<1>2. stack' = Below \o <<f>> \o <<>> /\ ret' = NoRet
  BY DEF Keep, LocalsFrame
<1> HIDE DEF f
<1>3. Below \in Seq(FrameType) /\ f \in FrameType
  BY <1>1, StackPop DEF AuthTypeOK, Running, Below, SameCall
<1>4. Below \o <<f>> \o <<>> = Append(Below, f)
  BY <1>3
<1> QED  BY <1>1, <1>2, <1>3, <1>4, RetopMove

\* The same with a call.
LEMMA KeepCallMove ==
  ASSUME AuthTypeOK, Running, NEW a \in Attrs, NEW d \in Bits, NEW l \in Labels, NEW g \in FrameType,
         Keep(a, d, <<g>>, l)
  PROVE  /\ ret' = NoRet
         /\ \E f : Called(f, g) /\ SameCall(f, Top) /\ f.at = l /\ f.attr = a /\ f.data = d
<1> DEFINE f == LocalsFrame(Top, l, a, d)
<1>1. SameCall(f, Top) /\ f.at = l /\ f.attr = a /\ f.data = d
  <2>1. Top \in FrameType
    BY TopFacts
  <2> QED  BY <2>1, FrameLocals
<1>2. stack' = Below \o <<f>> \o <<g>> /\ ret' = NoRet
  BY DEF Keep, LocalsFrame
<1> HIDE DEF f
<1>3. Below \in Seq(FrameType) /\ f \in FrameType
  BY <1>1, StackPop DEF AuthTypeOK, Running, Below, SameCall
<1>4. Below \o <<f>> \o <<g>> = Below \o <<f, g>>
  BY <1>3
<1> QED  BY <1>1, <1>2, <1>3, <1>4, CallMove

-------------------------------------------------------------------------------
(* The services.                                                             *)

\* A service checks its arguments and fills the parameter buffer.
LEMMA BeginStep ==
  ASSUME CallsInv, BeginService
  PROVE  CallsInv'
<1>1. Running /\ Top.fn \in Services /\ Top.at = "begin" /\ AuthTypeOK
  BY DEF BeginService, CallsInv
<1>2. Top \in FrameType
  BY <1>1, TopFacts
<1>3. /\ phase' = phase /\ store' = store /\ pcr' = pcr /\ changed' = changed /\ calls' = calls
      /\ callbacks' = callbacks /\ faults' = faults
  BY DEF BeginService
<1>4. /\ Checked(Top) = "OK" => drv.session /\ ~drv.runtime
      /\ Checked(Top) # "BufferTooSmall"
      /\ Checked(Top) = "TestHook" => Top.name = "test"
      /\ Checked(Top) = "NotFound" => drv.runtime
  BY <1>1, <1>2, CheckedFacts
<1>5. CASE Checked(Top) = "OK" /\ pbuf' = Fill /\ rbuf' = Zero /\ Goto("invoke") /\ drv' = drv
  <2>1. "invoke" \in Labels
    BY DEF Labels
  <2>2. ret' = NoRet
    BY <1>1, <1>5, <2>1, GotoMove
  <2>3. PICK f : /\ Moved(f) /\ SameCall(f, Top) /\ f.at = "invoke"
                 /\ f.data = Top.data /\ f.attr = Top.attr
    BY <1>1, <1>5, <2>1, GotoMove
  <2>4. pbuf'.data \in Bits /\ rbuf'.data \in Bits
    BY <1>2, <1>5 DEF Fill, Zero, FrameType, Bits
  <2>5. RestTyped
    BY <1>1, <1>3, <1>5, <2>4 DEF RestTyped, AuthTypeOK
  <2>6. DriverInv' /\ Steady
    BY <1>1, <1>3, <1>5, DrvKept
  <2>7. BuffersInv(f, pbuf', rbuf', store', Bad')
    BY <2>3, <1>5 DEF BuffersInv, Filled, Fill, SameCall
  <2> QED  BY <1>1, <1>4, <1>5, <2>2, <2>3, <2>5, <2>6, <2>7, StepMove DEF SameCall
<1>6. CASE /\ Checked(Top) = "TestHook"
           /\ drv' = (IF Top.fn = "set" THEN [drv EXCEPT !.sid = SessionIn(Top.data)] ELSE drv)
           /\ Return("OK") /\ pbuf' = pbuf /\ rbuf' = rbuf
  <2>1. /\ Popped /\ ret'.data \in Bits /\ ret'.size \in Int /\ ret'.name = "test"
    BY <1>1, <1>4, <1>6, ReturnMove
  <2>2. drv' \in DrvType /\ drv'.session = drv.session /\ drv'.param = drv.param /\ drv'.result = drv.result
    <3>1. drv \in DrvType
      BY <1>1 DEF AuthTypeOK
    <3>2. drv' = drv \/ drv' = [drv EXCEPT !.sid = 1] \/ drv' = [drv EXCEPT !.sid = 2]
      BY <1>6 DEF SessionIn
    <3> QED  BY <3>1, <3>2 DEF DrvType
  <2>3. RestTyped
    BY <1>1, <1>3, <1>6, <2>2 DEF RestTyped, AuthTypeOK
  <2>4. DriverInv' /\ Steady
    BY <1>1, <1>3, <2>2 DEF CallsInv, DriverInv, Running, Steady
  <2>5. AnswersAreStored'
    BY <2>1 DEF AnswersAreStored, Names
  <2> QED  BY <1>1, <2>1, <2>3, <2>4, <2>5, StepPop
<1>7. CASE /\ Checked(Top) \notin {"OK", "TestHook"} /\ Return(Checked(Top))
           /\ drv' = drv /\ pbuf' = pbuf /\ rbuf' = rbuf
  <2>1. /\ Popped /\ ret'.data \in Bits /\ ret'.size \in Int /\ ret'.s = Checked(Top)
    BY <1>1, <1>7, ReturnMove
  <2>2. RestTyped
    BY <1>1, <1>3, <1>7 DEF RestTyped, AuthTypeOK
  <2>3. DriverInv' /\ Steady
    BY <1>1, <1>3, <1>7, DrvKept
  <2>4. AnswersAreStored'
    BY <2>1, <1>3, <1>4, <1>7 DEF AnswersAreStored
  <2> QED  BY <1>1, <2>1, <2>2, <2>3, <2>4, StepPop
<1> QED  BY <1>5, <1>6, <1>7 DEF BeginService

\* What a command leaves behind, when the frame after it is f.
LEMMA InvokeMoves ==
  ASSUME CallsInv, OpteeRuntimeVariableInvokeCommand
  PROVE  /\ Running /\ InBuffers(Top) /\ Top.at = "invoke" /\ ret' = NoRet
         /\ phase' = phase /\ drv' = drv /\ served' = served /\ pcr' = pcr /\ callbacks' = callbacks /\ calls' = calls
         /\ pbuf' = pbuf /\ rbuf'.data \in Bits /\ faults' \in Nat /\ faults' >= faults
         /\ \E f : /\ Moved(f) /\ SameCall(f, Top) /\ f.at = "take"
                   /\ f.data = Top.data /\ f.attr = Top.attr
                   /\ BuffersInv(f, pbuf', rbuf', store', Bad')
                   /\ IF Served /\ Top.fn = "set" /\ TaSet(pbuf) = "SUCCESS" /\ faults' = faults
                      THEN /\ f.st = "OK" /\ store' = [store EXCEPT ![pbuf.name] = Stored(pbuf)]
                           /\ changed' = IF drv.arch THEN changed \cup ({pbuf.name} \cap Policy) ELSE changed
                      ELSE /\ Top.fn = "set" => f.st # "OK"
                           /\ store' = store /\ changed' = changed
<1>1. /\ Running /\ Top.fn \in Services /\ Top.at = "invoke" /\ AuthTypeOK
      /\ phase' = phase /\ drv' = drv /\ served' = served /\ pcr' = pcr /\ callbacks' = callbacks /\ calls' = calls
      /\ pbuf' = pbuf
  BY DEF OpteeRuntimeVariableInvokeCommand, CallsInv
<1>2. Top \in FrameType /\ Top = stack[Len(stack)] /\ Top.size \in Int /\ GetHeader + Top.size \in Int
  BY <1>1, TopFacts DEF FrameType, GetHeader
<1>3. ~Top.dirty => Filled(Top, pbuf)
  BY <1>1, <1>2 DEF CallsInv, TopInv, Running, BuffersInv, InBuffers
<1>4. InBuffers(Top)
  BY <1>1 DEF InBuffers
<1>5. faults \in Nat /\ rbuf.data \in Bits
  BY <1>1 DEF AuthTypeOK
<1>6. CASE Served /\ Top.fn \in {"get", "next"} /\ InvokeGet /\ faults' = faults
  <2> DEFINE a == IF Top.fn = "get" THEN TaGet(pbuf, GetHeader + Top.size)
                                    ELSE TaGetNext(pbuf, GetHeader + Top.size)
  <2>1. /\ rbuf' = IF a.s = "SUCCESS"
                   THEN [op |-> Top.fn, name |-> a.name, data |-> a.data, attr |-> "none"] ELSE rbuf
        /\ Invoked(EfiStatus(a.s), a.size)
        /\ store' = store /\ changed' = changed
    BY <1>6 DEF InvokeGet
  <2>2. a.size \in Int /\ a.data \in Bits
    BY <1>1, <1>2, TaTypes
  <2>3. ~Top.dirty /\ Top.fn = "get" /\ Top.name \in Names =>
          \/ a.s = "SUCCESS" /\ a.data = store[Top.name] /\ store[Top.name] # <<>>
             /\ Len(store[Top.name]) <= Top.size
          \/ a.s = "SHORT_BUFFER" /\ a.size = GetHeader + Len(store[Top.name])
             /\ Len(store[Top.name]) > Top.size
          \/ a.s = "ITEM_NOT_FOUND" /\ store[Top.name] = <<>>
    <3> SUFFICES ASSUME ~Top.dirty, Top.fn = "get", Top.name \in Names
                 PROVE  \/ a.s = "SUCCESS" /\ a.data = store[Top.name] /\ store[Top.name] # <<>>
                           /\ Len(store[Top.name]) <= Top.size
                        \/ a.s = "SHORT_BUFFER" /\ a.size = GetHeader + Len(store[Top.name])
                           /\ Len(store[Top.name]) > Top.size
                        \/ a.s = "ITEM_NOT_FOUND" /\ store[Top.name] = <<>>
      OBVIOUS
    <3>1. pbuf.op = "get" /\ pbuf.name = Top.name
      BY <1>3 DEF Filled
    <3>2. a = TaGet(pbuf, GetHeader + Top.size)
      OBVIOUS
    <3> HIDE DEF a
    <3>3. pbuf.op = "get" /\ pbuf.name \in Names /\ Top.size \in Int /\ AuthTypeOK
      BY <3>1, <1>1, <1>2
    <3>4. \/ a.s = "SUCCESS" /\ a.data = store[pbuf.name] /\ store[pbuf.name] # <<>>
             /\ Len(store[pbuf.name]) <= Top.size
          \/ a.s = "SHORT_BUFFER" /\ a.size = GetHeader + Len(store[pbuf.name])
             /\ Len(store[pbuf.name]) > Top.size
          \/ a.s = "ITEM_NOT_FOUND" /\ store[pbuf.name] = <<>>
      BY <3>2, <3>3, TaGetFacts
    <3> QED  BY <3>1, <3>4, Zenon
  <2> HIDE DEF a
  <2>4. /\ EfiStatus(a.s) \in Statuses
        /\ EfiStatus(a.s) = "OK" <=> a.s = "SUCCESS"
        /\ EfiStatus(a.s) = "BufferTooSmall" <=> a.s = "SHORT_BUFFER"
        /\ EfiStatus(a.s) = "NotFound" <=> a.s = "ITEM_NOT_FOUND"
    BY EfiStatusFacts
  <2>5. ret' = NoRet
    BY <1>1, <2>1, <2>2, <2>4, InvokedMove
  <2>6. PICK f : /\ Moved(f) /\ SameCall(f, Top) /\ f.at = "take" /\ f.st = EfiStatus(a.s)
                 /\ f.rsize = a.size /\ f.data = Top.data /\ f.attr = Top.attr
    BY <1>1, <2>1, <2>2, <2>4, InvokedMove
  <2>7. rbuf'.data \in Bits /\ (a.s = "SUCCESS" => rbuf'.data = a.data)
    BY <2>1, <2>2, <1>5
  <2>8. BuffersInv(f, pbuf', rbuf', store', Bad')
    <3>1. f.fn # "set" /\ f.at # "invoke" /\ f.dirty = Top.dirty /\ f.fn = Top.fn /\ f.name = Top.name
          /\ f.size = Top.size
      BY <1>6, <2>6 DEF SameCall
    <3>2. ~Top.dirty /\ Top.fn = "get" /\ Top.name \in Names => GotInv(f, rbuf', store', Bad')
      BY <2>1, <2>3, <2>4, <2>6, <2>7, <3>1, Zenon DEF GotInv
    <3> QED  BY <3>1, <3>2 DEF BuffersInv
  <2>9. Top.fn # "set" /\ faults' \in Nat /\ faults' >= faults
    BY <1>5, <1>6
  <2> QED  BY <1>1, <1>4, <2>1, <2>5, <2>6, <2>7, <2>8, <2>9
<1>7. CASE Served /\ Top.fn = "set" /\ InvokeSet /\ faults' = faults
  <2> DEFINE t == TaSet(pbuf)
  <2>1. /\ store' = IF t = "SUCCESS" THEN [store EXCEPT ![pbuf.name] = Stored(pbuf)] ELSE store
        /\ changed' = IF t = "SUCCESS" /\ drv.arch THEN changed \cup ({pbuf.name} \cap Policy) ELSE changed
        /\ Invoked(EfiStatus(t), 0) /\ rbuf' = rbuf
    BY <1>7 DEF InvokeSet
  <2>2. t = "SUCCESS" => /\ pbuf.name \in Names
                         /\ pbuf.attr = "plain" => Stored(pbuf) = pbuf.data
    BY <1>1, TaSetFacts DEF AuthTypeOK
  <2> HIDE DEF t
  <2>3. EfiStatus(t) \in Statuses /\ (EfiStatus(t) = "OK" <=> t = "SUCCESS") /\ 0 \in Int
    BY EfiStatusFacts
  <2>4. ret' = NoRet
    BY <1>1, <2>1, <2>3, InvokedMove
  <2>5. PICK f : /\ Moved(f) /\ SameCall(f, Top) /\ f.at = "take" /\ f.st = EfiStatus(t)
                 /\ f.rsize = 0 /\ f.data = Top.data /\ f.attr = Top.attr
    BY <1>1, <2>1, <2>3, InvokedMove
  <2>6. BuffersInv(f, pbuf', rbuf', store', Bad')
    <3>1. f.fn # "get" /\ f.at # "invoke" /\ f.dirty = Top.dirty /\ f.fn = Top.fn /\ f.name = Top.name
      BY <1>7, <2>5 DEF SameCall
    <3>2. ~f.dirty /\ f.attr = "plain" /\ f.st = "OK" => store'[f.name] = f.data
      BY <1>1, <1>3, <2>1, <2>2, <2>3, <2>5, <3>1 DEF Filled, AuthTypeOK
    <3> QED  BY <3>1, <3>2 DEF BuffersInv
  <2>7. faults' \in Nat /\ faults' >= faults
    BY <1>5, <1>7
  <2> QED  BY <1>1, <1>4, <1>5, <1>7, <2>1, <2>3, <2>4, <2>5, <2>6, <2>7 DEF t
<1>8. CASE Served /\ Top.fn = "query" /\ InvokeQuery /\ faults' = faults
  <2>1. /\ rbuf' = [Zero EXCEPT !.op = "query"] /\ Invoked("OK", GetHeader)
        /\ store' = store /\ changed' = changed
    BY <1>8 DEF InvokeQuery
  <2>2. rbuf'.data \in Bits /\ "OK" \in Statuses /\ GetHeader \in Int
    BY <2>1 DEF Zero, Bits, Statuses, GetHeader
  <2>3. ret' = NoRet
    BY <1>1, <2>1, <2>2, InvokedMove
  <2>4. PICK f : /\ Moved(f) /\ SameCall(f, Top) /\ f.at = "take"
                 /\ f.data = Top.data /\ f.attr = Top.attr
    BY <1>1, <2>1, <2>2, InvokedMove
  <2>5. BuffersInv(f, pbuf', rbuf', store', Bad')
    BY <1>8, <2>4 DEF SameCall, BuffersInv
  <2>6. faults' \in Nat /\ faults' >= faults
    BY <1>5, <1>8
  <2> QED  BY <1>1, <1>4, <1>8, <2>1, <2>2, <2>3, <2>4, <2>5, <2>6
<1>9. ASSUME Fault, NEW t \in {"OUT_OF_MEMORY", "ACCESS_DENIED", "COMMUNICATION"},
             Invoked(EfiStatus(t), 0), UNCHANGED <<rbuf, store, changed>>
      PROVE  /\ ret' = NoRet /\ rbuf'.data \in Bits /\ faults' \in Nat /\ faults' > faults
             /\ store' = store /\ changed' = changed
             /\ \E f : /\ Moved(f) /\ SameCall(f, Top) /\ f.at = "take"
                       /\ f.data = Top.data /\ f.attr = Top.attr /\ f.st # "OK"
                       /\ BuffersInv(f, pbuf', rbuf', store', Bad')
  <2>1. /\ EfiStatus(t) \in Statuses /\ EfiStatus(t) # "OK"
        /\ EfiStatus(t) # "BufferTooSmall" /\ EfiStatus(t) # "NotFound" /\ 0 \in Int
    BY <1>9, EfiStatusFacts
  <2>2. ret' = NoRet
    BY <1>1, <1>9, <2>1, InvokedMove
  <2>3. PICK f : /\ Moved(f) /\ SameCall(f, Top) /\ f.at = "take" /\ f.st = EfiStatus(t)
                 /\ f.data = Top.data /\ f.attr = Top.attr
    BY <1>1, <1>9, <2>1, InvokedMove
  <2>4. faults' \in Nat /\ faults' > faults /\ Bad'
    BY <1>5, <1>9 DEF Fault, Bad
  <2>5. BuffersInv(f, pbuf', rbuf', store', Bad')
    BY <2>1, <2>3, <2>4 DEF BuffersInv, GotInv
  <2> QED  BY <1>5, <1>9, <2>1, <2>2, <2>3, <2>4, <2>5
<1>10. CASE /\ Fault
            /\ \E t \in {"OUT_OF_MEMORY", "ACCESS_DENIED", "COMMUNICATION"} : Invoked(EfiStatus(t), 0)
            /\ UNCHANGED <<rbuf, store, changed>>
  <2>1. PICK t \in {"OUT_OF_MEMORY", "ACCESS_DENIED", "COMMUNICATION"} : Invoked(EfiStatus(t), 0)
    BY <1>10
  <2>2. /\ ret' = NoRet /\ rbuf'.data \in Bits /\ faults' \in Nat /\ faults' > faults
        /\ store' = store /\ changed' = changed
        /\ \E f : /\ Moved(f) /\ SameCall(f, Top) /\ f.at = "take"
                  /\ f.data = Top.data /\ f.attr = Top.attr /\ f.st # "OK"
                  /\ BuffersInv(f, pbuf', rbuf', store', Bad')
    BY <1>9, <1>10, <2>1
  <2>3. faults' # faults /\ faults' >= faults
    BY <2>2, <1>5
  <2> QED  BY <1>1, <1>4, <2>2, <2>3
<1>11. CASE /\ ~Served /\ Invoked(EfiStatus("BAD_PARAMETERS"), 0)
            /\ UNCHANGED <<rbuf, store, changed, faults>>
  <2>1. EfiStatus("BAD_PARAMETERS") = "ProtocolError" /\ "ProtocolError" \in Statuses /\ 0 \in Int
    BY DEF EfiStatus, Statuses
  <2>2. ret' = NoRet
    BY <1>1, <1>11, <2>1, InvokedMove
  <2>3. PICK f : /\ Moved(f) /\ SameCall(f, Top) /\ f.at = "take" /\ f.st = "ProtocolError"
                 /\ f.data = Top.data /\ f.attr = Top.attr
    BY <1>1, <1>11, <2>1, InvokedMove
  <2>4. Bad'
    BY <1>1, <1>11 DEF Bad, Served
  <2>5. BuffersInv(f, pbuf', rbuf', store', Bad')
    BY <2>3, <2>4 DEF BuffersInv, GotInv
  <2>6. faults' \in Nat /\ faults' >= faults
    BY <1>5, <1>11
  <2> QED  BY <1>1, <1>4, <1>5, <1>11, <2>2, <2>3, <2>5, <2>6
<1> QED  BY <1>6, <1>7, <1>8, <1>10, <1>11 DEF OpteeRuntimeVariableInvokeCommand

\* The TA is called with the transport buffers.
LEMMA InvokeStep ==
  ASSUME CallsInv, OpteeRuntimeVariableInvokeCommand
  PROVE  CallsInv'
<1>1. /\ Running /\ ret' = NoRet
      /\ phase' = phase /\ drv' = drv /\ served' = served /\ pcr' = pcr /\ callbacks' = callbacks /\ calls' = calls
      /\ pbuf' = pbuf /\ rbuf'.data \in Bits /\ faults' \in Nat
  BY InvokeMoves
<1>2. PICK f : /\ Moved(f) /\ SameCall(f, Top) /\ f.at = "take"
               /\ BuffersInv(f, pbuf', rbuf', store', Bad')
               /\ IF Served /\ Top.fn = "set" /\ TaSet(pbuf) = "SUCCESS" /\ faults' = faults
                  THEN /\ f.st = "OK" /\ store' = [store EXCEPT ![pbuf.name] = Stored(pbuf)]
                       /\ changed' = IF drv.arch THEN changed \cup ({pbuf.name} \cap Policy) ELSE changed
                  ELSE /\ Top.fn = "set" => f.st # "OK"
                       /\ store' = store /\ changed' = changed
  BY InvokeMoves
<1>3. AuthTypeOK
  BY DEF CallsInv
<1>4. store' \in [Names -> Bits] /\ changed' \subseteq Policy
  <2>1. TaSet(pbuf) = "SUCCESS" => pbuf.name \in Names /\ Stored(pbuf) \in Bits
    BY <1>3, TaSetFacts DEF AuthTypeOK
  <2> QED  BY <1>2, <1>3, <2>1 DEF AuthTypeOK
<1>5. RestTyped
  BY <1>1, <1>3, <1>4 DEF RestTyped, AuthTypeOK
<1>6. DriverInv' /\ Steady
  BY <1>1, DrvKept
<1> QED  BY <1>1, <1>2, <1>5, <1>6, StepMove DEF SameCall

\* GetVariable takes its result.
LEMMA GetStep ==
  ASSUME CallsInv, OpteeRuntimeGetVariable
  PROVE  CallsInv'
<1>1. Running /\ Top.fn = "get" /\ Top.at = "take" /\ AuthTypeOK /\ UNCHANGED world
  BY DEF OpteeRuntimeGetVariable, At, CallsInv
<1>2. Top \in FrameType /\ Top = stack[Len(stack)]
  BY <1>1, TopFacts
<1>3. ~Top.dirty /\ Top.name \in Names => GotInv(Top, rbuf, store, Bad)
  BY <1>1, <1>2 DEF CallsInv, TopInv, Running, BuffersInv, InBuffers, Services
<1>4. Top.size \in Int /\ Top.rsize \in Int /\ <<>> \in Bits /\ rbuf.data \in Bits
  BY <1>1, <1>2 DEF FrameType, Bits, AuthTypeOK
<1>5. \A n \in Names : store[n] \in Bits /\ Len(store[n]) \in Nat
  BY <1>1 DEF AuthTypeOK, Bits
<1>6. /\ RestTyped /\ DriverInv' /\ Steady /\ store' = store /\ drv' = drv
  BY <1>1, WorldKept
<1>7. SUFFICES Popped /\ ret'.data \in Bits /\ ret'.size \in Int /\ AnswersAreStored'
  BY <1>1, <1>6, StepPop
<1>8. CASE Top.st = "BufferTooSmall" /\ Answer(Top.st, Top.name, Top.rsize - GetHeader, <<>>)
  <2>1. /\ Popped /\ ret'.s = "BufferTooSmall" /\ ret'.name = Top.name /\ ret'.asked = Top.size
        /\ ret'.size = Top.rsize - GetHeader /\ ret'.data = <<>> /\ ret'.dirty = Top.dirty
    BY <1>1, <1>8, AnswerMove
  <2>2. ret'.size \in Int
    BY <2>1, <1>4 DEF GetHeader
  <2>3. ASSUME ~Top.dirty, Top.name \in Names
        PROVE  ret'.size = Len(store[Top.name]) /\ ret'.size > ret'.asked
    BY <2>1, <2>3, <1>3, <1>4, <1>5, <1>8 DEF GotInv, GetHeader
  <2>4. AnswersAreStored'
    BY <2>1, <2>3, <1>6, Zenon DEF AnswersAreStored
  <2> QED  BY <2>1, <2>2, <2>4, <1>4
<1>9. CASE Top.st # "OK" /\ Top.st # "BufferTooSmall" /\ Return(Top.st)
  <2>1. /\ Popped /\ ret'.s = Top.st /\ ret'.name = Top.name /\ ret'.dirty = Top.dirty
        /\ ret'.data \in Bits /\ ret'.size \in Int
    BY <1>1, <1>9, ReturnMove
  <2>2. AnswersAreStored'
    BY <2>1, <1>3, <1>6, <1>9 DEF AnswersAreStored, GotInv
  <2> QED  BY <2>1, <2>2
<1>10. CASE Top.st = "OK" /\ Len(rbuf.data) > Top.size
            /\ Answer("BadBufferSize", Top.name, Len(rbuf.data), <<>>)
  <2>1. Popped /\ ret'.s = "BadBufferSize" /\ ret'.size = Len(rbuf.data) /\ ret'.data = <<>>
    BY <1>1, <1>10, AnswerMove
  <2>2. AnswersAreStored'
    BY <2>1 DEF AnswersAreStored
  <2> QED  BY <2>1, <2>2, <1>4 DEF Bits
<1>11. CASE Top.st = "OK" /\ ~(Len(rbuf.data) > Top.size)
            /\ Answer("OK", Top.name, Len(rbuf.data), rbuf.data)
  <2>1. /\ Popped /\ ret'.s = "OK" /\ ret'.name = Top.name /\ ret'.asked = Top.size
        /\ ret'.size = Len(rbuf.data) /\ ret'.data = rbuf.data /\ ret'.dirty = Top.dirty
    BY <1>1, <1>11, AnswerMove
  <2>2. AnswersAreStored'
    BY <2>1, <1>3, <1>6, <1>11 DEF AnswersAreStored, GotInv
  <2> QED  BY <2>1, <2>2, <1>4 DEF Bits
<1> QED  BY <1>8, <1>9, <1>10, <1>11 DEF OpteeRuntimeGetVariable

\* What another service than GetVariable answers is not what AnswersAreStored is about.
LEMMA OtherAnswer ==
  ASSUME CallsInv, Running, UNCHANGED world, Top.fn # "get",
         NEW s, NEW n, NEW size \in Int, Answer(s, n, size, <<>>)
  PROVE  CallsInv'
<1>1. Popped /\ ret'.fn = Top.fn /\ ret'.size = size /\ ret'.data = <<>>
  BY AnswerMove DEF CallsInv
<1>2. <<>> \in Bits
  BY DEF Bits
<1>3. AnswersAreStored'
  BY <1>1 DEF AnswersAreStored
<1>4. RestTyped /\ DriverInv' /\ Steady
  BY WorldKept
<1> QED  BY <1>1, <1>2, <1>3, <1>4, StepPop

\* The same for a status.
LEMMA OtherReturn ==
  ASSUME CallsInv, Running, UNCHANGED world, Top.fn # "get", NEW s, Return(s)
  PROVE  CallsInv'
<1>1. Top.size \in Int
  BY TopFacts DEF CallsInv, FrameType
<1> QED  BY <1>1, OtherAnswer DEF Return

\* GetNextVariableName and QueryVariableInfo take their results.
LEMMA NextStep ==
  ASSUME CallsInv, OpteeRuntimeGetNextVariableName \/ OpteeRuntimeQueryVariableInfo
  PROVE  CallsInv'
<1>1. CASE OpteeRuntimeGetNextVariableName
  <2>1. Running /\ Top.fn # "get" /\ UNCHANGED world
    BY <1>1 DEF OpteeRuntimeGetNextVariableName, At
  <2>2. Top.rsize - GetHeader \in Int /\ \A n : NameSize(n) \in Int
    BY <2>1, TopFacts, AuthVarsAssumption DEF CallsInv, FrameType, GetHeader, NameSize, MemSize, SetHeader
  <2>3. \/ Answer(Top.st, Top.name, Top.rsize - GetHeader, <<>>)
        \/ Return(Top.st)
        \/ Answer("BadBufferSize", Top.name, NameSize(rbuf.name), <<>>)
        \/ Answer("OK", rbuf.name, NameSize(rbuf.name), <<>>)
    BY <1>1 DEF OpteeRuntimeGetNextVariableName
  <2> QED  BY <2>1, <2>2, <2>3, OtherAnswer, OtherReturn
<1>2. CASE OpteeRuntimeQueryVariableInfo
  <2>1. Running /\ Top.fn # "get" /\ UNCHANGED world /\ Return(Top.st)
    BY <1>2 DEF OpteeRuntimeQueryVariableInfo, At
  <2> QED  BY <2>1, OtherReturn
<1> QED  BY <1>1, <1>2

\* A call in a step that changes nothing else.
LEMMA PlainCall ==
  ASSUME CallsInv, Running, UNCHANGED world, NEW g \in FrameType, g.fn # "init", g.at = "begin", ~g.dirty,
         NEW l \in Labels \ {"invoke", "take"}, Call(g, l)
  PROVE  CallsInv'
<1>1. l \in Labels /\ AuthTypeOK
  BY DEF CallsInv
<1>2. ret' = NoRet
  BY <1>1, CallingMove
<1>3. PICK f : Called(f, g) /\ SameCall(f, Top) /\ f.at = l
  BY <1>1, CallingMove
<1>4. RestTyped /\ DriverInv' /\ Steady
  BY WorldKept
<1> QED  BY <1>2, <1>3, <1>4, StepCall DEF SameCall

\* The frames the code pushes.
LEMMA NewFrames ==
  /\ \A n \in Names \cup Odd \cup {"none"}, size \in Int :
       /\ Get(n, size) \in FrameType /\ Get(n, size).fn = "get" /\ Get(n, size).at = "begin"
       /\ Get(n, size).name = n /\ Get(n, size).size = size /\ ~Get(n, size).dirty
       /\ GetNext(n, size) \in FrameType /\ GetNext(n, size).fn = "next" /\ GetNext(n, size).at = "begin"
       /\ ~GetNext(n, size).dirty
  /\ \A n \in Names \cup Odd, d \in Bits, a \in Attrs :
       /\ Set(n, d, a) \in FrameType /\ Set(n, d, a).fn = "set" /\ Set(n, d, a).at = "begin"
       /\ Set(n, d, a).name = n /\ Set(n, d, a).data = d /\ Set(n, d, a).attr = a /\ ~Set(n, d, a).dirty
  /\ \A a \in Attrs :
       /\ Query(a) \in FrameType /\ Query(a).fn = "query" /\ Query(a).at = "begin" /\ ~Query(a).dirty
  /\ \A fn \in {"init", "secureboot", "hook"}, n \in Names \cup Odd \cup {"none"} :
       /\ Proc(fn, n) \in FrameType /\ Proc(fn, n).fn = fn /\ Proc(fn, n).at = "begin"
       /\ Proc(fn, n).name = n /\ ~Proc(fn, n).dirty
<1>1. /\ <<>> \in Bits /\ "none" \in Attrs /\ 0 \in Int /\ \A d \in Bits : Len(d) \in Int
      /\ "get" \in Services \cup {"init", "secureboot", "hook"}
      /\ "next" \in Services \cup {"init", "secureboot", "hook"}
      /\ "set" \in Services \cup {"init", "secureboot", "hook"}
      /\ "query" \in Services \cup {"init", "secureboot", "hook"}
      /\ \A fn \in {"init", "secureboot", "hook"} : fn \in Services \cup {"init", "secureboot", "hook"}
      /\ "none" \in Names \cup Odd \cup {"none"}
      /\ \A n \in Names \cup Odd : n \in Names \cup Odd \cup {"none"}
  BY DEF Bits, Attrs, Services
<1>2. ASSUME NEW n \in Names \cup Odd \cup {"none"}, NEW size \in Int
      PROVE  /\ Get(n, size) \in FrameType /\ Get(n, size).fn = "get" /\ Get(n, size).at = "begin"
             /\ Get(n, size).name = n /\ Get(n, size).size = size /\ ~Get(n, size).dirty
             /\ GetNext(n, size) \in FrameType /\ GetNext(n, size).fn = "next"
             /\ GetNext(n, size).at = "begin" /\ ~GetNext(n, size).dirty
  <2>1. /\ NewCall(Get(n, size), "get", n, size, <<>>, "none")
        /\ NewCall(GetNext(n, size), "next", n, size, <<>>, "none")
    BY <1>1, FrameNew, Zenon DEF Get, GetNext
  <2> QED  BY ONLY <2>1, Zenon DEF NewCall
<1>3. ASSUME NEW n \in Names \cup Odd, NEW d \in Bits, NEW a \in Attrs
      PROVE  /\ Set(n, d, a) \in FrameType /\ Set(n, d, a).fn = "set" /\ Set(n, d, a).at = "begin"
             /\ Set(n, d, a).name = n /\ Set(n, d, a).data = d /\ Set(n, d, a).attr = a
             /\ ~Set(n, d, a).dirty
  <2>1. NewCall(Set(n, d, a), "set", n, Len(d), d, a)
    BY <1>1, FrameNew, Zenon DEF Set
  <2> QED  BY ONLY <2>1, Zenon DEF NewCall
<1>4. ASSUME NEW a \in Attrs
      PROVE  Query(a) \in FrameType /\ Query(a).fn = "query" /\ Query(a).at = "begin" /\ ~Query(a).dirty
  <2>1. NewCall(Query(a), "query", "none", 0, <<>>, a)
    BY <1>1, FrameNew, Zenon DEF Query
  <2> QED  BY ONLY <2>1, Zenon DEF NewCall
<1>5. ASSUME NEW fn \in {"init", "secureboot", "hook"}, NEW n \in Names \cup Odd \cup {"none"}
      PROVE  /\ Proc(fn, n) \in FrameType /\ Proc(fn, n).fn = fn /\ Proc(fn, n).at = "begin"
             /\ Proc(fn, n).name = n /\ ~Proc(fn, n).dirty
  <2>1. NewCall(Proc(fn, n), fn, n, 0, <<>>, "none")
    BY <1>1, FrameNew, Zenon DEF Proc
  <2> QED  BY ONLY <2>1, Zenon DEF NewCall
<1> QED  BY <1>2, <1>3, <1>4, <1>5

\* SetVariable returns, or calls the hook.
LEMMA SetStep ==
  ASSUME CallsInv, OpteeRuntimeSetVariable \/ SetReturns
  PROVE  CallsInv'
<1>1. Running /\ Top.fn = "set" /\ UNCHANGED world
  BY DEF OpteeRuntimeSetVariable, SetReturns, At
<1>2. CASE Return(Top.st) \/ Return("OK")
  BY <1>1, <1>2, OtherReturn
<1>3. CASE IsSecureBootPolicyVariable(Top.name) /\ Call(Proc("hook", Top.name), "hooked")
  <2>1. Top.name \in Names \cup Odd \cup {"none"}
    BY <1>1, TopFacts DEF CallsInv, FrameType
  <2>2. "hooked" \in Labels \ {"invoke", "take"}
    BY DEF Labels
  <2> DEFINE g == Proc("hook", Top.name)
  <2>3. g \in FrameType /\ g.fn # "init" /\ g.at = "begin" /\ ~g.dirty
    BY <2>1, NewFrames
  <2> HIDE DEF g
  <2> QED  BY <1>1, <1>3, <2>2, <2>3, PlainCall DEF g
<1> QED  BY <1>2, <1>3 DEF OpteeRuntimeSetVariable, SetReturns

\* The hook: its two reads, and the measurement.
LEMMA HookStep ==
  ASSUME CallsInv, SecureBootHook \/ InternalGetVariable \/ MeasureVariable
  PROVE  CallsInv'
<1>1. Running /\ Top.fn = "hook" /\ AuthTypeOK
  BY DEF SecureBootHook, InternalGetVariable, MeasureVariable, At, CallsInv
<1>2. Top.name \in Names \cup Odd \cup {"none"} /\ 0 \in Int /\ ret.size \in Int
  BY <1>1, TopFacts DEF FrameType, AuthTypeOK
<1>3. <<>> \in Bits /\ ret.data \in Bits /\ faults \in Nat
  BY <1>1 DEF Bits, AuthTypeOK
<1>4. ASSUME UNCHANGED world, NEW size \in Int, NEW l \in Labels \ {"invoke", "take"},
             Call(Get(Top.name, size), l)
      PROVE  CallsInv'
  <2> DEFINE g == Get(Top.name, size)
  <2>1. g \in FrameType /\ g.fn # "init" /\ g.at = "begin" /\ ~g.dirty
    BY <1>2, NewFrames
  <2> HIDE DEF g
  <2> QED  BY <1>1, <1>4, <2>1, PlainCall DEF g
<1>5. ASSUME UNCHANGED <<phase, drv, pbuf, rbuf, store, told, pcr, changed, calls, callbacks>>,
             faults' \in Nat, NEW d \in Bits, Measure(d)
      PROVE  CallsInv'
  <2>1. ret' = NoRet
    BY <1>1, <1>5, MeasureMove
  <2>2. PICK f : Moved(f) /\ SameCall(f, Top) /\ f.at = "measure" /\ f.data = d
    BY <1>1, <1>5, MeasureMove
  <2>3. RestTyped
    BY <1>1, <1>5 DEF RestTyped, AuthTypeOK
  <2>4. DriverInv' /\ Steady
    BY <1>1, <1>5, DrvKept
  <2>5. BuffersInv(f, pbuf', rbuf', store', Bad') /\ f.at # "invoke"
    BY <2>2 DEF BuffersInv
  <2> QED  BY <1>1, <2>1, <2>2, <2>3, <2>4, <2>5, StepMove DEF SameCall
<1>6. CASE SecureBootHook
  <2>1. "probed" \in Labels \ {"invoke", "take"}
    BY DEF Labels
  <2> QED  BY <1>2, <1>4, <1>6, <2>1 DEF SecureBootHook
<1>7. CASE InternalGetVariable
  <2>1. CASE Call(Get(Top.name, ret.size), "fetched") /\ UNCHANGED world
    <3>1. "fetched" \in Labels \ {"invoke", "take"}
      BY DEF Labels
    <3> QED  BY <1>2, <1>4, <2>1, <3>1
  <2>2. CASE /\ Fault /\ Measure(<<>>)
             /\ UNCHANGED <<phase, drv, pbuf, rbuf, store, told, pcr, changed, calls, callbacks>>
    <3>1. faults' \in Nat
      BY <1>3, <2>2 DEF Fault
    <3> QED  BY <1>3, <1>5, <2>2, <3>1
  <2>3. CASE /\ Measure(<<>>) \/ Measure(IF ret.s = "OK" THEN ret.data ELSE <<>>)
             /\ UNCHANGED world
    <3>1. /\ UNCHANGED <<phase, drv, pbuf, rbuf, store, told, pcr, changed, calls, callbacks>>
          /\ faults' \in Nat
      BY <1>3, <2>3 DEF world
    <3> QED  BY <1>3, <1>5, <2>3, <3>1
  <2> QED  BY <1>7, <2>1, <2>2, <2>3 DEF InternalGetVariable
<1>8. CASE MeasureVariable
  <2>1. /\ Return("OK") /\ UNCHANGED <<phase, drv, pbuf, rbuf, store, told, changed, calls, callbacks>>
        /\ Top.at = "measure"
    BY <1>8 DEF MeasureVariable, At
  <2>2. faults' \in Nat
    BY <1>3, <1>8 DEF MeasureVariable, Fault
  <2>3. pcr' \in [Policy -> Seq({0, 1, 2})]
    <3>1. Top.data \in Bits
      BY <1>1, TopFacts DEF FrameType
    <3>2. Top.data \in Seq({0, 1, 2})
      BY <3>1 DEF Bits
    <3> QED  BY <1>1, <1>8, <3>2 DEF MeasureVariable, AuthTypeOK
  <2>4. RestTyped
    BY <1>1, <2>1, <2>2, <2>3 DEF RestTyped, AuthTypeOK
  <2>5. DriverInv' /\ Steady
    BY <1>1, <2>1, DrvKept
  <2>6. Popped /\ ret'.fn = "hook" /\ ret'.data \in Bits /\ ret'.size \in Int
    BY <1>1, <2>1, ReturnMove
  <2>7. AnswersAreStored'
    BY <2>6 DEF AnswersAreStored
  <2> QED  BY <1>1, <2>4, <2>5, <2>6, <2>7, StepPop
<1> QED  BY <1>6, <1>7, <1>8

-------------------------------------------------------------------------------
(* The entry point.                                                          *)

\* The entry point ends: its frame was the only one.
LEMMA InitEndsStep ==
  ASSUME CallsInv, Running, Top.fn = "init", NEW s, InitEnds(s), UNCHANGED Device,
         drv' \in DrvType, drv.session => drv'.session, faults' \in Nat,
         s = "OK" => drv'.session = drv.session /\ drv'.param = drv.param /\ drv'.result = drv.result
  PROVE  CallsInv' /\ stack' = <<>>
<1>1. AuthTypeOK /\ Return(s) /\ phase' = IF s = "OK" THEN "boot" ELSE "failed"
  BY DEF CallsInv, InitEnds
<1>2. Popped /\ ret'.fn = "init" /\ ret'.data \in Bits /\ ret'.size \in Int
  BY <1>1, ReturnMove
<1>3. stack' = <<>>
  <2>1. Len(stack) \in 1 .. Len(stack) /\ stack[Len(stack)].fn = "init"
    BY <1>1, TopFacts
  <2>2. Len(stack) = 1
    BY <2>1 DEF CallsInv, StackInv
  <2> QED  BY <1>2, <2>2 DEF Popped
<1>4. RestTyped /\ Steady
  BY <1>1 DEF RestTyped, AuthTypeOK, Device, Steady
<1>5. DriverInv'
  <2>1. phase # "failed"
    BY DEF CallsInv, DriverInv, Running
  <2> QED  BY <1>1, <1>3, <2>1 DEF CallsInv, DriverInv
<1>6. AnswersAreStored'
  BY <1>2 DEF AnswersAreStored
<1> QED  BY <1>2, <1>3, <1>4, <1>5, <1>6, StepPop

\* The entry point goes on.
LEMMA InitGoesOn ==
  ASSUME CallsInv, Running, Top.fn = "init", UNCHANGED Device, phase' = phase,
         drv' \in DrvType, drv.session => drv'.session, faults' \in Nat,
         drv'.session => (drv.session /\ drv'.param = drv.param /\ drv'.result = drv.result)
                         \/ (drv'.param /\ drv'.result),
         NEW l \in Labels \ {"invoke", "take"}, Goto(l)
  PROVE  CallsInv'
<1>1. l \in Labels /\ AuthTypeOK
  BY DEF CallsInv
<1>2. ret' = NoRet
  BY <1>1, GotoMove
<1>3. PICK f : Moved(f) /\ SameCall(f, Top) /\ f.at = l
  BY <1>1, GotoMove
<1>4. RestTyped /\ Steady
  BY <1>1 DEF RestTyped, AuthTypeOK, Device, Steady
<1>5. DriverInv'
  BY DEF CallsInv, DriverInv, Running
<1>6. BuffersInv(f, pbuf', rbuf', store', Bad') /\ f.at # "invoke"
  BY <1>3 DEF BuffersInv, InBuffers
<1> QED  BY <1>2, <1>3, <1>4, <1>5, <1>6, StepMove DEF SameCall

\* A session without its buffers, and with them.
LEMMA OpenedFacts ==
  ASSUME drv \in DrvType
  PROVE  /\ Opened \in DrvType /\ Opened.session
         /\ [Opened EXCEPT !.param = TRUE] \in DrvType /\ [Opened EXCEPT !.param = TRUE].session
         /\ LET d == [Opened EXCEPT !.param = TRUE, !.result = TRUE]
            IN d \in DrvType /\ d.session /\ d.param /\ d.result /\ d.arch = drv.arch /\ d.runtime = drv.runtime
         /\ Opened.arch = drv.arch /\ [Opened EXCEPT !.param = TRUE].arch = drv.arch
<1>1. Opened \in DrvType /\ Opened.session /\ Opened.arch = drv.arch /\ Opened.runtime = drv.runtime
  <2>1. ASSUME NEW o \in DrvType, NEW n \in Int, NEW b \in BOOLEAN
        PROVE  LET d == [o EXCEPT !.session = b, !.sid = n]
               IN d \in DrvType /\ d.session = b /\ d.arch = o.arch /\ d.runtime = o.runtime
    BY DEF DrvType
  <2>2. 1 \in Int /\ TRUE \in BOOLEAN
    OBVIOUS
  <2> DEFINE o == Opened
  <2>3. o \in DrvType /\ o.session = TRUE /\ o.arch = drv.arch /\ o.runtime = drv.runtime
    BY <2>1, <2>2, Zenon DEF Opened
  <2> QED  BY <2>3, Zenon
<1>2. ASSUME NEW o \in DrvType, o.session
      PROVE  /\ [o EXCEPT !.param = TRUE] \in DrvType /\ [o EXCEPT !.param = TRUE].session
             /\ [o EXCEPT !.param = TRUE].arch = o.arch
  BY <1>2 DEF DrvType
<1>3. ASSUME NEW o \in DrvType, o.session
      PROVE  LET d == [o EXCEPT !.param = TRUE, !.result = TRUE]
             IN d \in DrvType /\ d.session /\ d.param /\ d.result /\ d.arch = o.arch /\ d.runtime = o.runtime
  BY <1>3 DEF DrvType
<1> QED  BY <1>1, <1>2, <1>3, Zenon

\* The entry point up to the session.
LEMMA OpenStep ==
  ASSUME CallsInv, OpteeClientApiInitialize \/ TaOpenSession
  PROVE  CallsInv'
<1>1. Running /\ Top.fn = "init" /\ UNCHANGED Device /\ drv \in DrvType /\ faults \in Nat
  BY DEF OpteeClientApiInitialize, TaOpenSession, At, CallsInv, AuthTypeOK
<1>2. Fault => faults' \in Nat
  BY <1>1 DEF Fault
<1>3. "open" \in Labels \ {"invoke", "take"} /\ "opened" \in Labels \ {"invoke", "take"}
  BY DEF Labels
<1>4. CASE OpteeClientApiInitialize
  <2>1. CASE Goto("open") /\ drv' = [drv EXCEPT !.api = TRUE] /\ phase' = phase /\ faults' = faults
    <3>1. drv' \in DrvType /\ drv'.session = drv.session /\ drv'.param = drv.param /\ drv'.result = drv.result
      BY <1>1, <2>1 DEF DrvType
    <3> QED  BY <1>1, <1>3, <2>1, <3>1, InitGoesOn
  <2>2. CASE Fault /\ InitEnds("Error") /\ drv' = drv
    BY <1>1, <1>2, <2>2, InitEndsStep
  <2> QED  BY <1>4, <2>1, <2>2 DEF OpteeClientApiInitialize
<1>5. CASE TaOpenSession
  <2>1. CASE Goto("opened") /\ phase' = phase /\ faults' = faults
             /\ drv' = [Opened EXCEPT !.param = TRUE, !.result = TRUE]
    <3>1. drv' \in DrvType /\ drv'.session /\ drv'.param /\ drv'.result
      BY <1>1, <2>1, OpenedFacts, Zenon
    <3> QED  BY <1>1, <1>3, <2>1, <3>1, InitGoesOn
  <2>2. CASE Fault /\ InitEnds("Error") /\ drv' \in {drv, Opened, [Opened EXCEPT !.param = TRUE]}
    <3>1. drv' \in DrvType /\ (drv.session => drv'.session)
      BY <1>1, <2>2, OpenedFacts, Zenon
    <3>2. "Error" # "OK"
      OBVIOUS
    <3> QED  BY <1>1, <1>2, <2>2, <3>1, <3>2, InitEndsStep
  <2> QED  BY <1>5, <2>1, <2>2 DEF TaOpenSession
<1> QED  BY <1>4, <1>5

\* The rest of the entry point.
LEMMA EntryStep ==
  ASSUME CallsInv, VariableAuthOpteeRuntimeInitialize
  PROVE  CallsInv'
<1>1. Running /\ Top.fn = "init" /\ UNCHANGED Device /\ served' = served /\ drv \in DrvType /\ faults \in Nat
  BY DEF VariableAuthOpteeRuntimeInitialize, At, CallsInv, AuthTypeOK
<1>2. Fault => faults' \in Nat
  BY <1>1 DEF Fault
<1>3. {"vars", "write", "event"} \subseteq Labels \ {"invoke", "take"}
  BY DEF Labels
<1>4. CASE Call(Proc("secureboot", "none"), "vars") /\ UNCHANGED <<phase, drv, faults>>
  <2> DEFINE g == Proc("secureboot", "none")
  <2>1. g \in FrameType /\ g.fn # "init" /\ g.at = "begin" /\ ~g.dirty
    BY NewFrames
  <2> HIDE DEF g
  <2>2. UNCHANGED world
    BY <1>1, <1>4 DEF world, Device
  <2> QED  BY <1>1, <1>3, <1>4, <2>1, <2>2, PlainCall DEF g
<1>5. CASE InitEnds(ret.s) /\ UNCHANGED <<drv, faults>>
  BY <1>1, <1>5, InitEndsStep
<1>6. CASE drv' = [drv EXCEPT !.services = TRUE, !.arch = TRUE] /\ Goto("write") /\ UNCHANGED <<phase, faults>>
  <2>1. drv' \in DrvType /\ drv'.session = drv.session /\ drv'.param = drv.param /\ drv'.result = drv.result
    BY <1>1, <1>6 DEF DrvType
  <2> QED  BY <1>1, <1>3, <1>6, <2>1, InitGoesOn
<1>7. CASE drv' = [drv EXCEPT !.write = TRUE] /\ Goto("event") /\ UNCHANGED <<phase, faults>>
  <2>1. drv' \in DrvType /\ drv'.session = drv.session /\ drv'.param = drv.param /\ drv'.result = drv.result
    BY <1>1, <1>7 DEF DrvType
  <2> QED  BY <1>1, <1>3, <1>7, <2>1, InitGoesOn
<1>8. CASE drv' = [drv EXCEPT !.event = TRUE] /\ InitEnds("OK") /\ faults' = faults
  <2>1. drv' \in DrvType /\ drv'.session = drv.session /\ drv'.param = drv.param /\ drv'.result = drv.result
    BY <1>1, <1>8 DEF DrvType
  <2> QED  BY <1>1, <1>8, <2>1, InitEndsStep
<1>9. CASE Fault /\ drv' \in {drv, [drv EXCEPT !.services = TRUE]} /\ InitEnds("Error")
  <2>1. drv' \in DrvType /\ drv'.session = drv.session
    BY <1>1, <1>9 DEF DrvType
  <2>2. "Error" # "OK"
    OBVIOUS
  <2> QED  BY <1>1, <1>2, <1>9, <2>1, <2>2, InitEndsStep
<1> QED  BY <1>4, <1>5, <1>6, <1>7, <1>8, <1>9 DEF VariableAuthOpteeRuntimeInitialize

\* The bytes and labels InitSecureBootVariables uses.
LEMMA StartConstants ==
  /\ Off \in Bits /\ On \in Bits /\ Off # On /\ Off # <<>> /\ On # <<>> /\ Len(Off) = 1 /\ Len(On) = 1
  /\ \A b \in BOOLEAN : Mode(b) \in Bits /\ (Mode(b) = On <=> b) /\ Mode(b) \in {Off, On}
  /\ {"user", "setup", "plain"} \subseteq Attrs
  /\ {"pk", "setup", "enable", "created", "mode", "custom", "end"} \subseteq Labels \ {"invoke", "take"}
<1>1. /\ Off \in Bits /\ On \in Bits /\ Off # On /\ Off # <<>> /\ On # <<>> /\ Len(Off) = 1 /\ Len(On) = 1
  BY DEF Off, On, Bits
<1>2. \A b \in BOOLEAN : Mode(b) \in Bits /\ (Mode(b) = On <=> b) /\ Mode(b) \in {Off, On}
  BY <1>1 DEF Mode
<1> QED  BY <1>1, <1>2 DEF Attrs, Labels

\* InitSecureBootVariables makes the calls of services and keeps its locals.
LEMMA StartMoves ==
  ASSUME CallsInv, InitSecureBootVariables
  PROVE  /\ Running /\ Top.fn = "secureboot" /\ UNCHANGED world
         /\ \/ /\ ret' = NoRet
               /\ \E l \in Labels \ {"invoke", "take"}, a \in Attrs, d \in Bits :
                    \E f : Moved(f) /\ SameCall(f, Top) /\ f.at = l /\ f.attr = a /\ f.data = d
            \/ /\ ret' = NoRet
               /\ \E l \in Labels \ {"invoke", "take"} :
                    \E f, g : /\ Called(f, g) /\ SameCall(f, Top) /\ f.at = l
                              /\ g.fn # "init" /\ g.at = "begin" /\ ~g.dirty
            \/ Return(ret.s)
<1>1. Running /\ Top.fn = "secureboot" /\ UNCHANGED world /\ AuthTypeOK
  BY DEF InitSecureBootVariables, CallsInv
<1>2. Top \in FrameType /\ Top.attr \in Attrs /\ Top.data \in Bits
  BY <1>1, TopFacts DEF FrameType
<1>3. ret.data \in Bits
  BY <1>1 DEF AuthTypeOK
<1>4. ASSUME NEW g \in FrameType, g.fn # "init", g.at = "begin", ~g.dirty,
             NEW l \in Labels \ {"invoke", "take"}, Call(g, l)
      PROVE  /\ ret' = NoRet
             /\ \E m \in Labels \ {"invoke", "take"} :
                  \E f, h : /\ Called(f, h) /\ SameCall(f, Top) /\ f.at = m
                            /\ h.fn # "init" /\ h.at = "begin" /\ ~h.dirty
  BY <1>1, <1>4, CallingMove
<1>5. ASSUME NEW g \in FrameType, g.fn # "init", g.at = "begin", ~g.dirty,
             NEW l \in Labels \ {"invoke", "take"}, NEW a \in Attrs, NEW d \in Bits, Keep(a, d, <<g>>, l)
      PROVE  /\ ret' = NoRet
             /\ \E m \in Labels \ {"invoke", "take"} :
                  \E f, h : /\ Called(f, h) /\ SameCall(f, Top) /\ f.at = m
                            /\ h.fn # "init" /\ h.at = "begin" /\ ~h.dirty
  BY <1>1, <1>5, KeepCallMove
<1>6. ASSUME NEW l \in Labels \ {"invoke", "take"}, NEW a \in Attrs, NEW d \in Bits, Keep(a, d, <<>>, l)
      PROVE  /\ ret' = NoRet
             /\ \E m \in Labels \ {"invoke", "take"}, b \in Attrs, e \in Bits :
                  \E f : Moved(f) /\ SameCall(f, Top) /\ f.at = m /\ f.attr = b /\ f.data = e
  BY <1>1, <1>6, KeepMove
<1>7. ASSUME NEW l \in Labels \ {"invoke", "take"}, Goto(l)
      PROVE  /\ ret' = NoRet
             /\ \E m \in Labels \ {"invoke", "take"}, b \in Attrs, e \in Bits :
                  \E f : Moved(f) /\ SameCall(f, Top) /\ f.at = m /\ f.attr = b /\ f.data = e
  BY <1>1, <1>2, <1>7, GotoMove
<1>8. /\ \A n \in Names, size \in Int : Get(n, size) \in FrameType /\ Get(n, size).fn # "init"
                                        /\ Get(n, size).at = "begin" /\ ~Get(n, size).dirty
      /\ \A n \in Names, d \in Bits : Set(n, d, "plain") \in FrameType /\ Set(n, d, "plain").fn # "init"
                                      /\ Set(n, d, "plain").at = "begin" /\ ~Set(n, d, "plain").dirty
  BY NewFrames, StartConstants
<1>9. /\ {"PK", "SetupMode", "SecureBootEnable", "SecureBoot", "CustomMode"} \subseteq Names /\ 1 \in Int
      /\ Mode(PcdSecureBootEnable) \in Bits /\ Mode(Top.data = On /\ UserMode) \in Bits
  <2>1. \A b : Mode(b) \in Bits
    BY StartConstants DEF Mode
  <2> QED  BY <2>1 DEF Names
<1>10. CASE Call(Get("PK", 1), "pk") \/ Call(Get("SecureBootEnable", 1), "enable")
  BY <1>1, <1>4, <1>8, <1>9, <1>10, StartConstants
<1>11. CASE \/ Keep("user", Off, <<Set("SetupMode", Off, "plain")>>, "setup")
            \/ Keep("setup", Off, <<Set("SetupMode", On, "plain")>>, "setup")
            \/ Keep("user", Mode(PcdSecureBootEnable),
                    <<Set("SecureBootEnable", Mode(PcdSecureBootEnable), "plain")>>, "created")
  BY <1>1, <1>5, <1>8, <1>9, <1>11, StartConstants
<1>12. CASE \/ Call(Set("SecureBoot", Mode(Top.data = On /\ UserMode), "plain"), "custom")
            \/ Call(Set("CustomMode", Off, "plain"), "end")
  BY <1>1, <1>4, <1>8, <1>9, <1>12, StartConstants
<1>13. CASE Goto("mode")
  BY <1>1, <1>7, <1>13, StartConstants
<1>14. CASE Keep("user", ret.data, <<>>, "mode")
  BY <1>1, <1>3, <1>6, <1>14, StartConstants
<1> QED  BY <1>1, <1>10, <1>11, <1>12, <1>13, <1>14 DEF InitSecureBootVariables

\* InitSecureBootVariables keeps the invariant of the calls.
LEMMA StartStep ==
  ASSUME CallsInv, InitSecureBootVariables
  PROVE  CallsInv'
<1>1. Running /\ Top.fn = "secureboot" /\ UNCHANGED world
  BY StartMoves
<1>2. RestTyped /\ DriverInv' /\ Steady
  BY <1>1, WorldKept
<1>3. ASSUME ret' = NoRet, NEW l \in Labels \ {"invoke", "take"}, NEW f, Moved(f), SameCall(f, Top), f.at = l
      PROVE  CallsInv'
  <2>1. BuffersInv(f, pbuf', rbuf', store', Bad') /\ f.at # "invoke"
    BY <1>3 DEF BuffersInv, InBuffers
  <2> QED  BY <1>1, <1>2, <1>3, <2>1, StepMove DEF SameCall
<1>4. ASSUME ret' = NoRet, NEW l \in Labels \ {"invoke", "take"}, NEW f, NEW g, Called(f, g),
             SameCall(f, Top), f.at = l, g.fn # "init", g.at = "begin", ~g.dirty
      PROVE  CallsInv'
  BY <1>1, <1>2, <1>4, StepCall DEF SameCall
<1>5. CASE Return(ret.s)
  BY <1>1, <1>5, OtherReturn
<1> QED  BY <1>3, <1>4, <1>5, StartMoves

-------------------------------------------------------------------------------
(* The platform and the callers.                                             *)

\* The end of boot services: nothing is on the stack.
LEMMA ExitStep ==
  ASSUME CallsInv, ExitBootServices \/ OpteeRuntimeOnExitBootServices
  PROVE  CallsInv' /\ stack' = <<>>
<1>1. stack = <<>> /\ stack' = <<>> /\ ret' = NoRet /\ phase # "failed" /\ AuthTypeOK
  BY DEF ExitBootServices, OpteeRuntimeOnExitBootServices, Running, CallsInv
<1>2. /\ pbuf' = pbuf /\ rbuf' = rbuf /\ store' = store /\ pcr' = pcr /\ changed' = changed
      /\ calls' = calls /\ callbacks' = callbacks
  BY DEF ExitBootServices, OpteeRuntimeOnExitBootServices
<1>3. faults' \in Nat
  BY <1>1 DEF ExitBootServices, OpteeRuntimeOnExitBootServices, Fault, AuthTypeOK
<1>4. drv' \in DrvType /\ (drv'.session => drv.session /\ drv'.param = drv.param /\ drv'.result = drv.result)
  <2>1. CASE drv' = [drv EXCEPT !.runtime = TRUE]
    BY <1>1, <2>1 DEF AuthTypeOK, DrvType
  <2>2. CASE drv' = Released
    <3>1. ASSUME NEW o \in DrvType, NEW b \in BOOLEAN
          PROVE  LET d == [o EXCEPT !.session = b, !.param = b, !.result = b, !.api = b]
                 IN d \in DrvType /\ d.session = b
      BY DEF DrvType
    <3>2. drv' \in DrvType /\ drv'.session = FALSE
      BY <1>1, <2>2, <3>1, Zenon DEF Released, AuthTypeOK
    <3> QED  BY <3>2
  <2>3. CASE drv' = drv
    BY <1>1, <2>3 DEF AuthTypeOK
  <2> QED  BY <2>1, <2>2, <2>3 DEF ExitBootServices, OpteeRuntimeOnExitBootServices
<1>5. AuthTypeOK'
  BY <1>1, <1>2, <1>3, <1>4, NoAnswer DEF AuthTypeOK
<1>6. StackInv'
  BY <1>1 DEF StackInv
<1>7. DriverInv'
  BY <1>1, <1>4 DEF CallsInv, DriverInv
<1>8. TopInv'
  BY <1>1 DEF TopInv
<1> QED  BY <1>1, <1>5, <1>6, <1>7, <1>8, NoAnswer DEF CallsInv

\* What callers ask for are calls that have not begun.
LEMMA RequestFrames ==
  /\ \A f \in Requests \cup OddRequests :
       f \in FrameType /\ f.fn \in Services /\ f.at = "begin" /\ ~f.dirty
  /\ \A f \in CallbackRequests :
       f \in FrameType /\ f.fn \in Services /\ f.at = "begin" /\ ~f.dirty
<1>1. /\ Public \subseteq Names \cup Odd \cup {"none"} /\ Odd \subseteq Names \cup Odd \cup {"none"}
      /\ Public \subseteq Names \cup Odd /\ Odd \subseteq Names \cup Odd
      /\ "db" \in Names \cup Odd /\ "db" \in Names \cup Odd \cup {"none"} /\ "Boot" \in Names \cup Odd
      /\ "PK" \in Names \cup Odd \cup {"none"}
  BY DEF Public, Names, Odd
<1>2. /\ Sizes \subseteq Int /\ UintN \in Int /\ MemSize \in Int /\ MaxData \in Int /\ 0 \in Int
      /\ Payloads \subseteq Bits /\ <<0, 1, 1>> \in Bits /\ <<1, 1, 1>> \in Bits /\ On \in Bits
  BY AuthVarsAssumption DEF UintN, MemSize, SetHeader, Bits, On
<1>3. {"plain", "auth", "append", "zero", "some"} \subseteq Attrs
  BY DEF Attrs
<1>4. \A f \in Requests : f \in FrameType /\ f.fn \in Services /\ f.at = "begin" /\ ~f.dirty
  BY <1>1, <1>2, <1>3, NewFrames DEF Requests, Services
<1>5. \A f \in OddRequests : f \in FrameType /\ f.fn \in Services /\ f.at = "begin" /\ ~f.dirty
  BY <1>1, <1>2, <1>3, NewFrames DEF OddRequests, Services
<1>6. \A f \in CallbackRequests : f \in FrameType /\ f.fn \in Services /\ f.at = "begin" /\ ~f.dirty
  BY <1>1, <1>2, <1>3, NewFrames DEF CallbackRequests, Services
<1> QED  BY <1>4, <1>5, <1>6

\* A call from outside.
LEMMA ClientStep ==
  ASSUME CallsInv, ClientCall
  PROVE  /\ CallsInv'
         /\ \E f \in FrameType : stack' = <<f>> /\ f.fn \in Services /\ f.at = "begin"
<1>1. stack = <<>> /\ ret' = NoRet /\ phase # "failed" /\ AuthTypeOK
  BY DEF ClientCall, Running, CallsInv
<1>2. /\ pbuf' = pbuf /\ rbuf' = rbuf /\ store' = store /\ pcr' = pcr /\ changed' = changed
      /\ callbacks' = callbacks /\ drv' = drv /\ phase' = phase /\ faults' = faults
  BY DEF ClientCall
<1>3. calls' \in Nat
  BY <1>1 DEF ClientCall, AuthTypeOK
<1>4. PICK f \in Requests \cup OddRequests : stack' = <<f>>
  BY DEF ClientCall
<1>5. f \in FrameType /\ f.fn \in Services /\ f.at = "begin" /\ ~f.dirty
  BY RequestFrames
<1>6. stack' \in Seq(FrameType) /\ Len(stack') = 1 /\ stack'[1] = f
  BY <1>4, <1>5
<1>7. AuthTypeOK'
  BY <1>1, <1>2, <1>3, <1>6, NoAnswer DEF AuthTypeOK
<1>8. StackInv'
  BY <1>5, <1>6 DEF StackInv, Services
<1>9. DriverInv'
  BY <1>1, <1>2 DEF CallsInv, DriverInv
<1>10. TopInv'
  BY <1>5, <1>6 DEF TopInv, BuffersInv, InBuffers
<1> QED  BY <1>1, <1>4, <1>5, <1>7, <1>8, <1>9, <1>10, NoAnswer DEF CallsInv

\* A callback calls a service on top of what is running.
LEMMA CallbackStep ==
  ASSUME CallsInv, Callback
  PROVE  CallsInv'
<1>1. Running /\ stack # <<>> /\ ret' = NoRet /\ phase = "boot" /\ AuthTypeOK
  BY DEF Callback, Running, CallsInv
<1>2. /\ pbuf' = pbuf /\ rbuf' = rbuf /\ store' = store /\ pcr' = pcr /\ changed' = changed
      /\ calls' = calls /\ drv' = drv /\ phase' = phase /\ faults' = faults
      /\ callbacks' \in Nat /\ callbacks' > 0
  BY <1>1 DEF Callback, AuthTypeOK
<1> DEFINE D == [i \in DOMAIN stack |-> [stack[i] EXCEPT !.dirty = TRUE]]
<1>3. PICK f \in CallbackRequests : stack' = D \o <<[f EXCEPT !.cb = TRUE]>>
  BY DEF Callback
<1> DEFINE h == [f EXCEPT !.cb = TRUE]
           n == Len(stack)
<1>4. f \in FrameType /\ f.fn \in Services /\ f.at = "begin" /\ ~f.dirty
  BY RequestFrames
<1>5. h \in FrameType /\ h.fn = f.fn /\ h.at = "begin" /\ h.dirty = f.dirty
  BY <1>4 DEF FrameType
<1>6. \A i \in 1 .. n : /\ [stack[i] EXCEPT !.dirty = TRUE] \in FrameType
                        /\ [stack[i] EXCEPT !.dirty = TRUE].dirty
                        /\ [stack[i] EXCEPT !.dirty = TRUE].fn = stack[i].fn
                        /\ [stack[i] EXCEPT !.dirty = TRUE].at = stack[i].at
  <2>1. ASSUME NEW t \in FrameType, NEW b \in BOOLEAN
        PROVE  /\ [t EXCEPT !.dirty = b] \in FrameType /\ [t EXCEPT !.dirty = b].dirty = b
               /\ [t EXCEPT !.dirty = b].fn = t.fn /\ [t EXCEPT !.dirty = b].at = t.at
    BY DEF FrameType
  <2>2. ASSUME NEW i \in 1 .. n
        PROVE  stack[i] \in FrameType
    BY <1>1, StackElement DEF AuthTypeOK
  <2>3. ASSUME NEW i \in 1 .. n
        PROVE  /\ [stack[i] EXCEPT !.dirty = TRUE] \in FrameType
               /\ [stack[i] EXCEPT !.dirty = TRUE].dirty = TRUE
               /\ [stack[i] EXCEPT !.dirty = TRUE].fn = stack[i].fn
               /\ [stack[i] EXCEPT !.dirty = TRUE].at = stack[i].at
    BY <2>1, <2>2, Zenon
  <2> QED  BY <2>3, Zenon
<1>7. n \in Nat /\ DOMAIN stack = 1 .. n
  BY <1>1 DEF AuthTypeOK
<1> HIDE DEF n
<1>8. /\ D \in Seq(FrameType) /\ Len(D) = n
      /\ \A i \in 1 .. n : D[i].dirty /\ D[i].fn = stack[i].fn /\ D[i].at = stack[i].at
  <2>1. DOMAIN D = 1 .. n
    BY <1>7, Zenon
  <2>2. \A i \in 1 .. n : D[i] = [stack[i] EXCEPT !.dirty = TRUE]
    BY <1>7, Zenon
  <2>3. \A i \in 1 .. n : D[i] \in FrameType /\ D[i].dirty /\ D[i].fn = stack[i].fn /\ D[i].at = stack[i].at
    BY <2>2, <1>6, Zenon
  <2>4. D = [i \in 1 .. n |-> D[i]]
    BY <1>7, Zenon
  <2> HIDE DEF D
  <2>5. D \in [1 .. n -> FrameType]
    BY <2>3, <2>4, Zenon
  <2>6. D \in Seq(FrameType)
    BY <2>5, <1>7
  <2>7. Len(D) = n
    BY <2>1, <2>6, <1>7
  <2> QED  BY <2>3, <2>6, <2>7, Zenon
<1> HIDE DEF D, h
<1>9. stack' = Append(D, h)
  BY <1>3, <1>5, <1>8 DEF h
<1>10. /\ stack' \in Seq(FrameType) /\ Len(stack') = n + 1 /\ stack'[n + 1] = h
       /\ \A k \in 1 .. n : stack'[k] = D[k]
  BY <1>5, <1>8, <1>9, StackPush
<1>11. AuthTypeOK'
  BY <1>1, <1>2, <1>10, NoAnswer DEF AuthTypeOK
<1>12. StackInv'
  <2>1. \A k \in 1 .. n + 1 : k = n + 1 \/ k \in 1 .. n
    BY <1>7
  <2>2. \A k \in 1 .. (n + 1) - 1 : k \in 1 .. n
    BY <1>7
  <2>3. \A k \in 1 .. n : /\ stack'[k].dirty
                          /\ stack'[k].fn = "init" => k = 1
                          /\ stack'[k].at = "invoke" => drv'.session
    BY <1>2, <1>8, <1>10 DEF CallsInv, StackInv, n
  <2>4. h.fn # "init" /\ h.at # "invoke"
    BY <1>4, <1>5 DEF Services
  <2>5. ASSUME NEW k \in 1 .. Len(stack')
        PROVE  /\ stack'[k].fn = "init" => k = 1
               /\ stack'[k].at = "invoke" => drv'.session
               /\ stack'[k].dirty => callbacks' > 0
    BY <1>2, <1>10, <2>1, <2>3, <2>4, Zenon
  <2>6. ASSUME NEW k \in 1 .. Len(stack') - 1
        PROVE  InBuffers(stack'[k]) => stack'[k].dirty
    BY <1>10, <2>2, <2>3, Zenon
  <2> QED  BY <2>5, <2>6, Zenon DEF StackInv, InBuffers
<1>13. DriverInv'
  BY <1>1, <1>2 DEF CallsInv, DriverInv
<1>14. TopInv'
  BY <1>5, <1>10 DEF TopInv, BuffersInv, InBuffers
<1> QED  BY <1>1, <1>11, <1>12, <1>13, <1>14, NoAnswer DEF CallsInv

\* The driver's test changes sessions and drops the volatile variables between calls.
LEMMA TestStep ==
  ASSUME CallsInv, NEW sids, TestSessions(sids)
  PROVE  /\ CallsInv' /\ stack = <<>> /\ stack' = <<>> /\ phase = "boot" /\ phase' = "boot"
         /\ drv' = drv /\ pcr' = pcr /\ faults' = faults /\ callbacks' = callbacks /\ calls' = calls + 1
         /\ changed' \subseteq changed /\ Volatile \cap changed' = {}
         /\ \A n \in Names : store'[n] = IF n \in Volatile THEN <<>> ELSE store[n]
<1>1. /\ stack = <<>> /\ stack' = <<>> /\ ret' = NoRet /\ phase = "boot" /\ phase' = "boot" /\ AuthTypeOK
      /\ drv' = drv /\ pbuf' = pbuf /\ rbuf' = rbuf /\ pcr' = pcr /\ faults' = faults
      /\ callbacks' = callbacks /\ calls' = calls + 1 /\ changed' = changed \ Volatile
      /\ store' = [n \in Names |-> IF n \in Volatile THEN <<>> ELSE store[n]]
  BY DEF TestSessions, Running, CallsInv
<1>2. store' \in [Names -> Bits]
  <2>1. <<>> \in Bits
    BY DEF Bits
  <2> QED  BY <1>1, <2>1 DEF AuthTypeOK
<1>3. AuthTypeOK'
  BY <1>1, <1>2, NoAnswer DEF AuthTypeOK
<1>4. StackInv' /\ TopInv'
  BY <1>1 DEF StackInv, TopInv
<1>5. DriverInv'
  BY <1>1 DEF CallsInv, DriverInv
<1> QED  BY <1>1, <1>3, <1>4, <1>5, NoAnswer DEF CallsInv

-------------------------------------------------------------------------------
(* The theorems about calls.                                                 *)

\* Initially only the entry point runs, and nothing is in the buffers.
LEMMA CallsInit ==
  ASSUME Init
  PROVE  CallsInv
<1>1. Proc("init", "none") \in FrameType /\ ~Proc("init", "none").dirty /\ Proc("init", "none").fn = "init"
      /\ Proc("init", "none").at = "begin"
  BY NewFrames
<1>2. stack \in Seq(FrameType) /\ Len(stack) = 1 /\ stack[1] = Proc("init", "none")
  BY <1>1 DEF Init
<1>3. <<>> \in Bits /\ <<1, 0>> \in Bits /\ Off \in Bits /\ On \in Bits /\ Never \in Seq({0, 1, 2})
  BY DEF Bits, Off, On, Never
<1>4. store \in [Names -> Bits]
  BY <1>3 DEF Init
<1>5. drv \in DrvType /\ ~drv.session
  BY DEF Init, NewDriver, DrvType
<1>6. AuthTypeOK
  BY <1>2, <1>3, <1>4, <1>5 DEF Init, AuthTypeOK, Zero, NoRet
<1>7. StackInv
  BY <1>1, <1>2 DEF StackInv
<1>8. DriverInv
  BY <1>5 DEF Init, DriverInv
<1>9. TopInv
  BY <1>1, <1>2 DEF TopInv, BuffersInv, InBuffers
<1>10. AnswersAreStored
  BY DEF Init, NoRet, AnswersAreStored
<1> QED  BY <1>6, <1>7, <1>8, <1>9, <1>10 DEF CallsInv

\* Every step keeps the invariant of the calls.
LEMMA CallsStep ==
  ASSUME CallsInv, [Next]_vars
  PROVE  CallsInv'
<1>1. CASE UNCHANGED vars
  BY <1>1 DEF vars, CallsInv, AuthTypeOK, StackInv, DriverInv, TopInv, AnswersAreStored, InBuffers,
              BuffersInv, Filled, GotInv, Bad, Served
<1>2. CASE Driver
  BY <1>2, OpenStep, StartStep, EntryStep, ExitStep, BeginStep, InvokeStep, GetStep, NextStep, SetStep,
     HookStep DEF Driver
<1>3. CASE Stopped
  BY <1>1, <1>3 DEF Stopped
<1>4. CASE \E sids \in SUBSET Sids : TestSessions(sids)
  BY <1>4, TestStep
<1> QED  BY <1>1, <1>2, <1>3, <1>4, ExitStep, ClientStep, CallbackStep DEF Next

\* The calls' invariant holds always.
LEMMA CallsAlways == Spec => []CallsInv
<1>1. Init => CallsInv
  BY CallsInit
<1>2. CallsInv /\ [Next]_vars => CallsInv'
  BY CallsStep
<1> QED  BY <1>1, <1>2, PTL DEF Spec

\* What GetVariable returns, OpteeRuntimeGetVariable: the stored data, or the size with
\* which a retry succeeds, for callers, callbacks and failures in any order.
THEOREM AnswersAreStoredHolds == Spec => []AnswersAreStored
<1>1. CallsInv => AnswersAreStored
  BY DEF CallsInv
<1> QED  BY <1>1, CallsAlways, PTL

\* A step that writes to a transport buffer finds both allocated.
LEMMA BuffersStep ==
  ASSUME CallsInv, [Next]_vars
  PROVE  [pbuf' # pbuf \/ rbuf' # rbuf => drv.param /\ drv.result]_vars
<1> SUFFICES ASSUME Next, pbuf' # pbuf \/ rbuf' # rbuf
             PROVE  drv.param /\ drv.result
  BY DEF vars
<1>1. SUFFICES ASSUME Running
               PROVE  drv.session
  <2>1. Running
    BY DEF Next, Driver, OpteeClientApiInitialize, TaOpenSession, InitSecureBootVariables,
           VariableAuthOpteeRuntimeInitialize, OpteeRuntimeOnExitBootServices, BeginService,
           OpteeRuntimeVariableInvokeCommand, OpteeRuntimeGetVariable, OpteeRuntimeGetNextVariableName,
           OpteeRuntimeSetVariable, SetReturns, OpteeRuntimeQueryVariableInfo, SecureBootHook,
           InternalGetVariable, MeasureVariable, ExitBootServices, ClientCall, Callback, TestSessions, Stopped, At, vars
  <2> QED  BY <2>1, <1>1 DEF CallsInv, DriverInv, Running
<1>2. Top \in FrameType /\ Top = stack[Len(stack)] /\ Len(stack) \in 1 .. Len(stack)
  BY <1>1, TopFacts DEF CallsInv
<1>3. CASE BeginService
  <2>1. Top.fn \in Services /\ Checked(Top) = "OK"
    BY <1>3 DEF BeginService
  <2> QED  BY <1>2, <2>1, CheckedFacts DEF CallsInv
<1>4. CASE OpteeRuntimeVariableInvokeCommand
  <2>1. Top.at = "invoke"
    BY <1>4 DEF OpteeRuntimeVariableInvokeCommand
  <2> QED  BY <1>2, <2>1 DEF CallsInv, StackInv
<1>5. BeginService \/ OpteeRuntimeVariableInvokeCommand
  BY DEF Next, Driver, OpteeClientApiInitialize, TaOpenSession, InitSecureBootVariables,
         VariableAuthOpteeRuntimeInitialize, OpteeRuntimeOnExitBootServices,
         OpteeRuntimeGetVariable, OpteeRuntimeGetNextVariableName,
         OpteeRuntimeSetVariable, SetReturns, OpteeRuntimeQueryVariableInfo, SecureBootHook,
         InternalGetVariable, MeasureVariable, ExitBootServices, ClientCall, Callback, TestSessions, Stopped, vars,
         world, Device
<1> QED  BY <1>3, <1>4, <1>5

\* Nobody writes to the transport buffers before TaOpenSession allocated both or after
\* they were released at the end of boot services.
THEOREM BuffersAllocatedHolds == Spec => BuffersAllocated
<1>1. CallsInv /\ [Next]_vars => [pbuf' # pbuf \/ rbuf' # rbuf => drv.param /\ drv.result]_vars
  BY BuffersStep
<1>2. Spec => [][Next]_vars
  BY PTL DEF Spec
<1> QED  BY <1>1, <1>2, CallsAlways, PTL DEF BuffersAllocated

-------------------------------------------------------------------------------
(* Measurements.                                                             *)

\* What the hook's invariant says of the call on top.
LEMMA HookTop ==
  ASSUME CallsInv, HookInv, Running, callbacks = 0
  PROVE  /\ Len(stack) \in 1 .. 3 /\ Top = stack[Len(stack)] /\ Top \in FrameType /\ ~Top.dirty
         /\ Top.fn \in {"init", "next", "query", "set"} => Len(stack) = 1
         /\ Top.fn = "get" => Len(stack) \in {1, 3}
         /\ Top.fn = "hook" => Len(stack) = 2
         /\ Top.fn # "secureboot"
         /\ phase # "failed"
<1>1. Top \in FrameType /\ Top = stack[Len(stack)] /\ Len(stack) \in Nat \ {0}
  BY TopFacts DEF CallsInv
<1>2. Len(stack) \in 1 .. 3
  <2>1. Len(stack) <= 3
    BY DEF HookInv, HookShape
  <2>2. \A l \in Nat \ {0} : l <= 3 => l \in 1 .. 3
    OBVIOUS
  <2> QED  BY <1>1, <2>1, <2>2, Zenon
<1>3. ~Top.dirty
  <2>1. Len(stack) \in 1 .. Len(stack) /\ ~(callbacks > 0)
    BY <1>1
  <2> QED  BY <1>1, <2>1 DEF CallsInv, StackInv
<1>4. Len(stack) = 1 \/ Len(stack) = 2 \/ Len(stack) = 3
  BY <1>2
<1>5. CASE Len(stack) = 1
  BY <1>1, <1>2, <1>3, <1>5 DEF HookInv, HookShape, Services, CallsInv, DriverInv, Running
<1>6. CASE Len(stack) = 2
  BY <1>1, <1>2, <1>3, <1>6 DEF HookInv, HookShape, Services, CallsInv, DriverInv, Running
<1>7. CASE Len(stack) = 3
  BY <1>1, <1>2, <1>3, <1>7 DEF HookInv, HookShape, Services, CallsInv, DriverInv, Running
<1> QED  BY <1>4, <1>5, <1>6, <1>7

\* A call from outside returns: nothing is left to be measured.
LEMMA HookEmptied ==
  ASSUME CallsInv, HookInv, Running, Popped, Len(stack) = 1, callbacks = 0,
         ~(Top.fn = "set" /\ Top.at = "take" /\ Top.st = "OK" /\ Top.name \in changed),
         store' = store, pcr' = pcr, changed' = changed
  PROVE  HookInv'
<1>1. Len(stack') = 0
  BY DEF Popped
<1>2. Top = stack[1]
  BY DEF Top
<1>3. \A n \in changed : ~Pending(n)
  BY <1>2 DEF Pending
<1>4. HookShape'
  BY <1>1 DEF HookShape
<1> QED  BY <1>1, <1>3, <1>4 DEF HookInv

\* The call on top goes on, and nothing else changes.
LEMMA HookGoesOn ==
  ASSUME CallsInv, HookInv, Running, callbacks = 0, Len(stack) # 2, NEW f, Moved(f), SameCall(f, Top),
         f.fn = "init" => f.at \in {"write", "event"}, f.fn = "set" => drv'.session /\ ~drv'.runtime,
         drv'.session = drv.session, drv'.runtime = drv.runtime, Served => Served',
         ~(f.fn = "set" /\ f.at = "take" /\ f.st = "OK"),
         f.at # "hooked" \/ Len(stack) = 3,
         ~(Top.fn = "set" /\ Top.at = "take" /\ Top.st = "OK" /\ Top.name \in changed),
         store' = store, pcr' = pcr, changed' = changed
  PROVE  HookInv'
<1>1. Len(stack) \in 1 .. 3 /\ Top = stack[Len(stack)] /\ Top \in FrameType
  BY HookTop
<1>2. Len(stack') = Len(stack) /\ stack'[Len(stack)] = f /\ \A k \in 1 .. Len(stack) - 1 : stack'[k] = stack[k]
  BY DEF Moved, SameBelow
<1>3. f.fn = Top.fn /\ f.name = Top.name /\ f.size = Top.size
  BY DEF SameCall
<1>4. CASE Len(stack) = 1
  <2>1. Len(stack') = 1 /\ stack'[1] = f /\ Top = stack[1]
    BY <1>1, <1>2, <1>4
  <2>2. HookShape'
    BY <2>1, <1>3, <1>4 DEF HookInv, HookShape
  <2>3. \A n \in changed : ~Pending(n)
    BY <2>1, <1>4 DEF Pending
  <2> QED  BY <2>1, <2>2, <2>3 DEF HookInv
<1>5. CASE Len(stack) = 3
  <2>1. Len(stack') = 3 /\ stack'[3] = f /\ Top = stack[3] /\ stack'[1] = stack[1] /\ stack'[2] = stack[2]
    BY <1>1, <1>2, <1>5
  <2>2. \A k \in 1 .. 3 : k = 1 \/ k = 2 \/ k = 3
    OBVIOUS
  <2>3. HookShape'
    BY <2>1, <2>2, <1>3, <1>5 DEF HookInv, HookShape
  <2>4. \A n \in changed : pcr'[n] = store'[n] \/ Pending(n)'
    BY <2>1, <1>5 DEF HookInv, Pending
  <2> QED  BY <2>1, <2>3, <2>4 DEF HookInv
<1> QED  BY <1>1, <1>4, <1>5

\* A service begins: the hook's reads pass their checks.
LEMMA HookBegin ==
  ASSUME CallsInv, HookInv, Fits, callbacks = 0, BeginService
  PROVE  HookInv'
<1>1. Running /\ Top.fn \in Services /\ Top.at = "begin" /\ AuthTypeOK
      /\ store' = store /\ pcr' = pcr /\ changed' = changed /\ served' = served
  BY DEF BeginService, CallsInv
<1>2. /\ Len(stack) \in 1 .. 3 /\ Top = stack[Len(stack)] /\ Top \in FrameType
      /\ Top.fn # "get" => Len(stack) = 1
      /\ Top.fn = "get" => Len(stack) \in {1, 3}
      /\ phase # "failed"
  BY <1>1, HookTop DEF Services
<1>3. /\ Checked(Top) = "OK" => drv.session /\ ~drv.runtime
  BY <1>1, <1>2, CheckedFacts
<1>4. CASE Checked(Top) = "OK" /\ Goto("invoke") /\ drv' = drv
  <2>1. "invoke" \in Labels
    BY DEF Labels
  <2>2. PICK f : Moved(f) /\ SameCall(f, Top) /\ f.at = "invoke"
    BY <1>1, <1>4, <2>1, GotoMove
  <2>3. f.fn # "init"
    BY <1>1, <2>2 DEF SameCall, Services
  <2>4. Len(stack) # 2
    BY <1>2
  <2>5. Served' = Served
    BY <1>1, <1>4 DEF Served
  <2> QED  BY <1>1, <1>3, <1>4, <2>2, <2>3, <2>4, <2>5, HookGoesOn
<1>5. CASE Checked(Top) # "OK" /\ \E s : Return(s)
  <2>1. Popped
    BY <1>1, <1>5, ReturnMove
  <2>2. Len(stack) = 1
    <3>1. SUFFICES ASSUME Len(stack) = 3
                   PROVE  FALSE
      BY <1>2
    <3>2. /\ Top.fn = "get" /\ Top.name = stack[2].name /\ stack[2].name \in Policy
          /\ stack[2].at = "probed" => Top.size = 0
          /\ stack[2].at = "fetched" => Top.size = Len(store[stack[2].name])
          /\ stack[2].at \in {"probed", "fetched"}
          /\ drv.session /\ ~drv.runtime
      BY <1>2, <3>1 DEF HookInv, HookShape
    <3>3. drv.param /\ drv.result
      BY <1>2, <3>2 DEF CallsInv, DriverInv
    <3>4. Top.name \in Names
      BY <3>2 DEF Policy, Names
    <3>5. Top.size \in 0 .. MaxData + 1
      <4>1. Len(store[Top.name]) \in Nat /\ Len(store[Top.name]) <= MaxData + 1
        BY <3>4, <1>1 DEF Fits, AuthTypeOK, Bits
      <4> QED  BY <4>1, <3>2, AuthVarsAssumption
    <3> QED  BY <1>1, <1>2, <1>5, <3>2, <3>3, <3>4, <3>5, CheckedFacts
  <2> QED  BY <1>1, <2>1, <2>2, HookEmptied
<1> QED  BY <1>4, <1>5 DEF BeginService

\* A command: a write of a policy variable is now to be measured.
LEMMA HookInvoke ==
  ASSUME CallsInv, HookInv, drv.arch, callbacks = 0, faults' = 0, faults = 0,
         OpteeRuntimeVariableInvokeCommand
  PROVE  HookInv'
<1>1. Running /\ Top.at = "invoke" /\ InBuffers(Top) /\ drv' = drv /\ pcr' = pcr /\ AuthTypeOK
      /\ Served' = Served
  BY InvokeMoves DEF CallsInv, Served
<1>2. PICK f : /\ Moved(f) /\ SameCall(f, Top) /\ f.at = "take"
               /\ IF Served /\ Top.fn = "set" /\ TaSet(pbuf) = "SUCCESS" /\ faults' = faults
                  THEN /\ f.st = "OK" /\ store' = [store EXCEPT ![pbuf.name] = Stored(pbuf)]
                       /\ changed' = IF drv.arch THEN changed \cup ({pbuf.name} \cap Policy) ELSE changed
                  ELSE /\ Top.fn = "set" => f.st # "OK"
                       /\ store' = store /\ changed' = changed
  BY InvokeMoves
<1>3. /\ Len(stack) \in 1 .. 3 /\ Top = stack[Len(stack)] /\ Top \in FrameType /\ ~Top.dirty
      /\ Top.fn # "get" => Len(stack) = 1
      /\ Top.fn = "get" => Len(stack) \in {1, 3}
  BY <1>1, HookTop DEF InBuffers, Services
<1>4. Top.fn = "set" => drv.session /\ ~drv.runtime
  <2>1. Len(stack) \in 1 .. Len(stack) /\ stack[Len(stack)].at = "invoke"
    <3>1. \A l \in 1 .. 3 : l \in 1 .. l
      OBVIOUS
    <3> QED  BY <3>1, <1>1, <1>3, Zenon
  <2>2. HookShape
    BY DEF HookInv
  <2> QED  BY <2>1, <2>2, <1>3 DEF HookShape
<1>5. CASE Served /\ Top.fn = "set" /\ TaSet(pbuf) = "SUCCESS"
  <2>1. store' = [store EXCEPT ![pbuf.name] = Stored(pbuf)] /\ f.st = "OK"
        /\ changed' = changed \cup ({pbuf.name} \cap Policy)
    BY <1>2, <1>5
  <2>2. pbuf.name = Top.name
    BY <1>1, <1>3 DEF CallsInv, TopInv, Running, BuffersInv, Filled
  <2>3. Len(stack') = 1 /\ stack'[1] = f /\ Top = stack[1] /\ Len(stack) = 1
    BY <1>2, <1>3, <1>5 DEF Moved
  <2>4. HookShape'
    BY <2>3, <1>1, <1>2, <1>4, <1>5 DEF HookShape, SameCall, Services
  <2>5. ASSUME NEW n \in changed'
        PROVE  pcr'[n] = store'[n] \/ Pending(n)'
    <3>1. CASE n = Top.name
      BY <2>1, <2>3, <3>1, <1>2, <1>5 DEF Pending, SameCall
    <3>2. CASE n # Top.name
      <4>1. n \in changed /\ ~Pending(n)
        BY <2>1, <2>2, <2>3, <3>2, <1>1 DEF Pending
      <4>2. n \in Names
        BY <4>1, <1>1 DEF AuthTypeOK, Policy, Names
      <4>3. store'[n] = store[n]
        BY <2>1, <2>2, <3>2, <4>2, <1>1 DEF AuthTypeOK
      <4> QED  BY <4>1, <4>3, <1>1 DEF HookInv
    <3> QED  BY <3>1, <3>2
  <2> QED  BY <2>3, <2>4, <2>5 DEF HookInv
<1>6. CASE ~(Served /\ Top.fn = "set" /\ TaSet(pbuf) = "SUCCESS")
  <2>1. store' = store /\ changed' = changed /\ (Top.fn = "set" => f.st # "OK")
    BY <1>2, <1>6
  <2>2. f.fn = Top.fn /\ Top.fn # "init"
    BY <1>1, <1>2 DEF SameCall, InBuffers, Services
  <2>3. Len(stack) # 2
    <3>1. \A l : l = 1 \/ l \in {1, 3} => l # 2
      OBVIOUS
    <3> QED  BY <3>1, <1>3, Zenon
  <2> QED  BY <1>1, <1>2, <1>4, <2>1, <2>2, <2>3, HookGoesOn
<1> QED  BY <1>5, <1>6

\* GetVariable's answer when nobody interrupted it and nothing failed.
LEMMA GetAnswer ==
  ASSUME CallsInv, OpteeRuntimeGetVariable, ~Top.dirty, Top.name \in Names, faults = 0, Served
  PROVE  /\ Popped /\ ret'.s = Top.st
         /\ \/ Top.st = "OK" /\ ret'.data = store[Top.name]
               /\ store[Top.name] # <<>> /\ Len(store[Top.name]) <= Top.size
            \/ Top.st = "BufferTooSmall" /\ ret'.size = Len(store[Top.name])
               /\ Len(store[Top.name]) > Top.size
            \/ Top.st = "NotFound" /\ store[Top.name] = <<>>
<1>1. Running /\ Top.fn = "get" /\ Top.at = "take" /\ AuthTypeOK /\ UNCHANGED world
  BY DEF OpteeRuntimeGetVariable, At, CallsInv
<1>2. Top \in FrameType /\ Top = stack[Len(stack)]
  BY <1>1, TopFacts
<1>3. GotInv(Top, rbuf, store, Bad)
  BY <1>1, <1>2 DEF CallsInv, TopInv, Running, BuffersInv, InBuffers, Services
<1>4. Top.st \in {"OK", "BufferTooSmall", "NotFound"}
  BY <1>3 DEF GotInv, Bad, CallsInv, AuthTypeOK
<1>5. Top.size \in Int /\ Len(store[Top.name]) \in Nat
  BY <1>1, <1>2 DEF FrameType, AuthTypeOK, Bits
<1>6. CASE Top.st = "BufferTooSmall"
  <2>1. Answer(Top.st, Top.name, Top.rsize - GetHeader, <<>>)
    BY <1>6 DEF OpteeRuntimeGetVariable
  <2>2. Popped /\ ret'.s = Top.st /\ ret'.size = Top.rsize - GetHeader
    BY <1>1, <2>1, AnswerMove
  <2> QED  BY <2>2, <1>3, <1>5, <1>6 DEF GotInv, GetHeader
<1>7. CASE Top.st = "NotFound"
  <2>1. Return(Top.st)
    BY <1>7 DEF OpteeRuntimeGetVariable
  <2> QED  BY <2>1, <1>1, <1>3, <1>7, ReturnMove DEF GotInv
<1>8. CASE Top.st = "OK"
  <2>1. rbuf.data = store[Top.name] /\ Len(rbuf.data) <= Top.size /\ rbuf.data # <<>>
    BY <1>3, <1>8 DEF GotInv
  <2>2. ~(Len(rbuf.data) > Top.size)
    BY <2>1, <1>5
  <2>3. Answer("OK", Top.name, Len(rbuf.data), rbuf.data)
    BY <2>2, <1>8 DEF OpteeRuntimeGetVariable
  <2>4. Popped /\ ret'.s = "OK" /\ ret'.data = rbuf.data
    BY <1>1, <2>3, AnswerMove
  <2> QED  BY <2>1, <2>4, <1>8
<1> QED  BY <1>4, <1>6, <1>7, <1>8

\* GetVariable returns, to the hook or to a caller.
LEMMA HookGet ==
  ASSUME CallsInv, HookInv, callbacks = 0, faults = 0, OpteeRuntimeGetVariable
  PROVE  HookInv'
<1>1. Running /\ Top.fn = "get" /\ AuthTypeOK /\ CallsInv' /\ UNCHANGED world
  BY GetStep DEF OpteeRuntimeGetVariable, At, CallsInv
<1>2. store' = store /\ pcr' = pcr /\ changed' = changed /\ drv' = drv /\ Served' = Served
  BY <1>1 DEF world, Served
<1>3. /\ Len(stack) \in {1, 3} /\ Top = stack[Len(stack)] /\ Top \in FrameType /\ ~Top.dirty
  BY <1>1, HookTop
<1>4. CASE Len(stack) = 1
  <2>1. \E s, n, size, d : Answer(s, n, size, d)
    BY DEF OpteeRuntimeGetVariable, Return
  <2>2. Popped
    BY <1>1, <2>1, AnswerMove
  <2> QED  BY <1>1, <1>2, <1>4, <2>2, HookEmptied
<1>5. CASE Len(stack) = 3
  <2>1. /\ Top.name = stack[2].name /\ stack[2].name \in Policy
        /\ stack[2].at \in {"probed", "fetched"}
        /\ stack[2].at = "probed" => Top.size = 0
        /\ stack[2].at = "fetched" => Top.size = Len(store[stack[2].name])
        /\ stack[1].fn = "set" /\ stack[1].at = "hooked" /\ stack[2].fn = "hook"
        /\ drv.session /\ ~drv.runtime /\ Served
    BY <1>3, <1>5 DEF HookInv, HookShape
  <2>2. Top.name \in Names /\ Top.size \in Int /\ Len(store[Top.name]) \in Nat
    <3>1. Top.name \in Names
      BY <2>1 DEF Policy, Names
    <3> QED  BY <3>1, <1>1, <1>3 DEF AuthTypeOK, FrameType, Bits
  <2>3. /\ Popped /\ ret'.s = Top.st
        /\ \/ Top.st = "OK" /\ ret'.data = store[Top.name]
              /\ store[Top.name] # <<>> /\ Len(store[Top.name]) <= Top.size
           \/ Top.st = "BufferTooSmall" /\ ret'.size = Len(store[Top.name])
              /\ Len(store[Top.name]) > Top.size
           \/ Top.st = "NotFound" /\ store[Top.name] = <<>>
    BY <1>3, <2>1, <2>2, GetAnswer
  <2>4. Len(stack') = 2 /\ stack'[1] = stack[1] /\ stack'[2] = stack[2]
    BY <1>5, <2>3 DEF Popped, SameBelow
  <2>5. \A k \in 1 .. 2 : k = 1 \/ k = 2
    OBVIOUS
  <2>6. HookShape'
    BY <2>1, <2>4, <2>5, <1>2 DEF HookShape, Services
  <2>7. HookKnows(stack[2])'
    <3>1. store[Top.name] # <<>> => ~(Len(store[Top.name]) <= 0)
      BY <2>2, <1>1 DEF AuthTypeOK, Bits
    <3>2. CASE stack[2].at = "probed"
      BY <3>1, <3>2, <2>1, <2>2, <2>3, <2>4, <1>2 DEF HookKnows
    <3>3. CASE stack[2].at = "fetched"
      <4>1. ~(Len(store[Top.name]) > Top.size)
        BY <2>1, <2>2, <3>3
      <4> QED  BY <3>3, <4>1, <2>1, <2>3, <2>4, <1>2 DEF HookKnows
    <3> QED  BY <3>2, <3>3, <2>1
  <2>8. \A n \in changed' : pcr'[n] = store'[n] \/ Pending(n)'
    BY <2>4, <1>2, <1>5 DEF HookInv, Pending
  <2> QED  BY <2>4, <2>6, <2>7, <2>8 DEF HookInv
<1> QED  BY <1>3, <1>4, <1>5

\* SetVariable calls the hook when the variable is to be measured.
LEMMA HookSet ==
  ASSUME CallsInv, HookInv, callbacks = 0, drv.arch, OpteeRuntimeSetVariable \/ SetReturns
  PROVE  HookInv'
<1>1. Running /\ Top.fn = "set" /\ AuthTypeOK /\ UNCHANGED world
  BY DEF OpteeRuntimeSetVariable, SetReturns, At, CallsInv
<1>2. store' = store /\ pcr' = pcr /\ changed' = changed /\ drv' = drv /\ Served' = Served
  BY <1>1 DEF world, Served
<1>3. Len(stack) = 1 /\ Top = stack[1] /\ Top \in FrameType
  BY <1>1, HookTop
<1>4. CASE \/ OpteeRuntimeSetVariable /\ Top.st # "OK" /\ Return(Top.st)
           \/ OpteeRuntimeSetVariable /\ ~IsSecureBootPolicyVariable(Top.name) /\ Return("OK")
           \/ SetReturns /\ Top.at = "hooked" /\ Return("OK")
  <2>1. Popped
    BY <1>1, <1>4, ReturnMove
  <2>2. ~(Top.fn = "set" /\ Top.at = "take" /\ Top.st = "OK" /\ Top.name \in changed)
    BY <1>1, <1>4 DEF AuthTypeOK, IsSecureBootPolicyVariable
  <2> QED  BY <1>1, <1>2, <1>3, <2>1, <2>2, HookEmptied
<1>5. CASE /\ OpteeRuntimeSetVariable /\ Top.at = "take" /\ Top.st = "OK"
           /\ IsSecureBootPolicyVariable(Top.name)
           /\ Call(Proc("hook", Top.name), "hooked")
  <2> DEFINE g == Proc("hook", Top.name)
  <2>1. "hooked" \in Labels /\ Top.name \in Names \cup Odd \cup {"none"}
    BY <1>3 DEF Labels, FrameType
  <2>2. g \in FrameType /\ g.fn = "hook" /\ g.name = Top.name /\ g.at = "begin"
    BY <2>1, NewFrames
  <2> HIDE DEF g
  <2>3. PICK f : Called(f, g) /\ SameCall(f, Top) /\ f.at = "hooked"
    BY <1>1, <1>5, <2>1, <2>2, CallingMove DEF g
  <2>4. Len(stack') = 2 /\ stack'[1] = f /\ stack'[2] = g /\ f.fn = "set"
    BY <1>1, <1>3, <2>3 DEF Called, SameCall
  <2>5. drv.session /\ ~drv.runtime /\ Served
    BY <1>1, <1>3, <1>5 DEF HookInv, HookShape
  <2>6. \A k \in 1 .. 2 : k = 1 \/ k = 2
    OBVIOUS
  <2>7. Top.name \in Policy
    BY <1>5 DEF IsSecureBootPolicyVariable
  <2>8. HookShape'
    BY <2>2, <2>3, <2>4, <2>5, <2>6, <2>7, <1>2 DEF HookShape, Services
  <2>9. HookKnows(stack[2])'
    BY <2>2, <2>4 DEF HookKnows
  <2>10. ASSUME NEW n \in changed
         PROVE  pcr[n] = store[n] \/ n = Top.name
    BY <1>3 DEF HookInv, Pending
  <2>11. \A n \in changed' : pcr'[n] = store'[n] \/ Pending(n)'
    BY <2>2, <2>4, <2>10, <1>2 DEF Pending
  <2> QED  BY <2>4, <2>8, <2>9, <2>11 DEF HookInv
<1> QED  BY <1>1, <1>4, <1>5 DEF OpteeRuntimeSetVariable, SetReturns, At

\* The steps of the hook.
LEMMA HookHook ==
  ASSUME CallsInv, HookInv, callbacks = 0, faults = 0, faults' = 0,
         SecureBootHook \/ InternalGetVariable \/ MeasureVariable
  PROVE  HookInv'
<1>1. Running /\ Top.fn = "hook" /\ AuthTypeOK
  BY DEF SecureBootHook, InternalGetVariable, MeasureVariable, At, CallsInv
<1>2. store' = store /\ changed' = changed /\ drv' = drv /\ Served' = Served
  BY DEF SecureBootHook, InternalGetVariable, MeasureVariable, world, Served
<1>3. Len(stack) = 2 /\ Top = stack[2] /\ Top \in FrameType
  BY <1>1, HookTop
<1>4. /\ stack[1].fn = "set" /\ stack[1].at = "hooked" /\ Top.name \in Policy
      /\ drv.session /\ ~drv.runtime /\ Served /\ HookKnows(Top)
  <2>1. HookShape /\ HookKnows(Top)
    BY <1>3, Zenon DEF HookInv
  <2>2. stack[1].fn = "set" /\ stack[1].at = "hooked" /\ Top.name \in Policy
    BY <2>1, <1>3 DEF HookShape
  <2>3. 1 \in 1 .. Len(stack)
    BY <1>3
  <2>4. drv.session /\ ~drv.runtime /\ Served
    BY <2>1, <2>2, <2>3, <1>3 DEF HookShape
  <2> QED  BY <2>1, <2>2, <2>4
<1>5. Top.name \in Names /\ ret.size \in Int /\ ret.data \in Bits /\ <<>> \in Bits
  BY <1>4, <1>1 DEF Policy, Names, AuthTypeOK, Bits
<1>6. ~Fault
  BY DEF Fault
<1>7. \A n \in changed : pcr[n] = store[n] \/ n = Top.name
  BY <1>3 DEF HookInv, Pending
<1>8. ASSUME pcr' = pcr, NEW size \in Int, NEW l \in {"probed", "fetched"}, Call(Get(Top.name, size), l),
             l = "probed" => size = 0, l = "fetched" => size = Len(store[Top.name])
      PROVE  HookInv'
  <2> DEFINE g == Get(Top.name, size)
  <2>1. l \in Labels /\ Top.name \in Names \cup Odd \cup {"none"}
    BY <1>3 DEF Labels, FrameType
  <2>2. g \in FrameType /\ g.fn = "get" /\ g.name = Top.name /\ g.size = size
    BY <2>1, NewFrames
  <2> HIDE DEF g
  <2>3. PICK f : Called(f, g) /\ SameCall(f, Top) /\ f.at = l
    BY <1>1, <1>8, <2>1, <2>2, CallingMove DEF g
  <2>4. /\ Len(stack') = 3 /\ stack'[1] = stack[1] /\ stack'[2] = f /\ stack'[3] = g
        /\ f.fn = "hook" /\ f.name = Top.name
    BY <1>1, <1>3, <2>3 DEF Called, SameCall, SameBelow
  <2>5. \A k \in 1 .. 3 : k = 1 \/ k = 2 \/ k = 3
    OBVIOUS
  <2>6. HookShape'
    BY <2>2, <2>3, <2>4, <2>5, <1>2, <1>4, <1>8 DEF HookShape, Services
  <2>7. \A n \in changed' : pcr'[n] = store'[n] \/ Pending(n)'
    BY <2>4, <1>2, <1>7, <1>8 DEF Pending
  <2> QED  BY <2>4, <2>6, <2>7 DEF HookInv
<1>9. ASSUME pcr' = pcr, NEW d \in Bits, Measure(d), d = store[Top.name]
      PROVE  HookInv'
  <2>1. PICK f : Moved(f) /\ SameCall(f, Top) /\ f.at = "measure" /\ f.data = d
    BY <1>1, <1>9, MeasureMove
  <2>2. /\ Len(stack') = 2 /\ stack'[1] = stack[1] /\ stack'[2] = f
        /\ f.fn = "hook" /\ f.name = Top.name
    BY <1>1, <1>3, <2>1 DEF Moved, SameCall, SameBelow
  <2>3. \A k \in 1 .. 2 : k = 1 \/ k = 2
    OBVIOUS
  <2>4. HookShape'
    BY <2>2, <2>3, <1>2, <1>4 DEF HookShape, Services
  <2>5. HookKnows(stack[2])'
    BY <2>1, <2>2, <1>2, <1>9 DEF HookKnows
  <2>6. \A n \in changed' : pcr'[n] = store'[n] \/ Pending(n)'
    BY <2>2, <1>2, <1>7, <1>9 DEF Pending
  <2> QED  BY <2>2, <2>4, <2>5, <2>6 DEF HookInv
<1>10. CASE SecureBootHook
  BY <1>8, <1>10 DEF SecureBootHook, world
<1>11. CASE InternalGetVariable
  <2>1. pcr' = pcr
    BY <1>11 DEF InternalGetVariable, world
  <2>2. CASE Top.at = "probed" /\ ret.s = "BufferTooSmall" /\ Call(Get(Top.name, ret.size), "fetched")
    <3>1. ret.size = Len(store[Top.name])
      BY <2>2, <1>4 DEF HookKnows
    <3> QED  BY <1>5, <1>8, <2>1, <2>2, <3>1
  <2>3. CASE Top.at = "probed" /\ ret.s # "BufferTooSmall" /\ Measure(<<>>)
    <3>1. store[Top.name] = <<>>
      BY <2>3, <1>4 DEF HookKnows
    <3> QED  BY <1>5, <1>9, <2>1, <2>3, <3>1
  <2>4. CASE Top.at = "fetched" /\ Measure(IF ret.s = "OK" THEN ret.data ELSE <<>>)
    <3>1. (IF ret.s = "OK" THEN ret.data ELSE <<>>) = store[Top.name]
      BY <2>4, <1>4 DEF HookKnows
    <3> QED  BY <1>5, <1>9, <2>1, <2>4, <3>1
  <2> QED  BY <1>6, <1>11, <2>2, <2>3, <2>4 DEF InternalGetVariable, At
<1>12. CASE MeasureVariable
  <2>1. Top.at = "measure" /\ Return("OK") /\ pcr' = [pcr EXCEPT ![Top.name] = Top.data]
    BY <1>6, <1>12 DEF MeasureVariable, At
  <2>2. Popped
    BY <1>1, <2>1, ReturnMove
  <2>3. Len(stack') = 1 /\ stack'[1] = stack[1]
    BY <1>3, <2>2 DEF Popped, SameBelow
  <2>4. HookShape'
    BY <2>3, <1>2, <1>4 DEF HookShape, Services
  <2>5. Top.data = store[Top.name]
    BY <2>1, <1>4 DEF HookKnows
  <2>6. ASSUME NEW n \in changed'
        PROVE  pcr'[n] = store'[n]
    <3>1. n \in Policy /\ n \in changed /\ pcr \in [Policy -> Seq({0, 1, 2})]
      BY <1>1, <1>2 DEF AuthTypeOK
    <3> QED  BY <3>1, <2>1, <2>5, <1>2, <1>4, <1>7
  <2> QED  BY <2>3, <2>4, <2>6 DEF HookInv
<1> QED  BY <1>10, <1>11, <1>12

\* The entry point: once the driver can measure, nothing has been set yet.
LEMMA HookEntry ==
  ASSUME CallsInv, MeasureInv, callbacks = 0, faults = 0, faults' = 0, drv'.arch,
         OpteeClientApiInitialize \/ TaOpenSession \/ VariableAuthOpteeRuntimeInitialize
  PROVE  HookInv'
<1>1. /\ Running /\ Top.fn = "init" /\ AuthTypeOK /\ drv \in DrvType
      /\ store' = store /\ pcr' = pcr /\ changed' = changed
  BY DEF OpteeClientApiInitialize, TaOpenSession, VariableAuthOpteeRuntimeInitialize, At, CallsInv,
         AuthTypeOK, Device
<1>2. Top \in FrameType /\ Top = stack[Len(stack)] /\ Len(stack) \in 1 .. Len(stack)
  BY <1>1, TopFacts
<1>3. Len(stack) = 1
  BY <1>1, <1>2 DEF CallsInv, StackInv
<1>4. ~Fault
  BY DEF Fault
<1>5. CASE drv.arch
  <2>1. HookInv /\ Top.at \in {"write", "event"}
    BY <1>1, <1>2, <1>3, <1>5 DEF MeasureInv, Calm, HookInv, HookShape
  <2>2. CASE drv' = [drv EXCEPT !.write = TRUE] /\ Goto("event")
    <3>1. drv'.session = drv.session /\ drv'.runtime = drv.runtime
      BY <1>1, <2>2 DEF DrvType
    <3>2. "event" \in Labels
      BY DEF Labels
    <3>3. PICK f : Moved(f) /\ SameCall(f, Top) /\ f.at = "event"
      BY <1>1, <2>2, <3>2, GotoMove
    <3>4. f.fn = "init"
      BY <1>1, <3>3 DEF SameCall
    <3>5. Served' = Served
      <4>1. drv'.sid = drv.sid
        BY <1>1, <2>2 DEF DrvType
      <4>2. served' = served
        BY <2>1 DEF OpteeClientApiInitialize, TaOpenSession, VariableAuthOpteeRuntimeInitialize, At
      <4> QED  BY <4>1, <4>2 DEF Served
    <3> QED  BY <1>1, <1>3, <2>1, <3>1, <3>3, <3>4, <3>5, HookGoesOn
  <2>3. CASE InitEnds("OK")
    <3>1. Popped
      BY <1>1, <2>3, ReturnMove DEF InitEnds
    <3> QED  BY <1>1, <1>3, <2>1, <3>1, HookEmptied
  <2> QED  BY <1>4, <2>1, <2>2, <2>3 DEF OpteeClientApiInitialize, TaOpenSession,
              VariableAuthOpteeRuntimeInitialize, At
<1>6. CASE ~drv.arch
  <2>1. changed' = {}
    BY <1>1, <1>6 DEF MeasureInv
  <2>2. Goto("write")
    <3>1. [drv EXCEPT !.api = TRUE].arch = drv.arch /\ [drv EXCEPT !.write = TRUE].arch = drv.arch
          /\ [drv EXCEPT !.event = TRUE].arch = drv.arch
      BY <1>1 DEF DrvType
    <3>2. [Opened EXCEPT !.param = TRUE, !.result = TRUE].arch = drv.arch
      BY <1>1, OpenedFacts
    <3> QED  BY <1>4, <1>6, <3>1, <3>2 DEF OpteeClientApiInitialize, TaOpenSession,
                VariableAuthOpteeRuntimeInitialize
  <2>3. "write" \in Labels
    BY DEF Labels
  <2>4. PICK f : Moved(f) /\ SameCall(f, Top) /\ f.at = "write"
    BY <1>1, <2>2, <2>3, GotoMove
  <2>5. Len(stack') = 1 /\ stack'[1] = f /\ f.fn = "init"
    BY <1>1, <1>3, <2>4 DEF Moved, SameCall
  <2>6. HookShape'
    BY <2>4, <2>5 DEF HookShape
  <2> QED  BY <2>1, <2>5, <2>6 DEF HookInv
<1> QED  BY <1>5, <1>6

\* The TA stores nothing that GetVariable could not transport, and a driver that cannot
\* measure yet has nothing to measure.
LEMMA StoreStep ==
  ASSUME CallsInv, MeasureInv, Next
  PROVE  Fits' /\ (~drv'.arch => changed' = {}) /\ (drv.arch => drv'.arch)
<1>1. AuthTypeOK /\ drv \in DrvType
  BY DEF CallsInv, AuthTypeOK
<1>2. CASE OpteeRuntimeVariableInvokeCommand
  <2>1. drv' = drv
    BY <1>2, InvokeMoves
  <2>2. \/ store' = store /\ changed' = changed
        \/ /\ TaSet(pbuf) = "SUCCESS" /\ store' = [store EXCEPT ![pbuf.name] = Stored(pbuf)]
           /\ changed' = IF drv.arch THEN changed \cup ({pbuf.name} \cap Policy) ELSE changed
    BY <1>2, InvokeMoves
  <2>3. TaSet(pbuf) = "SUCCESS" => pbuf.name \in Names /\ Stored(pbuf) \in Bits /\ Len(Stored(pbuf)) <= MaxData
    BY <1>1, TaSetFacts DEF AuthTypeOK
  <2>4. \A d \in Bits : Len(d) <= MaxData => Len(d) <= MaxData + 1
    BY AuthVarsAssumption DEF Bits
  <2>5. Fits'
    BY <1>1, <2>2, <2>3, <2>4 DEF Fits, MeasureInv, AuthTypeOK
  <2> QED  BY <2>1, <2>2, <2>5 DEF MeasureInv
<1>4. CASE \E sids \in SUBSET Sids : TestSessions(sids)
  <2>1. PICK sids \in SUBSET Sids : TestSessions(sids)
    BY <1>4
  <2>2. /\ drv' = drv /\ changed' \subseteq changed
        /\ \A n \in Names : store'[n] = IF n \in Volatile THEN <<>> ELSE store[n]
    BY <2>1, TestStep
  <2>3. Len(<<>>) <= MaxData + 1
    BY AuthVarsAssumption
  <2> QED  BY <2>2, <2>3 DEF MeasureInv, Fits
<1>3. CASE ~OpteeRuntimeVariableInvokeCommand /\ ~(\E sids \in SUBSET Sids : TestSessions(sids))
  <2>1. store' = store /\ changed' = changed
    BY <1>3 DEF Next, Driver, OpteeClientApiInitialize, TaOpenSession, InitSecureBootVariables,
         VariableAuthOpteeRuntimeInitialize, OpteeRuntimeOnExitBootServices, BeginService,
         OpteeRuntimeGetVariable, OpteeRuntimeGetNextVariableName,
         OpteeRuntimeSetVariable, SetReturns, OpteeRuntimeQueryVariableInfo, SecureBootHook,
         InternalGetVariable, MeasureVariable, ExitBootServices, ClientCall, Callback, TestSessions, Stopped, vars,
         world, Device
  <2>2. \/ drv' = drv
        \/ drv' \in {[drv EXCEPT !.api = TRUE], [drv EXCEPT !.services = TRUE], [drv EXCEPT !.write = TRUE],
                     [drv EXCEPT !.event = TRUE], [drv EXCEPT !.runtime = TRUE], [drv EXCEPT !.sid = SessionIn(Top.data)]}
        \/ drv' = Released
        \/ drv' = [drv EXCEPT !.services = TRUE, !.arch = TRUE]
        \/ drv' \in {Opened, [Opened EXCEPT !.param = TRUE]}
        \/ drv' = [Opened EXCEPT !.param = TRUE, !.result = TRUE]
    BY <1>3 DEF Next, Driver, OpteeClientApiInitialize, TaOpenSession, InitSecureBootVariables,
         VariableAuthOpteeRuntimeInitialize, OpteeRuntimeOnExitBootServices, BeginService,
         OpteeRuntimeGetVariable, OpteeRuntimeGetNextVariableName,
         OpteeRuntimeSetVariable, SetReturns, OpteeRuntimeQueryVariableInfo, SecureBootHook,
         InternalGetVariable, MeasureVariable, ExitBootServices, ClientCall, Callback, TestSessions, Stopped, vars,
         world, Device
  <2>3. drv' \in {[drv EXCEPT !.api = TRUE], [drv EXCEPT !.services = TRUE], [drv EXCEPT !.write = TRUE],
                  [drv EXCEPT !.event = TRUE], [drv EXCEPT !.runtime = TRUE], [drv EXCEPT !.sid = SessionIn(Top.data)]}
        => drv'.arch = drv.arch
    BY <1>1 DEF DrvType
  <2>4. Released.arch = drv.arch
    BY <1>1 DEF DrvType, Released
  <2>5. [drv EXCEPT !.services = TRUE, !.arch = TRUE].arch = TRUE
    BY <1>1 DEF DrvType
  <2>6. /\ Opened.arch = drv.arch /\ [Opened EXCEPT !.param = TRUE].arch = drv.arch
        /\ [Opened EXCEPT !.param = TRUE, !.result = TRUE].arch = drv.arch
    BY <1>1, OpenedFacts
  <2>7. drv.arch => drv'.arch
    BY <2>2, <2>3, <2>4, <2>5, <2>6, Zenon
  <2> QED  BY <2>1, <2>7 DEF Fits, MeasureInv
<1> QED  BY <1>2, <1>3, <1>4

\* A failure is never forgotten, and neither is a callback.
LEMMA CountersGrow ==
  ASSUME CallsInv, Next
  PROVE  (faults' = 0 => faults = 0) /\ (callbacks' = 0 => callbacks = 0)
<1>1. faults \in Nat /\ callbacks \in Nat
  BY DEF CallsInv, AuthTypeOK
<1>2. faults' = faults \/ Fault
  BY DEF Next, Driver, OpteeClientApiInitialize, TaOpenSession, InitSecureBootVariables,
         VariableAuthOpteeRuntimeInitialize, OpteeRuntimeOnExitBootServices, BeginService,
         OpteeRuntimeVariableInvokeCommand, OpteeRuntimeGetVariable, OpteeRuntimeGetNextVariableName,
         OpteeRuntimeSetVariable, SetReturns, OpteeRuntimeQueryVariableInfo, SecureBootHook,
         InternalGetVariable, MeasureVariable, ExitBootServices, ClientCall, Callback, TestSessions, Stopped, vars,
         world, Device
<1>3. callbacks' = callbacks \/ callbacks' = callbacks + 1
  BY DEF Next, Driver, OpteeClientApiInitialize, TaOpenSession, InitSecureBootVariables,
         VariableAuthOpteeRuntimeInitialize, OpteeRuntimeOnExitBootServices, BeginService,
         OpteeRuntimeVariableInvokeCommand, OpteeRuntimeGetVariable, OpteeRuntimeGetNextVariableName,
         OpteeRuntimeSetVariable, SetReturns, OpteeRuntimeQueryVariableInfo, SecureBootHook,
         InternalGetVariable, MeasureVariable, ExitBootServices, ClientCall, Callback, TestSessions, Stopped, vars,
         world, Device
<1> QED  BY <1>1, <1>2, <1>3 DEF Fault

\* Every step keeps the invariant of the measurements.
LEMMA MeasureStep ==
  ASSUME CallsInv, MeasureInv, [Next]_vars
  PROVE  MeasureInv'
<1>1. CASE UNCHANGED vars
  BY <1>1 DEF vars, MeasureInv, Fits, Calm, HookInv, HookShape, HookKnows, Pending, Served
<1>2. CASE Next
  <2>1. Fits' /\ (~drv'.arch => changed' = {}) /\ (drv.arch => drv'.arch)
    BY <1>2, StoreStep
  <2>2. SUFFICES ASSUME drv'.arch, faults' = 0, callbacks' = 0
                 PROVE  HookInv'
    BY <2>1 DEF MeasureInv, Calm
  <2>3. faults = 0 /\ callbacks = 0
    BY <1>2, <2>2, CountersGrow
  <2>4. CASE OpteeClientApiInitialize \/ TaOpenSession \/ VariableAuthOpteeRuntimeInitialize
    BY <2>2, <2>3, <2>4, HookEntry
  <2>5. ASSUME ~(OpteeClientApiInitialize \/ TaOpenSession \/ VariableAuthOpteeRuntimeInitialize)
        PROVE  drv.arch
    <3>1. drv'.arch = drv.arch
      <4>1. drv \in DrvType
        BY DEF CallsInv, AuthTypeOK
      <4>2. \/ drv' = drv \/ drv' = [drv EXCEPT !.sid = SessionIn(Top.data)] \/ drv' = [drv EXCEPT !.runtime = TRUE]
            \/ drv' = Released
        BY <1>2, <2>5 DEF Next, Driver, InitSecureBootVariables, OpteeRuntimeOnExitBootServices, BeginService,
             OpteeRuntimeVariableInvokeCommand, OpteeRuntimeGetVariable, OpteeRuntimeGetNextVariableName,
             OpteeRuntimeSetVariable, SetReturns, OpteeRuntimeQueryVariableInfo, SecureBootHook,
             InternalGetVariable, MeasureVariable, ExitBootServices, ClientCall, Callback, TestSessions, Stopped, vars,
             world, Device
      <4>3. /\ [drv EXCEPT !.sid = SessionIn(Top.data)].arch = drv.arch /\ [drv EXCEPT !.runtime = TRUE].arch = drv.arch
            /\ Released.arch = drv.arch
        BY <4>1 DEF DrvType, Released
      <4> QED  BY <4>2, <4>3
    <3> QED  BY <2>2, <3>1
  <2>6. CASE InitSecureBootVariables
    <3>1. drv.arch
      BY <2>5, <2>6 DEF InitSecureBootVariables, OpteeClientApiInitialize, TaOpenSession,
                        VariableAuthOpteeRuntimeInitialize, At
    <3>2. HookInv /\ Running /\ Top.fn = "secureboot"
      BY <2>3, <2>6, <3>1 DEF MeasureInv, Calm, InitSecureBootVariables
    <3> QED  BY <2>3, <3>2, HookTop
  <2>7. CASE ExitBootServices \/ OpteeRuntimeOnExitBootServices
    <3>1. drv.arch
      BY <2>5, <2>7 DEF ExitBootServices, OpteeRuntimeOnExitBootServices, OpteeClientApiInitialize,
                        TaOpenSession, VariableAuthOpteeRuntimeInitialize, At
    <3>2. HookInv /\ Len(stack) = 0
      BY <2>3, <2>7, <3>1 DEF MeasureInv, Calm, ExitBootServices, OpteeRuntimeOnExitBootServices, Running
    <3>3. \A n \in changed : pcr[n] = store[n]
      BY <3>2 DEF HookInv, Pending
    <3>4. Len(stack') = 0 /\ pcr' = pcr /\ store' = store /\ changed' = changed
      BY <2>7, ExitStep DEF ExitBootServices, OpteeRuntimeOnExitBootServices
    <3> QED  BY <3>3, <3>4 DEF HookInv, HookShape
  <2>8. CASE ClientCall
    <3>1. stack = <<>> /\ pcr' = pcr /\ store' = store /\ changed' = changed
      BY <2>8 DEF ClientCall, Running
    <3>2. drv.arch
      BY <2>5, <3>1 DEF OpteeClientApiInitialize, TaOpenSession, VariableAuthOpteeRuntimeInitialize, At,
                        Running
    <3>3. HookInv /\ Len(stack) = 0
      BY <2>3, <3>1, <3>2 DEF MeasureInv, Calm
    <3>4. \A n \in changed : pcr[n] = store[n]
      BY <3>3 DEF HookInv, Pending
    <3>5. PICK f \in FrameType : stack' = <<f>> /\ f.fn \in Services /\ f.at = "begin"
      BY <2>8, ClientStep
    <3>6. Len(stack') = 1 /\ stack'[1] = f /\ f.fn # "init"
      BY <3>5 DEF Services
    <3>7. HookShape'
      BY <3>5, <3>6 DEF HookShape
    <3> QED  BY <3>1, <3>4, <3>6, <3>7 DEF HookInv
  <2>13. CASE \E sids \in SUBSET Sids : TestSessions(sids)
    <3>1. PICK sids \in SUBSET Sids : TestSessions(sids)
      BY <2>13
    <3>2. /\ stack = <<>> /\ stack' = <<>> /\ drv' = drv /\ pcr' = pcr
          /\ changed' \subseteq changed /\ Volatile \cap changed' = {}
          /\ \A n \in Names : store'[n] = IF n \in Volatile THEN <<>> ELSE store[n]
      BY <3>1, TestStep
    <3>3. HookInv /\ Len(stack) = 0 /\ Len(stack') = 0
      BY <2>2, <2>3, <3>2 DEF MeasureInv, Calm
    <3>4. \A n \in changed : pcr[n] = store[n]
      BY <3>3 DEF HookInv, Pending
    <3>5. changed \subseteq Names
      BY DEF CallsInv, AuthTypeOK, Policy, Names
    <3>6. \A n \in changed' : pcr'[n] = store'[n]
      BY <3>2, <3>4, <3>5
    <3> QED  BY <3>3, <3>6 DEF HookInv, HookShape
  <2>9. CASE Callback
    <3>1. callbacks' # 0
      BY <2>3, <2>9 DEF Callback
    <3> QED  BY <2>2, <3>1
  <2>10. CASE OpteeRuntimeGetNextVariableName \/ OpteeRuntimeQueryVariableInfo
    <3>1. Running /\ Top.fn \in {"next", "query"} /\ UNCHANGED world
      BY <2>10 DEF OpteeRuntimeGetNextVariableName, OpteeRuntimeQueryVariableInfo, At
    <3>2. drv.arch
      BY <2>5, <3>1 DEF OpteeClientApiInitialize, TaOpenSession, VariableAuthOpteeRuntimeInitialize, At
    <3>3. HookInv
      BY <2>3, <3>2 DEF MeasureInv, Calm
    <3>4. Len(stack) = 1
      BY <2>3, <3>1, <3>3, HookTop
    <3>5. \E s, n, size, d : Answer(s, n, size, d)
      BY <2>10 DEF OpteeRuntimeGetNextVariableName, OpteeRuntimeQueryVariableInfo, Return
    <3>6. Popped
      BY <3>1, <3>5, AnswerMove DEF CallsInv
    <3>7. store' = store /\ pcr' = pcr /\ changed' = changed
      BY <3>1 DEF world
    <3> QED  BY <2>3, <3>1, <3>3, <3>4, <3>6, <3>7, HookEmptied
  <2>11. CASE Stopped
    BY <1>1, <2>2, <2>11 DEF Stopped, MeasureInv, Calm
  <2>12. CASE /\ ~(OpteeClientApiInitialize \/ TaOpenSession \/ VariableAuthOpteeRuntimeInitialize)
              /\ \/ BeginService \/ OpteeRuntimeVariableInvokeCommand \/ OpteeRuntimeGetVariable
                 \/ OpteeRuntimeSetVariable \/ SetReturns
                 \/ SecureBootHook \/ InternalGetVariable \/ MeasureVariable
    <3>1. drv.arch /\ HookInv /\ Fits
      BY <2>3, <2>5, <2>12 DEF MeasureInv, Calm
    <3> QED  BY <2>2, <2>3, <2>12, <3>1, HookBegin, HookInvoke, HookGet, HookSet, HookHook
  <2> QED  BY <1>2, <2>4, <2>6, <2>7, <2>8, <2>9, <2>10, <2>11, <2>12, <2>13 DEF Next, Driver
<1> QED  BY <1>1, <1>2

\* SecureBootHook: between calls the last measurement of every policy variable that was
\* set is what the TA stores, as long as nothing failed and no callback interfered.
THEOREM MeasuredIsStoredHolds == Spec => []MeasuredIsStored
<1>1. Init => MeasureInv
  <2> SUFFICES ASSUME Init
               PROVE  MeasureInv
    OBVIOUS
  <2>1. \A n \in Names : store[n] \in {<<>>, <<1, 0>>, Off, On}
    BY DEF Init
  <2>2. \A d \in {<<>>, <<1, 0>>, Off, On} : Len(d) <= MaxData + 1
    <3>1. Len(<<>>) = 0 /\ Len(<<1, 0>>) = 2 /\ Len(Off) = 1 /\ Len(On) = 1
      BY DEF Off, On
    <3>2. 0 <= MaxData + 1 /\ 1 <= MaxData + 1 /\ 2 <= MaxData + 1
      BY AuthVarsAssumption
    <3> QED  BY <3>1, <3>2, Zenon
  <2>3. ~drv.arch /\ changed = {}
    BY DEF Init, NewDriver
  <2> QED  BY <2>1, <2>2, <2>3 DEF MeasureInv, Fits, Calm
<1>2. CallsInv /\ MeasureInv /\ [Next]_vars => MeasureInv'
  BY MeasureStep
<1>3. CallsInv /\ MeasureInv => MeasuredIsStored
  <2> SUFFICES ASSUME CallsInv, MeasureInv, ~Running, faults = 0, callbacks = 0, NEW n \in changed
               PROVE  pcr[n] = store[n]
    BY DEF MeasuredIsStored
  <2>1. drv.arch
    BY DEF MeasureInv
  <2>2. Len(stack) = 0 /\ HookInv
    BY <2>1 DEF Running, MeasureInv, Calm
  <2> QED  BY <2>2 DEF HookInv, Pending
<1>4. Spec => Init /\ [][Next]_vars
  BY PTL DEF Spec
<1> QED  BY <1>1, <1>2, <1>3, <1>4, CallsAlways, PTL

-------------------------------------------------------------------------------
(* The start with or without Secure Boot.                                    *)

\* The call on top while the driver starts.
LEMMA StartTop ==
  ASSUME CallsInv, StartOK
  PROVE  /\ Running /\ Len(stack) \in {1, 2, 3} /\ Top = stack[Len(stack)] /\ Top \in FrameType /\ ~Top.dirty
         /\ Len(stack) = 1 <=> Top.fn = "init"
         /\ Len(stack) = 2 <=> Top.fn = "secureboot"
         /\ Len(stack) = 3 <=> Top.fn \in {"get", "set"}
         /\ Top.fn \in {"init", "secureboot", "get", "set"}
<1>1. Len(stack) \in {1, 2, 3}
  BY DEF StartOK, StartShape
<1>2. Running
  BY <1>1 DEF Running
<1>3. Top \in FrameType /\ Top = stack[Len(stack)]
  BY <1>2, TopFacts DEF CallsInv
<1>4. ~Top.dirty
  <2>1. Len(stack) \in 1 .. Len(stack) /\ ~(callbacks > 0)
    BY <1>1 DEF StartOK
  <2> QED  BY <1>3, <2>1 DEF CallsInv, StackInv
<1>5. CASE Len(stack) = 1
  BY <1>2, <1>3, <1>4, <1>5 DEF StartOK, StartShape
<1>6. CASE Len(stack) = 2
  BY <1>2, <1>3, <1>4, <1>6 DEF StartOK, StartShape
<1>7. CASE Len(stack) = 3
  <2>1. stack[3].fn \in {"get", "set"}
    BY <1>7 DEF StartOK, StartShape, StartCall
  <2> QED  BY <1>2, <1>3, <1>4, <1>7, <2>1
<1> QED  BY <1>1, <1>5, <1>6, <1>7

\* InitSecureBootVariables makes a call.
LEMMA StartCalls ==
  ASSUME StartOK, Len(stack) = 2, UNCHANGED world, NEW f, NEW g, Called(f, g), f.fn = "secureboot",
         StartCall(f, g), g.at = "begin", g.fn = "set" => g.attr = "plain", StartLocals(f)
  PROVE  StartOK'
<1>1. /\ store' = store /\ faults' = faults /\ drv' = drv /\ calls' = calls /\ callbacks' = callbacks
      /\ Served' = Served
  BY DEF world, Served
<1>2. Len(stack') = 3 /\ stack'[1] = stack[1] /\ stack'[2] = f /\ stack'[3] = g
  BY DEF Called, SameBelow
<1>3. StartShape'
  BY <1>1, <1>2 DEF StartOK, StartShape, StartCall, Mode, Off, On
<1>4. StartLocals(stack[2])'
  BY <1>1, <1>2 DEF StartLocals, Good
<1>5. stack[1].at = "vars"
  BY DEF StartOK, StartShape
<1> QED  BY <1>1, <1>2, <1>3, <1>4, <1>5 DEF StartOK

\* It goes on without a call.
LEMMA StartGoesOn ==
  ASSUME StartOK, Len(stack) = 2, UNCHANGED world, NEW f, Moved(f), f.fn = "secureboot",
         f.at = "mode", StartLocals(f), f.attr = "user" => store["SecureBootEnable"] = f.data
  PROVE  StartOK'
<1>1. /\ store' = store /\ faults' = faults /\ drv' = drv /\ calls' = calls /\ callbacks' = callbacks
      /\ Served' = Served
  BY DEF world, Served
<1>2. Len(stack') = 2 /\ stack'[1] = stack[1] /\ stack'[2] = f
  BY DEF Moved, SameBelow
<1>3. StartShape'
  BY <1>1, <1>2 DEF StartOK, StartShape
<1>4. StartLocals(stack[2])'
  BY <1>1, <1>2 DEF StartLocals, Good
<1>5. StartKnows(stack[2])'
  BY <1>1, <1>2 DEF StartKnows
<1>6. stack[1].at = "vars"
  BY DEF StartOK, StartShape
<1> QED  BY <1>1, <1>2, <1>3, <1>4, <1>5, <1>6 DEF StartOK

\* It returns.
LEMMA StartReturns ==
  ASSUME StartOK, Len(stack) = 2, UNCHANGED world, Popped, ret'.s = "OK" => Good
  PROVE  StartOK'
<1>1. /\ store' = store /\ faults' = faults /\ drv' = drv /\ calls' = calls /\ callbacks' = callbacks
      /\ Served' = Served
  BY DEF world, Served
<1>2. Len(stack') = 1 /\ stack'[1] = stack[1]
  BY DEF Popped, SameBelow
<1>3. StartShape'
  BY <1>1, <1>2 DEF StartOK, StartShape
<1>4. stack[1].at = "vars"
  BY DEF StartOK, StartShape
<1>5. Good' <=> Good
  BY <1>1 DEF Good
<1> QED  BY <1>1, <1>2, <1>3, <1>4, <1>5 DEF StartOK

\* A service returns to it.
LEMMA StartBack ==
  ASSUME StartOK, Len(stack) = 3, store' = store, faults' = faults, calls' = calls, callbacks' = callbacks,
         drv' = drv, Served' = Served, Popped, StartKnows(stack[2])'
  PROVE  StartOK'
<1>1. Len(stack') = 2 /\ stack'[1] = stack[1] /\ stack'[2] = stack[2]
  BY DEF Popped, SameBelow
<1>2. StartShape'
  BY <1>1 DEF StartOK, StartShape
<1>3. StartLocals(stack[2])'
  BY <1>1 DEF StartOK, StartLocals, Good
<1>4. stack[1].at = "vars"
  BY DEF StartOK, StartShape
<1> QED  BY <1>1, <1>2, <1>3, <1>4 DEF StartOK

\* The steps of InitSecureBootVariables.
LEMMA StartVariables ==
  ASSUME CallsInv, StartOK, InitSecureBootVariables
  PROVE  StartOK'
<1>1. Running /\ Top.fn = "secureboot" /\ UNCHANGED world /\ AuthTypeOK
  BY DEF InitSecureBootVariables, CallsInv
<1>2. Len(stack) = 2 /\ Top = stack[2] /\ Top \in FrameType
  BY <1>1, StartTop
<1>3. StartLocals(Top) /\ StartKnows(Top) /\ (store["SetupMode"] = Off => store["PK"] # <<>>)
  BY <1>2 DEF StartOK
<1>4. ret.data \in Bits /\ Top.data \in Bits /\ Top.attr \in Attrs
  BY <1>1, <1>2 DEF AuthTypeOK, FrameType
<1>5. /\ Off # On /\ Off # <<>> /\ On # <<>> /\ Off \in Bits /\ On \in Bits
      /\ \A b \in BOOLEAN : (Mode(b) = On <=> b) /\ Mode(b) \in {Off, On} /\ Mode(b) \in Bits
  BY StartConstants
<1>6. (Top.data = On /\ UserMode) \in BOOLEAN /\ PcdSecureBootEnable \in BOOLEAN
  BY AuthVarsAssumption
<1>7. ASSUME NEW n \in Names, NEW l \in {"pk", "enable"}, Call(Get(n, 1), l)
      PROVE  \E f, g : /\ Called(f, g) /\ SameCall(f, Top) /\ f.at = l /\ f.data = Top.data
                       /\ f.attr = Top.attr /\ g.fn = "get" /\ g.name = n /\ g.size = 1 /\ g.at = "begin"
  <2> DEFINE g == Get(n, 1)
  <2>1. g \in FrameType /\ g.fn = "get" /\ g.name = n /\ g.size = 1 /\ g.at = "begin"
    BY NewFrames
  <2>2. l \in Labels
    BY DEF Labels
  <2> HIDE DEF g
  <2>3. PICK f : Called(f, g) /\ SameCall(f, Top) /\ f.at = l /\ f.data = Top.data /\ f.attr = Top.attr
    BY <1>1, <1>7, <2>1, <2>2, CallingMove DEF g
  <2> QED  BY <2>1, <2>3
<1>8. ASSUME NEW n \in Names, NEW d \in Bits, NEW l \in {"custom", "end"}, Call(Set(n, d, "plain"), l)
      PROVE  \E f, g : /\ Called(f, g) /\ SameCall(f, Top) /\ f.at = l /\ f.data = Top.data
                       /\ f.attr = Top.attr
                       /\ g.fn = "set" /\ g.name = n /\ g.data = d /\ g.at = "begin" /\ g.attr = "plain"
  <2> DEFINE g == Set(n, d, "plain")
  <2>1. g \in FrameType /\ g.fn = "set" /\ g.name = n /\ g.data = d /\ g.at = "begin" /\ g.attr = "plain"
    BY NewFrames, StartConstants
  <2>2. l \in Labels
    BY DEF Labels
  <2> HIDE DEF g
  <2>3. PICK f : Called(f, g) /\ SameCall(f, Top) /\ f.at = l /\ f.data = Top.data /\ f.attr = Top.attr
    BY <1>1, <1>8, <2>1, <2>2, CallingMove DEF g
  <2> QED  BY <2>1, <2>3
<1>9. ASSUME NEW n \in Names, NEW d \in Bits, NEW e \in Bits, NEW a \in {"user", "setup"},
             NEW l \in {"setup", "created"}, Keep(a, e, <<Set(n, d, "plain")>>, l)
      PROVE  \E f, g : /\ Called(f, g) /\ SameCall(f, Top) /\ f.at = l /\ f.data = e /\ f.attr = a
                       /\ g.fn = "set" /\ g.name = n /\ g.data = d /\ g.at = "begin" /\ g.attr = "plain"
  <2> DEFINE g == Set(n, d, "plain")
  <2>1. g \in FrameType /\ g.fn = "set" /\ g.name = n /\ g.data = d /\ g.at = "begin" /\ g.attr = "plain"
    BY NewFrames, StartConstants
  <2>2. l \in Labels /\ a \in Attrs
    BY DEF Labels, Attrs
  <2> HIDE DEF g
  <2>3. PICK f : Called(f, g) /\ SameCall(f, Top) /\ f.at = l /\ f.data = e /\ f.attr = a
    BY <1>1, <1>9, <2>1, <2>2, KeepCallMove DEF g
  <2> QED  BY <2>1, <2>3
<1>10. {"PK", "SetupMode", "SecureBootEnable", "SecureBoot", "CustomMode"} \subseteq Names
  BY DEF Names
<1>11. CASE Top.at = "begin" /\ Call(Get("PK", 1), "pk")
  <2>1. PICK f, g : /\ Called(f, g) /\ SameCall(f, Top) /\ f.at = "pk" /\ g.fn = "get" /\ g.name = "PK"
                    /\ g.size = 1 /\ g.at = "begin"
    BY <1>7, <1>10, <1>11
  <2>2. StartLocals(f)
    BY <1>3, <1>11, <2>1 DEF StartLocals
  <2>3. StartCall(f, g)
    BY <2>1 DEF StartCall
  <2> QED  BY <1>1, <1>2, <2>1, <2>2, <2>3, StartCalls DEF SameCall
<1>12. CASE /\ Top.at = "pk" /\ ret.s = "BufferTooSmall"
            /\ Keep("user", Off, <<Set("SetupMode", Off, "plain")>>, "setup")
  <2>1. PICK f, g : /\ Called(f, g) /\ SameCall(f, Top) /\ f.at = "setup" /\ f.attr = "user"
                    /\ g.fn = "set" /\ g.name = "SetupMode" /\ g.data = Off /\ g.at = "begin" /\ g.attr = "plain"
    BY <1>5, <1>9, <1>10, <1>12
  <2>2. StartLocals(f)
    BY <1>3, <1>12, <2>1 DEF StartLocals, StartKnows
  <2>3. StartCall(f, g)
    BY <2>1 DEF StartCall
  <2> QED  BY <1>1, <1>2, <2>1, <2>2, <2>3, StartCalls DEF SameCall
<1>13. CASE /\ Top.at = "pk" /\ ret.s # "BufferTooSmall"
            /\ Keep("setup", Off, <<Set("SetupMode", On, "plain")>>, "setup")
  <2>1. PICK f, g : /\ Called(f, g) /\ SameCall(f, Top) /\ f.at = "setup" /\ f.attr = "setup"
                    /\ g.fn = "set" /\ g.name = "SetupMode" /\ g.data = On /\ g.at = "begin" /\ g.attr = "plain"
    BY <1>5, <1>9, <1>10, <1>13
  <2>2. StartLocals(f)
    BY <1>3, <1>13, <2>1 DEF StartLocals, StartKnows
  <2>3. StartCall(f, g)
    BY <2>1 DEF StartCall
  <2> QED  BY <1>1, <1>2, <2>1, <2>2, <2>3, StartCalls DEF SameCall
<1>14. CASE Top.at = "setup" /\ Call(Get("SecureBootEnable", 1), "enable")
  <2>1. PICK f, g : /\ Called(f, g) /\ SameCall(f, Top) /\ f.at = "enable" /\ f.attr = Top.attr
                    /\ g.fn = "get" /\ g.name = "SecureBootEnable" /\ g.size = 1 /\ g.at = "begin"
    BY <1>7, <1>10, <1>14
  <2>2. StartLocals(f)
    BY <1>3, <1>14, <2>1 DEF StartLocals
  <2>3. StartCall(f, g)
    BY <2>1 DEF StartCall
  <2> QED  BY <1>1, <1>2, <2>1, <2>2, <2>3, StartCalls DEF SameCall
<1>15. CASE /\ \/ Top.at = "enable" /\ ~UserMode
               \/ Top.at = "created" /\ ret.s = "OK"
            /\ Goto("mode")
  <2>1. "mode" \in Labels
    BY DEF Labels
  <2>2. PICK f : Moved(f) /\ SameCall(f, Top) /\ f.at = "mode" /\ f.data = Top.data /\ f.attr = Top.attr
    BY <1>1, <1>15, <2>1, GotoMove
  <2>3. StartLocals(f)
    BY <1>3, <1>15, <2>2 DEF StartLocals
  <2>4. f.attr = "user" => store["SecureBootEnable"] = f.data
    BY <1>3, <1>15, <2>2 DEF StartKnows, UserMode
  <2> QED  BY <1>1, <1>2, <2>2, <2>3, <2>4, StartGoesOn DEF SameCall
<1>16. CASE Top.at = "enable" /\ UserMode /\ ret.s = "OK" /\ Keep("user", ret.data, <<>>, "mode")
  <2>1. "mode" \in Labels /\ "user" \in Attrs
    BY DEF Labels, Attrs
  <2>2. PICK f : Moved(f) /\ SameCall(f, Top) /\ f.at = "mode" /\ f.attr = "user" /\ f.data = ret.data
    BY <1>1, <1>4, <1>16, <2>1, KeepMove
  <2>3. StartLocals(f)
    BY <1>3, <1>16, <2>2 DEF StartLocals, UserMode
  <2>4. store["SecureBootEnable"] = f.data
    BY <1>3, <1>16, <2>2 DEF StartKnows
  <2> QED  BY <1>1, <1>2, <2>2, <2>3, <2>4, StartGoesOn DEF SameCall
<1>17. CASE /\ Top.at = "enable" /\ UserMode
            /\ Keep("user", Mode(PcdSecureBootEnable),
                    <<Set("SecureBootEnable", Mode(PcdSecureBootEnable), "plain")>>, "created")
  <2> DEFINE m == Mode(PcdSecureBootEnable)
  <2>1. m \in Bits /\ m \in {Off, On}
    BY <1>5, <1>6
  <2> HIDE DEF m
  <2>2. PICK f, g : /\ Called(f, g) /\ SameCall(f, Top) /\ f.at = "created" /\ f.attr = "user" /\ f.data = m
                    /\ g.fn = "set" /\ g.name = "SecureBootEnable" /\ g.data = m /\ g.at = "begin"
                    /\ g.attr = "plain"
    BY <1>9, <1>10, <1>17, <2>1 DEF m
  <2>3. StartLocals(f)
    BY <1>3, <1>17, <2>1, <2>2 DEF StartLocals, UserMode
  <2>4. StartCall(f, g)
    BY <2>2 DEF StartCall
  <2> QED  BY <1>1, <1>2, <2>2, <2>3, <2>4, StartCalls DEF SameCall
<1>18. CASE /\ Top.at = "mode"
            /\ Call(Set("SecureBoot", Mode(Top.data = On /\ UserMode), "plain"), "custom")
  <2> DEFINE m == Mode(Top.data = On /\ UserMode)
  <2>1. m \in Bits
    BY <1>5, <1>6
  <2> HIDE DEF m
  <2>2. PICK f, g : /\ Called(f, g) /\ SameCall(f, Top) /\ f.at = "custom" /\ f.attr = Top.attr
                    /\ f.data = Top.data
                    /\ g.fn = "set" /\ g.name = "SecureBoot" /\ g.data = m /\ g.at = "begin"
                    /\ g.attr = "plain"
    BY <1>8, <1>10, <1>18, <2>1 DEF m
  <2>3. StartLocals(f)
    BY <1>3, <1>5, <1>18, <2>2 DEF StartLocals, StartKnows
  <2>4. StartCall(f, g)
    BY <2>2 DEF StartCall, m, UserMode
  <2> QED  BY <1>1, <1>2, <2>2, <2>3, <2>4, StartCalls DEF SameCall
<1>19. CASE Top.at = "custom" /\ ret.s = "OK" /\ Call(Set("CustomMode", Off, "plain"), "end")
  <2>1. PICK f, g : /\ Called(f, g) /\ SameCall(f, Top) /\ f.at = "end" /\ f.attr = Top.attr
                    /\ f.data = Top.data
                    /\ g.fn = "set" /\ g.name = "CustomMode" /\ g.at = "begin" /\ g.attr = "plain"
    BY <1>5, <1>8, <1>10, <1>19
  <2>2. store["SecureBoot"] = On <=> Top.data = On /\ Top.attr = "user"
    BY <1>3, <1>5, <1>6, <1>19 DEF StartKnows, UserMode
  <2>3. Good
    BY <1>3, <1>19, <2>2 DEF StartLocals, Good
  <2>4. StartLocals(f)
    BY <1>3, <1>19, <2>1, <2>3 DEF StartLocals
  <2>5. StartCall(f, g)
    BY <2>1 DEF StartCall
  <2> QED  BY <1>1, <1>2, <2>1, <2>4, <2>5, StartCalls DEF SameCall
<1>20. CASE /\ Top.at = "end" \/ ret.s # "OK"
            /\ Return(ret.s)
  <2>1. Popped /\ ret'.s = ret.s
    BY <1>1, <1>20, ReturnMove
  <2>2. ret'.s = "OK" => Good
    BY <1>3, <1>20, <2>1 DEF StartLocals
  <2> QED  BY <1>1, <1>2, <2>1, <2>2, StartReturns
<1> QED  BY <1>11, <1>12, <1>13, <1>14, <1>15, <1>16, <1>17, <1>18, <1>19, <1>20 DEF InitSecureBootVariables

\* The services it calls pass their checks, or fail without an effect.
LEMMA StartBegin ==
  ASSUME CallsInv, StartOK, phase = "init", BeginService
  PROVE  StartOK'
<1>1. /\ Running /\ Top.fn \in Services /\ AuthTypeOK
      /\ store' = store /\ calls' = calls /\ callbacks' = callbacks /\ faults' = faults /\ served' = served
  BY DEF BeginService, CallsInv
<1>2. Len(stack) = 3 /\ Top = stack[3] /\ Top \in FrameType
  BY <1>1, StartTop DEF Services
<1>3. /\ StartCall(stack[2], Top) /\ StartLocals(stack[2]) /\ stack[1].at = "vars"
      /\ drv.session /\ ~drv.runtime /\ (Top.fn = "set" => Top.attr = "plain")
  BY <1>2 DEF StartOK, StartShape
<1>4. drv.param /\ drv.result
  BY <1>3 DEF CallsInv, DriverInv
<1>5. Top.name \in Names /\ Top.name # "test" /\ (stack[2].at = "pk" => Top.fn = "get" /\ Top.size = 1)
  BY <1>3 DEF StartCall, Names
<1>6. 1 \in 0 .. MaxData + 1
  BY AuthVarsAssumption
<1>7. /\ Checked(Top) # "BufferTooSmall" /\ Checked(Top) # "TestHook"
      /\ stack[2].at = "pk" => Checked(Top) = "OK"
  BY <1>1, <1>2, <1>3, <1>4, <1>5, <1>6, CheckedFacts
<1>8. CASE Goto("invoke") /\ drv' = drv
  <2>1. "invoke" \in Labels
    BY DEF Labels
  <2>2. PICK f : /\ Moved(f) /\ SameCall(f, Top) /\ f.at = "invoke" /\ f.data = Top.data
                 /\ f.attr = Top.attr
    BY <1>1, <1>8, <2>1, GotoMove
  <2>3. Len(stack') = 3 /\ stack'[1] = stack[1] /\ stack'[2] = stack[2] /\ stack'[3] = f
    BY <1>2, <2>2 DEF Moved, SameBelow
  <2>4. StartCall(stack[2], f)
    BY <1>3, <2>2 DEF StartCall, SameCall
  <2>5. StartCall(stack[2], stack[3])'
    BY <2>3, <2>4 DEF StartCall, Mode, Off, On
  <2>6. StartShape'
    BY <1>1, <1>2, <1>3, <1>8, <2>2, <2>3, <2>5 DEF StartOK, StartShape, SameCall, Served
  <2>7. StartLocals(stack[2])'
    BY <1>1, <1>3, <2>3 DEF StartLocals, Good
  <2> QED  BY <1>1, <1>3, <2>3, <2>6, <2>7 DEF StartOK
<1>9. CASE Checked(Top) \notin {"OK", "TestHook"} /\ Return(Checked(Top)) /\ drv' = drv
  <2>1. Popped /\ ret'.s = Checked(Top)
    BY <1>1, <1>9, ReturnMove
  <2>2. stack'[2] = stack[2]
    BY <1>2, <2>1 DEF Popped, SameBelow
  <2>3. stack[2].at \notin {"pk", "mode"}
    BY <1>3, <1>7, <1>9 DEF StartCall
  <2>4. StartKnows(stack[2])'
    BY <1>9, <2>1, <2>2, <2>3 DEF StartKnows
  <2>5. Served' = Served
    BY <1>1, <1>9 DEF Served
  <2> QED  BY <1>1, <1>2, <1>9, <2>1, <2>4, <2>5, StartBack
<1> QED  BY <1>7, <1>8, <1>9 DEF BeginService

\* The commands: a write changes the variable it names and no other.
LEMMA StartInvoke ==
  ASSUME CallsInv, StartOK, OpteeRuntimeVariableInvokeCommand
  PROVE  StartOK'
<1>1. /\ Running /\ Top.at = "invoke" /\ InBuffers(Top) /\ drv' = drv /\ AuthTypeOK
      /\ calls' = calls /\ callbacks' = callbacks /\ faults \in Nat /\ faults' \in Nat /\ faults' >= faults
      /\ Served' = Served
  BY InvokeMoves DEF CallsInv, AuthTypeOK, Served
<1>2. PICK f : /\ Moved(f) /\ SameCall(f, Top) /\ f.at = "take"
               /\ f.data = Top.data /\ f.attr = Top.attr
               /\ IF Served /\ Top.fn = "set" /\ TaSet(pbuf) = "SUCCESS" /\ faults' = faults
                  THEN /\ f.st = "OK" /\ store' = [store EXCEPT ![pbuf.name] = Stored(pbuf)]
                       /\ changed' = IF drv.arch THEN changed \cup ({pbuf.name} \cap Policy) ELSE changed
                  ELSE /\ Top.fn = "set" => f.st # "OK"
                       /\ store' = store /\ changed' = changed
  BY InvokeMoves
<1>3. Len(stack) = 3 /\ Top = stack[3] /\ Top \in FrameType /\ ~Top.dirty
  BY <1>1, StartTop DEF InBuffers, Services
<1>4. /\ StartCall(stack[2], Top) /\ StartLocals(stack[2]) /\ stack[1].at = "vars"
      /\ (Top.fn = "set" => Top.attr = "plain")
  BY <1>3 DEF StartOK, StartShape
<1>5. Len(stack') = 3 /\ stack'[1] = stack[1] /\ stack'[2] = stack[2] /\ stack'[3] = f
  BY <1>2, <1>3 DEF Moved, SameBelow
<1>6. StartCall(stack[2], f)
  BY <1>2, <1>4 DEF StartCall, SameCall
<1>7. StartCall(stack[2], stack[3])'
  BY <1>5, <1>6 DEF StartCall, Mode, Off, On
<1>8. StartShape'
  BY <1>1, <1>2, <1>3, <1>4, <1>5, <1>7 DEF StartOK, StartShape, SameCall
<1>9. faults' = 0 => faults = 0
  BY <1>1
<1>10. /\ Len(store["PK"]) # 1 /\ Len(store["SecureBootEnable"]) <= 1
       /\ store["SetupMode"] = Off => store["PK"] # <<>>
  BY DEF StartOK
<1>11. /\ Off # On /\ Off # <<>> /\ On # <<>> /\ Len(Off) = 1 /\ Len(On) = 1
       /\ \A b \in BOOLEAN : (Mode(b) = On <=> b) /\ Mode(b) \in {Off, On}
  BY StartConstants
<1>12. /\ Len(store'["PK"]) # 1 /\ Len(store'["SecureBootEnable"]) <= 1
       /\ store'["SetupMode"] = Off => store'["PK"] # <<>>
       /\ StartLocals(stack[2])'
  <2>1. CASE store' = store
    BY <2>1, <1>4, <1>5, <1>9, <1>10 DEF StartLocals, Good
  <2>2. CASE Top.fn = "set" /\ TaSet(pbuf) = "SUCCESS" /\ store' = [store EXCEPT ![pbuf.name] = Stored(pbuf)]
             /\ faults' = faults
    <3>1. Filled(Top, pbuf)
      BY <1>1, <1>3 DEF CallsInv, TopInv, Running, BuffersInv
    <3>2. pbuf.name = Top.name /\ Stored(pbuf) = Top.data
      <4>1. pbuf.name = Top.name /\ pbuf.data = Top.data /\ pbuf.attr = "plain" /\ pbuf.data \in Bits
        BY <3>1, <2>2, <1>1, <1>4 DEF Filled, AuthTypeOK
      <4> QED  BY <4>1, <2>2, <1>1, TaSetFacts
    <3>3. Top.name \in Names /\ DOMAIN store = Names
      BY <2>2, <1>1, <1>4 DEF StartCall, Names, AuthTypeOK
    <3>4. store'[Top.name] = Top.data /\ \A n \in Names : n # Top.name => store'[n] = store[n]
      BY <2>2, <3>2, <3>3
    <3>5. {"PK", "SetupMode", "SecureBootEnable", "SecureBoot", "CustomMode"} \subseteq Names
      BY DEF Names
    <3>6. CASE stack[2].at = "setup"
      <4>1. Top.name = "SetupMode" /\ Top.data = IF stack[2].attr = "user" THEN Off ELSE On
        BY <3>6, <1>4 DEF StartCall
      <4> QED  BY <4>1, <3>4, <3>5, <3>6, <2>2, <1>4, <1>5, <1>10, <1>11 DEF StartLocals
    <3>7. CASE stack[2].at = "created"
      <4>1. Top.name = "SecureBootEnable" /\ Top.data = stack[2].data /\ stack[2].data \in {Off, On}
        BY <3>7, <1>4 DEF StartCall, StartLocals
      <4>2. Len(Top.data) <= 1
        <5>1. Len(Off) <= 1 /\ Len(On) <= 1
          BY <1>11
        <5> QED  BY <4>1, <5>1, Zenon
      <4> QED  BY <4>1, <4>2, <3>4, <3>5, <3>7, <2>2, <1>4, <1>5, <1>10, <1>11 DEF StartLocals
    <3>8. CASE stack[2].at = "custom"
      <4>1. Top.name = "SecureBoot" /\ Top.data = Mode(stack[2].data = On /\ stack[2].attr = "user")
        BY <3>8, <1>4 DEF StartCall
      <4>2. Top.data = On => stack[2].data = On /\ stack[2].attr = "user"
        BY <4>1, <1>11
      <4> QED  BY <4>1, <4>2, <3>4, <3>5, <3>8, <2>2, <1>4, <1>5, <1>10, <1>11 DEF StartLocals
    <3>9. CASE stack[2].at = "end"
      <4>1. Top.name = "CustomMode"
        BY <3>9, <1>4 DEF StartCall
      <4> QED  BY <4>1, <3>4, <3>5, <3>9, <2>2, <1>4, <1>5, <1>10, <1>11 DEF StartLocals, Good
    <3> QED  BY <2>2, <3>6, <3>7, <3>8, <3>9, <1>4 DEF StartCall
  <2> QED  BY <2>1, <2>2, <1>2
<1> QED  BY <1>1, <1>4, <1>5, <1>8, <1>12 DEF StartOK

\* The reads answer what is stored.
LEMMA StartGet ==
  ASSUME CallsInv, StartOK, OpteeRuntimeGetVariable
  PROVE  StartOK'
<1>1. Running /\ Top.fn = "get" /\ AuthTypeOK /\ CallsInv' /\ UNCHANGED world
  BY GetStep DEF OpteeRuntimeGetVariable, At, CallsInv
<1>2. /\ store' = store /\ faults' = faults /\ drv' = drv /\ calls' = calls /\ callbacks' = callbacks
      /\ Served' = Served
  BY <1>1 DEF world, Served
<1>3. Len(stack) = 3 /\ Top = stack[3] /\ Top \in FrameType /\ ~Top.dirty
  BY <1>1, StartTop
<1>4. StartCall(stack[2], Top)
  BY <1>3 DEF StartOK, StartShape
<1>5. /\ Top.name \in Names /\ stack[2].at \in {"pk", "enable"} /\ Top.size = 1
      /\ stack[2].at = "pk" => Top.name = "PK"
      /\ stack[2].at = "enable" => Top.name = "SecureBootEnable"
  BY <1>1, <1>4 DEF StartCall, Names
<1>6. PICK s, size, d : Answer(s, Top.name, size, d)
  BY DEF OpteeRuntimeGetVariable, Return
<1>7. /\ Popped /\ ret'.fn = "get" /\ ret'.name = Top.name /\ ret'.asked = 1 /\ ~ret'.dirty
  BY <1>1, <1>3, <1>5, <1>6, AnswerMove
<1>8. /\ ret'.s = "OK" => ret'.data = store[Top.name]
      /\ ret'.s = "BufferTooSmall" => ret'.size = Len(store[Top.name]) /\ ret'.size > 1
  BY <1>1, <1>2, <1>5, <1>7 DEF CallsInv, AnswersAreStored
<1>9. stack'[2] = stack[2]
  BY <1>3, <1>7 DEF Popped, SameBelow
<1>10. Len(store[Top.name]) \in Nat /\ (store[Top.name] = <<>> <=> Len(store[Top.name]) = 0)
  BY <1>1, <1>5 DEF AuthTypeOK, Bits
<1>13. Served
  BY <1>3 DEF StartOK, StartShape
<1>11. CASE stack[2].at = "pk"
  <2>1. ret'.s = "BufferTooSmall" => store["PK"] # <<>>
    BY <1>5, <1>8, <1>10, <1>11
  <2>2. ASSUME ret'.s # "BufferTooSmall", faults = 0
        PROVE  store["PK"] = <<>>
    <3>1. /\ ret'.s = Top.st
          /\ \/ Top.st = "OK" /\ store[Top.name] # <<>> /\ Len(store[Top.name]) <= Top.size
             \/ Top.st = "BufferTooSmall"
             \/ Top.st = "NotFound" /\ store[Top.name] = <<>>
      BY <1>3, <1>5, <1>13, <2>2, GetAnswer
    <3>2. Len(store["PK"]) # 1
      BY DEF StartOK
    <3>3. Top.name = "PK" /\ Top.size = 1
      BY <1>5, <1>11
    <3>4. \A l \in Nat : l <= 1 /\ l # 1 => l = 0
      OBVIOUS
    <3>5. ~(store["PK"] # <<>> /\ Len(store["PK"]) <= 1)
      BY <3>2, <3>3, <3>4, <1>10, Zenon
    <3> QED  BY <3>1, <3>3, <3>5, <2>2, Zenon
  <2>3. StartKnows(stack[2])'
    BY <2>1, <2>2, <1>2, <1>9, <1>11 DEF StartKnows
  <2> QED  BY <1>2, <1>3, <1>7, <2>3, StartBack
<1>12. CASE stack[2].at = "enable"
  <2>1. StartKnows(stack[2])'
    BY <1>2, <1>5, <1>8, <1>9, <1>12 DEF StartKnows
  <2> QED  BY <1>2, <1>3, <1>7, <2>1, StartBack
<1> QED  BY <1>5, <1>11, <1>12

\* The writes that succeed have stored their data.
LEMMA StartSet ==
  ASSUME CallsInv, StartOK, OpteeRuntimeSetVariable \/ SetReturns
  PROVE  StartOK'
<1>1. Running /\ Top.fn = "set" /\ AuthTypeOK /\ UNCHANGED world
  BY DEF OpteeRuntimeSetVariable, SetReturns, At, CallsInv
<1>2. /\ store' = store /\ faults' = faults /\ drv' = drv /\ calls' = calls /\ callbacks' = callbacks
      /\ Served' = Served
  BY <1>1 DEF world, Served
<1>3. Len(stack) = 3 /\ Top = stack[3] /\ Top \in FrameType /\ ~Top.dirty
  BY <1>1, StartTop
<1>4. /\ StartCall(stack[2], Top) /\ Top.attr = "plain" /\ ~drv.arch
      /\ Top.at \in {"begin", "invoke", "take"}
  BY <1>1, <1>3 DEF StartOK, StartShape
<1>5. Top.at = "take" /\ Return(Top.st)
  BY <1>4 DEF OpteeRuntimeSetVariable, SetReturns, At
<1>6. Popped /\ ret'.s = Top.st
  BY <1>1, <1>5, ReturnMove
<1>7. Top.name \in Names
  BY <1>1, <1>4 DEF StartCall, Names
<1>8. Top.st = "OK" => store[Top.name] = Top.data
  BY <1>1, <1>3, <1>4, <1>5, <1>7 DEF CallsInv, TopInv, Running, BuffersInv, InBuffers, Services
<1>9. stack'[2] = stack[2]
  BY <1>3, <1>6 DEF Popped, SameBelow
<1>10. /\ stack[2].at \in {"setup", "created", "custom", "end"}
       /\ stack[2].at = "created" => Top.name = "SecureBootEnable" /\ Top.data = stack[2].data
       /\ stack[2].at = "custom" => /\ Top.name = "SecureBoot"
                                    /\ Top.data = Mode(stack[2].data = On /\ stack[2].attr = "user")
  BY <1>1, <1>4 DEF StartCall
<1>11. StartKnows(stack[2])'
  BY <1>2, <1>6, <1>8, <1>9, <1>10 DEF StartKnows, Mode, Off, On
<1> QED  BY <1>2, <1>3, <1>6, <1>11, StartBack

\* The entry point itself.
LEMMA StartEntry ==
  ASSUME CallsInv, StartOK, phase = "init",
         OpteeClientApiInitialize \/ TaOpenSession \/ VariableAuthOpteeRuntimeInitialize
  PROVE  StartInv'
<1>1. /\ Running /\ Top.fn = "init" /\ AuthTypeOK /\ drv \in DrvType
      /\ store' = store /\ calls' = calls /\ callbacks' = callbacks
  BY DEF OpteeClientApiInitialize, TaOpenSession, VariableAuthOpteeRuntimeInitialize, At, CallsInv,
         AuthTypeOK, Device
<1>2. Len(stack) = 1 /\ Top = stack[1] /\ Top \in FrameType
  BY <1>1, StartTop
<1>3. faults \in Nat /\ (faults' = 0 => faults = 0) /\ UNCHANGED Device
  BY <1>1 DEF OpteeClientApiInitialize, TaOpenSession, VariableAuthOpteeRuntimeInitialize, AuthTypeOK,
              Fault
<1>4. ASSUME NEW l \in {"open", "opened", "write", "event"}, Goto(l), phase' = phase, ~drv'.runtime,
             l \in {"open", "opened"} => ~drv'.arch /\ Top.at \in {"begin", "open"},
             l # "open" => drv'.session /\ Served', l \in {"write", "event"} => Good
      PROVE  StartInv'
  <2>1. l \in Labels
    BY DEF Labels
  <2>2. PICK f : Moved(f) /\ SameCall(f, Top) /\ f.at = l
    BY <1>1, <1>4, <2>1, GotoMove
  <2>3. Len(stack') = 1 /\ stack'[1] = f /\ f.fn = "init"
    BY <1>1, <1>2, <2>2 DEF Moved, SameCall
  <2>4. StartShape'
    BY <1>4, <2>2, <2>3 DEF StartShape
  <2>5. Good => Good'
    BY <1>1, <1>3 DEF Good
  <2>6. StartOK'
    BY <1>1, <1>2, <1>4, <2>2, <2>3, <2>4, <2>5 DEF StartOK
  <2> QED  BY <1>4, <2>6 DEF StartInv
<1>5. ASSUME NEW s, InitEnds(s), s = "OK" => Good
      PROVE  StartInv'
  <2>1. Good => Good'
    BY <1>1, <1>3 DEF Good
  <2>2. Popped
    BY <1>1, <1>5, ReturnMove DEF InitEnds
  <2>3. stack' = <<>>
    BY <1>2, <2>2 DEF Popped
  <2>4. phase' = IF s = "OK" THEN "boot" ELSE "failed"
    BY <1>5 DEF InitEnds
  <2> QED  BY <1>5, <2>1, <2>3, <2>4 DEF StartInv
<1>6. /\ ~drv.runtime /\ (Top.at \in {"begin", "open", "opened", "vars"} => ~drv.arch)
      /\ Top.at \notin {"begin", "open"} => drv.session /\ Served
      /\ Top.at = "vars" /\ ret.s = "OK" => Good
      /\ Top.at \in {"write", "event"} => Good
  BY <1>2 DEF StartOK, StartShape
<1>7. ASSUME InitEnds("Error")
      PROVE  StartInv'
  BY <1>5, <1>7
<1>8. CASE Top.at = "begin" /\ Goto("open") /\ drv' = [drv EXCEPT !.api = TRUE] /\ phase' = phase
  <2>1. drv'.arch = drv.arch /\ drv'.runtime = drv.runtime
    BY <1>1, <1>8 DEF DrvType
  <2> QED  BY <1>4, <1>6, <1>8, <2>1
<1>9. CASE /\ Top.at = "open" /\ Goto("opened") /\ phase' = phase
           /\ drv' = [Opened EXCEPT !.param = TRUE, !.result = TRUE] /\ Granted
  <2>1. drv'.arch = drv.arch /\ drv'.runtime = drv.runtime /\ drv'.session
    BY <1>1, <1>9, OpenedFacts
  <2>2. Served'
    BY <1>9, <2>1 DEF Granted, Served
  <2> QED  BY <1>4, <1>6, <1>9, <2>1, <2>2
<1>10. CASE Top.at = "opened" /\ Call(Proc("secureboot", "none"), "vars") /\ UNCHANGED <<phase, drv, served, faults>>
  <2> DEFINE g == Proc("secureboot", "none")
  <2>1. g \in FrameType /\ g.fn = "secureboot" /\ g.at = "begin"
    BY NewFrames
  <2>2. "vars" \in Labels
    BY DEF Labels
  <2> HIDE DEF g
  <2>3. PICK f : Called(f, g) /\ SameCall(f, Top) /\ f.at = "vars"
    BY <1>1, <1>10, <2>1, <2>2, CallingMove DEF g
  <2>4. Len(stack') = 2 /\ stack'[1] = f /\ stack'[2] = g /\ f.fn = "init"
    BY <1>1, <1>2, <2>3 DEF Called, SameCall
  <2>5. StartShape'
    BY <1>6, <1>10, <2>1, <2>3, <2>4 DEF StartShape, Served
  <2>6. store["SetupMode"] = <<>> /\ store["SecureBoot"] = <<>>
    BY <1>2, <1>10 DEF StartOK
  <2>7. StartLocals(stack[2])'
    BY <1>1, <2>1, <2>4, <2>6 DEF StartLocals
  <2>8. StartKnows(stack[2])'
    BY <2>1, <2>4 DEF StartKnows
  <2>9. StartOK'
    BY <1>1, <2>3, <2>4, <2>5, <2>7, <2>8 DEF StartOK
  <2> QED  BY <1>10, <2>9 DEF StartInv
<1>11. CASE Top.at = "vars" /\ ret.s # "OK" /\ InitEnds(ret.s)
  BY <1>5, <1>11
<1>12. CASE /\ Top.at = "vars" /\ ret.s = "OK" /\ drv' = [drv EXCEPT !.services = TRUE, !.arch = TRUE]
            /\ Goto("write") /\ phase' = phase /\ served' = served
  <2>1. drv'.runtime = drv.runtime /\ drv'.session = drv.session /\ Served' = Served
    BY <1>1, <1>12 DEF DrvType, Served
  <2> QED  BY <1>4, <1>6, <1>12, <2>1
<1>13. CASE /\ Top.at = "write" /\ drv' = [drv EXCEPT !.write = TRUE] /\ Goto("event") /\ phase' = phase
            /\ served' = served
  <2>1. drv'.runtime = drv.runtime /\ drv'.session = drv.session /\ Served' = Served
    BY <1>1, <1>13 DEF DrvType, Served
  <2> QED  BY <1>4, <1>6, <1>13, <2>1
<1>14. CASE Top.at = "event" /\ drv' = [drv EXCEPT !.event = TRUE] /\ InitEnds("OK") /\ faults' = faults
  BY <1>5, <1>6, <1>14
<1> QED  BY <1>7, <1>8, <1>9, <1>10, <1>11, <1>12, <1>13, <1>14
         DEF OpteeClientApiInitialize, TaOpenSession, VariableAuthOpteeRuntimeInitialize, At

\* Every step keeps the invariant of the start.
LEMMA StartInvStep ==
  ASSUME CallsInv, StartInv, [Next]_vars
  PROVE  StartInv'
<1>1. CASE UNCHANGED vars
  BY <1>1 DEF vars, StartInv, StartOK, StartShape, StartCall, StartKnows, StartLocals, Good, Mode, On, Off, Served
<1>2. CASE Next /\ phase = "init"
  <2>1. StartOK
    BY <1>2 DEF StartInv
  <2>2. /\ Running /\ Top.fn \in {"init", "secureboot", "get", "set"}
    BY <2>1, StartTop
  <2>3. CASE OpteeClientApiInitialize \/ TaOpenSession \/ VariableAuthOpteeRuntimeInitialize
    BY <1>2, <2>1, <2>3, StartEntry
  <2>4. CASE InitSecureBootVariables \/ BeginService \/ OpteeRuntimeVariableInvokeCommand
             \/ OpteeRuntimeGetVariable \/ OpteeRuntimeSetVariable \/ SetReturns
    <3>1. phase' = phase
      BY <2>4 DEF InitSecureBootVariables, BeginService, OpteeRuntimeVariableInvokeCommand,
                  OpteeRuntimeGetVariable, OpteeRuntimeSetVariable, SetReturns, world
    <3>2. StartOK'
      BY <1>2, <2>1, <2>4, StartVariables, StartBegin, StartInvoke, StartGet, StartSet
    <3> QED  BY <1>2, <3>1, <3>2 DEF StartInv
  <2> QED  BY <1>2, <2>2, <2>3, <2>4 DEF Next, Driver, OpteeRuntimeOnExitBootServices,
              OpteeRuntimeGetNextVariableName, OpteeRuntimeQueryVariableInfo, SecureBootHook,
              InternalGetVariable, MeasureVariable, ExitBootServices, ClientCall, Callback, TestSessions, Stopped, At
<1>3. CASE Next /\ phase # "init" /\ calls # 0
  <2>1. calls \in Nat /\ (calls' = calls \/ calls' = calls + 1)
    BY <1>3 DEF CallsInv, AuthTypeOK, Next, Driver, OpteeClientApiInitialize, TaOpenSession,
         InitSecureBootVariables, VariableAuthOpteeRuntimeInitialize, OpteeRuntimeOnExitBootServices,
         BeginService, OpteeRuntimeVariableInvokeCommand, OpteeRuntimeGetVariable,
         OpteeRuntimeGetNextVariableName, OpteeRuntimeSetVariable, SetReturns,
         OpteeRuntimeQueryVariableInfo, SecureBootHook, InternalGetVariable, MeasureVariable,
         ExitBootServices, ClientCall, Callback, TestSessions, Stopped, vars, world, Device
  <2>2. calls' # 0
    BY <1>3, <2>1
  <2>3. phase' # "init"
    BY <1>3 DEF Next, Driver, OpteeClientApiInitialize, TaOpenSession, InitEnds,
         InitSecureBootVariables, VariableAuthOpteeRuntimeInitialize, OpteeRuntimeOnExitBootServices,
         BeginService, OpteeRuntimeVariableInvokeCommand, OpteeRuntimeGetVariable,
         OpteeRuntimeGetNextVariableName, OpteeRuntimeSetVariable, SetReturns,
         OpteeRuntimeQueryVariableInfo, SecureBootHook, InternalGetVariable, MeasureVariable,
         ExitBootServices, ClientCall, Callback, TestSessions, Stopped, vars, world, Device
  <2> QED  BY <2>2, <2>3 DEF StartInv
<1>4. CASE Next /\ phase # "init" /\ calls = 0
  <2>1. ~Running
    BY <1>4 DEF StartInv, Running
  <2>2. \/ OpteeRuntimeOnExitBootServices \/ ExitBootServices \/ ClientCall \/ Stopped
        \/ \E sids \in SUBSET Sids : TestSessions(sids)
    BY <1>4, <2>1 DEF Next, Driver, OpteeClientApiInitialize, TaOpenSession,
         InitSecureBootVariables, VariableAuthOpteeRuntimeInitialize,
         BeginService, OpteeRuntimeVariableInvokeCommand, OpteeRuntimeGetVariable,
         OpteeRuntimeGetNextVariableName, OpteeRuntimeSetVariable, SetReturns,
         OpteeRuntimeQueryVariableInfo, SecureBootHook, InternalGetVariable, MeasureVariable,
         Callback, At
  <2>3. CASE OpteeRuntimeOnExitBootServices \/ ExitBootServices
    <3>1. phase' \in {"exiting", "runtime", "rebooted"} /\ stack' = stack
      BY <2>3 DEF OpteeRuntimeOnExitBootServices, ExitBootServices
    <3> QED  BY <1>4, <3>1 DEF StartInv
  <2>4. CASE ClientCall
    <3>1. phase' = phase /\ calls' = 1
      BY <1>4, <2>4 DEF ClientCall
    <3> QED  BY <1>4, <3>1 DEF StartInv
  <2>5. CASE Stopped
    BY <1>1, <2>5 DEF Stopped
  <2>6. CASE \E sids \in SUBSET Sids : TestSessions(sids)
    <3>1. phase' = "boot" /\ calls' = 1
      BY <1>4, <2>6, TestStep
    <3> QED  BY <3>1 DEF StartInv
  <2> QED  BY <2>2, <2>3, <2>4, <2>5, <2>6
<1> QED  BY <1>1, <1>2, <1>3, <1>4

\* The TA starts with what earlier boots have stored.
LEMMA StartInit ==
  ASSUME Init
  PROVE  StartInv
<1>1. PICK pk \in {<<>>, <<1, 0>>}, e \in {<<>>, Off, On} :
        store = [n \in Names |-> CASE n = "PK" -> pk [] n = "SecureBootEnable" -> e [] OTHER -> <<>>]
  BY DEF Init
<1>2. store["PK"] = pk /\ store["SecureBootEnable"] = e /\ store["SetupMode"] = <<>> /\ store["SecureBoot"] = <<>>
  BY <1>1 DEF Names
<1>3. Len(<<>>) = 0 /\ Len(<<1, 0>>) = 2 /\ Len(Off) = 1 /\ Len(On) = 1 /\ Off # <<>>
  BY DEF Off, On
<1>4. Len(<<>>) <= 1 /\ Len(Off) <= 1 /\ Len(On) <= 1 /\ Len(<<>>) # 1 /\ Len(<<1, 0>>) # 1
  BY <1>3
<1>5. Len(store["PK"]) # 1 /\ Len(store["SecureBootEnable"]) <= 1
  BY <1>2, <1>4, Zenon
<1>6. store["SetupMode"] # Off
  BY <1>2, <1>3
<1>7. /\ phase = "init" /\ calls = 0 /\ callbacks = 0 /\ drv = NewDriver
      /\ stack = <<Proc("init", "none")>>
  BY DEF Init
<1>8. Len(stack) = 1 /\ stack[1].fn = "init" /\ stack[1].at = "begin"
  BY <1>7 DEF Proc, Frame
<1>9. StartShape
  BY <1>7, <1>8 DEF StartShape, NewDriver
<1>10. StartOK
  BY <1>2, <1>5, <1>6, <1>7, <1>8, <1>9 DEF StartOK
<1> QED  BY <1>7, <1>10 DEF StartInv

\* The driver starts with Secure Boot on only if a PK and the enabling variable are
\* stored, whatever fails on the way, and with setup mode off only if there is a PK;
\* when nothing fails, it also starts with Secure Boot on if both are there.
THEOREM SecureBootNeedsKeyHolds == Spec => []SecureBootNeedsKey
<1>1. Init => StartInv
  BY StartInit
<1>2. CallsInv /\ StartInv /\ [Next]_vars => StartInv'
  BY StartInvStep
<1>3. StartInv => SecureBootNeedsKey
  BY DEF StartInv, Good, SecureBootNeedsKey
<1>4. Spec => Init /\ [][Next]_vars
  BY PTL DEF Spec
<1> QED  BY <1>1, <1>2, <1>3, <1>4, CallsAlways, PTL

===============================================================================
