------------------------------ MODULE SdMmcProofs ------------------------------
(*****************************************************************************)
(* Proofs about the SD/MMC driver: the ...ProtocolInstalled flags follow the *)
(* handle database through every nesting of resets, and a transfer moves     *)
(* blocks to their place.                                                    *)
(*****************************************************************************)
EXTENDS SdMmcSlots, SdMmcBlockIo, ListLemmas

-------------------------------------------------------------------------------
(* The slots.                                                                *)

Ats == {"peek", "decide", "uninstall", "uninstalled", "free", "clear", "present", "init",
        "identify", "install", "installed", "rpmb", "exit", "exited"}

FrameType ==
  [op : {"check", "reset", "destroy"}, host : Hosts, at : Ats, proto : Protos,
   absent : BOOLEAN, err : BOOLEAN, recover : BOOLEAN, tick : BOOLEAN,
   link : Nat \ {0}, seen : BOOLEAN]

SlotsTypeOK ==
  /\ card \in [Hosts -> Cards \cup {"none"}]
  /\ opened \subseteq Hosts
  /\ pool \in Seq(Hosts)
  /\ inst \in [Hosts -> [media : BOOLEAN, init : BOOLEAN, fn : Cards \cup {"unknown"},
                         flags : SUBSET Protos]]
  /\ db \in [Hosts -> SUBSET Protos]
  /\ stack \in Seq(FrameType)

Flag(h, p) == p \in inst[h].flags
Db(h, p)   == p \in db[h]

\* Between a boot service and the flag that follows it.
Removing(f) == f.at \in {"uninstalled", "exited"}
Adding(f)   == f.at = "installed"
Pending(f)  == Removing(f) \/ Adding(f)

\* The place of a protocol in UninstallAllProtocols.
Order(p) == CASE p = "BlockIo" -> 1 [] p = "RpmbIo" -> 2 [] p = "DevicePath" -> 3

\* A call that has not got past protocol p of UninstallAllProtocols, and will not.
Harmless(f, p) ==
  \/ f.at \in {"peek", "decide", "exit", "exited"}
  \/ f.at = "uninstall" /\ Order(f.proto) <= Order(p)
  \/ f.at = "uninstalled" /\ Order(f.proto) < Order(p)

\* Which steps a call of each kind has.
ShapeInv ==
  \A k \in 1 .. Len(stack) :
    /\ stack[k].host \in opened
    /\ stack[k].op = "check" <=> stack[k].at \in {"peek", "decide"}
    /\ stack[k].op = "destroy" => k = 1 /\ stack[k].at \in {"uninstall", "uninstalled", "free"}
    /\ stack[k].at = "free" => stack[k].op = "destroy"

\* What a call in the middle of a change has left behind.
PendingInv ==
  \A k \in 1 .. Len(stack) :
    LET f == stack[k]
    IN /\ Removing(f) => Flag(f.host, f.proto) /\ ~Db(f.host, f.proto)
       /\ Adding(f) => ~Flag(f.host, f.proto) /\ Db(f.host, f.proto)

\* What interrupts a call that removes a protocol fails before it can install it again.
NestingInv ==
  \A j, k \in 1 .. Len(stack) :
    j < k /\ stack[j].host = stack[k].host =>
      /\ Removing(stack[j]) => Harmless(stack[k], stack[j].proto)
      /\ Pending(stack[j]) /\ Pending(stack[k]) => stack[j].proto # stack[k].proto

\* Apart from those the flags follow the database.
TrackInv ==
  \A h \in Hosts, p \in Protos :
    \/ \E k \in 1 .. Len(stack) : Pending(stack[k]) /\ stack[k].host = h /\ stack[k].proto = p
    \/ Flag(h, p) <=> Db(h, p)

\* Controllers are in the pool once, and only those that were started have protocols.
PoolInv ==
  /\ \A i \in 1 .. Len(pool) : pool[i] \in opened
  /\ \A i, j \in 1 .. Len(pool) : pool[i] = pool[j] => i = j
  /\ \A h \in Hosts \ opened : \A p \in Protos : ~Flag(h, p) /\ ~Db(h, p)

\* An instance being destroyed has left the pool, so that nothing but its destruction
\* touches it, one protocol after the other.
DestroyInv ==
  stack # <<>> /\ stack[1].op = "destroy" =>
    /\ \A i \in 1 .. Len(pool) : pool[i] # stack[1].host
    /\ \A k \in 2 .. Len(stack) : \E i \in 1 .. Len(pool) : stack[k].host = pool[i]
    /\ \A p \in Protos :
         stack[1].at = "free" \/ Order(p) < Order(stack[1].proto) => ~Flag(stack[1].host, p)

SlotsInv ==
  SlotsTypeOK /\ ShapeInv /\ PendingInv /\ NestingInv /\ TrackInv /\ PoolInv /\ DestroyInv

-------------------------------------------------------------------------------
(* The running call.                                                         *)

Instances == [media : BOOLEAN, init : BOOLEAN, fn : Cards \cup {"unknown"}, flags : SUBSET Protos]

\* The flag and the database entry of a protocol stay what they are.
NewFlag(h, p) == p \in inst'[h].flags
NewDb(h, p)   == p \in db'[h]
Same(h, p) == (NewFlag(h, p) <=> Flag(h, p)) /\ (NewDb(h, p) <=> Db(h, p))

\* No call below the running one is in the middle of a change of protocol p.
Undisturbed(p) ==
  \A k \in 1 .. Len(stack) - 1 : ~(Pending(stack[k]) /\ stack[k].host = H /\ stack[k].proto = p)

\* A frame the running call may turn into.
Fits(f) ==
  /\ f.op = Top.op /\ f.host \in opened
  /\ f.host = H \/ (f.op = "check" /\ \E i \in 1 .. Len(pool) : f.host = pool[i])
  /\ f.op = "check" <=> f.at \in {"peek", "decide"}
  /\ f.op = "destroy" => f.at \in {"uninstall", "uninstalled", "free"}
  /\ f.at = "free" => f.op = "destroy"
  /\ \A j \in 1 .. Len(stack) - 1 :
       stack[j].host = f.host /\ Removing(stack[j]) => Harmless(f, stack[j].proto)

\* What a step of the running call does to the flags and the database: nothing, or a
\* change of its protocol that no other call is in the middle of, which it finishes or
\* keeps account of.
Accounted(pending) ==
  \/ /\ \A h \in Hosts, p \in Protos : Same(h, p)
     /\ ~Pending(Top) /\ ~pending
  \/ /\ \A h \in Hosts, p \in Protos : (h # H \/ p # Top.proto) => Same(h, p)
     /\ Undisturbed(Top.proto)
     /\ ~pending => (NewFlag(H, Top.proto) <=> NewDb(H, Top.proto))

\* The running call and its place.
LEMMA TopFacts ==
  ASSUME SlotsTypeOK, ShapeInv, stack # <<>>
  PROVE  /\ Len(stack) \in Nat \ {0} /\ Len(stack) \in 1 .. Len(stack) /\ stack[Len(stack)] = Top
         /\ Top \in FrameType /\ H \in Hosts /\ H \in opened /\ H = Top.host /\ Top.proto \in Protos
         /\ I \in Instances /\ I = inst[H]
<1>1. Len(stack) \in Nat \ {0} /\ Len(stack) \in 1 .. Len(stack) /\ Top \in FrameType
  BY StackTop DEF SlotsTypeOK, Top
<1>2. H \in Hosts /\ Top.proto \in Protos
  BY <1>1 DEF FrameType, H
<1> QED  BY <1>1, <1>2 DEF ShapeInv, SlotsTypeOK, Instances, Top, H, I

\* Protocols are in order.
LEMMA OrderFacts ==
  /\ \A p \in Protos : Order(p) \in 1 .. 3
  /\ \A p, q \in Protos : Order(p) = Order(q) => p = q
  /\ \A p \in Protos : Order("BlockIo") <= Order(p)
  /\ \A p \in Protos :
       IF UninstallNext[p] = "end"
       THEN Order(p) = 3
       ELSE UninstallNext[p] \in Protos /\ Order(UninstallNext[p]) = Order(p) + 1
<1>1. Order("BlockIo") = 1 /\ Order("RpmbIo") = 2 /\ Order("DevicePath") = 3
  BY DEF Order
<1>2. /\ UninstallNext["BlockIo"] = "RpmbIo" /\ UninstallNext["RpmbIo"] = "DevicePath"
      /\ UninstallNext["DevicePath"] = "end"
  BY DEF UninstallNext
<1>3. Protos = {"BlockIo", "RpmbIo", "DevicePath"}
  BY DEF Protos
<1> QED  BY <1>1, <1>2, <1>3

\* The running call goes on.
LEMMA CallGoesOn ==
  ASSUME SlotsInv, stack # <<>>, NEW f \in FrameType, Goto(f), UNCHANGED <<opened, pool>>,
         card' \in [Hosts -> Cards \cup {"none"}],
         inst' \in [Hosts -> Instances], db' \in [Hosts -> SUBSET Protos],
         Fits(f), Accounted(Pending(f)),
         Pending(f) => f.host = H /\ f.proto = Top.proto,
         Removing(f) => NewFlag(f.host, f.proto) /\ ~NewDb(f.host, f.proto),
         Adding(f) => ~NewFlag(f.host, f.proto) /\ NewDb(f.host, f.proto),
         f.op = "destroy" => \A p \in Protos : f.at = "free" \/ Order(p) < Order(f.proto) => ~NewFlag(H, p)
  PROVE  SlotsInv'
<1> DEFINE N == Len(stack)
<1>1. SlotsTypeOK /\ ShapeInv /\ PendingInv /\ NestingInv /\ TrackInv /\ PoolInv /\ DestroyInv
  BY DEF SlotsInv
<1>2. /\ N \in 1 .. N /\ stack[N] = Top
      /\ Top \in FrameType /\ H \in Hosts /\ H \in opened /\ H = Top.host /\ Top.proto \in Protos
  BY <1>1, TopFacts
<1>3. /\ stack' \in Seq(FrameType) /\ stack' # <<>>
      /\ N \in Nat \ {0} /\ Len(stack') = N /\ stack'[N] = f
      /\ \A k \in 1 .. N - 1 : stack'[k] = stack[k]
  BY <1>1, StackSetTop DEF Goto, SlotsTypeOK
<1>4. /\ \A k \in 1 .. N : k = N \/ (k \in 1 .. N - 1 /\ k # N /\ k < N)
      /\ \A k \in 1 .. N - 1 : k \in 1 .. N /\ k < N
  BY <1>3
<1>5. \A k \in 1 .. N - 1 : stack[k] \in FrameType /\ stack[k].host \in Hosts /\ stack[k].proto \in Protos
  <2> TAKE k \in 1 .. N - 1
  <2>1. stack \in Seq(FrameType) /\ k \in 1 .. Len(stack)
    BY <1>1, <1>4 DEF SlotsTypeOK
  <2>2. stack[k] \in FrameType
    BY <2>1, StackElement
  <2> QED  BY <2>2 DEF FrameType
<1>6. SlotsTypeOK'
  BY <1>1, <1>3 DEF SlotsTypeOK, Instances
<1>7. ShapeInv'
  <2>1. ASSUME NEW k \in 1 .. N
        PROVE  /\ stack'[k].host \in opened
               /\ stack'[k].op = "check" <=> stack'[k].at \in {"peek", "decide"}
               /\ stack'[k].op = "destroy" => k = 1 /\ stack'[k].at \in {"uninstall", "uninstalled", "free"}
               /\ stack'[k].at = "free" => stack'[k].op = "destroy"
    <3>1. CASE k = N
      <4>1. f.op = "destroy" => k = 1
        BY <3>1, <1>1, <1>2 DEF ShapeInv, Fits
      <4> QED  BY <3>1, <4>1, <1>3 DEF Fits
    <3>2. CASE k \in 1 .. N - 1
      BY <3>2, <1>1, <1>3, <1>4 DEF ShapeInv
    <3> QED  BY <3>1, <3>2, <1>4
  <2> QED  BY <2>1, <1>3 DEF ShapeInv
\* The frames below are not affected by the change.
<1>8. ASSUME NEW k \in 1 .. N - 1, Pending(stack[k])
      PROVE  Same(stack[k].host, stack[k].proto)
  BY <1>8, <1>5 DEF Accounted, Undisturbed
<1>9. PendingInv'
  <2>1. ASSUME NEW k \in 1 .. N
        PROVE  LET g == stack'[k]
               IN /\ Removing(g) => NewFlag(g.host, g.proto) /\ ~NewDb(g.host, g.proto)
                  /\ Adding(g) => ~NewFlag(g.host, g.proto) /\ NewDb(g.host, g.proto)
    <3>1. CASE k = N
      BY <3>1, <1>3
    <3>2. CASE k \in 1 .. N - 1
      <4>1. stack'[k] = stack[k] /\ k \in 1 .. Len(stack)
        BY <3>2, <1>3, <1>4
      <4>2. /\ Removing(stack[k]) => Flag(stack[k].host, stack[k].proto) /\ ~Db(stack[k].host, stack[k].proto)
            /\ Adding(stack[k]) => ~Flag(stack[k].host, stack[k].proto) /\ Db(stack[k].host, stack[k].proto)
        BY <4>1, <1>1 DEF PendingInv
      <4> QED  BY <4>1, <4>2, <3>2, <1>8 DEF Same, Pending
    <3> QED  BY <3>1, <3>2, <1>4
  <2> QED  BY <2>1, <1>3 DEF PendingInv, Flag, Db, NewFlag, NewDb
<1>10. NestingInv'
  <2>1. ASSUME NEW j \in 1 .. N, NEW k \in 1 .. N, j < k, stack'[j].host = stack'[k].host
        PROVE  /\ Removing(stack'[j]) => Harmless(stack'[k], stack'[j].proto)
               /\ Pending(stack'[j]) /\ Pending(stack'[k]) => stack'[j].proto # stack'[k].proto
    <3>1. j \in 1 .. N - 1 /\ stack'[j] = stack[j]
      BY <2>1, <1>3, <1>4
    <3>2. CASE k = N
      <4>1. Removing(stack[j]) => Harmless(f, stack[j].proto)
        BY <3>1, <3>2, <2>1, <1>3 DEF Fits
      <4>2. ASSUME Pending(stack[j]), Pending(f)
            PROVE  stack[j].proto # f.proto
        <5>1. Undisturbed(Top.proto)
          BY <4>2 DEF Accounted
        <5> QED  BY <5>1, <4>2, <3>1, <3>2, <2>1, <1>3 DEF Undisturbed
      <4> QED  BY <4>1, <4>2, <3>1, <3>2, <1>3
    <3>3. CASE k \in 1 .. N - 1
      <4>1. stack'[k] = stack[k] /\ k \in 1 .. Len(stack) /\ j \in 1 .. Len(stack)
        BY <3>3, <1>3, <1>4
      <4> QED  BY <4>1, <3>1, <2>1, <1>1 DEF NestingInv
    <3> QED  BY <3>2, <3>3, <1>4
  <2> QED  BY <2>1, <1>3 DEF NestingInv
<1>11. TrackInv'
  <2>1. ASSUME NEW h \in Hosts, NEW p \in Protos,
               \A k \in 1 .. N : ~(Pending(stack'[k]) /\ stack'[k].host = h /\ stack'[k].proto = p)
        PROVE  NewFlag(h, p) <=> NewDb(h, p)
    <3>1. \A k \in 1 .. N - 1 : ~(Pending(stack[k]) /\ stack[k].host = h /\ stack[k].proto = p)
      BY <2>1, <1>3, <1>4
    <3>2. CASE ~(Pending(Top) /\ H = h /\ Top.proto = p) /\ Same(h, p)
      <4>1. \A k \in 1 .. N : ~(Pending(stack[k]) /\ stack[k].host = h /\ stack[k].proto = p)
        BY <3>1, <3>2, <1>4, <1>2
      <4>2. Flag(h, p) <=> Db(h, p)
        BY <4>1, <1>1 DEF TrackInv
      <4> QED  BY <4>2, <3>2 DEF Same
    <3>3. CASE h = H /\ p = Top.proto /\ ~Pending(f) /\ (NewFlag(h, p) <=> NewDb(h, p))
      BY <3>3
    <3>4. CASE Pending(f)
      <4>1. ~(h = H /\ p = Top.proto)
        BY <3>4, <2>1, <1>3, <1>2
      <4>2. Same(h, p)
        BY <4>1, <3>4 DEF Accounted
      <4> QED  BY <4>1, <4>2, <3>2
    <3> QED  BY <3>2, <3>3, <3>4 DEF Accounted
  <2>2. ASSUME NEW h \in Hosts, NEW p \in Protos
        PROVE  \/ \E k \in 1 .. N : Pending(stack'[k]) /\ stack'[k].host = h /\ stack'[k].proto = p
               \/ NewFlag(h, p) <=> NewDb(h, p)
    BY <2>1
  <2> QED  BY <2>2, <1>3 DEF TrackInv, Flag, Db, NewFlag, NewDb
<1>12. PoolInv'
  <2>1. ASSUME NEW h \in Hosts \ opened, NEW p \in Protos
        PROVE  ~NewFlag(h, p) /\ ~NewDb(h, p)
    <3>1. h # H  BY <1>2
    <3>2. Same(h, p)  BY <3>1 DEF Accounted
    <3> QED  BY <3>2, <1>1 DEF PoolInv, Same
  <2> QED  BY <2>1, <1>1 DEF PoolInv, Flag, Db, NewFlag, NewDb
<1>13. DestroyInv'
  <2> SUFFICES ASSUME stack'[1].op = "destroy"
               PROVE  /\ \A i \in 1 .. Len(pool) : pool[i] # stack'[1].host
                      /\ \A k \in 2 .. N : \E i \in 1 .. Len(pool) : stack'[k].host = pool[i]
                      /\ \A p \in Protos : stack'[1].at = "free" \/ Order(p) < Order(stack'[1].proto)
                                           => ~NewFlag(stack'[1].host, p)
    BY <1>3 DEF DestroyInv, Flag, NewFlag
  <2>1. CASE N = 1
    <3>1. stack'[1] = f /\ stack[1] = Top /\ f.op = "destroy" /\ Top.op = "destroy" /\ f.host = H
      BY <2>1, <1>3, <1>2 DEF Fits
    <3>2. \A i \in 1 .. Len(pool) : pool[i] # H
      BY <3>1, <1>1, <1>2 DEF DestroyInv
    <3>3. 2 .. N = {}
      BY <2>1
    <3> QED  BY <3>1, <3>2, <3>3
  <2>2. CASE N # 1
    <3>1. 1 \in 1 .. N - 1 /\ N \in 2 .. N /\ stack'[1] = stack[1] /\ stack[1].op = "destroy"
      BY <2>2, <1>3
    <3>2. /\ \A i \in 1 .. Len(pool) : pool[i] # stack[1].host
          /\ \A k \in 2 .. N : \E i \in 1 .. Len(pool) : stack[k].host = pool[i]
          /\ \A p \in Protos : stack[1].at = "free" \/ Order(p) < Order(stack[1].proto)
                               => ~Flag(stack[1].host, p)
      BY <3>1, <1>1 DEF DestroyInv
    <3>3. stack[1].host # H /\ stack[1].host \in Hosts
      BY <3>1, <3>2, <1>2, <1>5
    <3>4. \A p \in Protos : Same(stack[1].host, p)
      BY <3>3 DEF Accounted
    <3>5. ASSUME NEW k \in 2 .. N
          PROVE  \E i \in 1 .. Len(pool) : stack'[k].host = pool[i]
      <4>1. CASE k = N
        <5>1. stack'[k].host = H \/ \E i \in 1 .. Len(pool) : stack'[k].host = pool[i]
          BY <4>1, <1>3 DEF Fits
        <5> QED  BY <5>1, <3>1, <3>2, <1>2
      <4>2. CASE k # N
        <5>1. k \in 1 .. N - 1 /\ stack'[k] = stack[k]
          BY <4>2, <1>3
        <5> QED  BY <5>1, <3>2
      <4> QED  BY <4>1, <4>2
    <3> QED  BY <3>1, <3>2, <3>4, <3>5 DEF Same
  <2> QED  BY <2>1, <2>2
<1> QED  BY <1>6, <1>7, <1>9, <1>10, <1>11, <1>12, <1>13 DEF SlotsInv

\* The running call returns.
LEMMA CallReturns ==
  ASSUME SlotsInv, stack # <<>>, Return, UNCHANGED <<opened, pool>>,
         card' \in [Hosts -> Cards \cup {"none"}],
         inst' \in [Hosts -> Instances], db' \in [Hosts -> SUBSET Protos],
         Accounted(FALSE)
  PROVE  SlotsInv'
<1> DEFINE N == Len(stack)
           M == Len(stack')
<1>1. SlotsTypeOK /\ ShapeInv /\ PendingInv /\ NestingInv /\ TrackInv /\ PoolInv /\ DestroyInv
  BY DEF SlotsInv
<1>2. /\ N \in 1 .. N /\ stack[N] = Top
      /\ Top \in FrameType /\ H \in Hosts /\ H \in opened /\ H = Top.host /\ Top.proto \in Protos
  BY <1>1, TopFacts
<1>3. /\ stack' \in Seq(FrameType)
      /\ N \in Nat \ {0} /\ M = N - 1
      /\ \A k \in 1 .. N - 1 : stack'[k] = stack[k]
  BY <1>1, StackPop DEF Return, SlotsTypeOK
<1>4. /\ \A k \in 1 .. N : k = N \/ k \in 1 .. M
      /\ \A k \in 1 .. M : k \in 1 .. N - 1 /\ k \in 1 .. N /\ stack'[k] = stack[k]
  BY <1>3
<1>5. \A k \in 1 .. M : stack[k] \in FrameType /\ stack[k].host \in Hosts /\ stack[k].proto \in Protos
  <2> TAKE k \in 1 .. M
  <2>1. stack \in Seq(FrameType) /\ k \in 1 .. Len(stack)
    BY <1>1, <1>4 DEF SlotsTypeOK
  <2>2. stack[k] \in FrameType
    BY <2>1, StackElement
  <2> QED  BY <2>2 DEF FrameType
<1>6. SlotsTypeOK'
  BY <1>1, <1>3 DEF SlotsTypeOK, Instances
<1>7. ShapeInv'
  BY <1>1, <1>4 DEF ShapeInv
<1>8. ASSUME NEW k \in 1 .. M, Pending(stack[k])
      PROVE  Same(stack[k].host, stack[k].proto)
  BY <1>8, <1>5, <1>4 DEF Accounted, Undisturbed
<1>9. PendingInv'
  <2>1. ASSUME NEW k \in 1 .. M
        PROVE  LET g == stack'[k]
               IN /\ Removing(g) => NewFlag(g.host, g.proto) /\ ~NewDb(g.host, g.proto)
                  /\ Adding(g) => ~NewFlag(g.host, g.proto) /\ NewDb(g.host, g.proto)
    <3>1. stack'[k] = stack[k] /\ k \in 1 .. Len(stack)
      BY <1>4
    <3>2. /\ Removing(stack[k]) => Flag(stack[k].host, stack[k].proto) /\ ~Db(stack[k].host, stack[k].proto)
          /\ Adding(stack[k]) => ~Flag(stack[k].host, stack[k].proto) /\ Db(stack[k].host, stack[k].proto)
      BY <3>1, <1>1 DEF PendingInv
    <3> QED  BY <3>1, <3>2, <1>8 DEF Same, Pending
  <2> QED  BY <2>1 DEF PendingInv, Flag, Db, NewFlag, NewDb
<1>10. NestingInv'
  BY <1>1, <1>4 DEF NestingInv
<1>11. TrackInv'
  <2>1. ASSUME NEW h \in Hosts, NEW p \in Protos,
               \A k \in 1 .. M : ~(Pending(stack'[k]) /\ stack'[k].host = h /\ stack'[k].proto = p)
        PROVE  NewFlag(h, p) <=> NewDb(h, p)
    <3>1. \A k \in 1 .. M : ~(Pending(stack[k]) /\ stack[k].host = h /\ stack[k].proto = p)
      BY <2>1, <1>4
    <3>2. CASE ~(Pending(Top) /\ H = h /\ Top.proto = p) /\ Same(h, p)
      <4>1. \A k \in 1 .. N : ~(Pending(stack[k]) /\ stack[k].host = h /\ stack[k].proto = p)
        BY <3>1, <3>2, <1>4, <1>2
      <4>2. Flag(h, p) <=> Db(h, p)
        BY <4>1, <1>1 DEF TrackInv
      <4> QED  BY <4>2, <3>2 DEF Same
    <3> QED  BY <3>2 DEF Accounted
  <2>2. ASSUME NEW h \in Hosts, NEW p \in Protos
        PROVE  \/ \E k \in 1 .. M : Pending(stack'[k]) /\ stack'[k].host = h /\ stack'[k].proto = p
               \/ NewFlag(h, p) <=> NewDb(h, p)
    BY <2>1
  <2> QED  BY <2>2 DEF TrackInv, Flag, Db, NewFlag, NewDb
<1>12. PoolInv'
  <2>1. ASSUME NEW h \in Hosts \ opened, NEW p \in Protos
        PROVE  ~NewFlag(h, p) /\ ~NewDb(h, p)
    <3>1. h # H  BY <1>2
    <3>2. Same(h, p)  BY <3>1 DEF Accounted
    <3> QED  BY <3>2, <1>1 DEF PoolInv, Same
  <2> QED  BY <2>1, <1>1 DEF PoolInv, Flag, Db, NewFlag, NewDb
<1>13. DestroyInv'
  <2> SUFFICES ASSUME stack' # <<>>, stack'[1].op = "destroy"
               PROVE  /\ \A i \in 1 .. Len(pool) : pool[i] # stack'[1].host
                      /\ \A k \in 2 .. M : \E i \in 1 .. Len(pool) : stack'[k].host = pool[i]
                      /\ \A p \in Protos : stack'[1].at = "free" \/ Order(p) < Order(stack'[1].proto)
                                           => ~NewFlag(stack'[1].host, p)
    BY DEF DestroyInv, Flag, NewFlag
  <2>1. M # 0 /\ N # 1
    BY <1>3
  <2>2. /\ 1 \in 1 .. M /\ N \in 2 .. N /\ stack'[1] = stack[1] /\ stack[1].op = "destroy"
        /\ \A k \in 2 .. M : k \in 2 .. N /\ stack'[k] = stack[k]
    BY <2>1, <1>3, <1>4
  <2>3. /\ \A i \in 1 .. Len(pool) : pool[i] # stack[1].host
        /\ \A k \in 2 .. N : \E i \in 1 .. Len(pool) : stack[k].host = pool[i]
        /\ \A p \in Protos : stack[1].at = "free" \/ Order(p) < Order(stack[1].proto)
                             => ~Flag(stack[1].host, p)
    BY <2>2, <1>1 DEF DestroyInv
  <2>4. stack[1].host # H /\ stack[1].host \in Hosts
    BY <2>2, <2>3, <1>2, <1>5
  <2>5. \A p \in Protos : Same(stack[1].host, p)
    BY <2>4 DEF Accounted
  <2> QED  BY <2>2, <2>3, <2>5 DEF Same
<1> QED  BY <1>6, <1>7, <1>9, <1>10, <1>11, <1>12, <1>13 DEF SlotsInv

\* A call is made: a check, a reset, or the destruction of an instance that left the pool.
LEMMA CallMade ==
  ASSUME SlotsInv, NEW f \in FrameType, Push(f), UNCHANGED <<card, opened, inst, db>>,
         f.host \in opened,
         \/ f.op = "check" /\ f.at \in {"peek", "decide"}
         \/ f.op \in {"reset", "destroy"} /\ f.at = "uninstall" /\ f.proto = "BlockIo",
         \/ pool' = pool
         \/ /\ stack = <<>> /\ pool' \in Seq(Hosts)
            /\ \A i \in 1 .. Len(pool') : pool'[i] \in opened
            /\ \A i, j \in 1 .. Len(pool') : pool'[i] = pool'[j] => i = j,
         f.op = "destroy" => stack = <<>> /\ \A i \in 1 .. Len(pool') : pool'[i] # f.host,
         stack # <<>> /\ stack[1].op = "destroy" => \E i \in 1 .. Len(pool) : f.host = pool[i]
  PROVE  SlotsInv'
<1> DEFINE N == Len(stack)
           M == Len(stack')
<1>1. SlotsTypeOK /\ ShapeInv /\ PendingInv /\ NestingInv /\ TrackInv /\ PoolInv /\ DestroyInv
  BY DEF SlotsInv
<1>2. /\ stack' \in Seq(FrameType) /\ stack' # <<>>
      /\ N \in Nat /\ M = N + 1 /\ stack'[M] = f
      /\ \A k \in 1 .. N : stack'[k] = stack[k]
  BY <1>1, StackPush DEF Push, SlotsTypeOK
<1>3. /\ \A k \in 1 .. M : k = M \/ (k \in 1 .. N /\ k # M /\ k < M)
      /\ \A k \in 1 .. N : k \in 1 .. M /\ k < M
      /\ stack = <<>> => N = 0
      /\ \A j, k \in 1 .. M : j < k => j \in 1 .. N
  BY <1>2
<1>4. ~Pending(f) /\ \A p \in Protos : Harmless(f, p)
  BY OrderFacts DEF Pending, Removing, Adding, Harmless
<1>5. \A k \in 1 .. N : stack[k].proto \in Protos
  <2> TAKE k \in 1 .. N
  <2>1. stack \in Seq(FrameType) /\ k \in 1 .. Len(stack)
    BY <1>1 DEF SlotsTypeOK
  <2>2. stack[k] \in FrameType
    BY <2>1, StackElement
  <2> QED  BY <2>2 DEF FrameType
<1>6. SlotsTypeOK'
  BY <1>1, <1>2 DEF SlotsTypeOK
<1>7. ShapeInv'
  <2>1. ASSUME NEW k \in 1 .. M
        PROVE  /\ stack'[k].host \in opened
               /\ stack'[k].op = "check" <=> stack'[k].at \in {"peek", "decide"}
               /\ stack'[k].op = "destroy" => k = 1 /\ stack'[k].at \in {"uninstall", "uninstalled", "free"}
               /\ stack'[k].at = "free" => stack'[k].op = "destroy"
    <3>1. CASE k = M
      BY <3>1, <1>2, <1>3
    <3>2. CASE k \in 1 .. N
      BY <3>2, <1>1, <1>2 DEF ShapeInv
    <3> QED  BY <3>1, <3>2, <1>3
  <2> QED  BY <2>1 DEF ShapeInv
<1>8. PendingInv'
  <2>1. ASSUME NEW k \in 1 .. M, Pending(stack'[k])
        PROVE  k \in 1 .. N /\ stack'[k] = stack[k]
    BY <2>1, <1>2, <1>3, <1>4
  <2> QED  BY <2>1, <1>1 DEF PendingInv, Pending, Flag, Db
<1>9. NestingInv'
  <2>1. ASSUME NEW j \in 1 .. M, NEW k \in 1 .. M, j < k, stack'[j].host = stack'[k].host
        PROVE  /\ Removing(stack'[j]) => Harmless(stack'[k], stack'[j].proto)
               /\ Pending(stack'[j]) /\ Pending(stack'[k]) => stack'[j].proto # stack'[k].proto
    <3>1. j \in 1 .. N /\ stack'[j] = stack[j]
      BY <2>1, <1>2, <1>3
    <3>2. CASE k = M
      BY <3>1, <3>2, <1>2, <1>4, <1>5
    <3>3. CASE k \in 1 .. N
      BY <3>1, <3>3, <2>1, <1>1, <1>2 DEF NestingInv
    <3> QED  BY <3>2, <3>3, <1>3
  <2> QED  BY <2>1 DEF NestingInv
<1>10. TrackInv'
  BY <1>1, <1>2, <1>3 DEF TrackInv, Flag, Db
<1>11. PoolInv'
  BY <1>1 DEF PoolInv, Flag, Db
<1>12. DestroyInv'
  <2> SUFFICES ASSUME stack'[1].op = "destroy"
               PROVE  /\ \A i \in 1 .. Len(pool') : pool'[i] # stack'[1].host
                      /\ \A k \in 2 .. M : \E i \in 1 .. Len(pool') : stack'[k].host = pool'[i]
                      /\ \A p \in Protos : stack'[1].at = "free" \/ Order(p) < Order(stack'[1].proto)
                                           => ~Flag(stack'[1].host, p)
    BY DEF DestroyInv, Flag
  <2>1. CASE stack = <<>>
    <3>1. M = 1 /\ stack'[1] = f /\ 2 .. M = {}
      BY <2>1, <1>2, <1>3
    <3>2. \A p \in Protos : ~(f.at = "free" \/ Order(p) < Order(f.proto))
      BY <3>1, OrderFacts DEF Protos
    <3> QED  BY <3>1, <3>2
  <2>2. CASE stack # <<>>
    <3>1. /\ 1 \in 1 .. N /\ stack'[1] = stack[1] /\ pool' = pool
          /\ \A k \in 2 .. M : k = M \/ (k \in 2 .. N /\ stack'[k] = stack[k])
      BY <2>2, <1>2, <1>3
    <3>2. /\ \A i \in 1 .. Len(pool) : pool[i] # stack[1].host
          /\ \A k \in 2 .. N : \E i \in 1 .. Len(pool) : stack[k].host = pool[i]
          /\ \A p \in Protos : stack[1].at = "free" \/ Order(p) < Order(stack[1].proto)
                               => ~Flag(stack[1].host, p)
      BY <2>2, <3>1, <1>1 DEF DestroyInv
    <3>3. \E i \in 1 .. Len(pool) : f.host = pool[i]
      BY <2>2, <3>1
    <3> QED  BY <3>1, <3>2, <3>3, <1>2
  <2> QED  BY <2>1, <2>2
<1> QED  BY <1>6, <1>7, <1>8, <1>9, <1>10, <1>11, <1>12 DEF SlotsInv

-------------------------------------------------------------------------------
(* What the running call knows about the calls it interrupted.               *)

\* A protocol that an interrupted call of the same host is in the middle of.
LEMMA BelowTop ==
  ASSUME SlotsInv, stack # <<>>, NEW j \in 1 .. Len(stack) - 1, stack[j].host = H
  PROVE  /\ stack[j].proto \in Protos
         /\ Removing(stack[j]) => /\ Harmless(Top, stack[j].proto)
                                  /\ Flag(H, stack[j].proto) /\ ~Db(H, stack[j].proto)
         /\ Adding(stack[j]) => ~Flag(H, stack[j].proto) /\ Db(H, stack[j].proto)
         /\ Pending(stack[j]) /\ Pending(Top) => stack[j].proto # Top.proto
<1> DEFINE N == Len(stack)
<1>1. SlotsTypeOK /\ ShapeInv /\ PendingInv /\ NestingInv
  BY DEF SlotsInv
<1>2. N \in Nat \ {0} /\ N \in 1 .. N /\ stack[N] = Top /\ H = Top.host
  BY <1>1, TopFacts
<1>3. j \in 1 .. N /\ j < N
  BY <1>2
<1>4. stack[j] \in FrameType
  BY <1>1, <1>3, StackElement DEF SlotsTypeOK
<1>5. stack[j].proto \in Protos
  BY <1>4 DEF FrameType
<1>6. /\ Removing(stack[j]) => Flag(H, stack[j].proto) /\ ~Db(H, stack[j].proto)
      /\ Adding(stack[j]) => ~Flag(H, stack[j].proto) /\ Db(H, stack[j].proto)
  BY <1>1, <1>3 DEF PendingInv
<1>7. /\ Removing(stack[j]) => Harmless(Top, stack[j].proto)
      /\ Pending(stack[j]) /\ Pending(Top) => stack[j].proto # Top.proto
  BY <1>1, <1>2, <1>3 DEF NestingInv
<1> QED  BY <1>5, <1>6, <1>7

\* A protocol that is both flagged and installed, or that the running call is in the
\* middle of, is nobody else's concern.
LEMMA TopUndisturbed ==
  ASSUME SlotsInv, stack # <<>>,
         Pending(Top) \/ (Flag(H, Top.proto) /\ Db(H, Top.proto))
  PROVE  Undisturbed(Top.proto)
<1> SUFFICES ASSUME NEW k \in 1 .. Len(stack) - 1, Pending(stack[k]), stack[k].host = H,
                    stack[k].proto = Top.proto
             PROVE  FALSE
  BY DEF Undisturbed
<1>1. Pending(stack[k]) => Removing(stack[k]) \/ Adding(stack[k])
  BY DEF Pending
<1> QED  BY <1>1, BelowTop

\* What the running call is in the middle of.
LEMMA TopPending ==
  ASSUME SlotsInv, stack # <<>>
  PROVE  /\ Removing(Top) => Flag(H, Top.proto) /\ ~Db(H, Top.proto)
         /\ Adding(Top) => ~Flag(H, Top.proto) /\ Db(H, Top.proto)
<1>1. Len(stack) \in 1 .. Len(stack) /\ stack[Len(stack)] = Top /\ H = Top.host
  BY TopFacts DEF SlotsInv
<1> QED  BY <1>1 DEF SlotsInv, PendingInv

\* A step that changes neither flags nor database.
LEMMA QuietStep ==
  ASSUME \A h \in Hosts : inst'[h].flags = inst[h].flags, db' = db
  PROVE  \A h \in Hosts, p \in Protos : Same(h, p)
BY DEF Same, Flag, Db, NewFlag, NewDb

\* SetI changes the running call's instance and no other.
LEMMA SetIFacts ==
  ASSUME SlotsTypeOK, ShapeInv, stack # <<>>, NEW i \in Instances, SetI(i)
  PROVE  /\ inst' \in [Hosts -> Instances]
         /\ inst'[H] = i /\ \A h \in Hosts \ {H} : inst'[h] = inst[h]
<1>1. H \in Hosts
  BY TopFacts
<1> QED  BY <1>1 DEF SetI, SlotsTypeOK, Instances

\* The parts of SoftReset before it installs a protocol and after.
Mid == {"clear", "present", "init", "identify", "install", "installed", "rpmb"}

\* In those no interrupted call of the same host is removing a protocol.
LEMMA MidAlone ==
  ASSUME SlotsInv, stack # <<>>, Top.at \in Mid
  PROVE  \A j \in 1 .. Len(stack) - 1 : stack[j].host = H => ~Removing(stack[j])
BY BelowTop DEF Mid, Harmless

\* Steps of SoftReset that leave flags and database alone.
LEMMA ResetGoesOn ==
  ASSUME SlotsInv, stack # <<>>, NEW f \in FrameType, Goto(f), UNCHANGED <<card, opened, pool, db>>,
         inst' \in [Hosts -> Instances], \A h \in Hosts : inst'[h].flags = inst[h].flags,
         Top.op = "reset", f.op = "reset", f.host = H, ~Pending(Top),
         \/ f.at = "exit"
         \/ Top.at \in Mid /\ f.at \in Mid \ {"installed"}
  PROVE  SlotsInv'
<1>1. ~Pending(f) /\ ~Removing(f) /\ ~Adding(f)
  BY DEF Pending, Removing, Adding, Mid
<1>2. \A h \in Hosts, p \in Protos : Same(h, p)
  BY QuietStep
<1>3. Accounted(Pending(f))
  BY <1>1, <1>2 DEF Accounted
<1>4. H \in opened
  BY TopFacts DEF SlotsInv
<1>5. \A j \in 1 .. Len(stack) - 1 :
        stack[j].host = f.host /\ Removing(stack[j]) => Harmless(f, stack[j].proto)
  <2>1. CASE f.at = "exit"
    BY <2>1 DEF Harmless
  <2>2. CASE Top.at \in Mid
    BY <2>2, MidAlone
  <2> QED  BY <2>1, <2>2
<1>6. Fits(f)
  BY <1>4, <1>5 DEF Fits, Mid
<1>7. card' \in [Hosts -> Cards \cup {"none"}] /\ db' \in [Hosts -> SUBSET Protos]
  BY DEF SlotsInv, SlotsTypeOK
<1> QED  BY <1>1, <1>3, <1>6, <1>7, CallGoesOn

\* A step that ends the call and leaves flags and database alone.
LEMMA QuietReturn ==
  ASSUME SlotsInv, stack # <<>>, Return, UNCHANGED <<card, opened, pool, inst, db>>, ~Pending(Top)
  PROVE  SlotsInv'
<1>1. \A h \in Hosts, p \in Protos : Same(h, p)
  BY QuietStep
<1>2. Accounted(FALSE)
  BY <1>1 DEF Accounted
<1>3. /\ card' \in [Hosts -> Cards \cup {"none"}] /\ db' \in [Hosts -> SUBSET Protos]
      /\ inst' \in [Hosts -> Instances]
  BY DEF SlotsInv, SlotsTypeOK, Instances
<1> QED  BY <1>2, <1>3, CallReturns

\* The next step of UninstallAllProtocols, once the current protocol is dealt with.
LEMMA UninstallAdvances ==
  ASSUME SlotsInv, stack # <<>>, Top.at \in {"uninstall", "uninstalled"}, AfterUninstall,
         UNCHANGED <<card, opened, pool, db>>, inst' \in [Hosts -> Instances],
         ~NewFlag(H, Top.proto),
         \A h \in Hosts, p \in Protos : (h # H \/ p # Top.proto) => Same(h, p),
         \/ Undisturbed(Top.proto) /\ ~NewDb(H, Top.proto)
         \/ Same(H, Top.proto) /\ ~Pending(Top),
         \A j \in 1 .. Len(stack) - 1 :
           stack[j].host = H /\ Removing(stack[j]) => Order(Top.proto) < Order(stack[j].proto)
  PROVE  SlotsInv'
<1>1. SlotsTypeOK /\ ShapeInv /\ DestroyInv
  BY DEF SlotsInv
<1>2. /\ Len(stack) \in 1 .. Len(stack) /\ stack[Len(stack)] = Top
      /\ Top \in FrameType /\ H \in Hosts /\ H \in opened /\ H = Top.host /\ Top.proto \in Protos
  BY <1>1, TopFacts
<1>3. Top.op \in {"reset", "destroy"} /\ (Top.op = "destroy" => Len(stack) = 1)
  BY <1>1, <1>2 DEF ShapeInv, FrameType
<1>4. PICK f \in FrameType :
        /\ Goto(f) /\ f.op = Top.op /\ f.host = H
        /\ \/ f.at = "uninstall" /\ Order(f.proto) = Order(Top.proto) + 1
           \/ f.at = (IF Top.op = "reset" THEN "clear" ELSE "free") /\ Order(Top.proto) = 3
  <2>1. CASE UninstallNext[Top.proto] # "end"
    <3> DEFINE f == [Top EXCEPT !.at = "uninstall", !.proto = UninstallNext[@]]
    <3>1. UninstallNext[Top.proto] \in Protos /\ Order(UninstallNext[Top.proto]) = Order(Top.proto) + 1
      BY <2>1, <1>2, OrderFacts
    <3>2. /\ f \in FrameType /\ f.op = Top.op /\ f.host = Top.host /\ f.at = "uninstall"
          /\ f.proto = UninstallNext[Top.proto]
      BY <1>2, <3>1 DEF FrameType, Ats
    <3>3. Goto(f)
      BY <2>1 DEF AfterUninstall
    <3> QED  BY <3>1, <3>2, <3>3, <1>2
  <2>2. CASE UninstallNext[Top.proto] = "end"
    <3> DEFINE a == IF Top.op = "reset" THEN "clear" ELSE "free"
               f == [Top EXCEPT !.at = a]
    <3>1. a \in Ats /\ Order(Top.proto) = 3
      BY <2>2, <1>2, OrderFacts DEF Ats
    <3> HIDE DEF a
    <3>2. f \in FrameType /\ f.op = Top.op /\ f.host = Top.host /\ f.at = a
      BY <1>2, <3>1 DEF FrameType
    <3>3. Goto(f)
      BY <2>2 DEF AfterUninstall, a
    <3> QED  BY <3>1, <3>2, <3>3, <1>2 DEF a
  <2> QED  BY <2>1, <2>2
<1>5. f.at \in {"uninstall", "clear", "free"} /\ ~Pending(f) /\ ~Removing(f) /\ ~Adding(f)
  BY <1>4 DEF Pending, Removing, Adding
<1>6. ASSUME NEW j \in 1 .. Len(stack) - 1, stack[j].host = f.host, Removing(stack[j])
      PROVE  Harmless(f, stack[j].proto)
  <2>1. Order(Top.proto) < Order(stack[j].proto) /\ stack[j].proto \in Protos
    BY <1>4, <1>6, BelowTop
  <2>2. Order(Top.proto) \in 1 .. 3 /\ Order(stack[j].proto) \in 1 .. 3
    BY <2>1, <1>2, OrderFacts
  <2>3. f.at = "uninstall" /\ Order(f.proto) = Order(Top.proto) + 1
    BY <2>1, <2>2, <1>4
  <2> QED  BY <2>1, <2>2, <2>3 DEF Harmless
<1>7. Fits(f)
  BY <1>2, <1>3, <1>4, <1>5, <1>6 DEF Fits
<1>8. Accounted(Pending(f))
  BY <1>5 DEF Accounted
<1>9. ASSUME f.op = "destroy", NEW p \in Protos, f.at = "free" \/ Order(p) < Order(f.proto)
      PROVE  ~NewFlag(H, p)
  <2>1. \A q \in Protos : Order(q) < Order(Top.proto) => ~Flag(H, q)
    BY <1>1, <1>2, <1>3, <1>4, <1>9 DEF DestroyInv
  <2>2. CASE p = Top.proto
    BY <2>2
  <2>3. CASE p # Top.proto
    <3>1. Order(p) \in 1 .. 3 /\ Order(Top.proto) \in 1 .. 3 /\ Order(p) # Order(Top.proto)
      BY <2>3, <1>2, OrderFacts
    <3>2. Order(p) < Order(Top.proto)
      BY <3>1, <1>4, <1>5, <1>9
    <3>3. Same(H, p)
      BY <2>3, <1>2
    <3> QED  BY <2>1, <3>2, <3>3 DEF Same
  <2> QED  BY <2>2, <2>3
<1>10. card' \in [Hosts -> Cards \cup {"none"}] /\ db' \in [Hosts -> SUBSET Protos]
  BY <1>1 DEF SlotsTypeOK
<1>11. \A p \in Protos : f.op = "destroy" /\ (f.at = "free" \/ Order(p) < Order(f.proto)) => ~NewFlag(H, p)
  BY <1>9
<1> QED  BY <1>4, <1>5, <1>7, <1>8, <1>10, <1>11, CallGoesOn

\* UninstallAllProtocols: what is flagged and installed goes, first from the database
\* and then from the flags.
LEMMA UninstallStep ==
  ASSUME SlotsInv, UninstallSkip \/ UninstallCall \/ UninstallFlag
  PROVE  SlotsInv'
<1> DEFINE p == Top.proto
<1>1. stack # <<>> /\ SlotsTypeOK /\ ShapeInv /\ TrackInv
  BY DEF SlotsInv, UninstallSkip, UninstallCall, UninstallFlag, At
<1>2. /\ Len(stack) \in 1 .. Len(stack) /\ stack[Len(stack)] = Top
      /\ Top \in FrameType /\ H \in Hosts /\ H \in opened /\ H = Top.host /\ p \in Protos
      /\ I \in Instances /\ I = inst[H]
  BY <1>1, TopFacts
<1>3. /\ card \in [Hosts -> Cards \cup {"none"}] /\ db \in [Hosts -> SUBSET Protos]
      /\ inst \in [Hosts -> Instances]
  BY <1>1 DEF SlotsTypeOK, Instances
<1>4. CASE UninstallSkip
  <2>1. /\ Top.at = "uninstall" /\ p \notin I.flags /\ AfterUninstall
        /\ UNCHANGED <<card, opened, pool, inst, db>>
    BY <1>4 DEF UninstallSkip, At
  <2>2. ~Flag(H, p) /\ ~Pending(Top)
    BY <2>1, <1>2 DEF Flag, Pending, Removing, Adding
  <2>3. \A h \in Hosts, q \in Protos : Same(h, q)
    BY <2>1, QuietStep
  <2>4. ASSUME NEW j \in 1 .. Len(stack) - 1, stack[j].host = H, Removing(stack[j])
        PROVE  Order(p) < Order(stack[j].proto)
    <3>1. Harmless(Top, stack[j].proto) /\ Flag(H, stack[j].proto) /\ stack[j].proto \in Protos
      BY <2>4, <1>1, BelowTop
    <3>2. stack[j].proto # p
      BY <3>1, <2>2
    <3>3. Order(p) <= Order(stack[j].proto)
      BY <3>1, <2>1 DEF Harmless
    <3>4. Order(p) # Order(stack[j].proto) /\ Order(p) \in 1 .. 3 /\ Order(stack[j].proto) \in 1 .. 3
      BY <3>1, <3>2, <1>2, OrderFacts
    <3> QED  BY <3>3, <3>4
  <2>5. ~NewFlag(H, p) /\ Same(H, p)
    BY <2>2, <2>3, <1>2 DEF Same
  <2> QED  BY <2>1, <2>2, <2>3, <2>4, <2>5, <1>1, <1>2, <1>3, UninstallAdvances
<1>5. CASE UninstallCall
  <2>1. Top.at = "uninstall" /\ Flag(H, p) /\ UNCHANGED <<card, opened, pool, inst>> /\ ~Pending(Top)
    BY <1>5, <1>2 DEF UninstallCall, At, Flag, Pending, Removing, Adding
  <2>2. Top.op \in {"reset", "destroy"}
    BY <2>1, <1>1, <1>2 DEF ShapeInv, FrameType
  <2>3. CASE UninstallProtocol /\ Goto([Top EXCEPT !.at = "uninstalled"])
    <3> DEFINE f == [Top EXCEPT !.at = "uninstalled"]
    <3>1. f \in FrameType /\ f.op = Top.op /\ f.host = H /\ f.at = "uninstalled" /\ f.proto = p
      BY <1>2 DEF FrameType, Ats
    <3>2. Goto(f) /\ Db(H, p) /\ db' = [db EXCEPT ![H] = @ \ {p}]
      BY <2>3 DEF UninstallProtocol, Db
    <3> HIDE DEF f
    <3>3. /\ db' \in [Hosts -> SUBSET Protos] /\ ~NewDb(H, p) /\ NewFlag(H, p)
          /\ \A h \in Hosts, q \in Protos : (h # H \/ q # p) => Same(h, q)
      BY <3>2, <2>1, <1>2, <1>3 DEF Same, Flag, Db, NewFlag, NewDb
    <3>4. Undisturbed(p)
      BY <2>1, <3>2, <1>1, TopUndisturbed
    <3>5. Pending(f) /\ Removing(f) /\ ~Adding(f)
      BY <3>1 DEF Pending, Removing, Adding
    <3>6. Accounted(Pending(f))
      BY <3>3, <3>4, <3>5 DEF Accounted
    <3>7. ASSUME NEW j \in 1 .. Len(stack) - 1, stack[j].host = H, Removing(stack[j])
          PROVE  Harmless(f, stack[j].proto)
      <4>1. Harmless(Top, stack[j].proto) /\ ~Db(H, stack[j].proto) /\ stack[j].proto \in Protos
        BY <3>7, <1>1, BelowTop
      <4>2. stack[j].proto # p
        BY <4>1, <3>2
      <4>3. Order(p) <= Order(stack[j].proto)
        BY <4>1, <2>1 DEF Harmless
      <4>4. Order(p) # Order(stack[j].proto) /\ Order(p) \in 1 .. 3 /\ Order(stack[j].proto) \in 1 .. 3
        BY <4>1, <4>2, <1>2, OrderFacts
      <4> QED  BY <4>3, <4>4, <3>1 DEF Harmless
    <3>8. Fits(f)
      BY <3>1, <3>7, <2>2, <1>2 DEF Fits
    <3>9. f.op = "destroy" => \A q \in Protos : f.at = "free" \/ Order(q) < Order(f.proto) => ~NewFlag(H, q)
      <4>1. ASSUME f.op = "destroy", NEW q \in Protos, Order(q) < Order(p)
            PROVE  ~NewFlag(H, q)
        <5>1. Len(stack) = 1 /\ stack[1] = Top
          BY <4>1, <3>1, <1>1, <1>2 DEF ShapeInv
        <5>2. ~Flag(H, q)
          BY <4>1, <5>1, <3>1, <1>1, <1>2 DEF SlotsInv, DestroyInv
        <5> QED  BY <5>2, <2>1 DEF Flag, NewFlag
      <4> QED  BY <4>1, <3>1
    <3> QED  BY <3>1, <3>2, <3>3, <3>5, <3>6, <3>8, <3>9, <2>1, <1>1, <1>3, CallGoesOn
  <2>4. CASE Top.op = "reset" /\ Goto(Fail(Top)) /\ UNCHANGED db
    <3> DEFINE f == Fail(Top)
    <3>1. f \in FrameType /\ f.op = Top.op /\ f.host = H /\ f.at = "exit"
      BY <1>2 DEF Fail, FrameType, Ats, Protos
    <3> HIDE DEF f
    <3>2. Goto(f)  BY <2>4 DEF f
    <3> QED  BY <3>1, <3>2, <2>1, <2>4, <1>1, <1>3, ResetGoesOn
  <2>5. CASE Return /\ UNCHANGED db
    BY <2>1, <2>5, <1>1, QuietReturn
  <2> QED  BY <2>3, <2>4, <2>5, <1>5 DEF UninstallCall
<1>6. CASE UninstallFlag
  <2> DEFINE i == [I EXCEPT !.flags = @ \ {p}]
  <2>1. Top.at = "uninstalled" /\ SetI(i) /\ AfterUninstall /\ UNCHANGED <<card, opened, pool, db>>
    BY <1>6 DEF UninstallFlag, At
  <2>2. i \in Instances /\ i.flags = I.flags \ {p}
    BY <1>2 DEF Instances
  <2> HIDE DEF i
  <2>3. /\ inst' \in [Hosts -> Instances]
        /\ inst'[H] = i /\ \A h \in Hosts \ {H} : inst'[h] = inst[h]
    BY <2>1, <2>2, <1>1, SetIFacts
  <2>4. Pending(Top) /\ Removing(Top)
    BY <2>1 DEF Pending, Removing
  <2>5. /\ ~NewFlag(H, p) /\ ~NewDb(H, p)
        /\ \A h \in Hosts, q \in Protos : (h # H \/ q # p) => Same(h, q)
    <3>1. ~Db(H, p)
      BY <2>4, <1>1, TopPending
    <3> QED  BY <3>1, <2>1, <2>2, <2>3, <1>2 DEF Same, Flag, Db, NewFlag, NewDb
  <2>6. Undisturbed(p)
    BY <2>4, <1>1, TopUndisturbed
  <2>7. ASSUME NEW j \in 1 .. Len(stack) - 1, stack[j].host = H, Removing(stack[j])
        PROVE  Order(p) < Order(stack[j].proto)
    BY <2>1, <2>7, <1>1, BelowTop DEF Harmless
  <2> QED  BY <2>1, <2>3, <2>5, <2>6, <2>7, <1>1, <1>2, UninstallAdvances
<1> QED  BY <1>4, <1>5, <1>6

\* From the cleared media to the identified card: nothing is installed or removed.
LEMMA IdentifyStep ==
  ASSUME SlotsInv, ClearMedia \/ ReadPresence \/ InitializeBegin \/ InitializeEnd
  PROVE  SlotsInv'
<1>1. stack # <<>> /\ SlotsTypeOK /\ ShapeInv
  BY DEF SlotsInv, ClearMedia, ReadPresence, InitializeBegin, InitializeEnd, At
<1>2. /\ Len(stack) \in 1 .. Len(stack) /\ stack[Len(stack)] = Top
      /\ Top \in FrameType /\ H \in Hosts /\ H = Top.host
      /\ I \in Instances /\ I = inst[H]
  BY <1>1, TopFacts
<1>3. /\ Top.at \in {"clear", "present", "init", "identify"} /\ UNCHANGED <<card, opened, pool, db>>
  BY DEF ClearMedia, ReadPresence, InitializeBegin, InitializeEnd, At
<1>4. Top.op = "reset" /\ ~Pending(Top) /\ Top.at \in Mid
  BY <1>1, <1>2, <1>3 DEF ShapeInv, FrameType, Pending, Removing, Adding, Mid
\* Each of the steps ends in one of these ways.
<1>5. ASSUME NEW i \in Instances, i.flags = I.flags, SetI(i) \/ UNCHANGED inst,
             NEW f \in FrameType, f.op = Top.op, f.host = Top.host,
             f.at \in {"present", "init", "identify", "install", "exit"}, Goto(f)
      PROVE  SlotsInv'
  <2>1. inst' \in [Hosts -> Instances] /\ \A h \in Hosts : inst'[h].flags = inst[h].flags
    <3>1. CASE SetI(i)
      <4>1. /\ inst' \in [Hosts -> Instances]
            /\ inst'[H] = i /\ \A h \in Hosts \ {H} : inst'[h] = inst[h]
        BY <3>1, <1>1, SetIFacts
      <4> QED  BY <4>1, <1>2, <1>5
    <3>2. CASE UNCHANGED inst
      BY <3>2, <1>1 DEF SlotsTypeOK, Instances
    <3> QED  BY <3>1, <3>2, <1>5
  <2>2. f.at = "exit" \/ f.at \in Mid \ {"installed"}
    BY <1>5 DEF Mid
  <2> QED  BY <2>1, <2>2, <1>1, <1>2, <1>3, <1>4, <1>5, ResetGoesOn
<1>6. Fail(Top) \in FrameType /\ Fail(Top).op = Top.op /\ Fail(Top).host = Top.host /\ Fail(Top).at = "exit"
  BY <1>2 DEF Fail, FrameType, Ats, Protos
<1>7. CASE ClearMedia
  <2> DEFINE i == [I EXCEPT !.init = FALSE, !.media = FALSE]
             f == [Top EXCEPT !.at = "present"]
  <2>1. i \in Instances /\ i.flags = I.flags
    BY <1>2 DEF Instances
  <2>2. f \in FrameType /\ f.op = Top.op /\ f.host = Top.host /\ f.at = "present"
    BY <1>2 DEF FrameType, Ats
  <2>3. SetI(i) /\ Goto(f)
    BY <1>7 DEF ClearMedia
  <2> HIDE DEF i, f
  <2> QED  BY <2>1, <2>2, <2>3, <1>5
<1>8. CASE ReadPresence
  <2> DEFINE present == card[H] # "none"
             none == ~present
             i == [I EXCEPT !.media = present]
             a == IF present THEN "init" ELSE "install"
             f == [Top EXCEPT !.at = a, !.proto = "BlockIo", !.absent = none]
  <2>1. SetI(i) /\ Goto(f)
    BY <1>8 DEF ReadPresence
  <2>2. a \in {"init", "install"} /\ present \in BOOLEAN /\ none \in BOOLEAN
    OBVIOUS
  <2> HIDE DEF present, none, a
  <2>3. i \in Instances /\ i.flags = I.flags
    BY <2>2, <1>2 DEF Instances
  <2>4. f \in FrameType /\ f.op = Top.op /\ f.host = Top.host /\ f.at = a
    <3>1. a \in Ats /\ "BlockIo" \in Protos
      BY <2>2 DEF Ats, Protos
    <3>2. Top \in FrameType
      BY <1>2
    <3> QED  BY <3>1, <3>2, <2>2 DEF FrameType
  <2> HIDE DEF i, f
  <2> QED  BY <2>1, <2>2, <2>3, <2>4, <1>5
<1>9. CASE InitializeBegin
  <2> DEFINE i == [I EXCEPT !.fn = "unknown"]
             f == [Top EXCEPT !.at = "identify"]
  <2>1. i \in Instances /\ i.flags = I.flags
    BY <1>2 DEF Instances
  <2>2. f \in FrameType /\ f.op = Top.op /\ f.host = Top.host /\ f.at = "identify"
    BY <1>2 DEF FrameType, Ats
  <2>3. SetI(i) /\ Goto(f)
    BY <1>9 DEF InitializeBegin
  <2> HIDE DEF i, f
  <2> QED  BY <2>1, <2>2, <2>3, <1>5
<1>10. CASE InitializeEnd
  <2> DEFINE i == [I EXCEPT !.fn = card[H], !.init = TRUE]
             f == [Top EXCEPT !.at = "install"]
  <2>1. f \in FrameType /\ f.op = Top.op /\ f.host = Top.host /\ f.at = "install"
    BY <1>2 DEF FrameType, Ats
  <2>2. CASE card[H] # "none" /\ SetI(i) /\ (Goto(f) \/ Goto(Fail(Top)))
    <3>1. card[H] \in Cards
      BY <2>2, <1>1, <1>2 DEF SlotsTypeOK
    <3>2. i \in Instances /\ i.flags = I.flags
      BY <3>1, <1>2 DEF Instances
    <3> HIDE DEF i, f
    <3> QED  BY <2>1, <2>2, <3>2, <1>5, <1>6
  <2>3. CASE Goto(Fail(Top)) /\ UNCHANGED inst
    BY <2>3, <1>2, <1>5, <1>6
  <2> QED  BY <2>2, <2>3, <1>10 DEF InitializeEnd
<1> QED  BY <1>7, <1>8, <1>9, <1>10

\* Protocols are installed first in the database and then in the flags; the rest of
\* SoftReset's success path follows.
LEMMA InstallStep ==
  ASSUME SlotsInv, InstallCall \/ InstallFlag \/ CheckRpmb
  PROVE  SlotsInv'
<1> DEFINE p == Top.proto
<1>1. stack # <<>> /\ SlotsTypeOK /\ ShapeInv /\ TrackInv
  BY DEF SlotsInv, InstallCall, InstallFlag, CheckRpmb, At
<1>2. /\ Len(stack) \in Nat \ {0} /\ Len(stack) \in 1 .. Len(stack) /\ stack[Len(stack)] = Top
      /\ Top \in FrameType /\ H \in Hosts /\ H \in opened /\ H = Top.host /\ p \in Protos
      /\ I \in Instances /\ I = inst[H]
  BY <1>1, TopFacts
<1>3. /\ card \in [Hosts -> Cards \cup {"none"}] /\ db \in [Hosts -> SUBSET Protos]
      /\ inst \in [Hosts -> Instances]
  BY <1>1 DEF SlotsTypeOK, Instances
<1>4. Top.at \in {"install", "installed", "rpmb"}
  BY DEF InstallCall, InstallFlag, CheckRpmb, At
<1>5. Top.op = "reset" /\ Top.at \in Mid
  BY <1>1, <1>2, <1>4 DEF ShapeInv, FrameType, Mid
<1>6. \A j \in 1 .. Len(stack) - 1 : stack[j].host = H => ~Removing(stack[j])
  BY <1>1, <1>5, MidAlone
<1>7. CASE InstallCall
  <2>1. Top.at = "install" /\ UNCHANGED <<card, opened, pool, inst>> /\ ~Pending(Top)
    BY <1>7 DEF InstallCall, At, Pending, Removing, Adding
  <2>2. CASE InstallProtocol /\ Goto([Top EXCEPT !.at = "installed"])
    <3> DEFINE f == [Top EXCEPT !.at = "installed"]
    <3>1. f \in FrameType /\ f.op = Top.op /\ f.host = H /\ f.at = "installed" /\ f.proto = p
      BY <1>2 DEF FrameType, Ats
    <3>2. Goto(f) /\ ~Db(H, p) /\ db' = [db EXCEPT ![H] = @ \cup {p}]
      BY <2>2 DEF InstallProtocol, Db
    <3> HIDE DEF f
    <3>3. Undisturbed(p)
      <4> SUFFICES ASSUME NEW k \in 1 .. Len(stack) - 1, Pending(stack[k]), stack[k].host = H,
                          stack[k].proto = p
                   PROVE  FALSE
        BY DEF Undisturbed
      <4>1. Adding(stack[k])
        BY <1>6 DEF Pending
      <4> QED  BY <4>1, <3>2, <1>1, BelowTop
    \* Nobody is in the middle of a change of it, so that its flag is clear as well.
    <3>4. ~Flag(H, p)
      <4>1. ASSUME NEW k \in 1 .. Len(stack)
            PROVE  ~(Pending(stack[k]) /\ stack[k].host = H /\ stack[k].proto = p)
        <5>1. CASE k = Len(stack)
          BY <5>1, <2>1, <1>2
        <5>2. CASE k \in 1 .. Len(stack) - 1
          BY <5>2, <3>3 DEF Undisturbed
        <5> QED  BY <5>1, <5>2, <1>2
      <4> QED  BY <4>1, <3>2, <1>1, <1>2 DEF TrackInv
    <3>5. /\ db' \in [Hosts -> SUBSET Protos] /\ NewDb(H, p) /\ ~NewFlag(H, p)
          /\ \A h \in Hosts, q \in Protos : (h # H \/ q # p) => Same(h, q)
      BY <3>2, <3>4, <2>1, <1>2, <1>3 DEF Same, Flag, Db, NewFlag, NewDb
    <3>6. Pending(f) /\ ~Removing(f) /\ Adding(f)
      BY <3>1 DEF Pending, Removing, Adding
    <3>7. Accounted(Pending(f))
      BY <3>3, <3>5, <3>6 DEF Accounted
    <3>8. Fits(f)
      BY <3>1, <1>2, <1>5, <1>6 DEF Fits
    <3> QED  BY <3>1, <3>2, <3>5, <3>6, <3>7, <3>8, <2>1, <1>1, <1>3, <1>5, CallGoesOn
  <2>3. CASE Goto(Fail(Top)) /\ UNCHANGED db
    <3> DEFINE f == Fail(Top)
    <3>1. f \in FrameType /\ f.op = Top.op /\ f.host = H /\ f.at = "exit"
      BY <1>2 DEF Fail, FrameType, Ats, Protos
    <3> HIDE DEF f
    <3>2. Goto(f)  BY <2>3 DEF f
    <3> QED  BY <3>1, <3>2, <2>1, <2>3, <1>1, <1>3, <1>5, ResetGoesOn
  <2> QED  BY <2>2, <2>3, <1>7 DEF InstallCall
<1>8. CASE InstallFlag
  <2> DEFINE i == [I EXCEPT !.flags = @ \cup {p}]
  <2>1. Top.at = "installed" /\ SetI(i) /\ UNCHANGED <<card, opened, pool, db>>
    BY <1>8 DEF InstallFlag, At
  <2>2. i \in Instances /\ i.flags = I.flags \cup {p}
    BY <1>2 DEF Instances
  <2> HIDE DEF i
  <2>3. /\ inst' \in [Hosts -> Instances]
        /\ inst'[H] = i /\ \A h \in Hosts \ {H} : inst'[h] = inst[h]
    BY <2>1, <2>2, <1>1, SetIFacts
  <2>4. Pending(Top) /\ Adding(Top)
    BY <2>1 DEF Pending, Adding
  <2>5. /\ NewFlag(H, p) /\ NewDb(H, p)
        /\ \A h \in Hosts, q \in Protos : (h # H \/ q # p) => Same(h, q)
    <3>1. Db(H, p)
      BY <2>4, <1>1, TopPending
    <3> QED  BY <3>1, <2>1, <2>2, <2>3, <1>2 DEF Same, Flag, Db, NewFlag, NewDb
  <2>6. Undisturbed(p)
    BY <2>4, <1>1, TopUndisturbed
  <2>7. Accounted(FALSE)
    BY <2>5, <2>6 DEF Accounted
  <2>8. ASSUME NEW f \in FrameType, Goto(f), f.op = Top.op, f.host = Top.host, f.at \in {"install", "rpmb"}
        PROVE  SlotsInv'
    <3>1. ~Pending(f) /\ ~Removing(f) /\ ~Adding(f)
      BY <2>8 DEF Pending, Removing, Adding
    <3>2. Accounted(Pending(f))
      BY <2>5, <2>6 DEF Accounted
    <3>3. Fits(f)
      BY <2>8, <1>2, <1>5, <1>6 DEF Fits
    <3> QED  BY <3>1, <3>2, <3>3, <2>1, <2>3, <2>8, <1>1, <1>3, <1>5, CallGoesOn
  <2>9. CASE Return
    BY <2>1, <2>3, <2>7, <2>9, <1>1, <1>3, CallReturns
  <2>10. CASE Goto([Top EXCEPT !.at = "install", !.proto = "DevicePath"])
    <3> DEFINE f == [Top EXCEPT !.at = "install", !.proto = "DevicePath"]
    <3>1. f \in FrameType /\ f.op = Top.op /\ f.host = Top.host /\ f.at = "install"
      BY <1>2 DEF FrameType, Ats, Protos
    <3> HIDE DEF f
    <3>2. Goto(f)  BY <2>10 DEF f
    <3> QED  BY <3>1, <3>2, <2>8
  <2>11. CASE Goto([Top EXCEPT !.at = "rpmb"])
    <3> DEFINE f == [Top EXCEPT !.at = "rpmb"]
    <3>1. f \in FrameType /\ f.op = Top.op /\ f.host = Top.host /\ f.at = "rpmb"
      BY <1>2 DEF FrameType, Ats
    <3> HIDE DEF f
    <3>2. Goto(f)  BY <2>11 DEF f
    <3> QED  BY <3>1, <3>2, <2>8
  <2> QED  BY <2>9, <2>10, <2>11, <1>8 DEF InstallFlag
<1>9. CASE CheckRpmb
  <2>1. Top.at = "rpmb" /\ UNCHANGED <<card, opened, pool, inst, db>> /\ ~Pending(Top)
    BY <1>9 DEF CheckRpmb, At, Pending, Removing, Adding
  <2>2. CASE Return
    BY <2>1, <2>2, <1>1, QuietReturn
  <2>3. CASE Goto([Top EXCEPT !.at = "install", !.proto = "RpmbIo"])
    <3> DEFINE f == [Top EXCEPT !.at = "install", !.proto = "RpmbIo"]
    <3>1. f \in FrameType /\ f.op = Top.op /\ f.host = H /\ f.at = "install"
      BY <1>2 DEF FrameType, Ats, Protos
    <3> HIDE DEF f
    <3>2. Goto(f) /\ f.at \in Mid \ {"installed"}
      BY <2>3, <3>1 DEF f, Mid
    <3> QED  BY <3>1, <3>2, <2>1, <1>1, <1>3, <1>5, ResetGoesOn
  <2> QED  BY <2>2, <2>3, <1>9 DEF CheckRpmb
<1> QED  BY <1>7, <1>8, <1>9

\* SoftReset's exit path.
LEMMA ExitStep ==
  ASSUME SlotsInv, ExitCall \/ ExitFlag
  PROVE  SlotsInv'
<1> DEFINE p == Top.proto
<1>1. stack # <<>> /\ SlotsTypeOK /\ ShapeInv
  BY DEF SlotsInv, ExitCall, ExitFlag, At
<1>2. /\ Len(stack) \in 1 .. Len(stack) /\ stack[Len(stack)] = Top
      /\ Top \in FrameType /\ H \in Hosts /\ H \in opened /\ H = Top.host /\ p \in Protos
      /\ I \in Instances /\ I = inst[H]
  BY <1>1, TopFacts
<1>3. /\ card \in [Hosts -> Cards \cup {"none"}] /\ db \in [Hosts -> SUBSET Protos]
      /\ inst \in [Hosts -> Instances]
  BY <1>1 DEF SlotsTypeOK, Instances
<1>4. Top.at \in {"exit", "exited"}
  BY DEF ExitCall, ExitFlag, At
<1>5. Top.op = "reset"
  BY <1>1, <1>2, <1>4 DEF ShapeInv, FrameType
\* The path goes on with the next protocol, or ends.
<1>6. ASSUME NEW g \in FrameType, g.op = Top.op, g.host = Top.host, ExitNext(g)
      PROVE  Return \/ \E f \in FrameType : Goto(f) /\ f.op = Top.op /\ f.host = H /\ f.at = "exit"
  <2> DEFINE f == [g EXCEPT !.at = "exit", !.proto = "DevicePath"]
  <2>1. f \in FrameType /\ f.op = g.op /\ f.host = g.host /\ f.at = "exit"
    BY DEF FrameType, Ats, Protos
  <2>2. Return \/ Goto(f)
    BY <1>6 DEF ExitNext
  <2> HIDE DEF f
  <2> QED  BY <2>1, <2>2, <1>2, <1>6
<1>7. CASE ExitCall
  <2>1. Top.at = "exit" /\ UNCHANGED <<card, opened, pool, inst>> /\ ~Pending(Top)
    BY <1>7 DEF ExitCall, At, Pending, Removing, Adding
  <2>2. ASSUME NEW g \in FrameType, g.op = Top.op, g.host = Top.host, ExitNext(g), UNCHANGED db
        PROVE  SlotsInv'
    <3>1. CASE Return
      BY <3>1, <2>1, <2>2, <1>1, QuietReturn
    <3>2. ASSUME NEW f \in FrameType, Goto(f), f.op = Top.op, f.host = H, f.at = "exit"
          PROVE  SlotsInv'
      BY <3>2, <2>1, <2>2, <1>1, <1>3, <1>5, ResetGoesOn
    <3> QED  BY <3>1, <3>2, <2>2, <1>6
  <2>3. CASE p \notin I.flags /\ ExitNext(Top) /\ UNCHANGED db
    BY <2>2, <2>3, <1>2
  <2>4. CASE ExitNext([Top EXCEPT !.err = TRUE]) /\ UNCHANGED db
    <3> DEFINE g == [Top EXCEPT !.err = TRUE]
    <3>1. g \in FrameType /\ g.op = Top.op /\ g.host = Top.host
      BY <1>2 DEF FrameType
    <3> HIDE DEF g
    <3>2. ExitNext(g)  BY <2>4 DEF g
    <3> QED  BY <3>1, <3>2, <2>2, <2>4
  <2>5. CASE p \in I.flags /\ UninstallProtocol /\ Goto([Top EXCEPT !.at = "exited", !.err = FALSE])
    <3> DEFINE f == [Top EXCEPT !.at = "exited", !.err = FALSE]
    <3>1. f \in FrameType /\ f.op = Top.op /\ f.host = H /\ f.at = "exited" /\ f.proto = p
      BY <1>2 DEF FrameType, Ats
    <3>2. Goto(f) /\ Flag(H, p) /\ Db(H, p) /\ db' = [db EXCEPT ![H] = @ \ {p}]
      BY <2>5, <1>2 DEF UninstallProtocol, Db, Flag
    <3> HIDE DEF f
    <3>3. /\ db' \in [Hosts -> SUBSET Protos] /\ ~NewDb(H, p) /\ NewFlag(H, p)
          /\ \A h \in Hosts, q \in Protos : (h # H \/ q # p) => Same(h, q)
      BY <3>2, <2>1, <1>2, <1>3 DEF Same, Flag, Db, NewFlag, NewDb
    <3>4. Undisturbed(p)
      BY <3>2, <1>1, TopUndisturbed
    <3>5. Pending(f) /\ Removing(f) /\ ~Adding(f)
      BY <3>1 DEF Pending, Removing, Adding
    <3>6. Accounted(Pending(f))
      BY <3>3, <3>4, <3>5 DEF Accounted
    <3>7. Fits(f)
      BY <3>1, <1>2, <1>5 DEF Fits, Harmless
    <3> QED  BY <3>1, <3>2, <3>3, <3>5, <3>6, <3>7, <2>1, <1>1, <1>3, <1>5, CallGoesOn
  <2> QED  BY <2>3, <2>4, <2>5, <1>7 DEF ExitCall
<1>8. CASE ExitFlag
  <2> DEFINE i == [I EXCEPT !.flags = @ \ {p}]
  <2>1. Top.at = "exited" /\ SetI(i) /\ ExitNext(Top) /\ UNCHANGED <<card, opened, pool, db>>
    BY <1>8 DEF ExitFlag, At
  <2>2. i \in Instances /\ i.flags = I.flags \ {p}
    BY <1>2 DEF Instances
  <2> HIDE DEF i
  <2>3. /\ inst' \in [Hosts -> Instances]
        /\ inst'[H] = i /\ \A h \in Hosts \ {H} : inst'[h] = inst[h]
    BY <2>1, <2>2, <1>1, SetIFacts
  <2>4. Pending(Top) /\ Removing(Top)
    BY <2>1 DEF Pending, Removing
  <2>5. /\ ~NewFlag(H, p) /\ ~NewDb(H, p)
        /\ \A h \in Hosts, q \in Protos : (h # H \/ q # p) => Same(h, q)
    <3>1. ~Db(H, p)
      BY <2>4, <1>1, TopPending
    <3> QED  BY <3>1, <2>1, <2>2, <2>3, <1>2 DEF Same, Flag, Db, NewFlag, NewDb
  <2>6. Undisturbed(p)
    BY <2>4, <1>1, TopUndisturbed
  <2>7. Accounted(FALSE)
    BY <2>5, <2>6 DEF Accounted
  <2>8. CASE Return
    BY <2>1, <2>3, <2>7, <2>8, <1>1, <1>3, CallReturns
  <2>9. ASSUME NEW f \in FrameType, Goto(f), f.op = Top.op, f.host = H, f.at = "exit"
        PROVE  SlotsInv'
    <3>1. ~Pending(f) /\ ~Removing(f) /\ ~Adding(f)
      BY <2>9 DEF Pending, Removing, Adding
    <3>2. Accounted(Pending(f))
      BY <2>5, <2>6 DEF Accounted
    <3>3. Fits(f)
      BY <2>9, <1>2, <1>5 DEF Fits, Harmless
    <3> QED  BY <3>1, <3>2, <3>3, <2>1, <2>3, <2>9, <1>1, <1>3, <1>5, CallGoesOn
  <2> QED  BY <2>1, <2>8, <2>9, <1>2, <1>6
<1> QED  BY <1>7, <1>8

\* The check has looked at a controller and resets it.
LEMMA CheckCalls ==
  ASSUME SlotsInv, stack # <<>>, UNCHANGED <<card, opened, pool, inst, db>>,
         NEW f \in FrameType, NEW g \in FrameType,
         stack' = Append([stack EXCEPT ![Len(stack)] = f], g),
         Top.op = "check", f.op = "check", f.at = "peek", f.host = H,
         g.op = "reset", g.at = "uninstall", g.proto = "BlockIo", g.host = H
  PROVE  SlotsInv'
<1> DEFINE N == Len(stack)
           M == Len(stack')
           walk == [stack EXCEPT ![N] = f]
<1>1. SlotsTypeOK /\ ShapeInv /\ PendingInv /\ NestingInv /\ TrackInv /\ PoolInv /\ DestroyInv
  BY DEF SlotsInv
<1>2. N \in 1 .. N /\ stack[N] = Top /\ H \in Hosts /\ H \in opened /\ H = Top.host
  BY <1>1, TopFacts
<1>3. /\ walk \in Seq(FrameType) /\ Len(walk) = N /\ N \in Nat \ {0} /\ walk[N] = f
      /\ \A k \in 1 .. N - 1 : walk[k] = stack[k]
  BY <1>1, StackSetTop DEF SlotsTypeOK
<1> HIDE DEF walk
<1>4. stack' = Append(walk, g)
  BY DEF walk
<1>5. /\ stack' \in Seq(FrameType) /\ stack' # <<>>
      /\ M = N + 1 /\ stack'[M] = g /\ stack'[N] = f
      /\ \A k \in 1 .. N - 1 : stack'[k] = stack[k]
  <2>1. /\ Append(walk, g) \in Seq(FrameType) /\ Append(walk, g) # <<>>
        /\ Len(Append(walk, g)) = Len(walk) + 1 /\ Append(walk, g)[Len(walk) + 1] = g
        /\ \A k \in 1 .. Len(walk) : Append(walk, g)[k] = walk[k]
    BY <1>3, StackPush
  <2>2. N \in 1 .. N /\ \A k \in 1 .. N - 1 : k \in 1 .. N
    BY <1>3
  <2>3. /\ stack' \in Seq(FrameType) /\ stack' # <<>> /\ M = Len(walk) + 1 /\ stack'[Len(walk) + 1] = g
        /\ \A k \in 1 .. Len(walk) : stack'[k] = walk[k]
    BY <2>1, <1>4, Zenon
  <2>4. M = N + 1 /\ stack'[M] = g /\ \A k \in 1 .. N : stack'[k] = walk[k]
    BY <2>3, <1>3, Zenon
  <2> QED  BY <2>2, <2>3, <2>4, <1>3, Zenon
<1>6. /\ \A k \in 1 .. M : k = M \/ k = N \/ k \in 1 .. N - 1
      /\ \A k \in 1 .. N - 1 : k \in 1 .. M /\ k \in 1 .. N /\ k < N
      /\ \A j, k \in 1 .. M : j < k => j \in 1 .. N /\ (k = N => j \in 1 .. N - 1)
                                       /\ (k \in 1 .. N - 1 => j \in 1 .. N - 1)
      /\ \A k \in 1 .. N : k = N \/ k \in 1 .. N - 1
  BY <1>5, <1>3
<1>7. /\ ~Pending(f) /\ ~Pending(g) /\ ~Removing(f) /\ ~Pending(Top)
      /\ \A p \in Protos : Harmless(f, p) /\ Harmless(g, p)
  <2>1. Top.at \in {"peek", "decide"}
    BY <1>1, <1>2 DEF ShapeInv
  <2> QED  BY <2>1, OrderFacts DEF Pending, Removing, Adding, Harmless
<1>8. \A k \in 1 .. N - 1 : stack[k].proto \in Protos
  <2> TAKE k \in 1 .. N - 1
  <2>1. stack \in Seq(FrameType) /\ k \in 1 .. Len(stack)
    BY <1>1, <1>6 DEF SlotsTypeOK
  <2>2. stack[k] \in FrameType
    BY <2>1, StackElement
  <2> QED  BY <2>2 DEF FrameType
<1>9. SlotsTypeOK'
  BY <1>1, <1>5 DEF SlotsTypeOK
<1>10. ShapeInv'
  <2>1. ASSUME NEW k \in 1 .. M
        PROVE  /\ stack'[k].host \in opened
               /\ stack'[k].op = "check" <=> stack'[k].at \in {"peek", "decide"}
               /\ stack'[k].op = "destroy" => k = 1 /\ stack'[k].at \in {"uninstall", "uninstalled", "free"}
               /\ stack'[k].at = "free" => stack'[k].op = "destroy"
    <3>1. CASE k = M
      BY <3>1, <1>5, <1>2
    <3>2. CASE k = N
      BY <3>2, <1>5, <1>2
    <3>3. CASE k \in 1 .. N - 1
      BY <3>3, <1>1, <1>5, <1>6 DEF ShapeInv
    <3> QED  BY <3>1, <3>2, <3>3, <1>6
  <2> QED  BY <2>1 DEF ShapeInv
\* Those in the middle of a change are the ones that were.
<1>11. ASSUME NEW k \in 1 .. M, Pending(stack'[k])
      PROVE  k \in 1 .. N - 1 /\ k \in 1 .. N /\ stack'[k] = stack[k]
  BY <1>11, <1>5, <1>6, <1>7
<1>12. PendingInv'
  BY <1>11, <1>1 DEF PendingInv, Pending, Flag, Db
<1>13. NestingInv'
  <2>1. ASSUME NEW j \in 1 .. M, NEW k \in 1 .. M, j < k, stack'[j].host = stack'[k].host,
               Pending(stack'[j])
        PROVE  /\ Removing(stack'[j]) => Harmless(stack'[k], stack'[j].proto)
               /\ Pending(stack'[k]) => stack'[j].proto # stack'[k].proto
    <3>1. j \in 1 .. N - 1 /\ j \in 1 .. N /\ stack'[j] = stack[j] /\ stack[j].proto \in Protos
      BY <2>1, <1>11, <1>8
    <3>2. CASE k = M \/ k = N
      BY <3>1, <3>2, <1>5, <1>7
    <3>3. CASE k \in 1 .. N - 1
      <4>1. stack'[k] = stack[k] /\ k \in 1 .. N
        BY <3>3, <1>5, <1>6
      <4> QED  BY <3>1, <4>1, <2>1, <1>1 DEF NestingInv
    <3> QED  BY <3>2, <3>3, <1>6
  <2> QED  BY <2>1 DEF NestingInv, Pending
<1>14. TrackInv'
  <2>1. ASSUME NEW h \in Hosts, NEW p \in Protos
        PROVE  \/ \E k \in 1 .. M : Pending(stack'[k]) /\ stack'[k].host = h /\ stack'[k].proto = p
               \/ Flag(h, p) <=> Db(h, p)
    <3>1. ASSUME NEW k \in 1 .. N, Pending(stack[k])
          PROVE  k \in 1 .. M /\ stack'[k] = stack[k]
      BY <3>1, <1>5, <1>6, <1>7, <1>2
    <3> QED  BY <3>1, <1>1 DEF TrackInv
  <2> QED  BY <2>1 DEF TrackInv, Flag, Db
<1>15. PoolInv'
  BY <1>1 DEF PoolInv, Flag, Db
<1>16. DestroyInv'
  <2> SUFFICES ASSUME stack'[1].op = "destroy"
               PROVE  /\ \A i \in 1 .. Len(pool) : pool[i] # stack'[1].host
                      /\ \A k \in 2 .. M : \E i \in 1 .. Len(pool) : stack'[k].host = pool[i]
                      /\ \A p \in Protos : stack'[1].at = "free" \/ Order(p) < Order(stack'[1].proto)
                                           => ~Flag(stack'[1].host, p)
    BY DEF DestroyInv, Flag
  <2>1. N # 1
    BY <1>5
  <2>2. /\ 1 \in 1 .. N - 1 /\ N \in 2 .. N /\ stack'[1] = stack[1]
        /\ \A k \in 2 .. M : k = M \/ k = N \/ (k \in 2 .. N /\ stack'[k] = stack[k])
    BY <2>1, <1>5, <1>3
  <2>3. /\ \A i \in 1 .. Len(pool) : pool[i] # stack[1].host
        /\ \A k \in 2 .. N : \E i \in 1 .. Len(pool) : stack[k].host = pool[i]
        /\ \A p \in Protos : stack[1].at = "free" \/ Order(p) < Order(stack[1].proto)
                             => ~Flag(stack[1].host, p)
    BY <2>2, <1>1 DEF DestroyInv
  <2>4. \E i \in 1 .. Len(pool) : H = pool[i]
    BY <2>2, <2>3, <1>2
  <2> QED  BY <2>2, <2>3, <2>4, <1>5
<1> QED  BY <1>9, <1>10, <1>12, <1>13, <1>14, <1>15, <1>16 DEF SlotsInv

\* The frames of the calls that are made.
LEMMA FrameFacts ==
  ASSUME NEW h \in Hosts, NEW t \in BOOLEAN
  PROVE  /\ CheckFrame(h, t) \in FrameType /\ CheckFrame(h, t).host = h
         /\ CheckFrame(h, t).op = "check" /\ CheckFrame(h, t).at = "peek"
         /\ ResetFrame(h) \in FrameType /\ ResetFrame(h).host = h
         /\ ResetFrame(h).op = "reset" /\ ResetFrame(h).at = "uninstall" /\ ResetFrame(h).proto = "BlockIo"
         /\ RecoverFrame(h) \in FrameType /\ RecoverFrame(h).host = h
         /\ RecoverFrame(h).op = "reset" /\ RecoverFrame(h).at = "uninstall" /\ RecoverFrame(h).proto = "BlockIo"
         /\ Frame("destroy", h, "uninstall") \in FrameType /\ Frame("destroy", h, "uninstall").host = h
         /\ Frame("destroy", h, "uninstall").op = "destroy" /\ Frame("destroy", h, "uninstall").at = "uninstall"
         /\ Frame("destroy", h, "uninstall").proto = "BlockIo"
<1>1. ASSUME NEW op \in {"check", "reset", "destroy"}, NEW a \in Ats
      PROVE  /\ Frame(op, h, a) \in FrameType /\ Frame(op, h, a).host = h /\ Frame(op, h, a).op = op
             /\ Frame(op, h, a).at = a /\ Frame(op, h, a).proto = "BlockIo"
  <2>1. "BlockIo" \in Protos
    BY DEF Protos
  <2> QED  BY <2>1 DEF Frame, FrameType
<1>2. "peek" \in Ats /\ "uninstall" \in Ats
  BY DEF Ats
<1>3. /\ Frame("check", h, "peek") \in FrameType /\ Frame("check", h, "peek").host = h
      /\ Frame("check", h, "peek").op = "check" /\ Frame("check", h, "peek").at = "peek"
  BY <1>1, <1>2
<1>4. /\ ResetFrame(h) \in FrameType /\ ResetFrame(h).host = h /\ ResetFrame(h).op = "reset"
      /\ ResetFrame(h).at = "uninstall" /\ ResetFrame(h).proto = "BlockIo"
  BY <1>1, <1>2 DEF ResetFrame
<1>5. /\ CheckFrame(h, t) \in FrameType /\ CheckFrame(h, t).host = h
      /\ CheckFrame(h, t).op = "check" /\ CheckFrame(h, t).at = "peek"
  BY <1>3 DEF CheckFrame, FrameType
<1>6. /\ RecoverFrame(h) \in FrameType /\ RecoverFrame(h).host = h /\ RecoverFrame(h).op = "reset"
      /\ RecoverFrame(h).at = "uninstall" /\ RecoverFrame(h).proto = "BlockIo"
  BY <1>4 DEF RecoverFrame, FrameType
<1> QED  BY <1>1, <1>2, <1>4, <1>5, <1>6

\* CheckCardsCallback, and the calls that are made: resets by the check, by error
\* recovery, by BlockIoReset, and the timer.
LEMMA CallStep ==
  ASSUME SlotsInv,
         \/ CheckPeek \/ CheckDecide \/ TimerTick \/ SdhcRecoverFromErrors
         \/ \E h \in Hosts : BlockIoReset(h) \/ TransferFails(h)
  PROVE  SlotsInv'
<1>1. SlotsTypeOK /\ ShapeInv /\ PoolInv /\ DestroyInv
  BY DEF SlotsInv
<1>2. ASSUME stack # <<>>
      PROVE  /\ Len(stack) \in Nat \ {0} /\ Len(stack) \in 1 .. Len(stack) /\ stack[Len(stack)] = Top
             /\ Top \in FrameType /\ H \in Hosts /\ H \in opened /\ H = Top.host
  BY <1>1, <1>2, TopFacts
<1>3. /\ card \in [Hosts -> Cards \cup {"none"}] /\ db \in [Hosts -> SUBSET Protos]
      /\ inst \in [Hosts -> Instances] /\ pool \in Seq(Hosts)
  BY <1>1 DEF SlotsTypeOK, Instances
\* The check looks at the next controller, or has looked at it.
<1>4. ASSUME stack # <<>>, NEW f \in FrameType, Goto(f), Top.op = "check", f.op = "check",
             f.at \in {"peek", "decide"}, f.host = H \/ \E i \in 1 .. Len(pool) : f.host = pool[i],
             UNCHANGED <<card, opened, pool, inst, db>>
      PROVE  SlotsInv'
  <2>1. ~Pending(f) /\ ~Removing(f) /\ ~Adding(f)
    BY <1>4 DEF Pending, Removing, Adding
  <2>2. ~Pending(Top)
    BY <1>1, <1>2, <1>4 DEF ShapeInv, Pending, Removing, Adding
  <2>3. \A h \in Hosts, p \in Protos : Same(h, p)
    BY <1>4, QuietStep
  <2>4. Accounted(Pending(f))
    BY <2>1, <2>2, <2>3 DEF Accounted
  <2>5. Fits(f)
    BY <1>1, <1>2, <1>4 DEF Fits, Harmless, PoolInv
  <2> QED  BY <2>1, <2>4, <2>5, <1>3, <1>4, CallGoesOn
<1>5. CASE CheckPeek
  <2>1. stack # <<>> /\ Top.at = "peek" /\ UNCHANGED <<card, opened, pool, inst, db>>
    BY <1>5 DEF CheckPeek, At
  <2>2. Top.op = "check" /\ ~Pending(Top)
    BY <2>1, <1>1, <1>2 DEF ShapeInv, Pending, Removing, Adding
  <2>3. CASE Return
    BY <2>1, <2>2, <2>3, QuietReturn
  <2>4. CASE ~(Top.link > Len(pool)) /\ ~Return
    <3> DEFINE h == pool[Top.link]
               seen == card[h] # "none"
               f == [Top EXCEPT !.at = "decide", !.host = h, !.seen = seen]
    <3>1. Top.link \in 1 .. Len(pool)
      <4>1. Top.link \in Nat \ {0} /\ Len(pool) \in Nat
        BY <2>1, <1>2, <1>3 DEF FrameType
      <4> QED  BY <4>1, <2>4
    <3>2. h \in Hosts /\ seen \in BOOLEAN
      BY <3>1, <1>3, StackElement
    <3>3. Goto(f)
      BY <2>4, <1>5 DEF CheckPeek
    <3> HIDE DEF h, seen
    <3>4. f \in FrameType /\ f.op = Top.op /\ f.host = h /\ f.at = "decide"
      BY <2>1, <3>2, <1>2 DEF FrameType, Ats
    <3> HIDE DEF f
    <3>5. \E i \in 1 .. Len(pool) : f.host = pool[i]
      BY <3>1, <3>4 DEF h
    <3> QED  BY <3>3, <3>4, <3>5, <2>1, <2>2, <1>4
  <2> QED  BY <2>3, <2>4, <1>5 DEF CheckPeek
<1>6. CASE CheckDecide
  <2> DEFINE n == Top.link + 1
             f == [Top EXCEPT !.at = "peek", !.link = n, !.seen = FALSE]
             walk == [stack EXCEPT ![Len(stack)] = f]
  <2>1. stack # <<>> /\ Top.at = "decide" /\ UNCHANGED <<card, opened, pool, inst, db>>
    BY <1>6 DEF CheckDecide, At
  <2>2. stack' = Append(walk, ResetFrame(H)) \/ stack' = walk
    <3>1. f = [Top EXCEPT !.at = "peek", !.link = @ + 1, !.seen = FALSE]
      BY <2>1, <1>2 DEF FrameType
    <3> QED  BY <3>1, <1>6 DEF CheckDecide
  <2>3. Top.op = "check" /\ ~Pending(Top) /\ n \in Nat \ {0}
    BY <2>1, <1>1, <1>2 DEF ShapeInv, Pending, Removing, Adding, FrameType
  <2> HIDE DEF n
  <2>4. f \in FrameType /\ f.op = Top.op /\ f.host = H /\ f.at = "peek"
    BY <2>1, <2>3, <1>2 DEF FrameType, Ats
  <2> HIDE DEF f
  <2>5. CASE stack' = walk
    BY <2>1, <2>3, <2>4, <2>5, <1>4 DEF Goto
  <2>6. CASE stack' = Append(walk, ResetFrame(H))
    <3>1. /\ ResetFrame(H) \in FrameType /\ ResetFrame(H).host = H /\ ResetFrame(H).op = "reset"
          /\ ResetFrame(H).at = "uninstall" /\ ResetFrame(H).proto = "BlockIo"
      BY <2>1, <1>2, FrameFacts
    <3> QED  BY <3>1, <2>1, <2>3, <2>4, <2>6, CheckCalls
  <2> QED  BY <2>2, <2>5, <2>6
<1>7. CASE TimerTick
  <2>1. /\ pool # <<>> /\ Push(CheckFrame(pool[1], TRUE)) /\ UNCHANGED <<card, opened, pool, inst, db>>
    BY <1>7 DEF TimerTick
  <2>2. 1 \in 1 .. Len(pool)
    BY <2>1, <1>3
  <2>3. pool[1] \in Hosts /\ pool[1] \in opened
    BY <2>2, <1>1, <1>3, StackElement DEF PoolInv
  <2>4. /\ CheckFrame(pool[1], TRUE) \in FrameType /\ CheckFrame(pool[1], TRUE).host = pool[1]
        /\ CheckFrame(pool[1], TRUE).op = "check" /\ CheckFrame(pool[1], TRUE).at = "peek"
    BY <2>3, FrameFacts
  <2>5. \E i \in 1 .. Len(pool) : CheckFrame(pool[1], TRUE).host = pool[i]
    BY <2>2, <2>4
  <2> QED  BY <2>1, <2>3, <2>4, <2>5, CallMade
<1>8. CASE SdhcRecoverFromErrors
  <2>1. stack # <<>> /\ Top.at = "identify" /\ Push(RecoverFrame(H)) /\ UNCHANGED <<card, opened, pool, inst, db>>
    BY <1>8 DEF SdhcRecoverFromErrors, At
  <2>2. H \in Hosts /\ H \in opened /\ Top.op # "destroy"
    BY <2>1, <1>1, <1>2 DEF ShapeInv
  <2>3. /\ RecoverFrame(H) \in FrameType /\ RecoverFrame(H).host = H /\ RecoverFrame(H).op = "reset"
        /\ RecoverFrame(H).at = "uninstall" /\ RecoverFrame(H).proto = "BlockIo"
    BY <2>2, FrameFacts
  <2>4. ASSUME stack[1].op = "destroy"
        PROVE  \E i \in 1 .. Len(pool) : RecoverFrame(H).host = pool[i]
    <3>1. Len(stack) # 1
      BY <2>1, <2>2, <2>4, <1>2
    <3>2. Len(stack) \in 2 .. Len(stack)
      <4>1. Len(stack) \in Nat \ {0}
        BY <2>1, <1>2
      <4>2. \A n \in Nat \ {0} : n # 1 => n \in 2 .. n
        OBVIOUS
      <4> QED  BY <4>1, <4>2, <3>1, Zenon
    <3>3. \E i \in 1 .. Len(pool) : stack[Len(stack)].host = pool[i]
      BY <3>2, <2>1, <2>4, <1>1 DEF DestroyInv
    <3> QED  BY <3>3, <2>1, <2>3, <1>2
  <2> QED  BY <2>1, <2>2, <2>3, <2>4, CallMade
<1>9. ASSUME NEW h \in Hosts, BlockIoReset(h) \/ TransferFails(h)
      PROVE  SlotsInv'
  <2>1. /\ stack = <<>> /\ "BlockIo" \in db[h] /\ UNCHANGED <<card, opened, pool, inst, db>>
        /\ Push(ResetFrame(h)) \/ Push(RecoverFrame(h))
    BY <1>9 DEF BlockIoReset, TransferFails
  <2>2. h \in opened
    BY <2>1, <1>1 DEF PoolInv, Db, Protos
  <2>3. /\ ResetFrame(h) \in FrameType /\ ResetFrame(h).host = h /\ ResetFrame(h).op = "reset"
        /\ ResetFrame(h).at = "uninstall" /\ ResetFrame(h).proto = "BlockIo"
        /\ RecoverFrame(h) \in FrameType /\ RecoverFrame(h).host = h /\ RecoverFrame(h).op = "reset"
        /\ RecoverFrame(h).at = "uninstall" /\ RecoverFrame(h).proto = "BlockIo"
    BY FrameFacts
  <2>4. CASE Push(ResetFrame(h))
    BY <2>1, <2>2, <2>3, <2>4, CallMade
  <2>5. CASE Push(RecoverFrame(h))
    BY <2>1, <2>2, <2>3, <2>5, CallMade
  <2> QED  BY <2>1, <2>4, <2>5
<1> QED  BY <1>5, <1>6, <1>7, <1>8, <1>9

\* A controller is started: its instance is new, and so is its place in the pool.
LEMMA StartStep ==
  ASSUME SlotsInv, NEW h \in Hosts, SdMmcDriverStart(h)
  PROVE  SlotsInv'
<1>1. SlotsTypeOK /\ ShapeInv /\ TrackInv /\ PoolInv
  BY DEF SlotsInv
<1>2. stack = <<>> /\ h \notin opened /\ opened' = opened \cup {h} /\ UNCHANGED <<card, db>>
  BY DEF SdMmcDriverStart
<1>3. NewInstance \in Instances /\ NewInstance.flags = {}
  BY DEF NewInstance, Instances
<1>4. /\ card \in [Hosts -> Cards \cup {"none"}] /\ db \in [Hosts -> SUBSET Protos]
      /\ inst \in [Hosts -> Instances] /\ pool \in Seq(Hosts) /\ opened \subseteq Hosts
  BY <1>1 DEF SlotsTypeOK, Instances
\* With no call in progress the flags follow the database everywhere.
<1>5. \A g \in Hosts, p \in Protos : Flag(g, p) <=> Db(g, p)
  <2>1. 1 .. Len(stack) = {}
    BY <1>2
  <2> QED  BY <2>1, <1>1 DEF TrackInv
<1>6. \A p \in Protos : ~Flag(h, p) /\ ~Db(h, p)
  BY <1>1, <1>2 DEF PoolInv
<1>7. \A i \in 1 .. Len(pool) : pool[i] \in opened /\ pool[i] # h
  BY <1>1, <1>2 DEF PoolInv
<1>8. CASE UNCHANGED <<pool, inst, stack>>
  <2>1. 1 .. Len(stack') = {} /\ stack' = <<>> /\ stack' \in Seq(FrameType)
    BY <1>2, <1>8
  <2>2. ShapeInv' /\ PendingInv' /\ NestingInv' /\ DestroyInv'
    BY <2>1 DEF ShapeInv, PendingInv, NestingInv, DestroyInv
  <2>3. TrackInv'
    BY <1>2, <1>5, <1>8 DEF TrackInv, Flag, Db
  <2>4. PoolInv'
    BY <1>1, <1>2, <1>8 DEF PoolInv, Flag, Db
  <2>5. SlotsTypeOK'
    BY <2>1, <1>1, <1>2, <1>8 DEF SlotsTypeOK
  <2> QED  BY <2>2, <2>3, <2>4, <2>5 DEF SlotsInv
<1>9. CASE /\ pool' = Append(pool, h) /\ inst' = [inst EXCEPT ![h] = NewInstance]
           /\ Push(CheckFrame(h, FALSE))
  <2> DEFINE f == CheckFrame(h, FALSE)
  <2>1. f \in FrameType /\ f.host = h /\ f.op = "check" /\ f.at = "peek"
    BY FrameFacts
  <2>2. stack' = Append(stack, f) /\ stack \in Seq(FrameType) /\ Len(stack) = 0
    BY <1>1, <1>2, <1>9 DEF Push, SlotsTypeOK
  <2> HIDE DEF f
  <2>3. stack' \in Seq(FrameType) /\ stack' # <<>> /\ Len(stack') = 1 /\ stack'[1] = f
    BY <2>1, <2>2, StackPush
  <2>4. 1 .. Len(stack') = {1}
    BY <2>3
  <2>5. /\ pool' \in Seq(Hosts) /\ Len(pool) \in Nat /\ Len(pool') = Len(pool) + 1
        /\ pool'[Len(pool) + 1] = h /\ \A i \in 1 .. Len(pool) : pool'[i] = pool[i]
    BY <1>4, <1>9, StackPush
  <2>6. \A i \in 1 .. Len(pool') : i = Len(pool) + 1 \/ i \in 1 .. Len(pool)
    BY <2>5
  <2>7. inst' \in [Hosts -> Instances] /\ \A g \in Hosts, p \in Protos : NewFlag(g, p) <=> Flag(g, p)
    <3>1. \A p \in Protos : ~NewFlag(h, p)
      BY <1>3, <1>4, <1>9 DEF NewFlag
    <3>2. \A g \in Hosts \ {h}, p \in Protos : NewFlag(g, p) <=> Flag(g, p)
      BY <1>4, <1>9 DEF NewFlag, Flag
    <3> QED  BY <3>1, <3>2, <1>3, <1>4, <1>6, <1>9
  <2>8. SlotsTypeOK'
    BY <2>3, <2>5, <2>7, <1>2, <1>4 DEF SlotsTypeOK, Instances
  <2>9. ShapeInv'
    BY <2>1, <2>3, <2>4, <1>2 DEF ShapeInv
  <2>10. PendingInv'
    BY <2>1, <2>3, <2>4 DEF PendingInv, Removing, Adding
  <2>11. NestingInv'
    BY <2>4 DEF NestingInv
  <2>12. TrackInv'
    BY <2>7, <1>2, <1>5 DEF TrackInv, Flag, Db, NewFlag
  <2>13. PoolInv'
    <3>1. \A i \in 1 .. Len(pool') : pool'[i] \in opened'
      BY <2>5, <2>6, <1>2, <1>7
    <3>2. \A i, j \in 1 .. Len(pool') : pool'[i] = pool'[j] => i = j
      BY <2>5, <2>6, <1>1, <1>7 DEF PoolInv
    <3>3. \A g \in Hosts \ opened', p \in Protos : ~NewFlag(g, p) /\ ~NewDb(g, p)
      BY <2>7, <1>1, <1>2 DEF PoolInv, Db, NewDb
    <3> QED  BY <3>1, <3>2, <3>3 DEF PoolInv, Flag, Db, NewFlag, NewDb
  <2>14. DestroyInv'
    BY <2>1, <2>3 DEF DestroyInv
  <2> QED  BY <2>8, <2>9, <2>10, <2>11, <2>12, <2>13, <2>14 DEF SlotsInv
<1> QED  BY <1>8, <1>9 DEF SdMmcDriverStart

\* A controller is stopped: the first instance leaves the pool and is destroyed.
LEMMA StopStep ==
  ASSUME SlotsInv, NEW h \in Hosts, SdMmcDriverStop(h)
  PROVE  SlotsInv'
<1> DEFINE g == Head(pool)
           f == Frame("destroy", g, "uninstall")
<1>1. SlotsTypeOK /\ PoolInv
  BY DEF SlotsInv
<1>2. /\ stack = <<>> /\ pool # <<>> /\ pool' = Tail(pool) /\ Push(f)
      /\ UNCHANGED <<card, opened, inst, db>>
  BY DEF SdMmcDriverStop
<1>3. pool \in Seq(Hosts)
  BY <1>1 DEF SlotsTypeOK
<1>4. /\ g = pool[1] /\ 1 \in 1 .. Len(pool)
      /\ pool' \in Seq(Hosts) /\ Len(pool') = Len(pool) - 1 /\ Len(pool) \in Nat \ {0}
      /\ \A i \in 1 .. Len(pool') : pool'[i] = pool[i + 1]
  BY <1>2, <1>3
<1>5. \A i \in 1 .. Len(pool') : i + 1 \in 1 .. Len(pool) /\ i + 1 # 1
  BY <1>4
<1>6. g \in Hosts /\ g \in opened
  BY <1>1, <1>3, <1>4, StackElement DEF PoolInv
<1>7. \A i \in 1 .. Len(pool') : pool'[i] \in opened /\ pool'[i] # g
  BY <1>1, <1>4, <1>5 DEF PoolInv
<1>8. \A i, j \in 1 .. Len(pool') : pool'[i] = pool'[j] => i = j
  <2> TAKE i, j \in 1 .. Len(pool')
  <2>1. pool'[i] = pool'[j] => i + 1 = j + 1
    BY <1>1, <1>4, <1>5 DEF PoolInv
  <2> QED  BY <2>1
<1>9. /\ f \in FrameType /\ f.host = g /\ f.op = "destroy" /\ f.at = "uninstall" /\ f.proto = "BlockIo"
  BY <1>6, FrameFacts
<1> HIDE DEF f, g
<1> QED  BY <1>2, <1>4, <1>6, <1>7, <1>8, <1>9, CallMade

\* An instance is freed when none of its protocols is installed.
LEMMA FreeStep ==
  ASSUME SlotsInv, DestroyFree
  PROVE  SlotsInv'
<1>1. /\ stack # <<>> /\ Top.at = "free" /\ SetI(NewInstance) /\ Return
      /\ UNCHANGED <<card, opened, pool, db>>
  BY DEF DestroyFree, At
<1>2. SlotsTypeOK /\ ShapeInv /\ DestroyInv
  BY DEF SlotsInv
<1>3. /\ Len(stack) \in 1 .. Len(stack) /\ stack[Len(stack)] = Top
      /\ Top \in FrameType /\ H \in Hosts /\ H = Top.host
  BY <1>1, <1>2, TopFacts
<1>4. Top.op = "destroy" /\ Len(stack) = 1
  BY <1>1, <1>2, <1>3 DEF ShapeInv
<1>5. \A p \in Protos : ~Flag(H, p)
  BY <1>1, <1>2, <1>3, <1>4 DEF DestroyInv
<1>6. NewInstance \in Instances /\ NewInstance.flags = {}
  BY DEF NewInstance, Instances
<1>7. /\ inst' \in [Hosts -> Instances]
      /\ inst'[H] = NewInstance /\ \A h \in Hosts \ {H} : inst'[h] = inst[h]
  BY <1>1, <1>2, <1>6, SetIFacts
<1>8. \A h \in Hosts, p \in Protos : Same(h, p)
  <2>1. \A p \in Protos : Same(H, p)
    BY <1>1, <1>5, <1>6, <1>7 DEF Same, Flag, Db, NewFlag, NewDb
  <2>2. \A h \in Hosts \ {H}, p \in Protos : Same(h, p)
    BY <1>1, <1>7 DEF Same, Flag, Db, NewFlag, NewDb
  <2> QED  BY <2>1, <2>2
<1>9. Accounted(FALSE)
  BY <1>1, <1>8 DEF Accounted, Pending, Removing, Adding
<1>10. card' \in [Hosts -> Cards \cup {"none"}] /\ db' \in [Hosts -> SUBSET Protos]
  BY <1>1, <1>2 DEF SlotsTypeOK
<1> QED  BY <1>1, <1>7, <1>9, <1>10, CallReturns

\* Cards come and go without a trace in the driver.
LEMMA SlotsUntouched ==
  ASSUME SlotsInv, UNCHANGED <<opened, pool, inst, db, stack>>,
         card' \in [Hosts -> Cards \cup {"none"}]
  PROVE  SlotsInv'
BY DEF SlotsInv, SlotsTypeOK, ShapeInv, PendingInv, NestingInv, TrackInv, PoolInv, DestroyInv, Flag, Db

\* Every step of the driver and of the world keeps the invariant.
LEMMA SlotsStep ==
  ASSUME SlotsInv, [Next]_vars
  PROVE  SlotsInv'
<1>1. card \in [Hosts -> Cards \cup {"none"}]
  BY DEF SlotsInv, SlotsTypeOK
<1>2. CASE SoftReset \/ CheckCardsCallback \/ DestroyFree \/ TimerTick
  BY <1>2, UninstallStep, IdentifyStep, InstallStep, ExitStep, CallStep, FreeStep
     DEF SoftReset, CheckCardsCallback
<1>3. CASE \E h \in Hosts : SdMmcDriverStart(h) \/ SdMmcDriverStop(h)
  BY <1>3, StartStep, StopStep
<1>4. CASE \E h \in Hosts : BlockIoReset(h) \/ TransferFails(h)
  BY <1>4, CallStep
<1>5. ASSUME NEW h \in Hosts, CardEject(h) \/ \E c \in Cards : CardInsert(h, c)
      PROVE  SlotsInv'
  <2>1. UNCHANGED <<opened, pool, inst, db, stack>> /\ card' \in [Hosts -> Cards \cup {"none"}]
    BY <1>1, <1>5 DEF CardEject, CardInsert
  <2> QED  BY <2>1, SlotsUntouched
<1>6. CASE UNCHANGED vars
  BY <1>1, <1>6, SlotsUntouched DEF vars
<1> QED  BY <1>2, <1>3, <1>4, <1>5, <1>6 DEF Next, Driver

\* The ...ProtocolInstalled flags of SdMmc.c follow the handle database, but for a
\* protocol a call in progress is in the middle of, through every nesting of resets,
\* whatever fails and whenever the timer fires.
THEOREM FlagsTrackDatabaseHolds == Spec => []FlagsTrackDatabase
<1>1. Init => SlotsInv
  <2> SUFFICES ASSUME Init PROVE SlotsInv
    OBVIOUS
  <2>1. NewInstance \in Instances /\ NewInstance.flags = {}
    BY DEF NewInstance, Instances
  <2>2. 1 .. Len(stack) = {} /\ 1 .. Len(pool) = {} /\ stack \in Seq(FrameType) /\ pool \in Seq(Hosts)
    BY DEF Init
  <2>3. \A h \in Hosts, p \in Protos : ~Flag(h, p) /\ ~Db(h, p)
    BY <2>1 DEF Init, Flag, Db
  <2>4. SlotsTypeOK
    BY <2>1, <2>2 DEF Init, SlotsTypeOK, Instances
  <2>5. ShapeInv /\ PendingInv /\ NestingInv /\ TrackInv /\ PoolInv /\ DestroyInv
    BY <2>2, <2>3 DEF Init, ShapeInv, PendingInv, NestingInv, TrackInv, PoolInv, DestroyInv
  <2> QED  BY <2>4, <2>5 DEF SlotsInv
<1>2. SlotsInv /\ [Next]_vars => SlotsInv'
  BY SlotsStep
<1>3. SlotsInv => FlagsTrackDatabase
  BY DEF SlotsInv, TrackInv, FlagsTrackDatabase, InFlight, Pending, Removing, Adding, Flag, Db
<1> QED  BY <1>1, <1>2, <1>3, PTL DEF Spec

-------------------------------------------------------------------------------
(* Block transfers.                                                          *)

\* Multiples of the block size.
LEMMA Times ==
  ASSUME NEW a \in Nat, NEW b \in Nat
  PROVE  /\ a * BlockSize \in Nat
         /\ a * BlockSize + b * BlockSize = (a + b) * BlockSize
         /\ a * BlockSize < b * BlockSize <=> a < b
         /\ (a * BlockSize) \div BlockSize = a
<1>1. BlockSize \in Nat \ {0}
  BY BlockIoAssumption
<1>2. a * BlockSize \in Nat /\ a * BlockSize + b * BlockSize = (a + b) * BlockSize
  BY <1>1
<1>3. a * BlockSize < b * BlockSize <=> a < b
  <2>1. ASSUME NEW x \in Nat, NEW y \in Nat, x < y
        PROVE  x * BlockSize < y * BlockSize
    <3>1. PICK d \in Nat : y = x + 1 + d
      <4>1. y - x - 1 \in Nat /\ y = x + 1 + (y - x - 1)
        BY <2>1
      <4> QED  BY <4>1
    <3>2. y * BlockSize = x * BlockSize + BlockSize + d * BlockSize
      BY <3>1, <1>1
    <3>3. d * BlockSize \in Nat /\ x * BlockSize \in Nat
      BY <1>1
    <3> QED  BY <3>2, <3>3, <1>1
  <2>2. a < b => a * BlockSize < b * BlockSize
    BY <2>1
  <2>3. b < a => b * BlockSize < a * BlockSize
    BY <2>1
  <2>4. a = b => a * BlockSize = b * BlockSize
    OBVIOUS
  <2>5. a * BlockSize \in Nat /\ b * BlockSize \in Nat
    BY <1>1
  <2> QED  BY <2>2, <2>3, <2>4, <2>5
<1>4. (a * BlockSize) \div BlockSize = a
  BY <1>1
<1> QED  BY <1>2, <1>3, <1>4

\* Quotient and remainder, and what they are of.
LEMMA DivMod ==
  ASSUME NEW x \in Nat, NEW w \in Nat \ {0}
  PROVE  x \div w \in Nat /\ x % w \in 0 .. w - 1 /\ x = (x \div w) * w + (x % w)
OBVIOUS

\* A remainder is the one number below w that is left.
LEMMA ModUnique ==
  ASSUME NEW d \in Nat, NEW e \in Nat, NEW w \in Nat \ {0}, e < w
  PROVE  (d * w + e) % w = e
OBVIOUS

\* The bytes of m blocks, cut to a word, are the bytes of no more than the blocks
\* that are left when m is cut to a word.
LEMMA CutToWord ==
  ASSUME NEW m \in Nat
  PROVE  \E l \in Nat : (m * BlockSize) % Word = l * BlockSize /\ l <= m % Word
<1> DEFINE w == Word \div BlockSize
           q == m \div w
           l == m % w
<1>1. BlockSize \in Nat \ {0} /\ Word \in Nat \ {0} /\ Word % BlockSize = 0
  BY BlockIoAssumption
<1>2. w \in Nat /\ Word = w * BlockSize
  BY <1>1, DivMod
<1>3. w # 0
  BY <1>1, <1>2
<1> HIDE DEF w
<1>4. q \in Nat /\ l \in 0 .. w - 1 /\ m = q * w + l
  BY <1>2, <1>3, DivMod
<1> HIDE DEF q
<1>5. (m * BlockSize) % Word = l * BlockSize
  <2> HIDE DEF l
  <2>1. m * BlockSize = q * Word + l * BlockSize
    <3>1. m * BlockSize = (q * w + l) * BlockSize
      BY <1>4
    <3>2. (q * w + l) * BlockSize = q * (w * BlockSize) + l * BlockSize
      BY <1>1, <1>2, <1>4
    <3> QED  BY <3>1, <3>2, <1>2
  <2>2. l \in Nat /\ w \in Nat /\ l < w
    BY <1>2, <1>4
  <2>3. l * BlockSize < Word /\ l * BlockSize \in Nat
    BY <2>2, <1>2, Times
  <2>4. (q * Word + l * BlockSize) % Word = l * BlockSize
    BY <2>3, <1>1, <1>4, ModUnique
  <2> QED  BY <2>1, <2>4
<1>6. l <= m % Word
  <2> DEFINE Q == m \div Word
             n == m % Word
             k == n \div w
             r == n % w
  <2>1. Q \in Nat /\ n \in 0 .. Word - 1 /\ m = Q * Word + n
    BY <1>1, DivMod
  <2> HIDE DEF Q, n
  <2>2. k \in Nat /\ r \in 0 .. w - 1 /\ n = k * w + r
    <3>1. n \in Nat /\ w \in Nat \ {0}
      BY <2>1, <1>2, <1>3
    <3> QED  BY <3>1, DivMod
  <2> HIDE DEF k, r
  <2>3. m = (Q * BlockSize + k) * w + r
    <3>1. Q * Word = (Q * BlockSize) * w
      BY <2>1, <1>1, <1>2
    <3>2. (Q * BlockSize + k) * w + r = (Q * BlockSize) * w + k * w + r
      BY <2>1, <2>2, <1>1, <1>2
    <3>3. (Q * BlockSize) * w \in Nat /\ k * w \in Nat
      BY <2>1, <2>2, <1>1, <1>2
    <3> QED  BY <2>1, <2>2, <3>1, <3>2, <3>3
  <2>4. Q * BlockSize + k \in Nat
    BY <2>1, <2>2, <1>1
  <2>5. l = r
    BY <2>2, <2>3, <2>4, <1>2, <1>3, ModUnique
  <2>6. k * w \in Nat
    BY <2>2, <1>2
  <2>7. r <= n
    BY <2>2, <2>6
  <2> QED  BY <2>5, <2>7 DEF n
<1> QED  BY <1>4, <1>5, <1>6

\* IoBlocks counts the request in blocks: p of them are behind it and l to come, and
\* those to come are on the card from block lba on.
Cut(p, l) ==
  /\ pos = p * BlockSize /\ left = l * BlockSize
  /\ l > 0 => lba = req.lba + p /\ req.lba + p + l - 1 <= LastBlock

\* The request has passed the checks.
Accepted ==
  /\ req.size % BlockSize = 0
  /\ req.lba + ((req.size \div BlockSize) % Word) - 1 \in 0 .. LastBlock

IoTypeOK ==
  /\ media \in Medias /\ req \in Requests
  /\ at \in {"idle", "setup", "chunk", "advance", "done"}
  /\ max \in Nat /\ left \in Nat /\ pos \in Nat /\ lba \in Nat
  /\ blind \in BOOLEAN /\ DOMAIN moved \subseteq Nat

IoInv ==
  /\ IoTypeOK
  /\ RightBlock
  /\ at = "setup" => Accepted
  /\ at \in {"chunk", "advance"} => max \in {0, MaxBlocks * BlockSize}
  /\ at = "advance" => left > 0
  /\ at \in {"chunk", "advance"} /\ ~blind => \E p, l \in Nat : Cut(p, l)

\* A slot holds a card of the block size, or nothing.
LEMMA MediaFacts ==
  /\ \A m \in Medias : /\ m.bs \in {0, BlockSize} /\ m.last \in {0, LastBlock}
                       /\ m.present => m.bs = BlockSize /\ m.last = LastBlock
  /\ MaxBlocks * BlockSize \in Nat /\ (MaxBlocks * BlockSize) % Word = MaxBlocks * BlockSize
  /\ 0 % Word = 0
<1>1. BlockSize \in Nat \ {0} /\ Word \in Nat \ {0} /\ MaxBlocks \in Nat /\ MaxBlocks * BlockSize < Word
  BY BlockIoAssumption
<1>2. MaxBlocks * BlockSize \in Nat
  BY <1>1
<1>3. \A x \in Nat : x < Word => x % Word = x
  BY <1>1
<1> QED  BY <1>1, <1>2, <1>3 DEF Medias, Media, NoMedia

\* A transfer is a number of blocks of those to come.
LEMMA ChunkFacts ==
  ASSUME IoInv, at \in {"chunk", "advance"}, NEW p \in Nat, NEW l \in Nat, Cut(p, l)
  PROVE  \E c \in 0 .. l : Chunk = c * BlockSize
<1>1. BlockSize \in Nat \ {0} /\ MaxBlocks \in Nat
  BY BlockIoAssumption
<1>2. max \in {0, MaxBlocks * BlockSize} /\ left = l * BlockSize
  BY DEF IoInv, Cut
<1>3. CASE max = 0
  <2>1. l * BlockSize \in Nat
    BY Times
  <2>2. Chunk = 0 /\ 0 = 0 * BlockSize
    BY <2>1, <1>1, <1>2, <1>3 DEF Chunk, Min2
  <2> QED  BY <2>2
<1>4. CASE max = MaxBlocks * BlockSize
  <2>1. l * BlockSize < MaxBlocks * BlockSize <=> l < MaxBlocks
    BY <1>1, Times
  <2> QED  BY <2>1, <1>1, <1>2, <1>4 DEF Chunk, Min2
<1> QED  BY <1>2, <1>3, <1>4

\* A transfer, whole or in part, moves blocks to their place.
LEMMA TransferRight ==
  ASSUME IoInv, at = "chunk", ~blind, NEW n \in Nat, moved' = Transfer(n), UNCHANGED req
  PROVE  \A b \in DOMAIN moved : moved'[b] # NotMoved => /\ moved'[b].lba = req.lba + b
                                                         /\ moved'[b].lba <= LastBlock
<1>1. PICK p, l \in Nat : Cut(p, l)
  BY DEF IoInv
<1>2. PICK c \in 0 .. l : Chunk = c * BlockSize
  BY <1>1, ChunkFacts
<1> SUFFICES ASSUME NEW b \in DOMAIN moved, moved'[b] # NotMoved
             PROVE  moved'[b].lba = req.lba + b /\ moved'[b].lba <= LastBlock
  OBVIOUS
<1>3. b \in Nat /\ BlockSize \in Nat \ {0} /\ req.lba \in Nat /\ LastBlock \in Nat
  BY BlockIoAssumption DEF IoInv, IoTypeOK, Requests
<1>4. CASE InChunk(b) /\ b * BlockSize < pos + n * BlockSize
  <2>1. pos = p * BlockSize /\ pos \div BlockSize = p
    BY <1>1, Times DEF Cut
  <2>2. ~(b * BlockSize < p * BlockSize) /\ b * BlockSize < (p + c) * BlockSize
    <3>1. p * BlockSize \in Nat /\ b * BlockSize \in Nat /\ p * BlockSize + c * BlockSize = (p + c) * BlockSize
      BY <1>3, Times
    <3> QED  BY <3>1, <2>1, <1>2, <1>4 DEF InChunk
  <2>3. p + c \in Nat /\ c \in Nat
    BY <1>2
  <2>4. ~(b < p) /\ b < p + c
    BY <2>2, <2>3, <1>3, Times
  <2>5. lba = req.lba + p /\ req.lba + p + l - 1 <= LastBlock
    BY <2>4, <1>1, <1>2, <1>3 DEF Cut
  <2>6. moved'[b] = [id |-> media.id, lba |-> lba + b - pos \div BlockSize]
    BY <1>4 DEF Transfer
  <2>7. moved'[b].lba = lba + b - p
    BY <2>1, <2>6
  <2>8. lba + b - p = req.lba + b /\ req.lba + b <= LastBlock
    BY <2>4, <2>5, <1>2, <1>3
  <2> QED  BY <2>7, <2>8
<1>5. CASE ~(InChunk(b) /\ b * BlockSize < pos + n * BlockSize)
  <2>1. moved'[b] = moved[b]
    BY <1>5 DEF Transfer
  <2> QED  BY <2>1 DEF IoInv, RightBlock, Moved
<1> QED  BY <1>4, <1>5

\* A request that the checks let pass is within the card.
LEMMA CheckedFacts ==
  ASSUME media \in Medias, NEW r \in Requests, Checked(r) = "none"
  PROVE  /\ r.size % BlockSize = 0
         /\ r.lba + ((r.size \div BlockSize) % Word) - 1 \in 0 .. LastBlock
<1>1. /\ media.present /\ Mod(r.size, media.bs) = 0
      /\ ~(LastOf(r) < 0) /\ ~(LastOf(r) > media.last)
  BY DEF Checked
<1>2. media.bs = BlockSize /\ media.last = LastBlock
  BY <1>1, MediaFacts
<1>3. BlockSize \in Nat \ {0} /\ Word \in Nat \ {0} /\ LastBlock \in Nat /\ r.size \in Nat /\ r.lba \in Nat
  BY BlockIoAssumption DEF Requests
<1>4. r.size % BlockSize = 0
  BY <1>1, <1>2, <1>3 DEF Mod
<1>5. LastOf(r) = r.lba + ((r.size \div BlockSize) % Word) - 1
  BY <1>2, <1>3 DEF LastOf, Div
<1>6. r.size \div BlockSize \in Nat
  BY <1>3, DivMod
<1>7. (r.size \div BlockSize) % Word \in Nat
  BY <1>3, <1>6, DivMod
<1>8. LastOf(r) \in Int
  BY <1>3, <1>5, <1>7
<1> QED  BY <1>1, <1>2, <1>3, <1>4, <1>5, <1>8

\* The loop begins with all of the request before it.
LEMMA SetupStep ==
  ASSUME IoInv, IoSetup
  PROVE  IoInv'
<1>1. IoTypeOK /\ RightBlock /\ Accepted
  BY DEF IoInv, IoSetup
<1>2. /\ BlockSize \in Nat \ {0} /\ Word \in Nat \ {0} /\ LastBlock \in Nat /\ LastBlock < Word
      /\ MaxBlocks \in Nat /\ req.size \in Nat /\ req.lba \in Nat /\ media \in Medias
  BY <1>1, BlockIoAssumption DEF IoTypeOK, Requests
<1>3. /\ max' = (MaxBlocks * media.bs) % Word /\ left' = req.size % Word
      /\ pos' = 0 /\ lba' = req.lba % Word /\ at' = "chunk"
      /\ UNCHANGED <<media, req, moved, blind>>
  BY DEF IoSetup
<1>4. max' \in {0, MaxBlocks * BlockSize}
  <2>1. CASE media.bs = 0
    <3>1. MaxBlocks * 0 = 0
      BY <1>2
    <3> QED  BY <3>1, <2>1, <1>3, MediaFacts
  <2>2. CASE media.bs = BlockSize
    BY <2>2, <1>3, MediaFacts
  <2> QED  BY <2>1, <2>2, <1>2, MediaFacts
<1>5. max' \in Nat
  BY <1>4, MediaFacts
<1> DEFINE m == req.size \div BlockSize
<1>6. m \in Nat /\ req.size = m * BlockSize
  <2>1. req.size % BlockSize = 0
    BY <1>1 DEF Accepted
  <2>2. /\ req.size \div BlockSize \in Nat
        /\ req.size = (req.size \div BlockSize) * BlockSize + (req.size % BlockSize)
    BY <1>2, DivMod
  <2> HIDE DEF m
  <2>3. m \in Nat /\ req.size = m * BlockSize + 0
    BY <2>1, <2>2 DEF m
  <2>4. m * BlockSize \in Nat
    BY <2>3, Times
  <2> QED  BY <2>3, <2>4
<1> HIDE DEF m
<1>7. PICK l \in Nat : left' = l * BlockSize /\ l <= m % Word
  BY <1>3, <1>6, CutToWord
<1>8. m % Word \in Nat /\ req.lba + (m % Word) - 1 <= LastBlock
  <2>1. m % Word \in Nat
    BY <1>2, <1>6, DivMod
  <2>2. req.lba + (m % Word) - 1 \in 0 .. LastBlock
    BY <1>1 DEF Accepted, m
  <2> QED  BY <2>1, <2>2
<1>9. left' \in Nat /\ lba' \in Nat /\ pos' \in Nat
  <2>1. \A x \in Nat : x % Word \in Nat
    BY <1>2
  <2> QED  BY <2>1, <1>2, <1>3
<1>10. ASSUME l > 0
      PROVE  lba' = req.lba + 0 /\ req.lba + 0 + l - 1 <= LastBlock
  <2>1. req.lba + l - 1 <= LastBlock /\ req.lba < Word
    BY <1>2, <1>7, <1>8, <1>10
  <2>2. req.lba % Word = req.lba
    BY <2>1, <1>2
  <2> QED  BY <2>1, <2>2, <1>2, <1>3
<1>11. 0 \in Nat /\ 0 = 0 * BlockSize
  BY <1>2
<1>12. \E p, k \in Nat : /\ pos' = p * BlockSize /\ left' = k * BlockSize
                         /\ k > 0 => lba' = req.lba + p /\ req.lba + p + k - 1 <= LastBlock
  BY <1>3, <1>7, <1>10, <1>11
<1>13. IoTypeOK' /\ RightBlock'
  BY <1>1, <1>3, <1>5, <1>9 DEF IoTypeOK, RightBlock, Moved
<1> QED  BY <1>3, <1>4, <1>12, <1>13 DEF IoInv, Cut

\* A transfer and what comes of it.
LEMMA SendStep ==
  ASSUME IoInv, SendOk \/ SendFails
  PROVE  IoInv'
<1>1. /\ at = "chunk" /\ left > 0 /\ at' \in {"chunk", "advance"}
      /\ UNCHANGED <<media, req, max, left, pos, lba, blind>>
  BY DEF SendOk, SendFails, loop
<1>2. PICK n \in Nat : moved' = Transfer(n) \/ moved' = moved
  <2>1. CASE SendOk
    <3>1. CASE Chunk \div BlockSize \in Nat
      BY <2>1, <3>1 DEF SendOk
    <3>2. Chunk \div BlockSize \in Nat
      <4>1. Chunk \in Nat /\ BlockSize \in Nat \ {0}
        BY BlockIoAssumption DEF IoInv, IoTypeOK, Chunk, Min2
      <4> QED  BY <4>1, DivMod
    <3> QED  BY <3>1, <3>2
  <2>2. CASE SendFails
    BY <2>2 DEF SendFails
  <2> QED  BY <2>1, <2>2
<1>3. DOMAIN moved' = DOMAIN moved
  BY <1>2 DEF Transfer
<1>4. RightBlock'
  <2>1. CASE moved' = moved
    BY <2>1, <1>1 DEF IoInv, RightBlock, Moved
  <2>2. CASE moved' = Transfer(n) /\ ~blind
    BY <2>2, <1>1, <1>3, TransferRight DEF RightBlock, Moved
  <2>3. CASE blind
    BY <2>3, <1>1 DEF RightBlock
  <2> QED  BY <2>1, <2>2, <2>3, <1>2
<1>5. IoTypeOK'
  BY <1>1, <1>3 DEF IoInv, IoTypeOK
<1>6. /\ max' \in {0, MaxBlocks * BlockSize} /\ left' > 0
      /\ ~blind => \E p, l \in Nat : Cut(p, l)
  BY <1>1 DEF IoInv
<1>7. at' # "setup"
  BY <1>1
<1> QED  BY <1>1, <1>4, <1>5, <1>6, <1>7 DEF IoInv, Cut

\* The next transfer begins where this one ends.
LEMMA AdvanceStep ==
  ASSUME IoInv, Advance
  PROVE  IoInv'
<1>1. IoTypeOK /\ RightBlock
  BY DEF IoInv
<1>2. /\ at = "advance" /\ left > 0 /\ max \in {0, MaxBlocks * BlockSize} /\ at' = "chunk"
      /\ left' = left - Chunk /\ lba' = (lba + Div(Chunk, media.bs)) % Word /\ pos' = pos + Chunk
      /\ blind' = (blind \/ (Chunk > 0 /\ media.bs = 0))
      /\ UNCHANGED <<media, req, max, moved>>
  BY DEF IoInv, Advance
<1>3. /\ BlockSize \in Nat \ {0} /\ Word \in Nat \ {0} /\ LastBlock \in Nat /\ LastBlock < Word
      /\ req.lba \in Nat /\ media \in Medias
  BY <1>1, BlockIoAssumption DEF IoTypeOK, Requests
<1>4. Chunk \in Nat /\ Chunk <= left
  BY <1>1 DEF IoTypeOK, Chunk, Min2
<1>5. media.bs \in {0, BlockSize}
  BY <1>3, MediaFacts
<1>6. Div(Chunk, media.bs) \in Nat
  <2>1. Chunk \div BlockSize \in Nat
    BY <1>3, <1>4, DivMod
  <2> QED  BY <2>1, <1>5 DEF Div
<1>7. left' \in Nat /\ pos' \in Nat /\ lba' \in Nat /\ blind' \in BOOLEAN
  <2>1. lba + Div(Chunk, media.bs) \in Nat
    BY <1>1, <1>6 DEF IoTypeOK
  <2>2. lba' \in Nat
    BY <2>1, <1>2, <1>3, DivMod
  <2> QED  BY <2>2, <1>1, <1>2, <1>4 DEF IoTypeOK
<1>8. IoTypeOK' /\ RightBlock'
  BY <1>1, <1>2, <1>7 DEF IoTypeOK, RightBlock, Moved
<1>9. ASSUME ~blind'
      PROVE  \E p, l \in Nat : /\ pos' = p * BlockSize /\ left' = l * BlockSize
                               /\ l > 0 => lba' = req.lba + p /\ req.lba + p + l - 1 <= LastBlock
  <2>1. ~blind /\ ~(Chunk > 0 /\ media.bs = 0)
    BY <1>2, <1>9
  <2>2. PICK p, l \in Nat : Cut(p, l)
    BY <2>1, <1>2 DEF IoInv
  <2>3. PICK c \in 0 .. l : Chunk = c * BlockSize
    BY <2>2, <1>2, ChunkFacts
  <2>4. c \in Nat /\ l - c \in Nat /\ p + c \in Nat
    BY <2>3
  <2>5. pos' = (p + c) * BlockSize
    BY <2>2, <2>3, <2>4, <1>2, Times DEF Cut
  <2>6. left' = (l - c) * BlockSize
    <3>1. c * BlockSize + (l - c) * BlockSize = (c + (l - c)) * BlockSize
      BY <2>4, Times
    <3>2. c + (l - c) = l
      BY <2>4
    <3>3. c * BlockSize \in Nat /\ (l - c) * BlockSize \in Nat /\ l * BlockSize \in Nat
      BY <2>4, Times
    <3> QED  BY <3>1, <3>2, <3>3, <2>2, <2>3, <1>2 DEF Cut
  <2>7. Div(Chunk, media.bs) = c
    <3>1. CASE media.bs = 0
      <4>1. c * BlockSize = 0
        BY <3>1, <2>1, <2>3, <1>4
      <4>2. ~(0 < c)
        <5>1. 0 * BlockSize = 0
          BY <1>3
        <5>2. 0 * BlockSize < c * BlockSize <=> 0 < c
          BY <2>4, Times
        <5> QED  BY <4>1, <5>1, <5>2
      <4> QED  BY <3>1, <4>2, <2>4 DEF Div
    <3>2. CASE media.bs = BlockSize
      BY <3>2, <2>3, <2>4, <1>3, Times DEF Div
    <3> QED  BY <3>1, <3>2, <1>5
  <2>8. ASSUME l - c > 0
        PROVE  lba' = req.lba + (p + c) /\ req.lba + (p + c) + (l - c) - 1 <= LastBlock
    <3>1. lba = req.lba + p /\ req.lba + p + l - 1 <= LastBlock
      BY <2>2, <2>4, <2>8 DEF Cut
    <3>2. lba + c \in Nat /\ lba + c < Word /\ lba + c = req.lba + (p + c)
      BY <3>1, <2>4, <2>8, <1>3
    <3>3. lba' = lba + c
      BY <3>2, <2>7, <1>2, <1>3
    <3> QED  BY <3>1, <3>2, <3>3, <2>4, <1>3
  <2> QED  BY <2>4, <2>5, <2>6, <2>8
<1> QED  BY <1>2, <1>8, <1>9 DEF IoInv, Cut

\* Every step of IoBlocks and of its slot keeps the invariant.
LEMMA IoStep ==
  ASSUME IoInv, [IoNext]_ioVars
  PROVE  IoInv'
<1>1. IoTypeOK /\ RightBlock
  BY DEF IoInv
<1>2. CASE IoBegin
  <2>1. PICK r \in Requests : /\ req' = r /\ moved' = [b \in Blocks(r) |-> NotMoved]
                              /\ at' = IF Checked(r) = "none" THEN "setup" ELSE "done"
    BY <1>2 DEF IoBegin
  <2>2. blind' = FALSE /\ UNCHANGED <<media, max, left, pos, lba>>
    BY <1>2 DEF IoBegin, loop
  <2>3. Blocks(r) \subseteq Nat
    <3>1. r.size \in Nat /\ BlockSize \in Nat \ {0}
      BY BlockIoAssumption DEF Requests
    <3>2. r.size \div BlockSize \in Nat
      BY <3>1, DivMod
    <3> QED  BY <3>2 DEF Blocks
  <2>4. IoTypeOK'
    BY <2>1, <2>2, <2>3, <1>1 DEF IoTypeOK
  <2>5. RightBlock'
    BY <2>1 DEF RightBlock, Moved
  <2>6. at' = "setup" => Accepted'
    <3>1. media \in Medias
      BY <1>1 DEF IoTypeOK
    <3> QED  BY <3>1, <2>1, CheckedFacts DEF Accepted
  <2>7. at' \notin {"chunk", "advance"}
    BY <2>1
  <2> QED  BY <2>4, <2>5, <2>6, <2>7 DEF IoInv
<1>3. CASE IoEnd
  <2>1. at' = "done" /\ UNCHANGED <<media, req, max, left, pos, lba, moved, blind>>
    BY <1>3 DEF IoEnd, loop
  <2> QED  BY <2>1, <1>1 DEF IoInv, IoTypeOK, RightBlock, Moved
<1>4. CASE IoReturn
  <2>1. /\ at' = "idle" /\ max' = 0 /\ left' = 0 /\ pos' = 0 /\ lba' = 0
        /\ moved' = [b \in {} |-> NotMoved] /\ UNCHANGED <<media, req, blind>>
    BY <1>4 DEF IoReturn
  <2> QED  BY <2>1, <1>1 DEF IoInv, IoTypeOK, RightBlock, Moved
<1>5. CASE SlotReset
  <2>1. media' \in Medias /\ UNCHANGED <<req, at, max, left, pos, lba, moved, blind>>
    BY <1>5 DEF SlotReset, loop
  <2> QED  BY <2>1, <1>1 DEF IoInv, IoTypeOK, RightBlock, Moved, Accepted, Cut
<1>6. CASE UNCHANGED ioVars
  BY <1>6, <1>1 DEF IoInv, IoTypeOK, RightBlock, Moved, Accepted, Cut, ioVars
<1> QED  BY <1>2, <1>3, <1>4, <1>5, <1>6, SetupStep, SendStep, AdvanceStep DEF IoNext, IoBlocks

\* IoBlocks moves block b of the buffer to or from block Lba + b of the card and never
\* past its end, for requests of every size and place, every size of transfer, any
\* number of failures and resets, as long as there is a block size when it advances.
THEOREM RightBlockHolds == IoSpec => []RightBlock
<1>1. IoInit => IoInv
  <2> SUFFICES ASSUME IoInit PROVE IoInv
    OBVIOUS
  <2>1. IoTypeOK /\ at = "idle" /\ DOMAIN moved = {}
    BY DEF IoInit, IoTypeOK
  <2>2. RightBlock
    BY <2>1 DEF RightBlock
  <2> QED  BY <2>1, <2>2 DEF IoInv
<1>2. IoInv /\ [IoNext]_ioVars => IoInv'
  BY IoStep
<1>3. IoInv => RightBlock
  BY DEF IoInv
<1> QED  BY <1>1, <1>2, <1>3, PTL DEF IoSpec
===============================================================================
