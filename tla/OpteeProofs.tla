------------------------------ MODULE OpteeProofs ------------------------------
(*****************************************************************************)
(* Proofs about the OP-TEE client: the allocator of the memory that it       *)
(* shares with OP-TEE keeps its blocks apart and implements the pool that    *)
(* the calls rely on; and, of the calls into OP-TEE, who owns the shared     *)
(* memory while calls, RPCs and interrupting calls come and go, and that a   *)
(* client's session is one OP-TEE still serves.                              *)
(*****************************************************************************)
EXTENDS OpteeClientMem, OpteeSmc, ListLemmas, TLAPS

-------------------------------------------------------------------------------
(* The layout arithmetic of InternalMemAlloc. *)

\* Division with remainder, as the provers need it.
LEMMA ModuloFacts ==
  ASSUME NEW a \in Int, NEW m \in Nat \ {0}
  PROVE  a % m \in 0 .. (m - 1) /\ a = m * (a \div m) + (a % m) /\ a \div m \in Int
OBVIOUS

\* A remainder is unique.
LEMMA ModuloUnique ==
  ASSUME NEW q \in Int, NEW k \in Int, NEW m \in Nat \ {0}, 0 <= k, k < m
  PROVE  (m * q + k) % m = k
<1> DEFINE a == m * q + k
           e == a \div m
<1>1. a \in Int /\ e \in Int /\ a % m \in 0 .. (m - 1) /\ a = m * e + (a % m)
  BY ModuloFacts
<1>2. m * (q - e) = (a % m) - k
  BY <1>1
<1>3. q - e < 1 /\ q - e > -1
  <2>1. ASSUME q - e >= 1 PROVE FALSE
    <3>1. m * (q - e) >= m
      BY <2>1, <1>1
    <3> QED BY <3>1, <1>1, <1>2
  <2>2. ASSUME q - e <= -1 PROVE FALSE
    <3>1. m * (q - e) <= -m
      BY <2>2, <1>1
    <3> QED BY <3>1, <1>1, <1>2
  <2> QED BY <2>1, <2>2, <1>1
<1>4. q = e
  BY <1>3, <1>1
<1> QED BY <1>1, <1>4

\* BlockSize does not wrap for the sizes callers ask for.
LEMMA BlockSizeExact ==
  ASSUME NEW s \in Sizes
  PROVE  BlockSize(s) = HeaderSize + s + PageSize - 1 /\ BlockSize(s) \in Nat \ {0}
<1> DEFINE n == HeaderSize + s + (PageSize - 1)
<1>1. n \in Nat /\ n < Word /\ Word \in Nat \ {0} /\ n > 0
  BY MemAssumption DEF MemAssumption
<1>2. (Word * 0 + n) % Word = n
  BY <1>1, ModuloUnique
<1>3. n % Word = n
  BY <1>1, <1>2
<1> QED BY <1>1, <1>3, MemAssumption DEF BlockSize, MemAssumption

\* A block that starts on a page puts the caller's buffer on the next page.
LEMMA UserBaseNextPage ==
  ASSUME NEW b \in Nat, b % PageSize = 0
  PROVE  UserBase(b) = b + PageSize /\ UserBase(b) % PageSize = 0
<1> DEFINE q == b \div PageSize
           u == b + HeaderSize + (PageSize - 1)
<1>1. PageSize \in Nat \ {0} /\ HeaderSize \in Nat \ {0} /\ HeaderSize < PageSize
  BY MemAssumption DEF MemAssumption
<1>2. q \in Int /\ b = PageSize * q
  BY <1>1, ModuloFacts
<1>3. u = PageSize * (q + 1) + (HeaderSize - 1)
  BY <1>1, <1>2
<1>4. (PageSize * (q + 1) + (HeaderSize - 1)) % PageSize = HeaderSize - 1
  <2>1. \A i, k \in Int : 0 <= k /\ k < PageSize => (PageSize * i + k) % PageSize = k
    BY <1>1, ModuloUnique
  <2>2. q + 1 \in Int /\ HeaderSize - 1 \in Int /\ 0 <= HeaderSize - 1
        /\ HeaderSize - 1 < PageSize
    BY <1>1, <1>2
  <2> HIDE DEF q
  <2> QED BY <2>1, <2>2, Zenon
<1>5. UserBase(b) = b + PageSize
  BY <1>1, <1>3, <1>4 DEF UserBase
<1>6. b + PageSize = PageSize * (q + 1) + 0
  BY <1>1, <1>2
<1>7. (PageSize * (q + 1) + 0) % PageSize = 0
  BY <1>1, <1>2, ModuloUnique
<1> QED BY <1>5, <1>6, <1>7

-------------------------------------------------------------------------------
(* Type correctness. *)

\* The allocator's variables keep their types: the counters stay in the range of
\* a UINT64 although OpteeClientMemFree may count them down below zero.
THEOREM TypeCorrect == MemSpec => []TypeOK
<1>1. MemInit => TypeOK
  BY MemAssumption DEF MemInit, TypeOK, MemAssumption, Cells, Garbage
<1>2. TypeOK /\ [MemNext]_memVars => TypeOK'
  <2> SUFFICES ASSUME TypeOK, [MemNext]_memVars PROVE TypeOK'
    OBVIOUS
  <2> USE DEF TypeOK
  <2>0. /\ Shm \subseteq Nat
        /\ Fence \in Cells /\ Data \in Cells /\ Zero \in Cells
        /\ Word \in Nat \ {0} /\ ShmStart \in Nat /\ ShmSize \in Nat
    BY MemAssumption DEF MemAssumption, Shm, Cells, ShmEnd
  <2>1. ASSUME NEW b, NEW n, MarkSharedMemoryRegionAsFree(b, n) PROVE mem' \in [Shm -> Cells]
    BY <2>0, <2>1 DEF MarkSharedMemoryRegionAsFree
  <2>2. \A x \in Int : x % Word \in 0 .. (Word - 1)
    BY <2>0, ModuloFacts
  <2>3. ASSUME NEW i \in Images, OpteeClientMemInit(i) PROVE TypeOK'
    <3>1. mem' \in [Shm -> Cells]
      BY <2>1, <2>3 DEF OpteeClientMemInit, GcdSharedMemoryInit
    <3>2. gcdAlloc' \subseteq [base : Nat, size : Nat]
      BY <2>0, <2>3 DEF OpteeClientMemInit, GcdSharedMemoryInit
    <3> QED BY <2>3, <3>1, <3>2 DEF OpteeClientMemInit, GcdSharedMemoryInit
  <2>4. ASSUME NEW i \in Images, OpteeClientMemFinalize(i) PROVE TypeOK'
    BY <2>4 DEF OpteeClientMemFinalize, poolVars
  <2>5. ASSUME NEW i \in Images, NEW s \in Sizes, NEW al \in Alignments,
               OpteeClientAlignedMemAlloc(i, s, al)
        PROVE  TypeOK'
    <3>0. s \in Nat /\ BlockSize(s) \in Nat
      BY BlockSizeExact, MemAssumption DEF MemAssumption
    <3>1. ASSUME NEW b \in Shm, AllocOk(i, s, al, b) PROVE TypeOK'
      <4>0. b \in Nat /\ b % PageSize = 0
        BY <2>0, <3>1 DEF AllocOk, GcdFree
      <4>1. UserBase(b) \in Nat
        <5>1. UserBase(b) = b + PageSize
          BY <4>0, UserBaseNextPage
        <5> QED BY <4>0, <5>1, MemAssumption DEF MemAssumption
      <4>2. Header(b, BlockSize(s)) \in Cells
        BY <4>0, <3>0 DEF Header, Cells, Headers
      <4>3. mem' \in [Shm -> Cells]
        BY <2>0, <3>1, <4>2 DEF AllocOk
      <4>4. allocCount' \in [Images -> 0 .. (Word - 1)]
        <5>1. allocCount[i] + 1 \in Int
          OBVIOUS
        <5>2. (allocCount[i] + 1) % Word \in 0 .. (Word - 1)
          BY <2>2, <5>1
        <5> QED BY <3>1, <5>2 DEF AllocOk
      <4>5. allocSize' \in [Images -> 0 .. (Word - 1)]
        <5>1. allocSize[i] + BlockSize(s) \in Int
          BY <3>0
        <5>2. (allocSize[i] + BlockSize(s)) % Word \in 0 .. (Word - 1)
          BY <2>2, <5>1
        <5> QED BY <3>1, <5>2 DEF AllocOk
      <4> QED BY <2>5, <3>0, <3>1, <4>0, <4>1, <4>3, <4>4, <4>5
              DEF AllocOk, OpteeClientAlignedMemAlloc
    <3>2. ASSUME NEW b \in Shm, AllocOverflowDetected(s, al, b) PROVE TypeOK'
      BY <2>0, <2>5, <3>0, <3>2 DEF AllocOverflowDetected, OpteeClientAlignedMemAlloc
    <3>3. CASE AllocRefused(s, al)
      BY <2>5, <3>3 DEF AllocRefused, poolVars, OpteeClientAlignedMemAlloc
    <3> QED BY <2>5, <3>1, <3>2, <3>3 DEF OpteeClientAlignedMemAlloc
  <2>6. ASSUME NEW i \in Images, NEW p \in UserPointers, OpteeClientMemFree(i, p) PROVE TypeOK'
    <3>1. CASE FreeInvalid(p)
      BY <2>6, <3>1 DEF FreeInvalid, poolVars, OpteeClientMemFree
    <3>2. CASE FreeGcdError(p)
      <4>1. mem' \in [Shm -> Cells]
        BY <2>1, <3>2 DEF FreeGcdError
      <4> QED BY <2>6, <3>2, <4>1 DEF FreeGcdError, OpteeClientMemFree
    <3>3. CASE FreeOk(i, p)
      <4>1. mem' \in [Shm -> Cells]
        BY <2>1, <3>3 DEF FreeOk
      <4>2. RangeAt(p).size \in Nat
        BY <3>3 DEF FreeOk
      <4>3. allocCount' \in [Images -> 0 .. (Word - 1)]
        <5>1. allocCount[i] - 1 \in Int
          OBVIOUS
        <5>2. (allocCount[i] - 1) % Word \in 0 .. (Word - 1)
          BY <2>2, <5>1
        <5> QED BY <3>3, <5>2 DEF FreeOk
      <4>4. allocSize' \in [Images -> 0 .. (Word - 1)]
        <5>1. allocSize[i] - RangeAt(p).size \in Int
          BY <4>2
        <5>2. (allocSize[i] - RangeAt(p).size) % Word \in 0 .. (Word - 1)
          BY <2>2, <5>1
        <5> QED BY <3>3, <5>2 DEF FreeOk
      <4> QED BY <2>6, <3>3, <4>1, <4>3, <4>4 DEF FreeOk, OpteeClientMemFree
    <3> QED BY <2>6, <3>1, <3>2, <3>3 DEF OpteeClientMemFree
  <2>7. ASSUME NEW h \in held, UseBuffer(h) PROVE TypeOK'
    BY <2>0, <2>7 DEF UseBuffer
  <2>8. ASSUME NEW h \in held, Overrun(h) PROVE TypeOK'
    BY <2>0, <2>8, MemAssumption DEF Overrun, MemAssumption
  <2>9. CASE UNCHANGED memVars
    BY <2>9 DEF memVars, poolVars
  <2> QED BY <2>3, <2>4, <2>5, <2>6, <2>7, <2>8, <2>9 DEF MemNext
<1> QED BY <1>1, <1>2, PTL DEF MemSpec

-------------------------------------------------------------------------------
(* The inductive invariant behind NoOverlap and HeadersMatchHeld.            *)

\* Nothing is allocated before the range is in the GCD map.
PhaseInv ==
  /\ gcdType = "NonExistent" => held = {} /\ gcdAlloc = {}
  /\ \A i \in Images : status[i] = "ready" => gcdType = "Reserved"

\* The ranges the GCD holds lie in the block and do not overlap.
GcdInv ==
  \A r \in gcdAlloc :
    /\ ShmStart <= r.base /\ r.base + r.size <= ShmEnd
    /\ \A s \in gcdAlloc : r = s \/ Apart(r, s)

\* Every held buffer starts one page into a range of its own.
HeldInv ==
  \A h \in held :
    /\ h.size \in Sizes
    /\ h.user = h.base + PageSize
    /\ h.user % PageSize = 0
    /\ BlockOf(h) \in gcdAlloc
    /\ \A g \in held : g = h \/ Apart(BlockOf(g), BlockOf(h))

MemInv == TypeOK /\ PhaseInv /\ GcdInv /\ HeldInv /\ HeadersMatchHeld

\* Where a held buffer, its header and its block lie.
LEMMA HeldLayout ==
  ASSUME MemInv, NEW h \in held
  PROVE  /\ h.user \in Nat /\ h.base \in Nat /\ h.size \in Nat
         /\ h.user = h.base + PageSize
         /\ BlockOf(h).base = h.base
         /\ BlockOf(h).size = HeaderSize + h.size + PageSize - 1
         /\ BlockSize(h.size) = HeaderSize + h.size + PageSize - 1
         /\ h.user - HeaderSize \in Shm
         /\ ShmStart <= h.base
         /\ h.base + BlockSize(h.size) <= ShmEnd
<1>1. h.size \in Sizes /\ h.user = h.base + PageSize /\ BlockOf(h) \in gcdAlloc
  BY DEF MemInv, HeldInv
<1>2. h.user \in Nat /\ h.base \in Nat /\ h.size \in Nat
  BY DEF MemInv, TypeOK
<1>3. BlockSize(h.size) = HeaderSize + h.size + PageSize - 1
  BY <1>1, BlockSizeExact
<1>4. ShmStart <= BlockOf(h).base /\ BlockOf(h).base + BlockOf(h).size <= ShmEnd
  BY <1>1 DEF MemInv, GcdInv
<1> QED BY <1>1, <1>2, <1>3, <1>4, MemAssumption DEF BlockOf, MemAssumption, Shm, ShmEnd

\* The invariant gives NoOverlap.
LEMMA MemInvNoOverlap ==
  MemInv => NoOverlap
<1> SUFFICES ASSUME MemInv, NEW h \in held
             PROVE  /\ Span(h.user - HeaderSize, HeaderSize + h.size) \subseteq Shm
                    /\ Span(h.user - HeaderSize, HeaderSize + h.size)
                         \subseteq Span(h.base, BlockSize(h.size))
                    /\ \A g \in held : g = h \/ Apart(BlockOf(g), BlockOf(h))
  BY DEF NoOverlap
<1>1. \A g \in held : g = h \/ Apart(BlockOf(g), BlockOf(h))
  BY DEF MemInv, HeldInv
<1> QED BY <1>1, HeldLayout, MemAssumption DEF Span, MemAssumption, Shm, ShmEnd

\* A header that OpteeClientMemFree accepts belongs to a held buffer, and names
\* that buffer's range.
LEMMA HeaderOwner ==
  ASSUME MemInv, NEW p \in UserPointers, HeaderAt(p).kind = "header"
  PROVE  \E h \in held : h.user = p /\ RangeAt(p) = BlockOf(h)
<1>1. p - HeaderSize \in Shm /\ p \in Int
  BY MemAssumption DEF UserPointers, MemAssumption, Shm, ShmEnd
<1>2. PICK h \in held : p - HeaderSize = h.user - HeaderSize
  BY <1>1 DEF MemInv, HeadersMatchHeld, HeaderAt
<1>3. h.user = p
  BY <1>1, <1>2, HeldLayout, MemAssumption DEF MemAssumption
<1>4. HeaderAt(p) = Header(h.base, BlockSize(h.size))
  BY <1>3 DEF MemInv, HeadersMatchHeld
<1> QED BY <1>3, <1>4 DEF RangeAt, Header, BlockOf

\* Every step of the allocator and its clients keeps the invariant; type
\* correctness is TypeCorrect's and is assumed of both states here.
LEMMA MemInvStep ==
  ASSUME MemInv, TypeOK', [MemNext]_memVars
  PROVE  MemInv'
<1> USE DEF MemInv
<1>0. /\ PageSize \in Nat \ {0} /\ HeaderSize \in Nat \ {0} /\ HeaderSize < PageSize
      /\ ShmStart \in Nat /\ ShmSize \in Nat \ {0} /\ ShmEnd = ShmStart + ShmSize
      /\ Shm \subseteq Nat /\ Sizes \subseteq Nat
      /\ \A a : a \in Shm <=> a \in Int /\ ShmStart <= a /\ a < ShmEnd
  BY MemAssumption DEF MemAssumption, Shm, ShmEnd
<1>1. ASSUME NEW i \in Images, OpteeClientMemInit(i) PROVE MemInv'
  <2>1. CASE UNCHANGED <<gcdType, gcdAlloc, mem>> /\ (status'[i] = "ready" => gcdType = "Reserved")
    BY <1>1, <2>1 DEF OpteeClientMemInit, GcdSharedMemoryInit, TypeOK, PhaseInv, GcdInv, HeldInv, HeadersMatchHeld,
                      HeaderAt
  <2>2. CASE gcdType = "NonExistent" /\ gcdType' = "Reserved"
    <3>1. held = {} /\ held' = {} /\ gcdAlloc = {}
      BY <1>1, <2>2 DEF OpteeClientMemInit, PhaseInv
    <3>2. gcdAlloc' = {} \/ gcdAlloc' = {[base |-> ShmStart, size |-> ShmSize]}
      BY <1>1, <2>2, <3>1 DEF OpteeClientMemInit, GcdSharedMemoryInit
    <3>3. GcdInv'
      BY <1>0, <3>2 DEF GcdInv, Apart
    <3>4. \A a \in Shm : mem'[a].kind # "header"
      BY <1>0, <1>1, <2>2, <3>1
         DEF OpteeClientMemInit, GcdSharedMemoryInit, MarkSharedMemoryRegionAsFree,
             Span, HeadersMatchHeld, Fence
    <3> QED BY <2>2, <3>1, <3>3, <3>4 DEF PhaseInv, HeldInv, HeadersMatchHeld
  <2> QED BY <1>1, <2>1, <2>2 DEF OpteeClientMemInit, GcdSharedMemoryInit, TypeOK
<1>2. ASSUME NEW i \in Images, OpteeClientMemFinalize(i) PROVE MemInv'
  BY <1>2 DEF OpteeClientMemFinalize, poolVars, TypeOK, PhaseInv, GcdInv, HeldInv,
              HeadersMatchHeld, HeaderAt
<1>3. ASSUME NEW i \in Images, NEW s \in Sizes, NEW al \in Alignments,
             OpteeClientAlignedMemAlloc(i, s, al)
      PROVE  MemInv'
  <2> DEFINE n == BlockSize(s)
  <2>0. n = HeaderSize + s + PageSize - 1 /\ n \in Nat \ {0} /\ s \in Nat
    BY <1>0, BlockSizeExact
  <2> HIDE DEF n
  <2>1. ASSUME NEW b \in Shm, b \in GcdFree(n),
               gcdAlloc' = gcdAlloc \cup {[base |-> b, size |-> n]}
        PROVE  GcdInv'
    BY <1>0, <2>0, <2>1 DEF GcdFree, GcdInv, Apart, TypeOK
  <2>2. PhaseInv'
    BY <1>3 DEF OpteeClientAlignedMemAlloc, AllocOk, AllocOverflowDetected, AllocRefused,
                PhaseInv, poolVars
  <2>3. ASSUME NEW b \in Shm, AllocOk(i, s, al, b) PROVE MemInv'
    <3> DEFINE h == [user |-> UserBase(b), size |-> s, base |-> b]
               p == b + PageSize
    <3>0. /\ b \in GcdFree(n) /\ b \in Nat /\ b % PageSize = 0
          /\ b + n <= ShmEnd /\ ShmStart <= b
          /\ \A r \in gcdAlloc : Apart([base |-> b, size |-> n], r)
      BY <1>0, <2>3 DEF AllocOk, GcdFree, n
    <3>1. UserBase(b) = p /\ p % PageSize = 0
      BY <3>0, UserBaseNextPage
    <3>2. held' = held \cup {h} /\ gcdAlloc' = gcdAlloc \cup {[base |-> b, size |-> n]}
      BY <2>3 DEF AllocOk, n
    <3>3. BlockOf(h) = [base |-> b, size |-> n]
      BY DEF BlockOf, n
    <3>4. HeldInv'
      <4>1. \A g \in held : Apart(BlockOf(g), BlockOf(h)) /\ Apart(BlockOf(h), BlockOf(g))
        BY <3>0, <3>3 DEF HeldInv, Apart
      <4>2. /\ h.size \in Sizes /\ h.user = h.base + PageSize /\ h.user % PageSize = 0
            /\ BlockOf(h) \in gcdAlloc'
        BY <3>1, <3>2, <3>3
      <4> QED BY <3>2, <4>1, <4>2 DEF HeldInv, BlockOf
    <3>5. mem' = [a \in Shm |-> IF a = p - HeaderSize THEN Header(b, n)
                                ELSE IF a \in Span(p - HeaderSize, HeaderSize) THEN Zero
                                ELSE mem[a]]
      BY <2>3, <3>1 DEF AllocOk, n
    <3>6. p - HeaderSize \in Shm
      BY <1>0, <2>0, <3>0
    <3>7. \A g \in held : /\ g.user - HeaderSize \in Shm
                          /\ g.user - HeaderSize \notin Span(p - HeaderSize, HeaderSize)
      <4> TAKE g \in held
      <4>1. Apart(BlockOf(h), BlockOf(g))
        BY <3>0, <3>3 DEF HeldInv
      <4> QED BY <1>0, <2>0, <3>0, <3>3, <4>1, HeldLayout DEF Apart, Span
    <3>8. \A g \in held' : mem'[g.user - HeaderSize] = Header(g.base, BlockSize(g.size))
      <4>1. ASSUME NEW g \in held
            PROVE  mem'[g.user - HeaderSize] = Header(g.base, BlockSize(g.size))
        <5>1. mem'[g.user - HeaderSize] = mem[g.user - HeaderSize]
          BY <1>0, <3>0, <3>5, <3>7 DEF Span
        <5> QED BY <5>1 DEF HeadersMatchHeld, HeaderAt
      <4>2. mem'[h.user - HeaderSize] = Header(h.base, BlockSize(h.size))
        BY <3>1, <3>5, <3>6 DEF n
      <4> QED BY <3>2, <4>1, <4>2
    <3>9. ASSUME NEW a \in Shm, mem'[a].kind = "header"
          PROVE  \E g \in held' : a = g.user - HeaderSize
      <4>1. CASE a = p - HeaderSize
        <5>1. h \in held' /\ h.user = p
          BY <3>1, <3>2
        <5> QED BY <4>1, <5>1
      <4>2. CASE a # p - HeaderSize
        <5>1. mem[a].kind = "header"
          BY <3>5, <3>9, <4>2 DEF Zero
        <5> QED BY <3>2, <5>1 DEF HeadersMatchHeld
      <4> QED BY <4>1, <4>2
    <3>10. HeadersMatchHeld'
      BY <3>8, <3>9 DEF HeadersMatchHeld, HeaderAt
    <3> QED BY <2>1, <2>2, <3>0, <3>2, <3>4, <3>10
  <2>4. ASSUME NEW b \in Shm, AllocOverflowDetected(s, al, b) PROVE MemInv'
    <3>1. GcdInv'
      BY <2>1, <2>4 DEF AllocOverflowDetected, n
    <3>2. HeldInv' /\ HeadersMatchHeld'
      BY <2>4 DEF AllocOverflowDetected, HeldInv, HeadersMatchHeld, HeaderAt
    <3> QED BY <2>2, <3>1, <3>2
  <2>5. CASE AllocRefused(s, al)
    BY <2>2, <2>5 DEF AllocRefused, poolVars, GcdInv, HeldInv, HeadersMatchHeld, HeaderAt
  <2> QED BY <1>3, <2>3, <2>4, <2>5 DEF OpteeClientAlignedMemAlloc
<1>4. ASSUME NEW i \in Images, NEW p \in UserPointers, OpteeClientMemFree(i, p) PROVE MemInv'
  <2>0. PhaseInv'
    BY <1>4 DEF OpteeClientMemFree, FreeInvalid, FreeGcdError, FreeOk, PhaseInv, poolVars
  <2>1. CASE FreeInvalid(p)
    BY <2>0, <2>1 DEF FreeInvalid, poolVars, GcdInv, HeldInv, HeadersMatchHeld, HeaderAt
  <2>2. CASE FreeGcdError(p) \/ FreeOk(i, p)
    <3>1. HeaderAt(p).kind = "header"
      BY <2>2 DEF FreeGcdError, FreeOk
    <3>2. PICK h \in held : h.user = p /\ RangeAt(p) = BlockOf(h)
      BY <3>1, HeaderOwner
    <3>3. /\ held' = {g \in held : g.user # p}
          /\ mem' = [a \in Shm |-> IF a \in Span(BlockOf(h).base, BlockOf(h).size) THEN Fence
                                   ELSE mem[a]]
          /\ gcdAlloc' = gcdAlloc \/ gcdAlloc' = gcdAlloc \ {BlockOf(h)}
      BY <2>2, <3>2 DEF FreeGcdError, FreeOk, MarkSharedMemoryRegionAsFree
    <3>4. GcdInv'
      BY <3>3 DEF GcdInv
    <3>5. \A g \in held' : g \in held /\ Apart(BlockOf(g), BlockOf(h)) /\ BlockOf(g) # BlockOf(h)
      <4> TAKE g \in held'
      <4>1. g \in held /\ g # h
        BY <3>2, <3>3
      <4>2. Apart(BlockOf(g), BlockOf(h))
        BY <4>1 DEF HeldInv
      <4> QED BY <1>0, <4>1, <4>2, HeldLayout DEF Apart
    <3>6. HeldInv'
      BY <3>3, <3>5 DEF HeldInv, BlockOf
    <3>7. \A g \in held' : mem'[g.user - HeaderSize] = Header(g.base, BlockSize(g.size))
      <4> TAKE g \in held'
      <4>1. g.user - HeaderSize \in Shm
        BY <3>5, HeldLayout
      <4>2. g.user - HeaderSize \notin Span(BlockOf(h).base, BlockOf(h).size)
        BY <1>0, <3>5, HeldLayout DEF Apart, Span
      <4>3. mem'[g.user - HeaderSize] = mem[g.user - HeaderSize]
        BY <3>3, <4>1, <4>2
      <4> QED BY <3>5, <4>3 DEF HeadersMatchHeld, HeaderAt
    <3>8. ASSUME NEW a \in Shm, mem'[a].kind = "header"
          PROVE  \E g \in held' : a = g.user - HeaderSize
      <4>1. a \notin Span(BlockOf(h).base, BlockOf(h).size) /\ mem[a].kind = "header"
        BY <3>3, <3>8 DEF Fence
      <4>2. PICK g \in held : a = g.user - HeaderSize
        BY <4>1 DEF HeadersMatchHeld
      <4>3. g # h
        BY <1>0, <4>1, <4>2, HeldLayout DEF Span
      <4>4. Apart(BlockOf(g), BlockOf(h))
        BY <4>3 DEF HeldInv
      <4>5. g.user # p
        BY <1>0, <3>2, <4>4, HeldLayout DEF Apart
      <4> QED BY <3>3, <4>2, <4>5
    <3>9. HeadersMatchHeld'
      BY <3>7, <3>8 DEF HeadersMatchHeld, HeaderAt
    <3> QED BY <2>0, <3>4, <3>6, <3>9
  <2> QED BY <1>4, <2>1, <2>2 DEF OpteeClientMemFree
<1>5. ASSUME NEW h \in held, NEW a \in Shm, mem' = [mem EXCEPT ![a] = Data],
             a = h.base + BlockSize(h.size)
      PROVE  \A g \in held : g.user - HeaderSize # a
  <2> TAKE g \in held
  <2>1. CASE g = h
    BY <1>0, <1>5, <2>1, HeldLayout
  <2>2. CASE g # h
    <3>1. Apart(BlockOf(g), BlockOf(h))
      BY <2>2 DEF HeldInv
    <3> QED BY <1>0, <1>5, <3>1, HeldLayout DEF Apart
  <2> QED BY <2>1, <2>2
<1>6. ASSUME NEW h \in held
      PROVE  \A g \in held : g.user - HeaderSize \notin UserCells(h)
  <2> TAKE g \in held
  <2>1. g = h \/ Apart(BlockOf(g), BlockOf(h))
    BY DEF HeldInv
  <2> QED BY <1>0, <2>1, HeldLayout DEF Apart, UserCells, Span
<1>7. ASSUME NEW C, \A g \in held : g.user - HeaderSize \notin C,
             mem' = [a \in Shm |-> IF a \in C THEN Data ELSE mem[a]], UNCHANGED held
      PROVE  HeadersMatchHeld'
  <2>1. \A g \in held : mem'[g.user - HeaderSize] = mem[g.user - HeaderSize]
    BY <1>7, HeldLayout
  <2>2. \A a \in Shm : mem'[a].kind = "header" => mem[a].kind = "header"
    BY <1>7 DEF Data
  <2> QED BY <1>7, <2>1, <2>2 DEF HeadersMatchHeld, HeaderAt
<1>8. ASSUME NEW h \in held, UseBuffer(h) PROVE MemInv'
  <2>1. HeadersMatchHeld'
    BY <1>6, <1>7, <1>8 DEF UseBuffer
  <2> QED BY <1>8, <2>1 DEF UseBuffer, PhaseInv, GcdInv, HeldInv
<1>9. ASSUME NEW h \in held, Overrun(h) PROVE MemInv'
  <2> DEFINE c == h.base + BlockSize(h.size)
  <2>1. c \in Shm /\ mem' = [mem EXCEPT ![c] = Data] /\ UNCHANGED held
    BY <1>9 DEF Overrun
  <2>2. mem' = [a \in Shm |-> IF a \in {c} THEN Data ELSE mem[a]]
    BY <2>1 DEF TypeOK
  <2>3. \A g \in held : g.user - HeaderSize \notin {c}
    BY <1>5, <2>1
  <2> HIDE DEF c
  <2>4. HeadersMatchHeld'
    BY <1>7, <2>1, <2>2, <2>3
  <2> QED BY <1>9, <2>4 DEF Overrun, PhaseInv, GcdInv, HeldInv
<1>10. CASE UNCHANGED memVars
  BY <1>10 DEF memVars, poolVars, PhaseInv, GcdInv, HeldInv, HeadersMatchHeld, HeaderAt
<1> QED BY <1>1, <1>2, <1>3, <1>4, <1>8, <1>9, <1>10 DEF MemNext

\* The invariant holds in every state of every behaviour.
LEMMA MemInvariant == MemSpec => []MemInv
<1>1. MemInit /\ TypeOK => MemInv
  BY DEF MemInit, MemInv, PhaseInv, GcdInv, HeldInv, HeadersMatchHeld, Garbage
<1> QED BY <1>1, TypeCorrect, MemInvStep, PTL DEF MemSpec

\* Buffers held at the same time never share memory, whatever is allocated and
\* freed in whatever order, freed twice, overrun, or refused by the GCD.
THEOREM NoOverlapHolds == MemSpec => []NoOverlap
BY MemInvariant, MemInvNoOverlap, PTL

\* The headers in shared memory are exactly those of the held buffers, so
\* OpteeClientMemFree always frees the range that was allocated.
THEOREM HeadersMatchHolds == MemSpec => []HeadersMatchHeld
<1>1. MemInv => HeadersMatchHeld
  BY DEF MemInv
<1> QED BY <1>1, MemInvariant, PTL

-------------------------------------------------------------------------------
(* The fence. *)

\* Before the range is in the GCD map nothing has been written to it.
FenceInv ==
  /\ gcdType = "NonExistent" => \A a \in Shm : mem[a] = Garbage
  /\ FenceCoversFree

\* A cell of a block, given by its distance from the start.
LEMMA BlockCells ==
  ASSUME MemInv, NEW h \in held, NEW a \in UserCells(h)
  PROVE  a \in Span(BlockOf(h).base, BlockOf(h).size)
BY HeldLayout, MemAssumption DEF UserCells, Span, MemAssumption

\* Every step keeps the fence over what is not allocated: a range is taken only
\* with the fence on it, and is filled with it before it is given back.
LEMMA FenceStep ==
  ASSUME MemInv, MemInv', FenceInv, [MemNext]_memVars
  PROVE  FenceInv'
<1> DEFINE Bare(a) == \A r \in gcdAlloc : a \notin Span(r.base, r.size)
           Unused == held = {} /\ \A a \in Shm : mem[a] = Garbage
           Fenced == \A a \in Shm : Bare(a) => mem[a] = Fence
<1>0. /\ {BlockOf(h) : h \in held} \subseteq gcdAlloc
      /\ {BlockOf(h) : h \in held'} \subseteq gcdAlloc'
  BY DEF MemInv, HeldInv, BlockOf
<1>1. /\ FenceCoversFree <=> (gcdType = "Reserved" /\ overruns = 0 => Unused \/ Fenced)
      /\ FenceCoversFree' <=> (gcdType' = "Reserved" /\ overruns' = 0 => Unused' \/ Fenced')
  BY <1>0, Zenon DEF FenceCoversFree
<1>2. gcdType \in {"NonExistent", "Reserved"} /\ overruns \in Nat /\ mem \in [Shm -> Cells]
  BY MemAssumption DEF MemInv, TypeOK, MemAssumption
<1>3. gcdType = "NonExistent" => held = {} /\ gcdAlloc = {}
  BY DEF MemInv, PhaseInv
<1>4. Garbage # Fence /\ Garbage.kind # "header" /\ Fence.kind # "header"
  BY DEF Garbage, Fence
<1>5. ASSUME NEW i \in Images, OpteeClientMemInit(i) PROVE FenceInv'
  <2>1. CASE gcdType' = gcdType /\ mem' = mem /\ gcdAlloc' = gcdAlloc
    BY <1>1, <1>5, <2>1 DEF FenceInv, OpteeClientMemInit
  <2>2. CASE gcdType = "NonExistent" /\ gcdType' = "Reserved" /\ mem' = mem
    BY <1>1, <1>3, <1>5, <2>2 DEF FenceInv, OpteeClientMemInit
  <2>3. CASE gcdType' = "Reserved" /\ MarkSharedMemoryRegionAsFree(ShmStart, ShmSize)
    <3>1. \A a \in Shm : mem'[a] = Fence
      BY <2>3, MemAssumption DEF MarkSharedMemoryRegionAsFree, Span, Shm, ShmEnd, MemAssumption
    <3> QED BY <1>1, <2>3, <3>1 DEF FenceInv
  <2> QED BY <1>5, <2>1, <2>2, <2>3 DEF OpteeClientMemInit, GcdSharedMemoryInit
<1>6. ASSUME NEW i \in Images, OpteeClientMemFinalize(i) PROVE FenceInv'
  BY <1>1, <1>6 DEF FenceInv, OpteeClientMemFinalize, poolVars
<1>7. ASSUME NEW i \in Images, NEW s \in Sizes, NEW al \in Alignments,
             OpteeClientAlignedMemAlloc(i, s, al)
      PROVE  FenceInv'
  <2>0. overruns' = overruns /\ gcdType = "Reserved"
    BY <1>7 DEF OpteeClientAlignedMemAlloc, MemInv, PhaseInv
  <2>1. ASSUME NEW b \in Shm, AllocOk(i, s, al, b) PROVE FenceInv'
    <3> DEFINE n == BlockSize(s)
               p == UserBase(b)
    <3>1. /\ b \in Nat /\ b + n <= ShmEnd /\ n \in Nat \ {0} /\ p = b + PageSize
          /\ n = HeaderSize + s + PageSize - 1 /\ s \in Nat
      BY <2>1, UserBaseNextPage, BlockSizeExact, MemAssumption DEF AllocOk, GcdFree, MemAssumption, Shm, ShmEnd
    <3>2. b \in Span(b, n) /\ ~Unused
      BY <2>1, <3>1, <1>4 DEF AllocOk, IsSharedMemoryRegionFree, Span
    <3>3. \A a \in Shm : a \notin Span(b, n) => mem'[a] = mem[a]
      BY <2>1, <3>1, MemAssumption DEF AllocOk, Span, Shm, MemAssumption
    <3>4. gcdAlloc' = gcdAlloc \cup {[base |-> b, size |-> n]} /\ gcdType' = gcdType
      BY <2>1 DEF AllocOk
    <3>5. overruns = 0 => Fenced'
      <4> SUFFICES ASSUME overruns = 0, NEW a \in Shm, Bare(a)' PROVE mem'[a] = Fence
        OBVIOUS
      <4>1. a \notin Span(b, n) /\ Bare(a)
        <5> DEFINE r == [base |-> b, size |-> n]
        <5>1. r \in gcdAlloc' /\ r.base = b /\ r.size = n /\ gcdAlloc \subseteq gcdAlloc'
          BY <3>4
        <5> HIDE DEF r
        <5> QED BY <5>1, Zenon
      <4>2. mem[a] = Fence
        BY <1>1, <2>0, <3>2, <4>1 DEF FenceInv
      <4> QED BY <3>3, <4>1, <4>2
    <3> QED BY <1>1, <2>0, <3>4, <3>5 DEF FenceInv
  <2>2. ASSUME NEW b \in Shm, AllocOverflowDetected(s, al, b) PROVE FenceInv'
    BY <1>1, <2>0, <2>2 DEF FenceInv, AllocOverflowDetected
  <2>3. CASE AllocRefused(s, al)
    BY <1>1, <2>0, <2>3 DEF FenceInv, AllocRefused, poolVars
  <2> QED BY <1>7, <2>1, <2>2, <2>3 DEF OpteeClientAlignedMemAlloc
<1>8. ASSUME NEW i \in Images, NEW p \in UserPointers, OpteeClientMemFree(i, p) PROVE FenceInv'
  <2>0. overruns' = overruns /\ gcdType = "Reserved" /\ gcdType' = gcdType
    BY <1>8 DEF OpteeClientMemFree, FreeInvalid, FreeGcdError, FreeOk, poolVars, MemInv, PhaseInv
  <2>1. CASE FreeInvalid(p)
    BY <1>1, <2>0, <2>1 DEF FenceInv, FreeInvalid, poolVars
  <2>2. CASE FreeGcdError(p) \/ FreeOk(i, p)
    <3>1. PICK h \in held : h.user = p /\ RangeAt(p) = BlockOf(h)
      BY <2>2, HeaderOwner DEF FreeGcdError, FreeOk
    <3>2. \A a \in Shm : mem'[a] = IF a \in Span(BlockOf(h).base, BlockOf(h).size) THEN Fence ELSE mem[a]
      BY <2>2, <3>1 DEF FreeGcdError, FreeOk, MarkSharedMemoryRegionAsFree
    <3>3. gcdAlloc' = gcdAlloc \/ gcdAlloc' = gcdAlloc \ {BlockOf(h)}
      BY <2>2, <3>1 DEF FreeGcdError, FreeOk
    <3>4. overruns = 0 => Fenced'
      <4> SUFFICES ASSUME overruns = 0, NEW a \in Shm, Bare(a)' PROVE mem'[a] = Fence
        OBVIOUS
      <4>1. CASE a \in Span(BlockOf(h).base, BlockOf(h).size)
        BY <3>2, <4>1
      <4>2. CASE a \notin Span(BlockOf(h).base, BlockOf(h).size)
        <5>1. Bare(a)
          BY <3>3, <4>2
        <5> QED BY <1>1, <2>0, <3>1, <3>2, <4>2, <5>1 DEF FenceInv
      <4> QED BY <4>1, <4>2
    <3> QED BY <1>1, <2>0, <3>4 DEF FenceInv
  <2> QED BY <1>8, <2>1, <2>2 DEF OpteeClientMemFree
<1>9. ASSUME NEW h \in held, UseBuffer(h) PROVE FenceInv'
  <2>1. BlockOf(h) \in gcdAlloc /\ gcdType # "NonExistent"
    BY <1>0, <1>3
  <2>2. \A a \in Shm : Bare(a) => mem'[a] = mem[a]
    BY <1>9, <2>1, BlockCells DEF UseBuffer
  <2> QED BY <1>1, <1>9, <2>1, <2>2 DEF FenceInv, UseBuffer
<1>10. ASSUME NEW h \in held, Overrun(h) PROVE FenceInv'
  BY <1>1, <1>2, <1>3, <1>10 DEF FenceInv, Overrun
<1>11. CASE UNCHANGED memVars
  BY <1>1, <1>11 DEF FenceInv, memVars, poolVars
<1> QED BY <1>5, <1>6, <1>7, <1>8, <1>9, <1>10, <1>11 DEF MemNext

\* While no client has overrun its block, what the GCD does not hold as allocated
\* carries the fence: InternalMemAlloc reports no overflow that did not happen.
THEOREM FenceHolds == MemSpec => []FenceCoversFree
<1>1. MemInit => FenceInv
  BY DEF MemInit, FenceInv, FenceCoversFree
<1>2. MemInv /\ MemInv' /\ FenceInv /\ [MemNext]_memVars => FenceInv'
  BY FenceStep
<1>3. FenceInv => FenceCoversFree
  BY DEF FenceInv
<1> QED BY <1>1, <1>2, <1>3, MemInvariant, PTL DEF MemSpec

-------------------------------------------------------------------------------
(* Isolation and refinement. *)

\* What a step may do to the bytes of a buffer that stays held: only its own
\* holder's write changes them.
LEMMA IsolationStep ==
  ASSUME MemInv, [MemNext]_memVars, NEW h \in held, h \in held', ~UseBuffer(h),
         NEW a \in UserCells(h)
  PROVE  mem'[a] = mem[a]
<1> USE DEF MemInv
<1>0. /\ PageSize \in Nat \ {0} /\ HeaderSize \in Nat \ {0} /\ HeaderSize < PageSize
      /\ ShmStart \in Nat /\ ShmSize \in Nat \ {0} /\ ShmEnd = ShmStart + ShmSize
      /\ Shm \subseteq Nat /\ Sizes \subseteq Nat
      /\ \A x : x \in Shm <=> x \in Int /\ ShmStart <= x /\ x < ShmEnd
  BY MemAssumption DEF MemAssumption, Shm, ShmEnd
<1>1. /\ a \in Shm /\ a \in Int /\ h.user <= a /\ a < h.user + h.size
      /\ h.base + PageSize <= a /\ a < h.base + BlockSize(h.size)
  BY <1>0, HeldLayout DEF UserCells, Span
<1>2. \A g \in held : g # h => Apart(BlockOf(g), BlockOf(h))
  BY DEF HeldInv
<1>3. ASSUME NEW i \in Images, OpteeClientMemInit(i) PROVE mem'[a] = mem[a]
  BY <1>3 DEF OpteeClientMemInit, GcdSharedMemoryInit, PhaseInv
<1>4. ASSUME NEW i \in Images, NEW s \in Sizes, NEW al \in Alignments,
             OpteeClientAlignedMemAlloc(i, s, al)
      PROVE  mem'[a] = mem[a]
  <2>1. ASSUME NEW b \in Shm, AllocOk(i, s, al, b) PROVE mem'[a] = mem[a]
    <3> DEFINE n == BlockSize(s)
    <3>1. n = HeaderSize + s + PageSize - 1 /\ n \in Nat \ {0} /\ s \in Nat
      BY <1>0, BlockSizeExact
    <3>2. Apart([base |-> b, size |-> n], BlockOf(h)) /\ b \in Nat /\ b % PageSize = 0
      BY <1>0, <2>1 DEF AllocOk, GcdFree, HeldInv
    <3>3. UserBase(b) = b + PageSize
      BY <3>2, UserBaseNextPage
    <3>4. mem' = [x \in Shm |-> IF x = UserBase(b) - HeaderSize THEN Header(b, n)
                                ELSE IF x \in Span(UserBase(b) - HeaderSize, HeaderSize) THEN Zero
                                ELSE mem[x]]
      BY <2>1 DEF AllocOk
    <3> HIDE DEF n
    <3>5. a \notin Span(UserBase(b) - HeaderSize, HeaderSize) /\ a # UserBase(b) - HeaderSize
      BY <1>0, <1>1, <3>1, <3>2, <3>3, HeldLayout DEF Apart, Span
    <3> QED BY <1>1, <3>4, <3>5
  <2> QED BY <1>4, <2>1 DEF OpteeClientAlignedMemAlloc, AllocOverflowDetected, AllocRefused, poolVars
<1>5. ASSUME NEW i \in Images, NEW p \in UserPointers, OpteeClientMemFree(i, p)
      PROVE  mem'[a] = mem[a]
  <2>1. CASE FreeInvalid(p)
    BY <2>1 DEF FreeInvalid, poolVars
  <2>2. CASE FreeGcdError(p) \/ FreeOk(i, p)
    <3>1. PICK g \in held : g.user = p /\ RangeAt(p) = BlockOf(g)
      BY <2>2, HeaderOwner DEF FreeGcdError, FreeOk
    <3>2. g # h
      BY <2>2, <3>1 DEF FreeGcdError, FreeOk
    <3>3. a \notin Span(BlockOf(g).base, BlockOf(g).size)
      BY <1>0, <1>1, <1>2, <3>2, HeldLayout DEF Apart, Span
    <3> QED BY <1>1, <2>2, <3>1, <3>3 DEF FreeGcdError, FreeOk, MarkSharedMemoryRegionAsFree
  <2> QED BY <1>5, <2>1, <2>2 DEF OpteeClientMemFree
<1>6. ASSUME NEW g \in held, UseBuffer(g) PROVE mem'[a] = mem[a]
  <2>1. a \notin UserCells(g)
    BY <1>0, <1>1, <1>2, <1>6, HeldLayout DEF Apart, UserCells, Span
  <2> QED BY <1>1, <1>6, <2>1 DEF UseBuffer
<1>7. ASSUME NEW g \in held, Overrun(g) PROVE mem'[a] = mem[a]
  <2>1. a # g.base + BlockSize(g.size)
    BY <1>0, <1>1, <1>2, HeldLayout DEF Apart
  <2> QED BY <1>1, <1>7, <2>1 DEF Overrun, TypeOK
<1>8. ASSUME NEW i \in Images, OpteeClientMemFinalize(i) PROVE mem'[a] = mem[a]
  BY <1>8 DEF OpteeClientMemFinalize, poolVars
<1> QED BY <1>3, <1>4, <1>5, <1>6, <1>7, <1>8 DEF MemNext, memVars, poolVars

\* A holder's bytes are its own as long as it holds the buffer.
THEOREM IsolationHolds == MemSpec => Isolation
<1>1. MemInv /\ [MemNext]_memVars =>
        [\A h \in held \cap held' :
           ~UseBuffer(h) => \A a \in UserCells(h) : mem'[a] = mem[a]]_memVars
  BY IsolationStep
<1> QED BY <1>1, MemInvariant, PTL DEF MemSpec, Isolation

\* The buffers as SharedPool sees them.
Live == {[base |-> h.user, size |-> h.size] : h \in held}

\* Every step of the allocator is a step of SharedPool, or changes no buffer.
LEMMA PoolStep ==
  ASSUME MemInv, MemInv', [MemNext]_memVars
  PROVE  Pool!PoolNext \/ UNCHANGED Live
<1>0. /\ PageSize \in Nat \ {0} /\ HeaderSize \in Nat \ {0} /\ HeaderSize < PageSize
      /\ ShmStart \in Nat /\ ShmSize \in Nat \ {0} /\ ShmEnd = ShmStart + ShmSize
      /\ Sizes \subseteq Nat
  BY MemAssumption DEF MemAssumption, ShmEnd
<1>1. ASSUME NEW i \in Images, NEW s \in Sizes, NEW al \in Alignments, NEW b \in Shm,
             AllocOk(i, s, al, b)
      PROVE  Pool!PoolNext
  <2> DEFINE h == [user |-> UserBase(b), size |-> s, base |-> b]
             x == [base |-> UserBase(b), size |-> s]
             n == BlockSize(s)
  <2>1. held' = held \cup {h}
    BY <1>1 DEF AllocOk
  <2>2. b \in Nat /\ b % PageSize = 0 /\ b + n <= ShmEnd /\ ShmStart <= b
    BY <1>0, <1>1 DEF AllocOk, GcdFree, Shm
  <2>3. UserBase(b) = b + PageSize /\ UserBase(b) % PageSize = 0
    BY <2>2, UserBaseNextPage
  <2>4. n = HeaderSize + s + PageSize - 1 /\ s \in Nat
    BY <1>0, BlockSizeExact
  <2>5. \A g \in held : Apart([base |-> b, size |-> n], BlockOf(g))
    BY <1>1 DEF AllocOk, GcdFree, MemInv, HeldInv
  <2> HIDE DEF n
  <2>6. Pool!Bytes(x) \subseteq ShmStart .. (ShmEnd - 1)
    BY <1>0, <2>2, <2>3, <2>4 DEF Pool!Bytes
  <2>7. \A c \in Live : Pool!Bytes(x) \cap Pool!Bytes(c) = {}
    <3> TAKE c \in Live
    <3>1. PICK g \in held : c = [base |-> g.user, size |-> g.size]
      BY DEF Live
    <3> QED BY <1>0, <2>2, <2>3, <2>4, <2>5, <3>1, HeldLayout DEF Pool!Bytes, Apart
  <2>8. Live' = Live \cup {x}
    <3>1. \A y : y \in Live' <=> \E g \in held' : y = [base |-> g.user, size |-> g.size]
      BY DEF Live
    <3>2. x = [base |-> h.user, size |-> h.size]
      OBVIOUS
    <3> HIDE DEF h, x
    <3>3. \A y : y \in Live' <=> y \in Live \/ y = x
      BY <2>1, <3>1, <3>2 DEF Live
    <3> QED BY <3>3
  <2>9. x \in [base : ShmStart .. ShmEnd, size : Sizes]
    BY <1>0, <2>2, <2>3, <2>4
  <2>10. Pool!PoolAlloc(x)
    BY <2>3, <2>6, <2>7, <2>8 DEF Pool!PoolAlloc, Live
  <2> QED BY <2>9, <2>10 DEF Pool!PoolNext
<1>2. ASSUME NEW p \in UserPointers, HeaderAt(p).kind = "header",
             held' = {g \in held : g.user # p}
      PROVE  Pool!PoolNext
  <2>1. PICK h \in held : h.user = p /\ RangeAt(p) = BlockOf(h)
    BY <1>2, HeaderOwner
  <2> DEFINE x == [base |-> h.user, size |-> h.size]
  <2>2. \A g \in held : g.user = p => g = h
    BY <1>0, <2>1, HeldLayout DEF MemInv, HeldInv, Apart
  <2>3. Live' = Live \ {x}
    BY <1>2, <2>1, <2>2 DEF Live
  <2>4. x \in Live /\ Pool!PoolFree(x)
    BY <2>3 DEF Live, Pool!PoolFree
  <2> QED BY <2>4 DEF Pool!PoolNext, Live
<1>3. ASSUME NEW i \in Images, NEW s \in Sizes, NEW al \in Alignments,
             OpteeClientAlignedMemAlloc(i, s, al)
      PROVE  Pool!PoolNext \/ UNCHANGED held
  BY <1>1, <1>3 DEF OpteeClientAlignedMemAlloc, AllocOverflowDetected, AllocRefused, poolVars
<1>4. ASSUME NEW i \in Images, NEW p \in UserPointers, OpteeClientMemFree(i, p)
      PROVE  Pool!PoolNext \/ UNCHANGED held
  BY <1>2, <1>4 DEF OpteeClientMemFree, FreeInvalid, FreeGcdError, FreeOk, poolVars
<1>5. Pool!PoolNext \/ UNCHANGED held
  BY <1>3, <1>4 DEF MemNext, OpteeClientMemInit, OpteeClientMemFinalize, UseBuffer, Overrun,
                    memVars, poolVars
<1> QED BY <1>5 DEF Live

\* OpteeClientMem implements SharedPool.
THEOREM PoolRefinement == MemSpec => ImplementsPool
<1>1. MemInit => Pool!PoolInit
  BY DEF MemInit, Pool!PoolInit
<1>2. MemInv /\ MemInv' /\ [MemNext]_memVars => [Pool!PoolNext]_Live
  BY PoolStep
<1> QED BY <1>1, <1>2, MemInvariant, PTL DEF MemSpec, ImplementsPool, Pool!PoolSpec, Live

-------------------------------------------------------------------------------
(* The calls. *)

Codes == {"none", "SUCCESS", "OUT_OF_MEMORY", "BAD_PARAMETERS", "BAD_STATE", "ITEM_NOT_FOUND",
          "NOT_SUPPORTED", "GENERIC", "NOT_IMPLEMENTED"}

Worlds  == {"normal", "secure"}
Arg0s   == {"CALL_WITH_ARG", "CALL_RETURN_FROM_RPC", "RPC", "OK", "UNKNOWN_FUNCTION", "ETHREAD_LIMIT"}
Results == {"none", "SUCCESS", "ACCESS_DENIED"}

FrameType ==
  [client : Clients, cmd : Calls, arg : Buffers, sid : Sessions \cup {Null}, world : Worlds,
   Arg0 : Arg0s, ptr : Buffers \cup {Null, "size"}, rpc : Funcs \cup {"none"},
   rpcCmd : Cmds \cup {"none"}, ret : Results, rpcRet : Codes, rpcs : Nat]

\* The values the code puts into the fields of a call.
LEMMA FrameValues ==
  /\ {"normal", "secure"} \subseteq Worlds /\ {"none", "SUCCESS", "ACCESS_DENIED"} \subseteq Results
  /\ {"CALL_WITH_ARG", "CALL_RETURN_FROM_RPC", "RPC", "OK", "UNKNOWN_FUNCTION", "ETHREAD_LIMIT"} \subseteq Arg0s
  /\ {"none", "SUCCESS", "BAD_PARAMETERS", "OUT_OF_MEMORY"} \subseteq Codes
BY DEF Worlds, Results, Arg0s, Codes

SmcTypeOK ==
  /\ live \subseteq Buffers /\ cached \subseteq Buffers /\ lost \subseteq Buffers
  /\ stack \in Seq(FrameType)
  /\ shm \in [Clients -> Buffers \cup {Null}]
  /\ session \in [Clients -> Sessions \cup {Null}]
  /\ holds \in [Clients -> {"no", "open", "refused"}]
  /\ teeOpen \subseteq Sessions

\* What the registers of a call say about the pointer in them: a request of OP-TEE
\* carries a buffer exactly when it gives one back.
RegistersOK(f) ==
  /\ f.rpcCmd # "none" => f.rpc = "CMD"
  /\ f.Arg0 = "RPC" => /\ f.world = "normal"
                       /\ f.ptr \in Buffers <=> f.rpc = "FREE" \/ f.rpcCmd = "SHM_FREE"

SmcRegisters == \A k \in 1 .. Len(stack) : RegistersOK(stack[k])

OwnerInv == SmcTypeOK /\ SmcRegisters /\ OneOwner

-------------------------------------------------------------------------------
(* The ways a buffer changes hands.                                          *)

\* Nothing happens to the memory.
LEMMA Untouched ==
  ASSUME OneOwner, UNCHANGED <<live, stack, Outside, shm>>, (cached \cap lost = {})'
  PROVE  OneOwner'
<1> DEFINE calls == UNION {CallBuffers(stack[k]) : k \in 1 .. Len(stack)}
<1>1. /\ live' = live /\ stack' = stack /\ Outside' = Outside /\ shm' = shm
      /\ ClientBuffers' = ClientBuffers
      /\ (UNION {CallBuffers(stack'[k]) : k \in 1 .. Len(stack')}) = calls
  BY DEF ClientBuffers
<1>2. live = calls \cup ClientBuffers \cup Outside
  BY DEF OneOwner
<1> HIDE DEF calls
<1> QED  BY <1>1, <1>2 DEF OneOwner

\* The call on top goes on: what it carries and what OP-TEE holds may only be traded
\* for each other, freed, or newly allocated.
LEMMA Handover ==
  ASSUME SmcTypeOK, OneOwner, stack # <<>>, NEW f \in FrameType, SetTop(f),
         f.arg = Top.arg, shm' = shm,
         live' = (live \ (InTransit(Top) \cup Outside)) \cup InTransit(f) \cup Outside',
         InTransit(f) \cap Outside' = {},
         (InTransit(f) \cup Outside') \cap (live \ (InTransit(Top) \cup Outside)) = {},
         (cached \cap lost = {})'
  PROVE  OneOwner'
<1> DEFINE N == Len(stack)
           rest == live \ (InTransit(Top) \cup Outside)
<1>1. /\ N \in Nat \ {0} /\ Len(stack') = N /\ stack'[N] = f /\ stack[N] = Top
      /\ \A k \in 1 .. N - 1 : stack'[k] = stack[k]
  BY StackSetTop DEF SetTop, SmcTypeOK, Top
<1>2. \A k \in 1 .. N : k = N \/ k \in 1 .. N - 1
  BY <1>1
<1>3. \A k \in 1 .. N - 1 : k \in 1 .. N /\ k # N
  BY <1>1
<1>4. N \in 1 .. N
  BY <1>1
<1> HIDE DEF N
<1>5. ClientBuffers' = ClientBuffers
  BY DEF ClientBuffers
<1>6. /\ live = (UNION {CallBuffers(stack[k]) : k \in 1 .. N}) \cup ClientBuffers \cup Outside
      /\ \A k, m \in 1 .. N : k # m => CallBuffers(stack[k]) \cap CallBuffers(stack[m]) = {}
      /\ \A k \in 1 .. N : /\ CallBuffers(stack[k]) \cap (ClientBuffers \cup Outside) = {}
                           /\ stack[k].arg \notin InTransit(stack[k])
      /\ ClientBuffers \cap Outside = {}
  BY DEF OneOwner, N
<1>7. CallBuffers(f) = {Top.arg} \cup InTransit(f) /\ CallBuffers(Top) = {Top.arg} \cup InTransit(Top)
  BY DEF CallBuffers
\* Nobody else held what is handed over.
<1>8. /\ \A k \in 1 .. N - 1 : CallBuffers(stack[k]) \subseteq rest
      /\ ClientBuffers \subseteq rest
      /\ Top.arg \in rest
  <2>1. ASSUME NEW k \in 1 .. N - 1, NEW b \in CallBuffers(stack[k])
        PROVE  b \in rest
    <3>1. k \in 1 .. N /\ k # N  BY <1>3
    <3>2. b \in live  BY <3>1, <1>6
    <3>3. b \notin CallBuffers(stack[N])  BY <3>1, <1>4, <1>6
    <3>4. b \notin Outside  BY <3>1, <1>6
    <3> QED  BY <3>2, <3>3, <3>4, <1>1, <1>7
  <2>2. ASSUME NEW b \in ClientBuffers
        PROVE  b \in rest
    BY <1>6, <1>4, <1>1, <1>7
  <2>3. Top.arg \in rest
    BY <1>6, <1>4, <1>1, <1>7
  <2> QED  BY <2>1, <2>2, <2>3
<1>9. rest \subseteq (UNION {CallBuffers(stack[k]) : k \in 1 .. N - 1}) \cup ClientBuffers \cup {Top.arg}
  BY <1>6, <1>1, <1>2, <1>7
<1>10. live' = (UNION {CallBuffers(stack'[k]) : k \in 1 .. N}) \cup ClientBuffers \cup Outside'
  <2>1. ASSUME NEW b \in live'
        PROVE  b \in (UNION {CallBuffers(stack'[k]) : k \in 1 .. N}) \cup ClientBuffers \cup Outside'
    <3>1. CASE b \in rest
      BY <3>1, <1>9, <1>1, <1>3, <1>4, <1>7
    <3>2. CASE b \in InTransit(f)
      BY <3>2, <1>1, <1>4, <1>7
    <3> QED  BY <2>1, <3>1, <3>2
  <2>2. ASSUME NEW k \in 1 .. N, NEW b \in CallBuffers(stack'[k])
        PROVE  b \in live'
    <3>1. CASE k = N
      BY <3>1, <2>2, <1>1, <1>7, <1>8
    <3>2. CASE k \in 1 .. N - 1
      BY <3>2, <2>2, <1>1, <1>8
    <3> QED  BY <3>1, <3>2, <1>2
  <2>3. ClientBuffers \subseteq live' /\ Outside' \subseteq live'
    BY <1>8
  <2> QED  BY <2>1, <2>2, <2>3
<1>11. ASSUME NEW k \in 1 .. N, NEW m \in 1 .. N, k # m
       PROVE  CallBuffers(stack'[k]) \cap CallBuffers(stack'[m]) = {}
  <2>1. ASSUME NEW i \in 1 .. N - 1
        PROVE  CallBuffers(stack'[i]) \cap CallBuffers(f) = {}
    <3>1. i \in 1 .. N /\ i # N /\ stack'[i] = stack[i]  BY <1>1, <1>3
    <3>2. Top.arg \notin CallBuffers(stack[i])  BY <3>1, <1>6, <1>4, <1>1, <1>7
    <3> QED  BY <3>1, <3>2, <1>7, <1>8
  <2>2. CASE k = N
    BY <2>2, <2>1, <1>2, <1>1, <1>11
  <2>3. CASE m = N
    BY <2>3, <2>1, <1>2, <1>1, <1>11
  <2>4. CASE k # N /\ m # N
    BY <2>4, <1>2, <1>1, <1>6, <1>11
  <2> QED  BY <2>2, <2>3, <2>4
<1>12. ASSUME NEW k \in 1 .. N
       PROVE  /\ CallBuffers(stack'[k]) \cap (ClientBuffers \cup Outside') = {}
              /\ stack'[k].arg \notin InTransit(stack'[k])
  <2>1. CASE k = N
    BY <2>1, <1>1, <1>4, <1>6, <1>7, <1>8
  <2>2. CASE k \in 1 .. N - 1
    BY <2>2, <1>1, <1>3, <1>6, <1>8
  <2> QED  BY <2>1, <2>2, <1>2
<1>13. ClientBuffers \cap Outside' = {}
  BY <1>8
<1>14. Len(stack') = N
  BY <1>1
<1> QED  BY <1>5, <1>10, <1>11, <1>12, <1>13, <1>14 DEF OneOwner

\* A new call takes a buffer that was free for its message.
LEMMA Pushed ==
  ASSUME SmcTypeOK, OneOwner, NEW f \in FrameType, stack' = Append(stack, f),
         f.arg \in Buffers \ live, live' = live \cup {f.arg}, InTransit(f) = {},
         UNCHANGED <<shm, Outside>>, (cached \cap lost = {})'
  PROVE  OneOwner'
<1> DEFINE N == Len(stack)
<1>1. /\ N \in Nat /\ Len(stack') = N + 1 /\ stack'[N + 1] = f
      /\ \A k \in 1 .. N : stack'[k] = stack[k]
  BY StackPush DEF SmcTypeOK
<1>2. /\ \A k \in 1 .. N + 1 : k = N + 1 \/ k \in 1 .. N
      /\ \A k \in 1 .. N : k \in 1 .. N + 1 /\ k # N + 1
      /\ N + 1 \in 1 .. N + 1
  BY <1>1
<1> DEFINE M == N + 1
<1> HIDE DEF N, M
<1>3. ClientBuffers' = ClientBuffers /\ Outside' = Outside
  BY DEF ClientBuffers
<1>4. /\ live = (UNION {CallBuffers(stack[k]) : k \in 1 .. N}) \cup ClientBuffers \cup Outside
      /\ \A k, m \in 1 .. N : k # m => CallBuffers(stack[k]) \cap CallBuffers(stack[m]) = {}
      /\ \A k \in 1 .. N : /\ CallBuffers(stack[k]) \cap (ClientBuffers \cup Outside) = {}
                           /\ stack[k].arg \notin InTransit(stack[k])
      /\ ClientBuffers \cap Outside = {}
  BY DEF OneOwner, N
<1>5. CallBuffers(f) = {f.arg}
  BY DEF CallBuffers
<1>6. /\ Len(stack') = M /\ stack'[M] = f
      /\ \A k \in 1 .. M : k = M \/ k \in 1 .. N
      /\ \A k \in 1 .. N : k \in 1 .. M /\ k # M
      /\ M \in 1 .. M
  BY <1>1, <1>2 DEF M
<1>7. live' = (UNION {CallBuffers(stack'[k]) : k \in 1 .. M}) \cup ClientBuffers \cup Outside
  BY <1>1, <1>4, <1>5, <1>6
<1>8. ASSUME NEW k \in 1 .. N
      PROVE  CallBuffers(stack'[k]) \cap CallBuffers(f) = {}
  BY <1>1, <1>4, <1>5
<1>9. \A k, m \in 1 .. M : k # m => CallBuffers(stack'[k]) \cap CallBuffers(stack'[m]) = {}
  <2> SUFFICES ASSUME NEW k \in 1 .. M, NEW m \in 1 .. M, k # m
               PROVE  CallBuffers(stack'[k]) \cap CallBuffers(stack'[m]) = {}
    OBVIOUS
  <2>1. CASE k = M
    <3>1. m \in 1 .. N
      BY <2>1, <1>6
    <3> QED  BY <2>1, <3>1, <1>6, <1>8
  <2>2. CASE m = M
    <3>1. k \in 1 .. N
      BY <2>2, <1>6
    <3> QED  BY <2>2, <3>1, <1>6, <1>8
  <2>3. CASE k \in 1 .. N /\ m \in 1 .. N
    <3>1. stack'[k] = stack[k] /\ stack'[m] = stack[m]
      BY <2>3, <1>1
    <3> QED  BY <2>3, <3>1, <1>4
  <2> QED  BY <2>1, <2>2, <2>3, <1>6
<1>10. ASSUME NEW k \in 1 .. M
       PROVE  /\ CallBuffers(stack'[k]) \cap (ClientBuffers \cup Outside) = {}
              /\ stack'[k].arg \notin InTransit(stack'[k])
  BY <1>1, <1>4, <1>5, <1>6
<1>11. Len(stack') = M
  BY <1>6
<1> QED  BY <1>3, <1>4, <1>7, <1>9, <1>10, <1>11 DEF OneOwner

\* A call that ends with nothing on its way frees its message, or gives it up.
LEMMA Popped ==
  ASSUME SmcTypeOK, OneOwner, stack # <<>>, Pop, InTransit(Top) = {}, shm' = shm,
         Outside \subseteq Outside', Outside' \subseteq Outside \cup {Top.arg},
         live' = (live \ {Top.arg}) \cup Outside', (cached \cap lost = {})'
  PROVE  OneOwner'
<1> DEFINE N == Len(stack)
           M == N - 1
<1>1. /\ N \in Nat \ {0} /\ Len(stack') = M /\ stack[N] = Top
      /\ \A k \in 1 .. M : stack'[k] = stack[k]
  BY StackPop DEF SmcTypeOK, Pop, Top
<1>2. /\ \A k \in 1 .. N : k = N \/ k \in 1 .. M
      /\ \A k \in 1 .. M : k \in 1 .. N /\ k # N
      /\ N \in 1 .. N
  BY <1>1
<1> HIDE DEF N, M
<1>3. ClientBuffers' = ClientBuffers
  BY DEF ClientBuffers
<1>4. /\ live = (UNION {CallBuffers(stack[k]) : k \in 1 .. N}) \cup ClientBuffers \cup Outside
      /\ \A k, m \in 1 .. N : k # m => CallBuffers(stack[k]) \cap CallBuffers(stack[m]) = {}
      /\ \A k \in 1 .. N : /\ CallBuffers(stack[k]) \cap (ClientBuffers \cup Outside) = {}
                           /\ stack[k].arg \notin InTransit(stack[k])
      /\ ClientBuffers \cap Outside = {}
  BY DEF OneOwner, N
<1>5. CallBuffers(stack[N]) = {Top.arg}
  BY <1>1 DEF CallBuffers
<1>6. Top.arg \notin ClientBuffers \cup Outside /\ \A k \in 1 .. M : Top.arg \notin CallBuffers(stack[k])
  BY <1>2, <1>4, <1>5
<1>7. live' = (UNION {CallBuffers(stack'[k]) : k \in 1 .. M}) \cup ClientBuffers \cup Outside'
  BY <1>1, <1>2, <1>4, <1>5, <1>6
<1>8. \A k, m \in 1 .. M : k # m => CallBuffers(stack'[k]) \cap CallBuffers(stack'[m]) = {}
  BY <1>1, <1>2, <1>4
<1>9. \A k \in 1 .. M : /\ CallBuffers(stack'[k]) \cap (ClientBuffers \cup Outside') = {}
                        /\ stack'[k].arg \notin InTransit(stack'[k])
  BY <1>1, <1>2, <1>4, <1>6
<1>10. ClientBuffers \cap Outside' = {}
  BY <1>4, <1>6
<1>11. Len(stack') = M
  BY <1>1
<1> QED  BY <1>3, <1>4, <1>7, <1>8, <1>9, <1>10, <1>11 DEF OneOwner

\* A client allocates a buffer that was free, or gives its own back.
LEMMA ClientsHold ==
  ASSUME SmcTypeOK, OneOwner, NEW c \in Clients, UNCHANGED <<stack, Outside>>, (cached \cap lost = {})',
         \/ /\ shm[c] = Null
            /\ \E b \in Buffers \ live : live' = live \cup {b} /\ shm' = [shm EXCEPT ![c] = b]
         \/ shm[c] # Null /\ live' = live \ {shm[c]} /\ shm' = [shm EXCEPT ![c] = Null]
  PROVE  OneOwner'
<1> DEFINE N == Len(stack)
           calls == UNION {CallBuffers(stack[k]) : k \in 1 .. N}
<1>1. /\ live = calls \cup ClientBuffers \cup Outside
      /\ \A k, m \in 1 .. N : k # m => CallBuffers(stack[k]) \cap CallBuffers(stack[m]) = {}
      /\ \A k \in 1 .. N : /\ CallBuffers(stack[k]) \cap (ClientBuffers \cup Outside) = {}
                           /\ stack[k].arg \notin InTransit(stack[k])
      /\ ClientBuffers \cap Outside = {}
      /\ \A d, e \in Clients : shm[d] = shm[e] /\ shm[d] # Null => d = e
  BY DEF OneOwner
<1>2. calls \cap ClientBuffers = {}
  BY <1>1
<1>3. shm \in [Clients -> Buffers \cup {Null}] /\ Null \notin Buffers
  BY SmcAssumption DEF SmcTypeOK
<1>4. /\ live' = calls \cup ClientBuffers' \cup Outside
      /\ calls \cap ClientBuffers' = {} /\ ClientBuffers' \cap Outside = {}
      /\ \A d, e \in Clients : shm'[d] = shm'[e] /\ shm'[d] # Null => d = e
  <2> HIDE DEF calls
  <2>0. ASSUME NEW x
        PROVE  /\ x \in ClientBuffers <=> x # Null /\ \E d \in Clients : shm[d] = x
               /\ x \in ClientBuffers' <=> x # Null /\ \E d \in Clients : shm'[d] = x
    BY DEF ClientBuffers
  <2>1. ASSUME shm[c] = Null, NEW b \in Buffers \ live, live' = live \cup {b},
               shm' = [shm EXCEPT ![c] = b]
        PROVE  <1>4
    <3>1. b # Null /\ shm'[c] = b /\ \A d \in Clients : d # c => shm'[d] = shm[d]
      BY <2>1, <1>3
    <3>2. ClientBuffers' = ClientBuffers \cup {b}
      BY <2>0, <2>1, <3>1
    <3>3. \A d \in Clients : shm[d] # b
      BY <2>0, <2>1, <3>1, <1>1
    <3> QED  BY <3>1, <3>2, <3>3, <2>1, <1>1, <1>2
  <2>2. ASSUME shm[c] # Null, live' = live \ {shm[c]}, shm' = [shm EXCEPT ![c] = Null]
        PROVE  <1>4
    <3>1. shm'[c] = Null /\ \A d \in Clients : d # c => shm'[d] = shm[d] /\ (shm[c] # shm[d])
      BY <2>2, <1>1, <1>3
    <3>2. ClientBuffers' = ClientBuffers \ {shm[c]}
      BY <2>0, <2>2, <3>1
    <3>3. shm[c] \in ClientBuffers
      BY <2>0, <2>2
    <3> QED  BY <3>1, <3>2, <3>3, <2>2, <1>1, <1>2
  <2> QED  BY <2>1, <2>2
<1>5. \A k \in 1 .. N : CallBuffers(stack[k]) \cap (ClientBuffers' \cup Outside) = {}
  BY <1>1, <1>4
<1>6. /\ stack' = stack /\ Outside' = Outside
      /\ (UNION {CallBuffers(stack'[k]) : k \in 1 .. Len(stack')}) = calls
  OBVIOUS
<1> HIDE DEF calls
<1> QED  BY <1>1, <1>4, <1>5, <1>6 DEF OneOwner

-------------------------------------------------------------------------------
\* A register update of the call on top keeps the types and the other calls' registers.
LEMMA TopUpdated ==
  ASSUME SmcTypeOK, SmcRegisters, stack # <<>>, NEW f \in FrameType, SetTop(f), RegistersOK(f)
  PROVE  stack' \in Seq(FrameType) /\ SmcRegisters'
<1> DEFINE N == Len(stack)
<1>1. /\ stack' \in Seq(FrameType)
      /\ N \in Nat \ {0} /\ Len(stack') = N /\ stack'[N] = f
      /\ \A k \in 1 .. N - 1 : stack'[k] = stack[k]
  BY StackSetTop DEF SetTop, SmcTypeOK
<1>2. \A k \in 1 .. N : k = N \/ k \in 1 .. N - 1
  BY <1>1
<1>3. \A k \in 1 .. N : RegistersOK(stack'[k])
  BY <1>1, <1>2 DEF SmcRegisters
<1> QED  BY <1>1, <1>3 DEF SmcRegisters

\* The frame with which the code answers an RPC.
Resumed(f) == [f EXCEPT !.Arg0 = "CALL_RETURN_FROM_RPC"]

\* A buffer a call frees or obtains for OP-TEE, or gives up, and the end of every RPC.
LEMMA RpcKeepsOwners ==
  ASSUME OwnerInv, OpteeRpcCallback
  PROVE  OwnerInv'
<1>0. /\ stack # <<>> /\ Top.world = "normal" /\ Top.Arg0 = "RPC"
      /\ UNCHANGED <<cached, shm, session, holds, teeOpen>> /\ SmcTypeOK /\ OneOwner /\ SmcRegisters
  BY DEF OpteeRpcCallback, Running, IsRpc, client, OwnerInv
<1>1. Top \in FrameType /\ RegistersOK(Top)
  BY <1>0, StackTop DEF SmcTypeOK, SmcRegisters, Top
<1>2. InTransit(Top) = IF Top.rpc = "FREE" \/ Top.rpcCmd = "SHM_FREE" THEN {Top.ptr} ELSE {}
  BY <1>0, <1>1 DEF InTransit, RegistersOK
<1>3. /\ InTransit(Top) \subseteq live /\ Outside \subseteq live /\ InTransit(Top) \cap Outside = {}
      /\ cached \cap lost = {} /\ live \subseteq Buffers /\ lost \subseteq Buffers
  <2>1. Len(stack) \in 1 .. Len(stack)
    BY <1>0, StackTop DEF SmcTypeOK
  <2> QED  BY <1>0, <2>1 DEF OneOwner, CallBuffers, Top, SmcTypeOK
\* What the RPC carried and what it carries now may be traded with OP-TEE and the lost.
<1>4. ASSUME NEW f \in FrameType, Resume(f), f.arg = Top.arg, f.rpc = Top.rpc, f.rpcCmd = Top.rpcCmd,
             f.world = Top.world, live' \subseteq Buffers, lost' \subseteq Buffers, cached \cap lost' = {},
             live' = (live \ (InTransit(Top) \cup Outside)) \cup InTransit(Resumed(f)) \cup Outside',
             InTransit(Resumed(f)) \cap Outside' = {},
             (InTransit(Resumed(f)) \cup Outside') \cap (live \ (InTransit(Top) \cup Outside)) = {}
      PROVE  OwnerInv'
  <2> DEFINE g == Resumed(f)
  <2>1. SetTop(g) /\ g \in FrameType /\ g.arg = Top.arg /\ RegistersOK(g)
    BY <1>4, <1>1, FrameValues DEF Resume, Resumed, FrameType, RegistersOK
  <2> HIDE DEF g
  <2>2. OneOwner'
    <3>1. (cached \cap lost = {})' /\ shm' = shm
      BY <1>4, <1>0
    <3> QED  BY <2>1, <3>1, <1>4, <1>0, Handover DEF g
  <2>3. stack' \in Seq(FrameType) /\ SmcRegisters'
    BY <2>1, <1>0, TopUpdated
  <2> QED  BY <2>2, <2>3, <1>4, <1>0 DEF OwnerInv, SmcTypeOK
\* With nothing to give back, the RPC may obtain a buffer for OP-TEE ...
<1>5. ASSUME NEW f \in FrameType, Resume(f), f.arg = Top.arg, f.rpc = Top.rpc, f.rpcCmd = Top.rpcCmd,
             f.world = Top.world, f.rpc # "FREE", f.rpcCmd # "SHM_FREE",
             f.rpc = "ALLOC" \/ (f.rpcCmd = "SHM_ALLOC" /\ f.rpcRet = "SUCCESS"),
             NEW b \in Buffers, f.ptr = b, MemAlloc(b)
      PROVE  OwnerInv'
  <2>1. InTransit(Top) = {} /\ b \notin live /\ live' = live \cup {b} /\ lost' = lost /\ Outside' = Outside
    BY <1>0, <1>2, <1>5 DEF MemAlloc, Outside
  <2>2. InTransit(Resumed(f)) = {b}
    BY <1>0, <1>5 DEF InTransit, FrameType, Resumed
  <2> QED  BY <2>1, <2>2, <1>3, <1>4, <1>5
\* ... or nothing, or one that nobody learns of.
<1>6. ASSUME NEW f \in FrameType, Resume(f), f.arg = Top.arg, f.rpc = Top.rpc, f.rpcCmd = Top.rpcCmd,
             f.world = Top.world, f.rpc # "FREE", f.rpcCmd # "SHM_FREE",
             f.ptr \notin Buffers \/ (f.rpc # "ALLOC" /\ ~(f.rpcCmd = "SHM_ALLOC" /\ f.rpcRet = "SUCCESS")),
             NEW new \in SUBSET (Buffers \ live), live' = live \cup new, lost' = lost \cup new
      PROVE  OwnerInv'
  <2>1. InTransit(Top) = {} /\ Outside' = Outside \cup new
    BY <1>0, <1>2, <1>6 DEF Outside
  <2>2. InTransit(Resumed(f)) = {}
    BY <1>0, <1>6 DEF InTransit, FrameType, Resumed
  <2>3. cached \cap lost' = {} /\ live' \subseteq Buffers /\ lost' \subseteq Buffers
    BY <1>3, <1>6 DEF Outside
  <2> QED  BY <2>1, <2>2, <2>3, <1>3, <1>4, <1>6
\* Otherwise the buffer OP-TEE gave back is freed or given up.
<1>7. ASSUME NEW f \in FrameType, Resume(f), f.arg = Top.arg, f.rpc = Top.rpc, f.rpcCmd = Top.rpcCmd,
             f.world = Top.world, f.rpc = "FREE" \/ f.rpcCmd = "SHM_FREE", MemFreeOrLose(Top.ptr)
      PROVE  OwnerInv'
  <2>1. InTransit(Top) = {Top.ptr}
    BY <1>2, <1>7
  <2>2. InTransit(Resumed(f)) = {}
    BY <1>7, <1>1 DEF InTransit, FrameType, RegistersOK, Resumed
  <2>3. \/ live' = live \ {Top.ptr} /\ lost' = lost /\ Outside' = Outside
        \/ live' = live /\ lost' = lost \cup {Top.ptr} /\ Outside' = Outside \cup {Top.ptr}
    BY <1>0, <1>7 DEF MemFreeOrLose, MemFree, Lose, Outside
  <2>4. cached \cap lost' = {} /\ live' \subseteq Buffers /\ lost' \subseteq Buffers
    BY <2>1, <2>3, <1>3 DEF Outside
  <2> QED  BY <2>1, <2>2, <2>3, <2>4, <1>3, <1>4, <1>7
<1>8. CASE OpteeRpcAlloc
  <2>1. Top.rpc = "ALLOC" /\ Top.rpcCmd = "none" /\ Top.ptr \notin Buffers
    BY <1>8, <1>0, <1>1 DEF OpteeRpcAlloc, RegistersOK
  <2>2. CASE Resume(Top) /\ UNCHANGED <<live, lost>>
    <3>1. {} \in SUBSET (Buffers \ live) /\ live' = live \cup {} /\ lost' = lost \cup {}
      BY <2>2
    <3> QED  BY <2>1, <2>2, <3>1, <1>1, <1>6
  <2>3. ASSUME NEW b \in Buffers, MemAlloc(b), Resume([Top EXCEPT !.ptr = b])
        PROVE  OwnerInv'
    <3> DEFINE f == [Top EXCEPT !.ptr = b]
    <3>1. /\ f \in FrameType /\ f.arg = Top.arg /\ f.rpc = Top.rpc /\ f.rpcCmd = Top.rpcCmd
          /\ f.world = Top.world /\ f.ptr = b
      BY <1>1 DEF FrameType, Codes
    <3>2. Resume(f)  BY <2>3
    <3> HIDE DEF f
    <3> QED  BY <3>1, <3>2, <2>1, <2>3, <1>5
  <2> QED  BY <2>2, <2>3, <1>8 DEF OpteeRpcAlloc, MemFull
<1>9. CASE OpteeRpcFree
  BY <1>9, <1>1, <1>7 DEF OpteeRpcFree
\* The commands answer with a code, and otherwise with the buffer they obtained.
<1>10. ASSUME NEW code \in Codes, Answer(code), Top.rpcCmd \notin {"none", "SHM_FREE"},
              Top.rpcCmd = "SHM_ALLOC" => code # "SUCCESS", UNCHANGED <<live, lost>>
       PROVE  OwnerInv'
  <2> DEFINE f == [Top EXCEPT !.rpcRet = code]
  <2>1. /\ f \in FrameType /\ f.arg = Top.arg /\ f.rpc = Top.rpc /\ f.rpcCmd = Top.rpcCmd
        /\ f.world = Top.world /\ f.rpcRet = code
    BY <1>1 DEF FrameType
  <2>2. Resume(f)
    BY <1>10 DEF Answer
  <2>3. Top.rpc = "CMD"
    BY <1>10, <1>1 DEF RegistersOK
  <2>4. {} \in SUBSET (Buffers \ live) /\ live' = live \cup {} /\ lost' = lost \cup {}
    BY <1>10
  <2> HIDE DEF f
  <2> QED  BY <2>1, <2>2, <2>3, <2>4, <1>6, <1>10
<1>11. CASE OpteeRpcCmdShmAlloc
  <2>1. Top.rpc = "CMD" /\ Top.rpcCmd = "SHM_ALLOC" /\ Top.ptr \notin Buffers
    <3>1. Top.rpcCmd = "SHM_ALLOC"
      BY <1>11, Zenon DEF OpteeRpcCmdShmAlloc
    <3> QED  BY <3>1, <1>0, <1>1 DEF RegistersOK
  <2>2. ASSUME NEW b \in Buffers, NEW code \in {"SUCCESS", "BAD_PARAMETERS"},
               Resume([Top EXCEPT !.ptr = b, !.rpcRet = code]), b \notin live, live' = live \cup {b},
               IF code = "SUCCESS" THEN lost' = lost ELSE lost' = lost \cup {b}
        PROVE  OwnerInv'
    <3> DEFINE f == [Top EXCEPT !.ptr = b, !.rpcRet = code]
    <3>0. code \in Codes
      BY DEF Codes
    <3>1. /\ f \in FrameType /\ f.arg = Top.arg /\ f.rpc = Top.rpc /\ f.rpcCmd = Top.rpcCmd
          /\ f.world = Top.world /\ f.ptr = b /\ f.rpcRet = code
      BY <3>0, <1>1 DEF FrameType
    <3>2. Resume(f)  BY <2>2
    <3> HIDE DEF f
    <3>3. CASE code = "SUCCESS"
      <4>1. MemAlloc(b)
        BY <3>3, <2>2 DEF MemAlloc
      <4> QED  BY <4>1, <3>1, <3>2, <3>3, <2>1, <1>5
    <3>4. CASE code = "BAD_PARAMETERS"
      <4>1. {b} \in SUBSET (Buffers \ live) /\ lost' = lost \cup {b}
        BY <3>4, <2>2
      <4> QED  BY <4>1, <3>1, <3>2, <3>4, <2>1, <2>2, <1>6
    <3> QED  BY <3>3, <3>4
  <2>3. CASE Answer("BAD_PARAMETERS") /\ UNCHANGED <<live, lost>>
    BY <2>1, <2>3, <1>10 DEF Codes
  <2>4. CASE MemFull /\ Answer("OUT_OF_MEMORY")
    BY <2>1, <2>4, <1>10 DEF Codes, MemFull
  <2>5. ASSUME NEW b \in Buffers, MemAlloc(b), Resume([Top EXCEPT !.ptr = b, !.rpcRet = "SUCCESS"])
        PROVE  OwnerInv'
    <3>1. b \notin live /\ live' = live \cup {b} /\ lost' = lost
      BY <2>5 DEF MemAlloc
    <3>2. "SUCCESS" \in {"SUCCESS", "BAD_PARAMETERS"}
      OBVIOUS
    <3> QED  BY <3>1, <3>2, <2>2, <2>5, Zenon
  <2>6. ASSUME NEW b \in Buffers \ live, live' = live \cup {b}, lost' = lost \cup {b},
               Resume([Top EXCEPT !.ptr = b, !.rpcRet = "BAD_PARAMETERS"])
        PROVE  OwnerInv'
    <3>1. "BAD_PARAMETERS" \in {"SUCCESS", "BAD_PARAMETERS"} /\ "BAD_PARAMETERS" # "SUCCESS"
      OBVIOUS
    <3>2. b \in Buffers /\ b \notin live
      BY <2>6
    <3> QED  BY <3>1, <3>2, <2>2, <2>6, Zenon
  <2> QED  BY <2>3, <2>4, <2>5, <2>6, <1>11, Zenon DEF OpteeRpcCmdShmAlloc
<1>12. CASE OpteeRpcCmdShmFree
  <2>1. PICK code \in Codes : Answer(code)
    BY <1>12 DEF OpteeRpcCmdShmFree, Codes
  <2> DEFINE f == [Top EXCEPT !.rpcRet = code]
  <2>2. /\ f \in FrameType /\ f.arg = Top.arg /\ f.rpc = Top.rpc /\ f.rpcCmd = Top.rpcCmd
        /\ f.world = Top.world
    BY <1>1 DEF FrameType
  <2>3. Resume(f)
    BY <2>1 DEF Answer
  <2>4. Top.rpcCmd = "SHM_FREE" /\ MemFreeOrLose(Top.ptr)
    BY <1>12 DEF OpteeRpcCmdShmFree, MemFreeOrLose
  <2> HIDE DEF f
  <2> QED  BY <2>2, <2>3, <2>4, <1>7
<1>13. CASE OpteeRpcCmdService
  BY <1>13, <1>10 DEF OpteeRpcCmdService, Codes
<1>14. CASE OpteeRpcUnsupported
  <2>1. CASE Top.rpcCmd = "OTHER" /\ Answer("NOT_IMPLEMENTED")
    BY <2>1, <1>14, <1>10 DEF OpteeRpcUnsupported, Codes
  <2>2. CASE Top.rpc \in {"OTHER", "FOREIGN_INTR"} /\ Resume(Top)
    <3>1. /\ {} \in SUBSET (Buffers \ live) /\ live' = live \cup {} /\ lost' = lost \cup {}
          /\ Top.rpcCmd = "none"
      BY <2>2, <1>14, <1>1 DEF OpteeRpcUnsupported, RegistersOK
    <3> QED  BY <2>2, <3>1, <1>6, <1>1
  <2> QED  BY <2>1, <2>2, <1>14 DEF OpteeRpcUnsupported
<1> QED  BY <1>8, <1>9, <1>11, <1>12, <1>13, <1>14 DEF OpteeRpcCallback

\* Every step of the clients, the library and OP-TEE keeps the owners.
LEMMA OwnerStep ==
  ASSUME OwnerInv, [Next]_vars
  PROVE  OwnerInv'
<1>0. SmcTypeOK /\ SmcRegisters /\ OneOwner
  BY DEF OwnerInv
<1>100. ASSUME UNCHANGED <<live, stack, cached, lost, shm, session, teeOpen>>,
               holds' = holds \/ holds' \in [Clients -> {"no", "open", "refused"}]
        PROVE  OwnerInv'
  <2>1. UNCHANGED Outside /\ (cached \cap lost = {})'
    BY <1>0, <1>100 DEF Outside, OneOwner
  <2>2. OneOwner'
    BY <2>1, <1>0, <1>100, Untouched
  <2> QED  BY <2>2, <1>0, <1>100 DEF OwnerInv, SmcTypeOK, SmcRegisters
<1>1. ASSUME NEW c \in Clients, TEEC_AllocateSharedMemory(c)
      PROVE  OwnerInv'
  <2>1. CASE MemFull /\ UNCHANGED shm
    <3>1. UNCHANGED <<live, stack, cached, lost, shm, session, holds, teeOpen>>
      BY <2>1, <1>1 DEF TEEC_AllocateSharedMemory, MemFull
    <3> QED  BY <3>1, <1>100
  <2>2. ASSUME NEW b \in Buffers, MemAlloc(b), shm' = [shm EXCEPT ![c] = b]
        PROVE  OwnerInv'
    <3>1. OneOwner'
      BY <2>2, <1>1, <1>0, ClientsHold DEF TEEC_AllocateSharedMemory, MemAlloc, Outside, OneOwner
    <3> QED  BY <3>1, <2>2, <1>1, <1>0
             DEF TEEC_AllocateSharedMemory, MemAlloc, OwnerInv, SmcTypeOK, SmcRegisters
  <2> QED  BY <2>1, <2>2, <1>1 DEF TEEC_AllocateSharedMemory
<1>2. ASSUME NEW c \in Clients, TEEC_ReleaseSharedMemory(c)
      PROVE  OwnerInv'
  <2>1. CASE MemFree(shm[c]) /\ shm' = [shm EXCEPT ![c] = Null]
    <3>1. OneOwner'
      BY <2>1, <1>2, <1>0, ClientsHold DEF TEEC_ReleaseSharedMemory, MemFree, Outside, OneOwner
    <3> QED  BY <3>1, <2>1, <1>2, <1>0
             DEF TEEC_ReleaseSharedMemory, MemFree, OwnerInv, SmcTypeOK, SmcRegisters
  <2>2. CASE UNCHANGED <<live, lost, shm>>
    BY <2>2, <1>2, <1>100 DEF TEEC_ReleaseSharedMemory
  <2> QED  BY <2>1, <2>2, <1>2 DEF TEEC_ReleaseSharedMemory
<1>3. ASSUME NEW c \in Clients, OpteeClientApiFinalize(c)
      PROVE  OwnerInv'
  BY <1>3, <1>100 DEF OpteeClientApiFinalize, client
<1>4. ASSUME NEW c \in Clients, NEW cmd \in Calls, SmcBegin(c, cmd)
      PROVE  OwnerInv'
  <2>0. UNCHANGED <<cached, shm, session, teeOpen>>
    BY <1>4 DEF SmcBegin
  <2>1. CASE MemFull /\ holds' = [holds EXCEPT ![c] = AfterClose(cmd, @)] /\ UNCHANGED stack
    <3>1. holds' \in [Clients -> {"no", "open", "refused"}]
      BY <2>1, <1>0 DEF SmcTypeOK, AfterClose
    <3>2. UNCHANGED <<live, stack, cached, lost, shm, session, teeOpen>>
      BY <2>0, <2>1 DEF MemFull
    <3> QED  BY <3>1, <3>2, <1>100
  <2>2. ASSUME NEW b \in Buffers, NEW sid \in Sessions \cup {Null}, MemAlloc(b),
               stack' = Append(stack, Frame(c, cmd, b, sid)), UNCHANGED holds
        PROVE  OwnerInv'
    <3> DEFINE f == Frame(c, cmd, b, sid)
    <3>1. /\ f \in FrameType /\ f.arg = b /\ RegistersOK(f) /\ InTransit(f) = {}
      BY SmcAssumption, FrameValues DEF Frame, FrameType, RegistersOK, InTransit
    <3>2. b \in Buffers \ live /\ live' = live \cup {b} /\ lost' = lost /\ stack' = Append(stack, f)
      BY <2>2 DEF MemAlloc
    <3>3. UNCHANGED <<shm, Outside>> /\ (cached \cap lost = {})'
      BY <2>0, <3>2, <1>0 DEF Outside, OneOwner
    <3> HIDE DEF f
    <3>4. OneOwner'
      BY <3>1, <3>2, <3>3, <1>0, Pushed
    <3>5. /\ stack' \in Seq(FrameType) /\ Len(stack) \in Nat /\ Len(stack') = Len(stack) + 1
          /\ stack'[Len(stack) + 1] = f /\ \A k \in 1 .. Len(stack) : stack'[k] = stack[k]
      BY <3>1, <3>2, <1>0, StackPush DEF SmcTypeOK
    <3>6. \A k \in 1 .. Len(stack') : k = Len(stack) + 1 \/ k \in 1 .. Len(stack)
      BY <3>5
    <3>7. SmcRegisters'
      <4>1. \A k \in 1 .. Len(stack') : RegistersOK(stack'[k])
        BY <3>1, <3>5, <3>6, <1>0 DEF SmcRegisters
      <4> QED  BY <4>1 DEF SmcRegisters
    <3> QED  BY <3>2, <3>4, <3>5, <3>7, <2>0, <2>2, <1>0 DEF OwnerInv, SmcTypeOK
  <2>3. session[c] \in Sessions \cup {Null}
    BY <1>0 DEF SmcTypeOK
  <2> QED  BY <2>1, <2>2, <2>3, <1>4 DEF SmcBegin
<1>5. ASSUME stack # <<>>
      PROVE  /\ Top \in FrameType /\ RegistersOK(Top)
             /\ InTransit(Top) \subseteq live /\ Outside \subseteq live /\ InTransit(Top) \cap Outside = {}
  <2>1. Len(stack) \in 1 .. Len(stack) /\ Top \in FrameType
    BY <1>5, <1>0, StackTop DEF SmcTypeOK, Top
  <2> QED  BY <2>1, <1>0 DEF SmcRegisters, OneOwner, CallBuffers, Top
\* The steps that move the call on top between the worlds.
<1>6. ASSUME NEW f \in FrameType, stack # <<>>, SetTop(f), f.arg = Top.arg, RegistersOK(f),
             UNCHANGED <<live, lost, shm, session, holds>>, teeOpen' \subseteq Sessions,
             cached' \subseteq Buffers, InTransit(f) \cap cached' = {},
             InTransit(f) \cup cached' = InTransit(Top) \cup cached
      PROVE  OwnerInv'
  <2>1. cached \cap lost = {} /\ InTransit(Top) \cap lost = {} /\ Outside' = cached' \cup lost
    BY <1>0, <1>5, <1>6 DEF OneOwner, Outside
  <2>2. /\ live' = (live \ (InTransit(Top) \cup Outside)) \cup InTransit(f) \cup Outside'
        /\ (InTransit(f) \cup Outside') \cap (live \ (InTransit(Top) \cup Outside)) = {}
        /\ InTransit(f) \cap Outside' = {} /\ (cached \cap lost = {})'
    BY <2>1, <1>5, <1>6 DEF Outside
  <2>3. OneOwner'
    BY <2>2, <1>0, <1>6, Handover
  <2>4. stack' \in Seq(FrameType) /\ SmcRegisters'
    BY <1>0, <1>6, TopUpdated
  <2> QED  BY <2>3, <2>4, <1>0, <1>6 DEF OwnerInv, SmcTypeOK
<1>7. CASE ArmCallSmc
  <2> DEFINE f == [Top EXCEPT !.world = "secure", !.ptr = Null, !.rpc = "none",
                              !.rpcCmd = "none", !.rpcRet = "none"]
  <2>1. /\ stack # <<>> /\ Top.world = "normal" /\ SetTop(f)
        /\ UNCHANGED <<live, lost, shm, session, holds>> /\ teeOpen' \subseteq Sessions
    BY <1>7, <1>0 DEF ArmCallSmc, Running, client, SmcTypeOK
  <2>2. Top \in FrameType /\ RegistersOK(Top) /\ Top.Arg0 \in {"CALL_WITH_ARG", "CALL_RETURN_FROM_RPC"}
    BY <2>1, <1>5, <1>7 DEF ArmCallSmc
  <2>3. f \in FrameType /\ f.arg = Top.arg /\ f.world = "secure" /\ f.Arg0 = Top.Arg0 /\ f.rpcCmd = "none"
    BY <2>2, FrameValues DEF FrameType
  <2>4. InTransit(f) = {} /\ RegistersOK(f)
    BY <2>2, <2>3 DEF InTransit, RegistersOK
  <2>5. cached' = cached \cup InTransit(Top)
    BY <2>1, <2>2, <1>7 DEF ArmCallSmc, InTransit
  <2>6. cached' \subseteq Buffers
    BY <2>5, <1>0 DEF InTransit, SmcTypeOK
  <2> HIDE DEF f
  <2> QED  BY <2>1, <2>3, <2>4, <2>5, <2>6, <1>6
<1>8. CASE OpteeRpcCallback
  BY <1>8, RpcKeepsOwners
<1>9. CASE SmcEnd
  <2>1. /\ stack # <<>> /\ Pop /\ MemFreeOrLose(Top.arg) /\ UNCHANGED <<shm, cached, teeOpen>>
        /\ Top.Arg0 \in {"OK", "UNKNOWN_FUNCTION", "ETHREAD_LIMIT"} /\ Top \in FrameType
    BY <1>9, <1>5 DEF SmcEnd, Running
  <2>2. InTransit(Top) = {}
    BY <2>1 DEF InTransit
  <2>10. Top.arg \notin Outside /\ Outside \subseteq live /\ Top.arg \in live /\ cached \cap lost = {}
    <3>1. Len(stack) \in 1 .. Len(stack)
      BY <2>1, <1>0, StackTop DEF SmcTypeOK
    <3> QED  BY <3>1, <1>0 DEF OneOwner, CallBuffers, Top
  <2>11. /\ \/ live' = live \ {Top.arg} /\ Outside' = Outside
            \/ live' = live /\ Outside' = Outside \cup {Top.arg}
         /\ live' \subseteq Buffers /\ lost' \subseteq Buffers /\ (cached \cap lost = {})'
    BY <2>1, <2>10, <1>0 DEF MemFreeOrLose, MemFree, Lose, Outside, SmcTypeOK
  <2>3. OneOwner'
    <3>1. /\ Outside \subseteq Outside' /\ Outside' \subseteq Outside \cup {Top.arg}
          /\ live' = (live \ {Top.arg}) \cup Outside'
      BY <2>10, <2>11
    <3> QED  BY <3>1, <2>1, <2>2, <2>11, <1>0, Popped
  <2>4. /\ stack' \in Seq(FrameType) /\ Len(stack') = Len(stack) - 1 /\ Len(stack) \in Nat \ {0}
        /\ \A k \in 1 .. Len(stack) - 1 : stack'[k] = stack[k]
    BY <2>1, <1>0, StackPop DEF SmcTypeOK, Pop
  <2>5. \A k \in 1 .. Len(stack') : k \in 1 .. Len(stack) /\ stack'[k] = stack[k]
    BY <2>4
  <2>6. SmcRegisters'
    <3>1. \A k \in 1 .. Len(stack') : RegistersOK(stack'[k])
      BY <2>5, <1>0 DEF SmcRegisters
    <3> QED  BY <3>1 DEF SmcRegisters
  <2>7. /\ session' \in [Clients -> Sessions \cup {Null}]
        /\ holds' \in [Clients -> {"no", "open", "refused"}]
    BY <2>1, <1>9, <1>0 DEF SmcEnd, SmcTypeOK, AfterCall, AfterClose, FrameType
  <2> QED  BY <2>1, <2>3, <2>4, <2>6, <2>7, <2>11, <1>0 DEF OwnerInv, SmcTypeOK
\* In the secure world nothing is in transit.
<1>10. ASSUME Running("secure")
       PROVE  stack # <<>> /\ Top \in FrameType /\ RegistersOK(Top) /\ InTransit(Top) = {}
  BY <1>10, <1>5 DEF Running, InTransit
<1>11. CASE TeeRefuse
  <2>1. PICK code \in {"UNKNOWN_FUNCTION", "ETHREAD_LIMIT"} :
               SetTop([Top EXCEPT !.world = "normal", !.Arg0 = code])
    BY <1>11 DEF TeeRefuse
  <2> DEFINE f == [Top EXCEPT !.world = "normal", !.Arg0 = code]
  <2>2. stack # <<>> /\ Top \in FrameType /\ RegistersOK(Top) /\ InTransit(Top) = {}
    BY <1>10, <1>11 DEF TeeRefuse
  <2>3. f \in FrameType /\ f.arg = Top.arg /\ f.Arg0 = code /\ RegistersOK(f)
    BY <2>2, FrameValues DEF FrameType, RegistersOK
  <2>4. InTransit(f) = {}
    BY <2>3 DEF InTransit
  <2>5. /\ UNCHANGED <<live, lost, shm, session, holds, cached>> /\ cached \subseteq Buffers
        /\ teeOpen' \subseteq Sessions
    BY <1>11, <1>0 DEF TeeRefuse, client, SmcTypeOK
  <2> HIDE DEF f
  <2>6. SetTop(f)  BY <2>1 DEF f
  <2> QED  BY <2>2, <2>3, <2>4, <2>5, <2>6, <1>6
<1>12. CASE TeeRpc
  <2>1. PICK fn \in RpcFuncs, cmd \in RpcCmds \cup {"none"}, p \in cached \cup {Null, "size"} :
          /\ (fn = "CMD") = (cmd # "none")
          /\ fn = "FREE" \/ cmd = "SHM_FREE" <=> p \in cached
          /\ p = Null => fn = "ALLOC"
          /\ SetTop([Top EXCEPT !.world = "normal", !.Arg0 = "RPC", !.ptr = p, !.rpc = fn,
                                !.rpcCmd = cmd, !.rpcs = @ + 1])
          /\ cached' = cached \ {p}
    BY <1>12, Zenon DEF TeeRpc
  <2> DEFINE f == [Top EXCEPT !.world = "normal", !.Arg0 = "RPC", !.ptr = p, !.rpc = fn,
                              !.rpcCmd = cmd, !.rpcs = @ + 1]
  <2>2. stack # <<>> /\ Top \in FrameType /\ InTransit(Top) = {}
    BY <1>10, <1>12 DEF TeeRpc
  <2>3. /\ cached \subseteq Buffers /\ UNCHANGED <<live, lost, shm, session, holds>>
        /\ teeOpen' \subseteq Sessions
        /\ Null \notin Buffers /\ "size" \notin Buffers
        /\ fn \in Funcs /\ cmd \in Cmds \cup {"none"}
    BY <1>12, <1>0, SmcAssumption DEF TeeRpc, client, SmcTypeOK
  <2>4. /\ f \in FrameType /\ f.arg = Top.arg /\ f.world = "normal" /\ f.Arg0 = "RPC" /\ f.ptr = p
        /\ f.rpc = fn /\ f.rpcCmd = cmd
    <3>1. Top.rpcs \in Nat /\ Top.rpcs + 1 \in Nat /\ p \in Buffers \cup {Null, "size"}
      BY <2>2, <2>3 DEF FrameType
    <3> DEFINE n == Top.rpcs + 1
    <3>2. f = [Top EXCEPT !.world = "normal", !.Arg0 = "RPC", !.ptr = p, !.rpc = fn,
                          !.rpcCmd = cmd, !.rpcs = n]
      BY <2>2
    <3> HIDE DEF n, f
    <3> QED  BY <2>2, <2>3, <3>1, <3>2, FrameValues DEF FrameType, n
  <2> HIDE DEF f
  <2>5. RegistersOK(f)
    BY <2>1, <2>3, <2>4 DEF RegistersOK
  <2>6. InTransit(f) = cached \cap {p}
    BY <2>1, <2>3, <2>4 DEF InTransit
  <2>7. SetTop(f)  BY <2>1 DEF f
  <2> QED  BY <2>1, <2>2, <2>3, <2>4, <2>5, <2>6, <2>7, <1>6
<1>13. CASE TeeReturn
  <2>1. PICK code \in {"SUCCESS", "ACCESS_DENIED"}, sid \in Sessions \cup {Null} : TeeDone(code, sid)
    <3>1. Top.sid \in Sessions \cup {Null}
      BY <1>10, <1>13 DEF TeeReturn, FrameType
    <3> QED  BY <3>1, <1>13 DEF TeeReturn
  <2> DEFINE f == [Top EXCEPT !.world = "normal", !.Arg0 = "OK", !.ret = code, !.sid = sid]
  <2>2. stack # <<>> /\ Top \in FrameType /\ RegistersOK(Top) /\ InTransit(Top) = {}
    BY <1>10, <1>13 DEF TeeReturn
  <2>3. f \in FrameType /\ f.arg = Top.arg /\ f.Arg0 = "OK" /\ RegistersOK(f)
    <3>1. /\ f.arg = Top.arg /\ f.Arg0 = "OK" /\ f.rpc = Top.rpc /\ f.rpcCmd = Top.rpcCmd
      BY <2>2 DEF FrameType
    <3>2. f \in FrameType
      BY <2>2, FrameValues DEF FrameType
    <3> HIDE DEF f
    <3> QED  BY <2>2, <3>1, <3>2 DEF RegistersOK
  <2>4. InTransit(f) = {}
    BY <2>3 DEF InTransit
  <2>5. /\ UNCHANGED <<live, lost, shm, session, holds, cached>> /\ cached \subseteq Buffers
        /\ teeOpen' \subseteq Sessions
    BY <1>13, <1>0 DEF TeeReturn, client, SmcTypeOK
  <2> HIDE DEF f
  <2>6. SetTop(f)  BY <2>1 DEF f, TeeDone
  <2> QED  BY <2>2, <2>3, <2>4, <2>5, <2>6, <1>6
<1>14. CASE UNCHANGED vars
  BY <1>14, <1>100 DEF vars, client
<1> QED  BY <1>1, <1>2, <1>3, <1>4, <1>7, <1>8, <1>9, <1>11, <1>12, <1>13, <1>14
         DEF Next, NormalWorld, SecureWorld

\* Every allocated buffer of the shared memory has exactly one owner, for any number
\* of clients, buffers, threads and nested calls, or was given up by its last owner
\* where a free failed or a request of OP-TEE about it was refused: no other path
\* through the TEEC_SMC functions and OpteeRpcCallback leaks a buffer, and none frees
\* one that is in use.
THEOREM OneOwnerHolds == Spec => []OneOwner
<1>1. Init => OwnerInv
  <2> SUFFICES ASSUME Init PROVE OwnerInv
    OBVIOUS
  <2>1. stack \in Seq(FrameType) /\ Len(stack) = 0 /\ 1 .. Len(stack) = {}
    BY DEF Init
  <2>2. ClientBuffers = {}
    BY DEF Init, ClientBuffers
  <2>3. SmcTypeOK
    BY <2>1 DEF Init, SmcTypeOK
  <2> QED  BY <2>1, <2>2, <2>3 DEF Init, OwnerInv, SmcRegisters, OneOwner, Outside
<1>2. OwnerInv /\ [Next]_vars => OwnerInv'
  BY OwnerStep
<1>3. OwnerInv => OneOwner
  BY DEF OwnerInv
<1> QED  BY <1>1, <1>2, <1>3, PTL DEF Spec

-------------------------------------------------------------------------------
(* Sessions.  A client has at most one call in progress, so that no other     *)
(* call can change what its session is.                                       *)

OneCallEach ==
  \A k, m \in 1 .. Len(stack) : stack[k].client = stack[m].client => k = m

\* What a call says about itself: OP-TEE has answered it or not, and an open that
\* was not granted carries the identifier 0.
AnswerOK(f) ==
  /\ f.world = "secure" => f.Arg0 # "OK"
  /\ f.Arg0 # "OK" => f.ret = "none"
  /\ f.cmd = "OPEN_SESSION" /\ f.ret # "SUCCESS" => f.sid = Null

\* An invocation or a close is about the session of its client.
OwnSession(f) == f.cmd # "OPEN_SESSION" => f.sid = session[f.client] /\ holds[f.client] # "no"

Granted(f) == f.cmd = "OPEN_SESSION" /\ f.Arg0 = "OK" /\ f.ret = "SUCCESS"

\* A client holds its session until OP-TEE has closed it.
Holder(c) ==
  /\ holds[c] = "open"
  /\ \A k \in 1 .. Len(stack) :
       stack[k].client = c /\ stack[k].cmd = "CLOSE_SESSION" => stack[k].Arg0 # "OK"

CallsOK == \A k \in 1 .. Len(stack) : AnswerOK(stack[k]) /\ OwnSession(stack[k])

RefusedHaveNone == \A c \in Clients : holds[c] = "refused" => session[c] = Null

HeldServed ==
  \A c \in Clients : Holder(c) =>
    /\ session[c] \in teeOpen
    /\ \A d \in Clients : Holder(d) /\ session[d] = session[c] => d = c

\* A session granted to a call that has not returned yet is nobody else's.
GrantsServed ==
  \A k \in 1 .. Len(stack) : Granted(stack[k]) =>
    /\ stack[k].sid \in teeOpen
    /\ \A c \in Clients : Holder(c) => session[c] # stack[k].sid
    /\ \A m \in 1 .. Len(stack) : Granted(stack[m]) /\ stack[m].sid = stack[k].sid => m = k

SessionInv == OneCallEach /\ CallsOK /\ RefusedHaveNone /\ HeldServed /\ GrantsServed

\* Every call is some client's.
LEMMA FrameClients ==
  ASSUME SmcTypeOK
  PROVE  \A k \in 1 .. Len(stack) : stack[k].client \in Clients
<1> TAKE k \in 1 .. Len(stack)
<1>1. stack \in Seq(FrameType)
  BY DEF SmcTypeOK
<1>2. stack[k] \in FrameType
  BY <1>1, StackElement
<1> QED  BY <1>2 DEF FrameType

\* The call on top goes on: OP-TEE may grant it a session nobody has, or close the
\* session it is about.
LEMMA SessionKept ==
  ASSUME SmcTypeOK, SessionInv, stack # <<>>, NEW f \in FrameType, SetTop(f),
         f.client = Top.client, f.cmd = Top.cmd, UNCHANGED <<session, holds>>,
         Top.Arg0 # "OK", AnswerOK(f), f.cmd # "OPEN_SESSION" => f.sid = Top.sid,
         \/ teeOpen \subseteq teeOpen'
         \/ f.cmd = "CLOSE_SESSION" /\ f.Arg0 = "OK" /\ teeOpen' = teeOpen \ {f.sid},
         Granted(f) => f.sid \in teeOpen' \ teeOpen
  PROVE  SessionInv'
<1> DEFINE N == Len(stack)
<1>1. /\ N \in Nat \ {0} /\ Len(stack') = N /\ stack'[N] = f /\ stack[N] = Top
      /\ \A k \in 1 .. N - 1 : stack'[k] = stack[k]
  BY StackSetTop DEF SetTop, SmcTypeOK, Top
<1>2. \A k \in 1 .. N : k = N \/ (k \in 1 .. N - 1 /\ k # N)
  BY <1>1
<1>3. N \in 1 .. N
  BY <1>1
<1>4. \A k \in 1 .. N : stack[k].client \in Clients
  BY FrameClients
<1> HIDE DEF N
<1>5. /\ \A k \in 1 .. N : stack'[k].client = stack[k].client /\ stack'[k].cmd = stack[k].cmd
      /\ \A k \in 1 .. N : k # N => stack'[k] = stack[k]
  BY <1>1, <1>2
<1>6. /\ \A k, m \in 1 .. N : stack[k].client = stack[m].client => k = m
      /\ \A k \in 1 .. N : AnswerOK(stack[k]) /\ OwnSession(stack[k])
  BY DEF SessionInv, OneCallEach, CallsOK, N
<1>7. OneCallEach'
  BY <1>1, <1>5, <1>6 DEF OneCallEach
<1>8. CallsOK'
  <2>1. ASSUME NEW k \in 1 .. N
        PROVE  AnswerOK(stack'[k]) /\ OwnSession(stack[k])'
    <3>1. CASE k = N
      <4>1. OwnSession(Top)
        BY <1>1, <1>3, <1>6
      <4>2. stack'[k] = f /\ session' = session /\ holds' = holds
        BY <3>1, <1>1
      <4> QED  BY <4>1, <4>2 DEF OwnSession
    <3>2. CASE k # N
      <4>1. stack'[k] = stack[k] /\ AnswerOK(stack[k]) /\ OwnSession(stack[k])
        BY <3>2, <1>5, <1>6
      <4> QED  BY <4>1 DEF OwnSession
    <3> QED  BY <3>1, <3>2
  <2>3. \A k \in 1 .. Len(stack') : AnswerOK(stack[k])' /\ OwnSession(stack[k])'
    <3>1. ASSUME NEW k \in 1 .. Len(stack')
          PROVE  AnswerOK(stack[k])'
      BY <3>1, <2>1, <1>1 DEF AnswerOK
    <3> QED  BY <3>1, <2>1, <1>1
  <2> QED  BY <2>3 DEF CallsOK
<1>9. RefusedHaveNone'
  BY DEF SessionInv, RefusedHaveNone
\* Nobody comes to hold a session, and who holds the one that is closed is the caller.
<1>10. ASSUME NEW c \in Clients, Holder(c)'
       PROVE  Holder(c)
  <2>1. ASSUME NEW k \in 1 .. N, stack[k].client = c, stack[k].cmd = "CLOSE_SESSION"
        PROVE  stack[k].Arg0 # "OK"
    <3>1. CASE k = N
      BY <3>1, <1>1
    <3>2. CASE k # N
      BY <3>2, <2>1, <1>10, <1>5, <1>1 DEF Holder
    <3> QED  BY <3>1, <3>2
  <2> QED  BY <2>1, <1>10 DEF Holder, N
<1>11. /\ \A c \in Clients : Holder(c)' => session[c] \in teeOpen'
       /\ \A k \in 1 .. N : k # N /\ Granted(stack[k]) => stack[k].sid \in teeOpen'
  <2>0. /\ \A c \in Clients : Holder(c) => session[c] \in teeOpen
        /\ \A k \in 1 .. N : Granted(stack[k]) => stack[k].sid \in teeOpen
    BY DEF SessionInv, HeldServed, GrantsServed, N
  <2>1. CASE teeOpen \subseteq teeOpen'
    BY <2>1, <2>0, <1>10
  <2>2. CASE f.cmd = "CLOSE_SESSION" /\ f.Arg0 = "OK" /\ teeOpen' = teeOpen \ {f.sid}
    <3>1. /\ Top.client \in Clients /\ holds[Top.client] # "no" /\ f.sid = session[Top.client]
          /\ Null \notin teeOpen
      BY <2>2, <1>1, <1>3, <1>4, <1>6, SmcAssumption DEF OwnSession, SmcTypeOK
    <3>2. CASE holds[Top.client] = "refused"
      <4>1. f.sid = Null
        BY <3>1, <3>2 DEF SessionInv, RefusedHaveNone
      <4>2. teeOpen' = teeOpen
        BY <4>1, <3>1, <2>2
      <4> QED  BY <4>2, <2>0, <1>10
    <3>3. CASE holds[Top.client] = "open"
      <4>0. PICK d \in Clients : d = Top.client
        BY <3>1
      <4>1. Holder(d)
        BY <3>3, <4>0, <1>1, <1>3, <1>6 DEF Holder, N
      <4>2. ~Holder(d)'
        <5>1. /\ N \in 1 .. Len(stack') /\ stack'[N].client = d
              /\ stack'[N].cmd = "CLOSE_SESSION" /\ stack'[N].Arg0 = "OK"
          BY <2>2, <4>0, <1>1, <1>3
        <5> QED  BY <5>1 DEF Holder
      <4>3. \A c \in Clients : Holder(c) /\ session[c] = f.sid => c = d
        BY <4>0, <4>1, <3>1 DEF SessionInv, HeldServed
      <4>4. \A k \in 1 .. N : Granted(stack[k]) => stack[k].sid # f.sid
        BY <4>0, <4>1, <3>1 DEF SessionInv, GrantsServed, N
      <4>5. ASSUME NEW c \in Clients, Holder(c)'
            PROVE  session[c] \in teeOpen'
        <5>1. Holder(c)
          BY <4>5, <1>10
        <5>2. c # d
          BY <4>5, <4>2
        <5> QED  BY <5>1, <5>2, <4>3, <2>0, <2>2
      <4>6. \A k \in 1 .. N : Granted(stack[k]) => stack[k].sid \in teeOpen'
        BY <4>4, <2>0, <2>2
      <4> QED  BY <4>5, <4>6
    <3> QED  BY <3>1, <3>2, <3>3 DEF SmcTypeOK
  <2> QED  BY <2>1, <2>2
<1>12. HeldServed'
  BY <1>10, <1>11 DEF SessionInv, HeldServed
<1>13. \A k \in 1 .. N : Granted(stack'[k]) => (k # N /\ stack'[k] = stack[k]) \/ (k = N /\ stack'[k] = f)
  BY <1>1, <1>5
<1>14. /\ \A k \in 1 .. N : Granted(stack[k]) =>
              /\ stack[k].sid \in teeOpen
              /\ \A c \in Clients : Holder(c) => session[c] # stack[k].sid
              /\ \A m \in 1 .. N : Granted(stack[m]) /\ stack[m].sid = stack[k].sid => m = k
       /\ \A c \in Clients : Holder(c) => session[c] \in teeOpen
  BY DEF SessionInv, GrantsServed, HeldServed, N
<1>15. \A k \in 1 .. N : Granted(stack'[k]) =>
         /\ stack'[k].sid \in teeOpen'
         /\ \A c \in Clients : Holder(c)' => session[c] # stack'[k].sid
         /\ \A m \in 1 .. N : Granted(stack'[m]) /\ stack'[m].sid = stack'[k].sid => m = k
  <2> SUFFICES ASSUME NEW k \in 1 .. N, Granted(stack'[k])
               PROVE  /\ stack'[k].sid \in teeOpen'
                      /\ \A c \in Clients : Holder(c)' => session[c] # stack'[k].sid
                      /\ \A m \in 1 .. N : Granted(stack'[m]) /\ stack'[m].sid = stack'[k].sid => m = k
    OBVIOUS
  <2>1. CASE k = N
    <3>1. stack'[k] = f /\ Granted(f) /\ f.sid \notin teeOpen /\ f.sid \in teeOpen'
      BY <2>1, <1>1
    <3>2. \A m \in 1 .. N : m # N /\ Granted(stack'[m]) => stack'[m].sid \in teeOpen
      BY <1>5, <1>14
    <3> QED  BY <2>1, <3>1, <3>2, <1>10, <1>14
  <2>2. CASE k # N
    <3>1. stack'[k] = stack[k] /\ Granted(stack[k]) /\ stack[k].sid \in teeOpen
      BY <2>2, <1>5, <1>14
    <3>2. ASSUME NEW m \in 1 .. N, Granted(stack'[m]), stack'[m].sid = stack'[k].sid
          PROVE  m = k
      <4>1. CASE m = N
        BY <4>1, <3>1, <3>2, <1>1
      <4>2. CASE m # N
        BY <4>2, <3>1, <3>2, <1>5, <1>14
      <4> QED  BY <4>1, <4>2
    <3> QED  BY <2>2, <3>1, <3>2, <1>10, <1>11, <1>14
  <2> QED  BY <2>1, <2>2
<1>16. GrantsServed'
  <2>1. \A g : Granted(g)' <=> Granted(g)
    BY DEF Granted
  <2> QED  BY <1>1, <1>15 DEF GrantsServed, Granted
<1> QED  BY <1>7, <1>8, <1>9, <1>12, <1>16 DEF SessionInv

\* A new call is not answered yet.
LEMMA SessionPushed ==
  ASSUME SmcTypeOK, SessionInv, NEW f \in FrameType, stack' = Append(stack, f), Idle(f.client),
         AnswerOK(f), OwnSession(f), f.Arg0 # "OK", UNCHANGED <<session, holds, teeOpen>>
  PROVE  SessionInv'
<1> DEFINE N == Len(stack)
<1>1. /\ N \in Nat /\ Len(stack') = N + 1
      /\ stack'[N + 1] = f /\ \A k \in 1 .. N : stack'[k] = stack[k]
  BY StackPush DEF SmcTypeOK
<1>2. /\ \A k \in 1 .. Len(stack') : k = N + 1 \/ k \in 1 .. N
      /\ \A k \in 1 .. N : k \in 1 .. Len(stack')
  BY <1>1
<1>3. \A k \in 1 .. N : stack[k].client # f.client
  BY DEF Idle
<1> DEFINE M == N + 1
<1> HIDE DEF N, M
<1>4. /\ \A k \in 1 .. Len(stack') : (k = M /\ stack'[k] = f) \/ (k \in 1 .. N /\ stack'[k] = stack[k])
      /\ \A k \in 1 .. N : k \in 1 .. Len(stack') /\ stack'[k] = stack[k]
  BY <1>1, <1>2 DEF M
<1>5. OneCallEach'
  BY <1>3, <1>4 DEF SessionInv, OneCallEach, N
<1>6. CallsOK'
  <2>1. \A k \in 1 .. N : AnswerOK(stack[k]) /\ OwnSession(stack[k])
    BY DEF SessionInv, CallsOK, N
  <2>2. \A k \in 1 .. Len(stack') : AnswerOK(stack'[k]) /\ OwnSession(stack'[k])
    BY <2>1, <1>4
  <2> QED  BY <2>2 DEF CallsOK, AnswerOK, OwnSession
<1>7. \A c \in Clients : Holder(c)' => Holder(c)
  BY <1>4 DEF Holder, N
<1>8. RefusedHaveNone' /\ HeldServed'
  BY <1>7 DEF SessionInv, RefusedHaveNone, HeldServed
<1>9. GrantsServed'
  <2>1. \A k \in 1 .. Len(stack') : Granted(stack'[k]) => k \in 1 .. N /\ stack'[k] = stack[k]
    BY <1>4 DEF Granted
  <2> QED  BY <2>1, <1>7 DEF SessionInv, GrantsServed, Granted, N
<1> QED  BY <1>5, <1>6, <1>8, <1>9 DEF SessionInv

\* The call on top returns, and its client may have a session, or another one.
LEMMA SessionPopped ==
  ASSUME SmcTypeOK, SessionInv, SmcEnd
  PROVE  SessionInv'
<1> DEFINE N == Len(stack)
           c == Top.client
<1>1. /\ stack # <<>> /\ Top \in FrameType /\ Pop /\ teeOpen' = teeOpen
      /\ session' = IF Opens(Top) THEN [session EXCEPT ![c] = Top.sid] ELSE session
      /\ holds' = [holds EXCEPT ![c] = AfterCall(Top, @)]
      /\ session \in [Clients -> Sessions \cup {Null}] /\ c \in Clients
      /\ holds \in [Clients -> {"no", "open", "refused"}]
  <2>1. stack # <<>> /\ stack \in Seq(FrameType)
    BY DEF SmcEnd, Running, SmcTypeOK
  <2>2. Top \in FrameType
    BY <2>1, StackTop DEF Top
  <2>3. Top.client \in Clients
    BY <2>2 DEF FrameType
  <2> QED  BY <2>1, <2>2, <2>3 DEF SmcEnd, SmcTypeOK
<1>2. /\ N \in Nat \ {0} /\ Len(stack') = N - 1 /\ stack[N] = Top
      /\ \A k \in 1 .. N - 1 : stack'[k] = stack[k]
  BY <1>1, StackPop DEF SmcTypeOK, Pop, Top
<1>3. /\ \A k \in 1 .. Len(stack') : k \in 1 .. N /\ k # N /\ stack'[k] = stack[k]
      /\ \A k \in 1 .. N : k = N \/ k \in 1 .. Len(stack')
      /\ N \in 1 .. N
  BY <1>2
<1>4. \A k \in 1 .. N : stack[k].client \in Clients
  BY FrameClients
<1> HIDE DEF N, c
<1>5. /\ \A k, m \in 1 .. N : stack[k].client = stack[m].client => k = m
      /\ \A k \in 1 .. N : AnswerOK(stack[k]) /\ OwnSession(stack[k])
  BY DEF SessionInv, OneCallEach, CallsOK, N
<1>6. \A k \in 1 .. Len(stack') : stack'[k].client \in Clients \ {c}
  BY <1>2, <1>3, <1>4, <1>5 DEF c
<1>7. \A d \in Clients \ {c} : session'[d] = session[d] /\ holds'[d] = holds[d]
  BY <1>1
<1>8. OneCallEach'
  BY <1>3, <1>5 DEF OneCallEach
<1>9. CallsOK'
  <2>1. \A k \in 1 .. Len(stack') : AnswerOK(stack'[k]) /\ OwnSession(stack[k]) /\ stack'[k] = stack[k]
    BY <1>3, <1>5
  <2>2. ASSUME NEW k \in 1 .. Len(stack')
        PROVE  OwnSession(stack[k])' /\ AnswerOK(stack[k])'
    <3>1. OwnSession(stack[k]) /\ stack'[k] = stack[k] /\ stack[k].client \in Clients \ {c}
      BY <2>1, <1>6
    <3>2. AnswerOK(stack'[k])
      BY <2>1
    <3> QED  BY <3>1, <3>2, <1>7 DEF OwnSession, AnswerOK
  <2> QED  BY <2>2 DEF CallsOK
\* What the client has now: nothing of its own, what it had, or what it was granted.
<1>10. \/ /\ Opens(Top) /\ Top.ret # "SUCCESS"
          /\ session'[c] = Null /\ holds'[c] \in {"no", "refused"}
       \/ Granted(Top) /\ session'[c] = Top.sid /\ holds'[c] = "open"
       \/ /\ ~Opens(Top) /\ session'[c] = session[c]
          /\ holds'[c] = "no" \/ (Top.cmd # "CLOSE_SESSION" /\ holds'[c] = holds[c])
  <2>1. holds'[c] = AfterCall(Top, holds[c]) /\ holds[c] \in {"no", "open", "refused"}
    BY <1>1
  <2>2. CASE Opens(Top) /\ Top.ret # "SUCCESS"
    <3>1. Top.sid = Null
      BY <2>2, <1>2, <1>3, <1>5 DEF AnswerOK, Opens
    <3> QED  BY <3>1, <2>1, <2>2, <1>1 DEF AfterCall, AfterClose, Opens
  <2>3. CASE Opens(Top) /\ Top.ret = "SUCCESS"
    BY <2>1, <2>3, <1>1 DEF AfterCall, Granted, Opens
  <2>4. CASE ~Opens(Top)
    BY <2>1, <2>4, <1>1 DEF AfterCall, AfterClose
  <2> QED  BY <2>2, <2>3, <2>4
<1>11. RefusedHaveNone'
  <2>1. ASSUME NEW d \in Clients, holds'[d] = "refused"
        PROVE  session'[d] = Null
    <3>1. CASE d # c
      BY <3>1, <2>1, <1>7 DEF SessionInv, RefusedHaveNone
    <3>2. CASE d = c
      BY <3>2, <2>1, <1>1, <1>10 DEF SessionInv, RefusedHaveNone
    <3> QED  BY <3>1, <3>2
  <2> QED  BY <2>1 DEF RefusedHaveNone
\* Who holds a session held it, or the call was granted it.
<1>12. ASSUME NEW d \in Clients, Holder(d)'
       PROVE  \/ Holder(d) /\ session'[d] = session[d]
              \/ d = c /\ Granted(Top) /\ session'[d] = Top.sid
  <2>1. \A k \in 1 .. N : k # N /\ stack[k].client = d /\ stack[k].cmd = "CLOSE_SESSION"
                            => stack[k].Arg0 # "OK"
    BY <1>3, <1>12 DEF Holder
  <2>2. CASE d # c
    <3>1. \A k \in 1 .. N : stack[k].client = d => k # N
      BY <2>2, <1>2 DEF c
    <3> QED  BY <2>1, <2>2, <3>1, <1>7, <1>12 DEF Holder, N
  <2>3. CASE d = c /\ ~Granted(Top)
    <3>1. Top.cmd # "CLOSE_SESSION" /\ holds[c] = "open" /\ session'[c] = session[c]
      BY <2>3, <1>10, <1>12 DEF Holder
    <3>2. \A k \in 1 .. N : stack[k].client = d /\ stack[k].cmd = "CLOSE_SESSION" => k # N
      BY <3>1, <1>2
    <3> QED  BY <2>1, <2>3, <3>1, <3>2 DEF Holder, N
  <2>4. CASE d = c /\ Granted(Top)
    BY <2>4, <1>10 DEF Opens, Granted
  <2> QED  BY <2>2, <2>3, <2>4
<1>13. /\ \A k \in 1 .. N : Granted(stack[k]) =>
              /\ stack[k].sid \in teeOpen
              /\ \A d \in Clients : Holder(d) => session[d] # stack[k].sid
              /\ \A m \in 1 .. N : Granted(stack[m]) /\ stack[m].sid = stack[k].sid => m = k
       /\ \A d \in Clients : Holder(d) =>
              /\ session[d] \in teeOpen
              /\ \A e \in Clients : Holder(e) /\ session[e] = session[d] => e = d
  BY DEF SessionInv, GrantsServed, HeldServed, N
<1>14. Granted(Top) => /\ Top.sid \in teeOpen
                       /\ \A d \in Clients : Holder(d) => session[d] # Top.sid
                       /\ \A m \in 1 .. N : Granted(stack[m]) /\ stack[m].sid = Top.sid => m = N
  BY <1>2, <1>3, <1>13
<1>15. HeldServed'
  <2>1. ASSUME NEW d \in Clients, Holder(d)'
        PROVE  session'[d] \in teeOpen
    BY <2>1, <1>12, <1>13, <1>14
  <2>2. ASSUME NEW d \in Clients, Holder(d)', NEW e \in Clients, Holder(e)', session'[e] = session'[d]
        PROVE  e = d
    BY <2>2, <1>12, <1>13, <1>14
  <2> QED  BY <2>1, <2>2, <1>1 DEF HeldServed
<1>16. GrantsServed'
  <2>1. \A k \in 1 .. Len(stack') : Granted(stack'[k]) =>
          /\ stack'[k].sid \in teeOpen
          /\ \A d \in Clients : Holder(d)' => session'[d] # stack'[k].sid
          /\ \A m \in 1 .. Len(stack') : Granted(stack'[m]) /\ stack'[m].sid = stack'[k].sid => m = k
    <3> SUFFICES ASSUME NEW k \in 1 .. Len(stack'), Granted(stack'[k])
                 PROVE  /\ stack'[k].sid \in teeOpen
                        /\ \A d \in Clients : Holder(d)' => session'[d] # stack'[k].sid
                        /\ \A m \in 1 .. Len(stack') :
                              Granted(stack'[m]) /\ stack'[m].sid = stack'[k].sid => m = k
      OBVIOUS
    <3>1. k \in 1 .. N /\ k # N /\ stack'[k] = stack[k] /\ Granted(stack[k])
      BY <1>3
    <3>2. ASSUME NEW d \in Clients, Holder(d)'
          PROVE  session'[d] # stack'[k].sid
      BY <3>1, <3>2, <1>12, <1>13, <1>14
    <3> QED  BY <3>1, <3>2, <1>3, <1>13
  <2> QED  BY <2>1, <1>1 DEF GrantsServed, Granted
<1> QED  BY <1>8, <1>9, <1>11, <1>15, <1>16 DEF SessionInv

\* Every step keeps what the sessions are.
LEMMA SessionStep ==
  ASSUME SmcTypeOK, SessionInv, [Next]_vars
  PROVE  SessionInv'
<1>1. ASSUME UNCHANGED <<stack, session, holds, teeOpen>>
      PROVE  SessionInv'
  BY <1>1 DEF SessionInv, OneCallEach, CallsOK, AnswerOK, OwnSession, RefusedHaveNone, HeldServed,
              GrantsServed, Granted, Holder
<1>2. ASSUME NEW c \in Clients, NEW cmd \in Calls, SmcBegin(c, cmd)
      PROVE  SessionInv'
  <2>0. /\ session \in [Clients -> Sessions \cup {Null}] /\ holds \in [Clients -> {"no", "open", "refused"}]
        /\ Idle(c) /\ (cmd = "OPEN_SESSION" \/ holds[c] # "no") /\ UNCHANGED <<session, teeOpen>>
    BY <1>2 DEF SmcBegin, MayStart, SmcTypeOK
  <2>1. CASE holds' = [holds EXCEPT ![c] = AfterClose(cmd, @)] /\ stack' = stack
    <3>1. /\ \A d \in Clients \ {c} : holds'[d] = holds[d]
          /\ holds'[c] = holds[c] \/ holds'[c] = "no"
      BY <2>0, <2>1 DEF AfterClose
    <3>2. \A k \in 1 .. Len(stack) : stack[k].client \in Clients \ {c}
      BY <2>0, FrameClients DEF Idle
    <3>3. OneCallEach'
      BY <2>1 DEF SessionInv, OneCallEach
    <3>4. CallsOK'
      <4>1. \A k \in 1 .. Len(stack) : AnswerOK(stack[k]) /\ OwnSession(stack[k])
        BY DEF SessionInv, CallsOK
      <4>2. ASSUME NEW k \in 1 .. Len(stack)
            PROVE  OwnSession(stack[k])'
        <5>1. OwnSession(stack[k]) /\ holds'[stack[k].client] = holds[stack[k].client] /\ stack'[k] = stack[k]
          BY <4>1, <3>1, <3>2, <2>1
        <5> QED  BY <5>1, <2>0 DEF OwnSession
      <4> QED  BY <4>1, <4>2, <2>1 DEF CallsOK, AnswerOK
    <3>5. RefusedHaveNone'
      <4>1. ASSUME NEW d \in Clients, holds'[d] = "refused"
            PROVE  session'[d] = Null
        <5>1. holds[d] = "refused"
          BY <4>1, <3>1
        <5> QED  BY <5>1, <2>0 DEF SessionInv, RefusedHaveNone
      <4> QED  BY <4>1 DEF RefusedHaveNone
    <3>6. ASSUME NEW d \in Clients, Holder(d)'
          PROVE  Holder(d)
      <4>1. holds[d] = "open"
        BY <3>6, <3>1 DEF Holder
      <4> QED  BY <4>1, <3>6, <2>1 DEF Holder
    <3>7. HeldServed'
      BY <3>6, <2>0 DEF SessionInv, HeldServed
    <3>8. GrantsServed'
      BY <3>6, <2>0, <2>1 DEF SessionInv, GrantsServed, Granted
    <3> QED  BY <3>3, <3>4, <3>5, <3>7, <3>8 DEF SessionInv
  <2>2. ASSUME NEW b \in Buffers, UNCHANGED holds,
               stack' = Append(stack, Frame(c, cmd, b, IF cmd = "OPEN_SESSION" THEN Null ELSE session[c]))
        PROVE  SessionInv'
    <3> DEFINE s == IF cmd = "OPEN_SESSION" THEN Null ELSE session[c]
               f == Frame(c, cmd, b, s)
    <3>1. s \in Sessions \cup {Null}
      BY <2>0
    <3>2. /\ cmd = "OPEN_SESSION" => s = Null
          /\ cmd # "OPEN_SESSION" => s = session[c] /\ holds[c] # "no"
      BY <2>0
    <3> HIDE DEF s
    <3>3. /\ f \in FrameType /\ f.client = c /\ f.cmd = cmd /\ f.sid = s /\ f.Arg0 # "OK"
          /\ f.ret = "none" /\ f.world = "normal"
      BY <3>1, FrameValues DEF Frame, FrameType
    <3>4. stack' = Append(stack, f)
      BY <2>2 DEF s
    <3> HIDE DEF f
    <3>5. AnswerOK(f) /\ OwnSession(f) /\ Idle(f.client)
      BY <3>2, <3>3, <2>0 DEF AnswerOK, OwnSession
    <3> QED  BY <3>3, <3>4, <3>5, <2>0, <2>2, SessionPushed
  <2> QED  BY <2>1, <2>2, <1>2 DEF SmcBegin
<1>3. ASSUME stack # <<>>
      PROVE  Top \in FrameType /\ AnswerOK(Top)
  BY <1>3, StackTop DEF SmcTypeOK, Top, SessionInv, CallsOK
\* Steps that leave the sessions alone and do not complete the call.
<1>4. ASSUME stack # <<>>, NEW f \in FrameType, SetTop(f), f.client = Top.client, f.cmd = Top.cmd,
             f.sid = Top.sid, f.ret = Top.ret, UNCHANGED <<session, holds, teeOpen>>,
             f.Arg0 # "OK", Top.Arg0 # "OK"
      PROVE  SessionInv'
  <2>1. ~Granted(f) /\ AnswerOK(f)
    BY <1>3, <1>4 DEF Granted, AnswerOK
  <2> QED  BY <1>4, <2>1, SessionKept
<1>5. CASE ArmCallSmc
  <2> DEFINE f == [Top EXCEPT !.world = "secure", !.ptr = Null, !.rpc = "none",
                              !.rpcCmd = "none", !.rpcRet = "none"]
  <2>1. stack # <<>> /\ SetTop(f) /\ UNCHANGED <<session, holds, teeOpen>>
        /\ Top.Arg0 \in {"CALL_WITH_ARG", "CALL_RETURN_FROM_RPC"}
    BY <1>5 DEF ArmCallSmc, Running, client
  <2>2. Top \in FrameType
    BY <2>1, <1>3
  <2>3. f \in FrameType
    <3>1. "none" \in Codes
      BY DEF Codes
    <3> QED  BY <3>1, <2>2, FrameValues DEF FrameType
  <2>4. /\ f.client = Top.client /\ f.cmd = Top.cmd /\ f.sid = Top.sid /\ f.ret = Top.ret
        /\ f.Arg0 # "OK" /\ Top.Arg0 # "OK"
    BY <2>1, <2>2 DEF FrameType
  <2> HIDE DEF f
  <2> QED  BY <2>1, <2>3, <2>4, <1>4
<1>6. CASE OpteeRpcCallback
  <2>1. stack # <<>> /\ Top \in FrameType /\ UNCHANGED <<session, holds, teeOpen>> /\ Top.Arg0 # "OK"
    BY <1>6, <1>3 DEF OpteeRpcCallback, Running, client, IsRpc
  <2>2. ASSUME NEW f \in FrameType, Resume(f), f.client = Top.client, f.cmd = Top.cmd,
               f.sid = Top.sid, f.ret = Top.ret
        PROVE  SessionInv'
    <3> DEFINE g == [f EXCEPT !.Arg0 = "CALL_RETURN_FROM_RPC"]
    <3>1. /\ g \in FrameType /\ g.client = Top.client /\ g.cmd = Top.cmd /\ g.sid = Top.sid
          /\ g.ret = Top.ret /\ g.Arg0 # "OK"
      BY <2>2, FrameValues DEF FrameType
    <3>2. SetTop(g)  BY <2>2 DEF Resume
    <3> HIDE DEF g
    <3> QED  BY <3>1, <3>2, <2>1, <1>4
  <2>3. ASSUME NEW b \in Buffers, Resume([Top EXCEPT !.ptr = b])
        PROVE  SessionInv'
    <3> DEFINE f == [Top EXCEPT !.ptr = b]
    <3>1. f \in FrameType /\ f.client = Top.client /\ f.cmd = Top.cmd /\ f.sid = Top.sid /\ f.ret = Top.ret
      BY <2>1 DEF FrameType
    <3> HIDE DEF f
    <3> QED  BY <3>1, <2>2, <2>3 DEF f
  <2>4. ASSUME NEW b \in Buffers, NEW code \in Codes, Resume([Top EXCEPT !.ptr = b, !.rpcRet = code])
        PROVE  SessionInv'
    <3> DEFINE f == [Top EXCEPT !.ptr = b, !.rpcRet = code]
    <3>1. f \in FrameType /\ f.client = Top.client /\ f.cmd = Top.cmd /\ f.sid = Top.sid /\ f.ret = Top.ret
      BY <2>1 DEF FrameType
    <3> HIDE DEF f
    <3> QED  BY <3>1, <2>2, <2>4 DEF f
  <2>5. ASSUME NEW code \in Codes, Answer(code)
        PROVE  SessionInv'
    <3> DEFINE f == [Top EXCEPT !.rpcRet = code]
    <3>1. f \in FrameType /\ f.client = Top.client /\ f.cmd = Top.cmd /\ f.sid = Top.sid /\ f.ret = Top.ret
      BY <2>1 DEF FrameType
    <3>2. Resume(f)  BY <2>5 DEF Answer
    <3> HIDE DEF f
    <3> QED  BY <3>1, <3>2, <2>2
  <2>6. CASE Resume(Top)
    BY <2>1, <2>2, <2>6
  <2>7. CASE OpteeRpcAlloc
    BY <2>7, <2>3, <2>6, Zenon DEF OpteeRpcAlloc
  <2>8. CASE OpteeRpcFree
    BY <2>8, <2>6 DEF OpteeRpcFree
  <2>9. CASE OpteeRpcCmdShmAlloc
    <3>1. "SUCCESS" \in Codes /\ "BAD_PARAMETERS" \in Codes /\ "OUT_OF_MEMORY" \in Codes
      BY DEF Codes
    <3>2. ASSUME NEW b \in Buffers \ live, Resume([Top EXCEPT !.ptr = b, !.rpcRet = "BAD_PARAMETERS"])
          PROVE  SessionInv'
      <4>1. b \in Buffers
        BY <3>2
      <4> QED  BY <3>1, <3>2, <4>1, <2>4, Zenon
    <3> QED  BY <3>1, <3>2, <2>9, <2>4, <2>5, Zenon DEF OpteeRpcCmdShmAlloc
  <2>10. CASE OpteeRpcCmdShmFree
    BY <2>10, <2>5 DEF OpteeRpcCmdShmFree, Codes
  <2>11. CASE OpteeRpcCmdService
    BY <2>11, <2>5 DEF OpteeRpcCmdService, Codes
  <2>12. CASE OpteeRpcUnsupported
    BY <2>12, <2>5, <2>6 DEF OpteeRpcUnsupported, Codes
  <2> QED  BY <2>7, <2>8, <2>9, <2>10, <2>11, <2>12, <1>6 DEF OpteeRpcCallback
<1>7. CASE SmcEnd
  BY <1>7, SessionPopped
<1>8. ASSUME Running("secure")
      PROVE  stack # <<>> /\ Top \in FrameType /\ AnswerOK(Top) /\ Top.Arg0 # "OK" /\ Top.ret = "none"
  BY <1>8, <1>3 DEF Running, AnswerOK
<1>9. CASE TeeRefuse
  <2>1. PICK code \in {"UNKNOWN_FUNCTION", "ETHREAD_LIMIT"} :
               SetTop([Top EXCEPT !.world = "normal", !.Arg0 = code])
    BY <1>9 DEF TeeRefuse
  <2>2. Running("secure") /\ UNCHANGED <<session, holds, teeOpen>>
    BY <1>9 DEF TeeRefuse, client
  <2> DEFINE f == [Top EXCEPT !.world = "normal", !.Arg0 = code]
  <2>3. stack # <<>> /\ Top \in FrameType /\ Top.Arg0 # "OK"
    BY <2>2, <1>8
  <2>4. /\ f \in FrameType /\ f.client = Top.client /\ f.cmd = Top.cmd /\ f.sid = Top.sid
        /\ f.ret = Top.ret /\ f.Arg0 # "OK"
    BY <2>3, FrameValues DEF FrameType
  <2>5. SetTop(f)  BY <2>1
  <2> HIDE DEF f
  <2> QED  BY <2>2, <2>3, <2>4, <2>5, <1>4
<1>10. CASE TeeRpc
  <2>1. PICK fn \in RpcFuncs, cmd \in RpcCmds \cup {"none"}, p \in cached \cup {Null, "size"} :
             SetTop([Top EXCEPT !.world = "normal", !.Arg0 = "RPC", !.ptr = p, !.rpc = fn,
                                !.rpcCmd = cmd, !.rpcs = @ + 1])
    BY <1>10, Zenon DEF TeeRpc
  <2> DEFINE n == Top.rpcs + 1
             f == [Top EXCEPT !.world = "normal", !.Arg0 = "RPC", !.ptr = p, !.rpc = fn,
                              !.rpcCmd = cmd, !.rpcs = n]
  <2>2. stack # <<>> /\ Top \in FrameType /\ UNCHANGED <<session, holds, teeOpen>> /\ Top.Arg0 # "OK"
    BY <1>10, <1>8 DEF TeeRpc, client
  <2>3. n \in Nat /\ p \in Buffers \cup {Null, "size"} /\ fn \in Funcs /\ cmd \in Cmds \cup {"none"}
    BY <2>2, SmcAssumption DEF FrameType, SmcTypeOK
  <2>4. SetTop(f)
    BY <2>1, <2>2
  <2> HIDE DEF n
  <2>5. f.client = Top.client /\ f.cmd = Top.cmd /\ f.sid = Top.sid /\ f.ret = Top.ret /\ f.Arg0 # "OK"
    BY <2>2 DEF FrameType
  <2>6. f \in FrameType
    <3>1. f = [Top EXCEPT !.world = "normal", !.Arg0 = "RPC", !.ptr = p, !.rpc = fn,
                          !.rpcCmd = cmd, !.rpcs = n]
      OBVIOUS
    <3> HIDE DEF f
    <3> QED  BY <2>2, <2>3, <3>1, FrameValues DEF FrameType
  <2> HIDE DEF f
  <2> QED  BY <2>2, <2>4, <2>5, <2>6, <1>4
<1>11. CASE TeeReturn
  <2>0. stack # <<>> /\ Top \in FrameType /\ AnswerOK(Top) /\ Top.Arg0 # "OK" /\ Top.ret = "none"
        /\ UNCHANGED <<session, holds>>
    BY <1>11, <1>8 DEF TeeReturn, client
  <2>1. ASSUME NEW code \in {"SUCCESS", "ACCESS_DENIED"}, NEW sid \in Sessions \cup {Null}, TeeDone(code, sid),
               Top.cmd # "OPEN_SESSION" \/ code # "SUCCESS" => sid = Top.sid,
               \/ teeOpen \subseteq teeOpen'
               \/ Top.cmd = "CLOSE_SESSION" /\ teeOpen' = teeOpen \ {sid},
               Top.cmd = "OPEN_SESSION" /\ code = "SUCCESS" => sid \in teeOpen' \ teeOpen
        PROVE  SessionInv'
    <3> DEFINE f == [Top EXCEPT !.world = "normal", !.Arg0 = "OK", !.ret = code, !.sid = sid]
    <3>1. /\ f \in FrameType /\ f.client = Top.client /\ f.cmd = Top.cmd /\ f.ret = code
          /\ f.sid = sid /\ f.Arg0 = "OK" /\ f.world = "normal"
      BY <2>0, FrameValues DEF FrameType
    <3>2. SetTop(f)  BY <2>1 DEF TeeDone
    <3> HIDE DEF f
    <3>3. AnswerOK(f) /\ (Granted(f) => f.sid \in teeOpen' \ teeOpen)
      BY <2>0, <2>1, <3>1 DEF AnswerOK, Granted
    <3> QED  BY <2>0, <2>1, <3>1, <3>2, <3>3, SessionKept
  <2>2. Top.sid \in Sessions \cup {Null}
    BY <2>0 DEF FrameType
  <2>3. ASSUME Top.cmd = "OPEN_SESSION", NEW s \in Sessions \ teeOpen, TeeDone("SUCCESS", s),
               teeOpen' = teeOpen \cup {s}
        PROVE  SessionInv'
    BY <2>1, <2>3
  <2>4. CASE Top.cmd = "CLOSE_SESSION" /\ TeeDone("SUCCESS", Top.sid) /\ teeOpen' = teeOpen \ {Top.sid}
    BY <2>1, <2>2, <2>4
  <2>5. CASE Top.cmd = "INVOKE_COMMAND" /\ TeeDone("SUCCESS", Top.sid) /\ UNCHANGED teeOpen
    BY <2>1, <2>2, <2>5
  <2>6. CASE TeeDone("ACCESS_DENIED", Top.sid) /\ UNCHANGED teeOpen
    BY <2>1, <2>2, <2>6
  <2> QED  BY <2>3, <2>4, <2>5, <2>6, <1>11 DEF TeeReturn
<1>12. ASSUME NEW c \in Clients,
              TEEC_AllocateSharedMemory(c) \/ TEEC_ReleaseSharedMemory(c) \/ OpteeClientApiFinalize(c)
       PROVE  SessionInv'
  BY <1>12, <1>1 DEF TEEC_AllocateSharedMemory, TEEC_ReleaseSharedMemory, OpteeClientApiFinalize, client
<1>13. CASE UNCHANGED vars
  BY <1>13, <1>1 DEF vars, client
<1> QED  BY <1>2, <1>5, <1>6, <1>7, <1>9, <1>10, <1>11, <1>12, <1>13 DEF Next, NormalWorld, SecureWorld

\* A client whose last request for a session was granted and that has no call in
\* progress holds one that OP-TEE serves and no other such client holds: a request
\* that does not reach OP-TEE leaves the session in use, a repeated one that is
\* granted replaces it, and no interrupting call closes another's, for any number of
\* clients and any nesting.
THEOREM SessionServedHolds == Spec => []SessionServed
<1>1. Init => OwnerInv /\ SessionInv
  <2> SUFFICES ASSUME Init PROVE OwnerInv /\ SessionInv
    OBVIOUS
  <2>1. stack \in Seq(FrameType) /\ Len(stack) = 0 /\ 1 .. Len(stack) = {}
    BY DEF Init
  <2>2. ClientBuffers = {}
    BY DEF Init, ClientBuffers
  <2>3. SmcTypeOK
    BY <2>1 DEF Init, SmcTypeOK
  <2>4. OwnerInv
    BY <2>1, <2>2, <2>3 DEF Init, OwnerInv, SmcRegisters, OneOwner, Outside
  <2>5. \A c \in Clients : holds[c] = "no"
    BY DEF Init
  <2> QED  BY <2>1, <2>4, <2>5 DEF SessionInv, OneCallEach, CallsOK, RefusedHaveNone, HeldServed,
                                   GrantsServed, Holder
<1>2. OwnerInv /\ SessionInv /\ [Next]_vars => OwnerInv' /\ SessionInv'
  BY OwnerStep, SessionStep DEF OwnerInv
<1>3. OwnerInv /\ SessionInv => SessionServed
  <2> SUFFICES ASSUME SessionInv, NEW c \in Clients, holds[c] = "open", Idle(c)
               PROVE  /\ session[c] \in teeOpen
                      /\ \A d \in Clients \ {c} : holds[d] = "open" /\ Idle(d) => session[d] # session[c]
    BY DEF SessionServed
  <2>1. \A d \in Clients : holds[d] = "open" /\ Idle(d) => Holder(d)
    BY DEF Holder, Idle
  <2> QED  BY <2>1 DEF SessionInv, HeldServed
<1> QED  BY <1>1, <1>2, <1>3, PTL DEF Spec
===============================================================================
