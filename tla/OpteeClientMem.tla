---------------------------- MODULE OpteeClientMem ----------------------------
(*****************************************************************************)
(* The allocator of the memory block that the normal world shares with       *)
(* OP-TEE (OpteeClientMem.c).  Every driver image that links the OP-TEE      *)
(* client library has its own copy of the counters; the memory itself and    *)
(* the GCD map that says which parts of it are allocated are common to all.  *)
(*                                                                           *)
(* A memory cell stands for a few bytes; a block header occupies HeaderSize  *)
(* cells, of which the first one carries Signature, Size and Address.        *)
(* ASSERT is a check, not a halt: a release build compiles it to nothing, so *)
(* the conditions the source asserts are invariants here, never guards.      *)
(*****************************************************************************)
EXTENDS Integers, FiniteSets

CONSTANTS
  Images,       \* the driver images linked with the library
  PageSize,     \* OPTEE_SHM_ALLOC_ALIGN, EFI_PAGE_SIZE
  HeaderSize,   \* sizeof (OPTEE_CLIENT_MEM_HEADER)
  ShmStart,     \* OPTEE_SHM_START
  ShmSize,      \* OPTEE_SHM_SIZE
  Sizes,        \* sizes that callers ask for
  Alignments,   \* alignments that callers ask for
  Word,         \* 2^64, where UINT64 wraps
  GcdFaults,    \* the GCD services that may fail: "Get", "Add", "AllocInit",
                \* "FreeInit", "Alloc", "Free"
  MaxOverruns   \* how often a client may write past the end of its block

ShmEnd == ShmStart + ShmSize
Shm    == ShmStart .. (ShmEnd - 1)

ASSUME MemAssumption ==
  /\ PageSize \in Nat \ {0}
  /\ HeaderSize \in Nat \ {0} /\ HeaderSize < PageSize
  /\ ShmStart \in Nat \ {0} /\ ShmStart % PageSize = 0
  /\ ShmSize \in Nat \ {0}  /\ ShmSize % PageSize = 0
  /\ Word \in Nat \ {0}
  /\ Sizes \subseteq Nat
  /\ \A s \in Sizes : HeaderSize + s + PageSize < Word
  /\ Alignments \subseteq Nat
  /\ MaxOverruns \in Nat

VARIABLES
  status,       \* per image: "none", "ready", "failed" or "finalized"
  gcdType,      \* GCD type of the shared memory range
  gcdAlloc,     \* the ranges the GCD holds as allocated
  mem,          \* contents of the shared memory
  held,         \* the buffers callers were given and have not freed
  allocCount,   \* mSharedMemAllocationCount, one per image
  allocSize,    \* mSharedMemAllocSize, one per image
  leakReported, \* images whose OpteeClientApiFinalize reported a leak
  overruns      \* writes past the end of a block so far

poolVars == <<gcdType, gcdAlloc, mem, held, allocCount, allocSize>>
memVars  == <<status, poolVars, leakReported, overruns>>

-------------------------------------------------------------------------------
(* Contents of a cell. *)
Garbage == [kind |-> "garbage"]
Fence   == [kind |-> "fence"]
Data    == [kind |-> "data"]
Zero    == [kind |-> "zero"]
Header(addr, n) == [kind |-> "header", Address |-> addr, Size |-> n]
Headers == [kind : {"header"}, Address : Nat, Size : Nat]
Cells   == {Garbage, Fence, Data, Zero} \cup Headers

Span(base, n) == base .. (base + n - 1)
Apart(r, s)   == r.base + r.size <= s.base \/ s.base + s.size <= r.base

IsPowerOf2(n) == \E e \in 0 .. n : 2 ^ e = n

AlignmentOK(a) == (a = 0 \/ IsPowerOf2(a)) /\ a <= PageSize

\* Header, payload and enough slack to cross one alignment boundary.
BlockSize(size) == (HeaderSize + size + (PageSize - 1)) % Word

\* Faulty variants: no room for the header; no alignment.
UserBaseNoHeader(base)  == base
UserBaseUnaligned(base) == base + HeaderSize

\* The first aligned address that leaves room for the header.
UserBase(base) ==
  LET u == base + HeaderSize + (PageSize - 1) IN u - (u % PageSize)

BlockOf(h)   == [base |-> h.base, size |-> BlockSize(h.size)]
UserCells(h) == Span(h.user, h.size)

\* The header OpteeClientMemFree finds in front of p, and the range it names.
HeaderAt(p) == mem[p - HeaderSize]
RangeAt(p)  == [base |-> HeaderAt(p).Address, size |-> HeaderAt(p).Size]

IsSharedMemoryRegionFree(b, n) == \A a \in Span(b, n) : mem[a] = Fence

\* Faulty variants: the region without its header's length; from a page too early.
MarkShortRegion(b, n) ==
  mem' = [a \in Shm |-> IF a \in Span(b, n - HeaderSize) THEN Fence ELSE mem[a]]
MarkFromPreviousPage(b, n) ==
  mem' = [a \in Shm |-> IF a \in Span(b - PageSize, n + PageSize) THEN Fence ELSE mem[a]]

MarkSharedMemoryRegionAsFree(b, n) ==
  mem' = [a \in Shm |-> IF a \in Span(b, n) THEN Fence ELSE mem[a]]

-------------------------------------------------------------------------------
(* External: the GCD services of the DXE core.  AllocateMemorySpace with a   *)
(* page alignment and OPTEE_SHM_END as the highest address returns some page *)
(* aligned range of the reserved memory that is not allocated.               *)
GcdFree(n) ==
  {b \in Shm : /\ b % PageSize = 0
               /\ b + n <= ShmEnd
               /\ \A r \in gcdAlloc : Apart([base |-> b, size |-> n], r)}

GcdAllocateFails(n) == GcdFree(n) = {} \/ "Alloc" \in GcdFaults

MemInit ==
  /\ status = [i \in Images |-> "none"]
  /\ gcdType = "NonExistent"
  /\ gcdAlloc = {}
  /\ mem = [a \in Shm |-> Garbage]
  /\ held = {}
  /\ allocCount = [i \in Images |-> 0]
  /\ allocSize = [i \in Images |-> 0]
  /\ leakReported = {}
  /\ overruns = 0

-------------------------------------------------------------------------------
(* GcdSharedMemoryInit: add the range, allocate all of it, fill it with the  *)
(* fence and free it again.  The result of FreeMemorySpace is not assigned   *)
(* to Status, so a failure there still reports success.  The descriptor is   *)
(* then read a second time, which may fail as well.                          *)
GcdSharedMemoryInit(i) ==
  /\ gcdType = "NonExistent"
  /\ \/ /\ "Add" \in GcdFaults
        /\ status' = [status EXCEPT ![i] = "failed"]
        /\ UNCHANGED <<gcdType, gcdAlloc, mem>>
     \/ /\ "AllocInit" \in GcdFaults
        /\ status' = [status EXCEPT ![i] = "failed"]
        /\ gcdType' = "Reserved"
        /\ UNCHANGED <<gcdAlloc, mem>>
     \/ /\ \/ status' = [status EXCEPT ![i] = "ready"]
           \/ "Get" \in GcdFaults /\ status' = [status EXCEPT ![i] = "failed"]
        /\ gcdType' = "Reserved"
        /\ MarkSharedMemoryRegionAsFree(ShmStart, ShmSize)
        /\ \/ UNCHANGED gcdAlloc
           \/ /\ "FreeInit" \in GcdFaults
              /\ gcdAlloc' = {[base |-> ShmStart, size |-> ShmSize]}

\* OpteeClientApiInitialize and OpteeClientMemInit: the range is prepared by
\* the first image only; the others find it in the GCD map and go on.
OpteeClientMemInit(i) ==
  /\ status[i] = "none"
  /\ \/ GcdSharedMemoryInit(i)
     \/ /\ gcdType = "Reserved"
        /\ status' = [status EXCEPT ![i] = "ready"]
        /\ UNCHANGED <<gcdType, gcdAlloc, mem>>
     \/ /\ "Get" \in GcdFaults
        /\ status' = [status EXCEPT ![i] = "failed"]
        /\ UNCHANGED <<gcdType, gcdAlloc, mem>>
  /\ UNCHANGED <<held, allocCount, allocSize, leakReported, overruns>>

-------------------------------------------------------------------------------
(* InternalMemAlloc, by outcome.  Only AllocOk returns a pointer.            *)
AllocOk(i, size, align, b) ==
  LET n == BlockSize(size)
      p == UserBase(b)
  IN /\ AlignmentOK(align)
     /\ b \in GcdFree(n)
     /\ IsSharedMemoryRegionFree(b, n)
     /\ gcdAlloc' = gcdAlloc \cup {[base |-> b, size |-> n]}
     /\ mem' = [a \in Shm |->
                  IF a = p - HeaderSize THEN Header(b, n)
                  ELSE IF a \in Span(p - HeaderSize, HeaderSize) THEN Zero
                  ELSE mem[a]]
     /\ allocCount' = [allocCount EXCEPT ![i] = (@ + 1) % Word]
     /\ allocSize' = [allocSize EXCEPT ![i] = (@ + n) % Word]
     /\ held' = held \cup {[user |-> p, size |-> size, base |-> b]}
     /\ UNCHANGED gcdType

\* The range the GCD returned is not filled with the fence: NULL is returned
\* and the range stays allocated in the GCD.
AllocOverflowDetected(size, align, b) ==
  LET n == BlockSize(size)
  IN /\ AlignmentOK(align)
     /\ b \in GcdFree(n)
     /\ ~IsSharedMemoryRegionFree(b, n)
     /\ gcdAlloc' = gcdAlloc \cup {[base |-> b, size |-> n]}
     /\ UNCHANGED <<gcdType, mem, held, allocCount, allocSize>>

AllocRefused(size, align) ==
  /\ ~AlignmentOK(align) \/ GcdAllocateFails(BlockSize(size))
  /\ UNCHANGED poolVars

\* OpteeClientAlignedMemAlloc; OpteeClientMemAlloc is the same with the fixed
\* alignment OPTEE_CLIENT_MEM_BYTE_ALIGNMENT.
OpteeClientAlignedMemAlloc(i, size, align) ==
  /\ status[i] = "ready"
  /\ \/ \E b \in Shm : AllocOk(i, size, align, b)
     \/ \E b \in Shm : AllocOverflowDetected(size, align, b)
     \/ AllocRefused(size, align)
  /\ UNCHANGED <<status, leakReported, overruns>>

-------------------------------------------------------------------------------
(* OpteeClientMemFree, by outcome.  A pointer whose header carries no        *)
(* signature is refused.  The fence is written before FreeMemorySpace is     *)
(* called: when that fails the header is gone, so the buffer is lost to its  *)
(* holder and its range stays allocated.                                     *)
FreeInvalid(p) ==
  /\ HeaderAt(p).kind # "header"
  /\ UNCHANGED poolVars

FreeGcdError(p) ==
  /\ HeaderAt(p).kind = "header"
  /\ "Free" \in GcdFaults \/ RangeAt(p) \notin gcdAlloc
  /\ MarkSharedMemoryRegionAsFree(RangeAt(p).base, RangeAt(p).size)
  /\ held' = {h \in held : h.user # p}
  /\ UNCHANGED <<gcdType, gcdAlloc, allocCount, allocSize>>

\* Faulty variant: the region is not marked.
FreeOkUnmarked(i, p) ==
  /\ HeaderAt(p).kind = "header" /\ RangeAt(p) \in gcdAlloc
  /\ gcdAlloc' = gcdAlloc \ {RangeAt(p)}
  /\ allocCount' = [allocCount EXCEPT ![i] = (@ - 1) % Word]
  /\ allocSize' = [allocSize EXCEPT ![i] = (@ - RangeAt(p).size) % Word]
  /\ held' = {h \in held : h.user # p}
  /\ UNCHANGED <<gcdType, mem>>

FreeOk(i, p) ==
  /\ HeaderAt(p).kind = "header"
  /\ RangeAt(p) \in gcdAlloc
  /\ MarkSharedMemoryRegionAsFree(RangeAt(p).base, RangeAt(p).size)
  /\ gcdAlloc' = gcdAlloc \ {RangeAt(p)}
  /\ allocCount' = [allocCount EXCEPT ![i] = (@ - 1) % Word]
  /\ allocSize' = [allocSize EXCEPT ![i] = (@ - RangeAt(p).size) % Word]
  /\ held' = {h \in held : h.user # p}
  /\ UNCHANGED gcdType

\* What callers free: addresses of the kind the allocator returns, among them
\* ones that were freed before, or that another image allocated.
UserPointers == {a \in Shm : a % PageSize = 0 /\ a >= ShmStart + HeaderSize}

OpteeClientMemFree(i, p) ==
  /\ status[i] = "ready"
  /\ FreeInvalid(p) \/ FreeGcdError(p) \/ FreeOk(i, p)
  /\ UNCHANGED <<status, leakReported, overruns>>

\* OpteeClientApiFinalize, as far as it reports what was not freed.
OpteeClientMemFinalize(i) ==
  /\ status[i] = "ready"
  /\ status' = [status EXCEPT ![i] = "finalized"]
  /\ leakReported' = leakReported \cup {j \in {i} : allocCount[j] # 0 \/ allocSize[j] # 0}
  /\ UNCHANGED <<poolVars, overruns>>

-------------------------------------------------------------------------------
(* The holder of a buffer, in the normal or in the secure world. *)
UseBuffer(h) ==
  /\ mem' = [a \in Shm |-> IF a \in UserCells(h) THEN Data ELSE mem[a]]
  /\ UNCHANGED <<status, gcdType, gcdAlloc, held, allocCount, allocSize,
                 leakReported, overruns>>

\* The fault that the fence is there for: a write just behind the block.
Overrun(h) ==
  LET a == h.base + BlockSize(h.size)
  IN /\ overruns < MaxOverruns
     /\ a \in Shm
     /\ mem' = [mem EXCEPT ![a] = Data]
     /\ overruns' = overruns + 1
     /\ UNCHANGED <<status, gcdType, gcdAlloc, held, allocCount, allocSize, leakReported>>

MemNext ==
  \/ \E i \in Images : OpteeClientMemInit(i) \/ OpteeClientMemFinalize(i)
  \/ \E i \in Images, s \in Sizes, al \in Alignments : OpteeClientAlignedMemAlloc(i, s, al)
  \/ \E i \in Images, p \in UserPointers : OpteeClientMemFree(i, p)
  \/ \E h \in held : UseBuffer(h) \/ Overrun(h)

MemSpec == MemInit /\ [][MemNext]_memVars

-------------------------------------------------------------------------------
(* Type correctness of the allocator's state: the counters are UINT64, every *)
(* cell holds one of the contents the code writes.                           *)
TypeOK ==
  /\ status \in [Images -> {"none", "ready", "failed", "finalized"}]
  /\ gcdType \in {"NonExistent", "Reserved"}
  /\ gcdAlloc \subseteq [base : Nat, size : Nat]
  /\ mem \in [Shm -> Cells]
  /\ held \subseteq [user : Nat, size : Nat, base : Nat]
  /\ allocCount \in [Images -> 0 .. (Word - 1)]
  /\ allocSize \in [Images -> 0 .. (Word - 1)]
  /\ leakReported \subseteq Images
  /\ overruns \in 0 .. MaxOverruns

\* Buffers that are held at the same time never share a byte, not even of their
\* headers, and lie with their headers inside the shared block
\* (InternalMemAlloc's ASSERTs on BaseAddress and UserBaseAddress), whoever
\* allocates and frees, whatever is freed twice and whichever service fails.
NoOverlap ==
  \A h \in held :
    /\ Span(h.user - HeaderSize, HeaderSize + h.size) \subseteq Shm
    /\ Span(h.user - HeaderSize, HeaderSize + h.size)
         \subseteq Span(h.base, BlockSize(h.size))
    /\ \A g \in held : g = h \/ Apart(BlockOf(g), BlockOf(h))

\* The header in front of every held buffer stays what InternalMemAlloc wrote,
\* so that OpteeClientMemFree frees exactly the buffer's own range, and no other
\* cell of the block can be taken for a header.
HeadersMatchHeld ==
  /\ \A h \in held : HeaderAt(h.user) = Header(h.base, BlockSize(h.size))
  /\ \A a \in Shm : mem[a].kind = "header" => \E h \in held : a = h.user - HeaderSize

\* Until a client overruns its block, every held buffer's range is allocated in
\* the GCD and every cell outside the allocated ranges carries the fence, whatever
\* failed and whoever freed what: no allocation is refused by a false "Potential
\* memory overflow detected", unless the block was never filled because its
\* first allocation failed (GcdSharedMemoryInit), and then nothing is handed out.
FenceCoversFree ==
  (gcdType = "Reserved" /\ overruns = 0) =>
     \/ held = {} /\ \A a \in Shm : mem[a] = Garbage
     \/ /\ {BlockOf(h) : h \in held} \subseteq gcdAlloc
        /\ \A a \in Shm : (\A r \in gcdAlloc : a \notin Span(r.base, r.size)) => mem[a] = Fence

\* The bytes of a buffer change only when its holder writes them: no operation
\* of the allocator and no other holder, not even one that runs past the end of
\* its block, touches them while the buffer is held.
Isolation ==
  [][\A h \in held \cap held' :
       ~UseBuffer(h) => \A a \in UserCells(h) : mem'[a] = mem[a]]_memVars

Pool == INSTANCE SharedPool
          WITH Start <- ShmStart, End <- ShmEnd, Align <- PageSize, Lengths <- Sizes,
               live <- {[base |-> h.user, size |-> h.size] : h \in held}

\* The allocator implements SharedPool: seen through the buffers its callers
\* hold, every step hands out one free aligned buffer, takes one back, or
\* changes nothing.
ImplementsPool == Pool!PoolSpec
===============================================================================
