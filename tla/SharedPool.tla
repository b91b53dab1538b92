------------------------------ MODULE SharedPool ------------------------------
(*****************************************************************************)
(* What an allocator of OP-TEE shared memory promises: it hands out aligned  *)
(* buffers inside one block of memory, never a byte that is in use, and takes *)
(* them back one at a time.  How blocks are laid out, marked and accounted   *)
(* for is left to the implementation.                                        *)
(*****************************************************************************)
EXTENDS Integers

CONSTANTS Start, End, Align, Lengths

VARIABLE live      \* the buffers handed out and not yet taken back

Bytes(b) == b.base .. (b.base + b.size - 1)

PoolInit == live = {}

PoolAlloc(b) ==
  /\ b.base % Align = 0
  /\ Bytes(b) \subseteq Start .. (End - 1)
  /\ \A c \in live : Bytes(b) \cap Bytes(c) = {}
  /\ live' = live \cup {b}

PoolFree(b) == live' = live \ {b}

PoolNext ==
  \/ \E b \in [base : Start .. End, size : Lengths] : PoolAlloc(b)
  \/ \E b \in live : PoolFree(b)

PoolSpec == PoolInit /\ [][PoolNext]_live
===============================================================================
