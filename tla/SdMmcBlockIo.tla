----------------------------- MODULE SdMmcBlockIo -----------------------------
(*****************************************************************************)
(* IoBlocks (BlockIo.c): a read or a write of many blocks is checked, cut    *)
(* into transfers the host controller can do, and every transfer is tried a  *)
(* few times.  Sizes are bytes, as in the source; BlockSize is the 512 of    *)
(* the source scaled down, and Word stands for 2^32.                         *)
(*                                                                           *)
(* The timer of SdMmc.c may reset the slot between two steps, after which    *)
(* the media is another one, or none with a block size of 0.                 *)
(*****************************************************************************)
EXTENDS Integers

CONSTANTS
  BlockSize, LastBlock,  \* of a card
  MaxBlocks,             \* HostCapabilities.MaximumBlockCount
  Retries,               \* DataCommandRetryCount
  Word,                  \* where UINT32 variables wrap
  Lbas, Sizes,           \* the requests: first block and bytes
  Ids,                   \* the MediaIds of the cards
  Failures,              \* TRUE if transfers may fail
  MaxResets              \* bound on slot resets

ASSUME BlockIoAssumption ==
  /\ BlockSize \in Nat \ {0} /\ LastBlock \in Nat /\ MaxBlocks \in Nat \ {0}
  /\ Retries \in Nat \ {0} /\ Word \in Nat \ {0}
  /\ MaxBlocks * BlockSize < Word /\ Word % BlockSize = 0 /\ LastBlock < Word
  /\ Lbas \subseteq Nat /\ Sizes \subseteq Nat
  /\ Failures \in BOOLEAN /\ MaxResets \in Nat

VARIABLES
  media,    \* BlockIo.Media
  req,      \* the request: direction, MediaId, first block, bytes
  at,       \* where IoBlocks is
  max,      \* MaxTransferSize
  left,     \* BytesRemaining
  pos,      \* CurrentBuffer - Buffer
  lba,      \* CurrentLba
  retry,    \* Retry
  status,   \* Status
  moved,    \* per block of the request: the media and block it was moved to or from
  resets,
  blind     \* history: this request advanced when there was no block size to count in

loop == <<max, left, pos, lba, retry>>
ioVars == <<media, req, at, max, left, pos, lba, retry, status, moved, resets, blind>>

Media(i, ro) == [id |-> i, present |-> TRUE, ro |-> ro, bs |-> BlockSize, last |-> LastBlock]
NoMedia      == [id |-> 0, present |-> FALSE, ro |-> FALSE, bs |-> 0, last |-> 0]
Medias       == {Media(i, ro) : i \in Ids, ro \in BOOLEAN} \cup {NoMedia}
NotMoved     == [id |-> 0, lba |-> 0]

Min2(a, b) == IF a < b THEN a ELSE b

\* Division on the ARM targets: by zero it yields zero, and the remainder is a.
Div(a, b) == IF b = 0 THEN 0 ELSE a \div b
Mod(a, b) == IF b = 0 THEN a ELSE a % b

Requests == [dir : {"read", "write"}, id : Ids \cup {0}, lba : Lbas, size : Sizes]

\* The blocks of the request, numbered from 0.
Blocks(r) == 0 .. (r.size \div BlockSize - 1)

IoInit ==
  /\ media \in Medias
  /\ req \in Requests
  /\ at = "idle" /\ status = "none"
  /\ max = 0 /\ left = 0 /\ pos = 0 /\ lba = 0 /\ retry = 0
  /\ moved = [b \in {} |-> NotMoved]
  /\ resets = 0 /\ blind = FALSE

\* The last block of a request; the count is 32 bits, and the sum 64, where a -1 is
\* past the end of every card.
LastOf(r) == r.lba + (Div(r.size, media.bs) % Word) - 1

\* The checks at the head of IoBlocks, in their order.
Checked(r) ==
  CASE media.id # r.id                       -> "MEDIA_CHANGED"
    [] ~media.present                        -> "NO_MEDIA"
    [] r.size = 0                            -> "SUCCESS"
    [] r.dir = "write" /\ media.ro           -> "WRITE_PROTECTED"
    [] Mod(r.size, media.bs) # 0             -> "BAD_BUFFER_SIZE"
    [] LastOf(r) < 0 \/ LastOf(r) > media.last -> "INVALID_PARAMETER"
    [] OTHER                                 -> "none"

IoBegin ==
  /\ at = "idle"
  /\ \E r \in Requests :
       /\ req' = r
       /\ moved' = [b \in Blocks(r) |-> NotMoved]
       /\ status' = Checked(r)
       /\ at' = IF Checked(r) = "none" THEN "setup" ELSE "done"
  /\ blind' = FALSE
  /\ UNCHANGED <<media, loop, resets>>

\* The loop's variables are UINT32; Status stays uninitialized until a transfer.
IoSetup ==
  /\ at = "setup"
  /\ max' = (MaxBlocks * media.bs) % Word
  /\ left' = req.size % Word
  /\ pos' = 0 /\ lba' = req.lba % Word /\ retry' = 0
  /\ at' = "chunk"
  /\ UNCHANGED <<media, req, status, moved, resets, blind>>

Chunk == Min2(left, max)

\* The blocks of the request that the current transfer covers, and where to.
InChunk(b)  == b * BlockSize >= pos /\ b * BlockSize < pos + Chunk
Transfer(n) == [b \in DOMAIN moved |->
                 IF InChunk(b) /\ b * BlockSize < pos + n * BlockSize
                 THEN [id |-> media.id, lba |-> lba + b - pos \div BlockSize]
                 ELSE moved[b]]

\* SdhcSendDataCommand succeeds; or it fails after some of the blocks.
SendOk ==
  /\ at = "chunk" /\ left > 0 /\ media.present
  /\ moved' = Transfer(Chunk \div BlockSize)
  /\ status' = "SUCCESS" /\ at' = "advance"
  /\ UNCHANGED <<media, req, loop, resets, blind>>

SendFails ==
  /\ at = "chunk" /\ left > 0
  /\ \/ ~media.present /\ UNCHANGED moved
     \/ /\ media.present /\ Failures
        /\ \E n \in 0 .. Chunk \div BlockSize : moved' = Transfer(n)
  /\ status' = "DEVICE_ERROR"
  /\ retry' = retry + 1
  /\ at' = IF retry + 1 < Retries THEN "chunk" ELSE "advance"
  /\ UNCHANGED <<media, req, max, left, pos, lba, resets, blind>>

\* Faulty variant: blocks are counted in bytes.
AdvanceInBytes ==
  /\ at = "advance"
  /\ left' = left - Chunk
  /\ lba' = (lba + Chunk) % Word
  /\ pos' = pos + Chunk /\ retry' = 0 /\ at' = "chunk"
  /\ UNCHANGED <<media, req, max, status, moved, resets, blind>>

\* The next transfer, whether this one succeeded or not.
Advance ==
  /\ at = "advance"
  /\ left' = left - Chunk
  /\ lba' = (lba + Div(Chunk, media.bs)) % Word
  /\ pos' = pos + Chunk
  /\ retry' = 0
  /\ at' = "chunk"
  /\ blind' = (blind \/ (Chunk > 0 /\ media.bs = 0))
  /\ UNCHANGED <<media, req, max, status, moved, resets>>

\* A loop that never ran leaves Status as it was: any value.
IoEnd ==
  /\ at = "chunk" /\ left = 0
  /\ status' \in IF status = "none" THEN {"SUCCESS", "DEVICE_ERROR"} ELSE {status}
  /\ at' = "done"
  /\ UNCHANGED <<media, req, loop, moved, resets, blind>>

\* The caller looks at the result, and may start over.
IoReturn ==
  /\ at = "done"
  /\ at' = "idle" /\ status' = "none"
  /\ max' = 0 /\ left' = 0 /\ pos' = 0 /\ lba' = 0 /\ retry' = 0
  /\ moved' = [b \in {} |-> NotMoved]
  /\ UNCHANGED <<media, req, resets, blind>>

\* CheckCardsCallback resets the slot: the card was ejected, or replaced.
SlotReset ==
  /\ resets < MaxResets
  /\ resets' = resets + 1
  /\ media' \in Medias \ {media}
  /\ UNCHANGED <<req, at, loop, status, moved, blind>>

IoBlocks == IoBegin \/ IoSetup \/ SendOk \/ SendFails \/ Advance \/ IoEnd

IoNext == IoBlocks \/ IoReturn \/ SlotReset

IoSpec == IoInit /\ [][IoNext]_ioVars

-----------------------------------------------------------------------------
Moved(b) == moved[b] # NotMoved

\* Block b of the buffer is moved to or from block Lba + b of the card and no other,
\* and never past its end, however the request is cut into transfers, whichever of
\* them fail and are retried, and also after another card has taken its place; but if
\* the slot is empty when IoBlocks advances, the block size it divides by is 0, and the
\* rest of the request is not where it belongs should a card come back (BlockIo.c:272).
RightBlock ==
  ~blind => \A b \in DOMAIN moved : Moved(b) => /\ moved[b].lba = req.lba + b
                                                /\ moved[b].lba <= LastBlock

-----------------------------------------------------------------------------
\* BlockIoReadBlocks and BlockIoWriteBlocks: all the blocks are moved, or an error
\* is returned (BlockIo.c:326, 494).
AllOrError == at = "done" /\ status = "SUCCESS" => \A b \in Blocks(req) : Moved(b)
=============================================================================
