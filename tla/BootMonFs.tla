------------------------------ MODULE BootMonFs -------------------------------
(*****************************************************************************)
(* The boot monitor file system (ARM/Drivers/BootMonFs): files lie in whole  *)
(* blocks of NOR flash, each described by an image description in the last   *)
(* bytes of its last block.  The driver finds the files by scanning the      *)
(* flash and keeps them in a list; writes are kept in memory until a flush.  *)
(*                                                                           *)
(* The flash is a function from cells to contents, a description one cell.   *)
(* A flush is a list of disk writes: a device error ends it after some of    *)
(* them, and so does a loss of power, after which only the flash is left.    *)
(*****************************************************************************)
EXTENDS Integers, SequencesExt, Sublists

CONSTANTS
  BmBlock,     \* Media->BlockSize in cells
  BmLast,      \* Media->LastBlock
  BmNames,     \* names of files
  BmSizes,     \* sizes of writes
  BmSeeks,     \* positions that are sought
  BmMaxFiles,  \* bound on files in the list
  BmMaxRegions,\* bound on regions of a file that wait in memory
  BmMaxOps,    \* bound on operations
  BmMaxFaults  \* bound on device errors and losses of power

ASSUME BootMonFsAssumption ==
  /\ BmBlock \in Nat \ {0, 1} /\ BmLast \in Nat /\ (\E n, m \in BmNames : n # m) /\ "" \notin BmNames
  /\ BmSizes \subseteq Nat \ {0} /\ BmSeeks \subseteq Nat
  /\ BmMaxFiles \in Nat /\ BmMaxRegions \in Nat /\ BmMaxOps \in Nat /\ BmMaxFaults \in Nat

VARIABLES
  bmFlash,   \* contents of the cells of the flash
  bmUp,      \* "unloaded", "refused" (no device path in the PCD), "off" (no instance),
             \* "started", "scanned" (Instance->Initialized), "stopped", or "leaked"
  bmFiles,   \* the files linked to Instance->RootFile, in the order of the list
  bmDir,     \* Instance->RootFile->Position
  bmWalk,    \* where BootMonFsFlushDirectory is in the list (0: it is not running)
  bmHits,    \* hazards that have happened since the flash was good
  bmRet,     \* status of the last operation
  bmOps, bmFaults

bmVars == <<bmFlash, bmUp, bmFiles, bmDir, bmWalk, bmHits, bmRet, bmOps, bmFaults>>

Cells == 0 .. ((BmLast + 1) * BmBlock - 1)

\* HW_IMAGE_DESCRIPTION: name, first and last block, bytes of data, RegionCount.  id
\* tells files apart whatever their names are; data is marked with it.
NoDesc == [id |-> 0, name |-> "", start |-> 0, end |-> 0, size |-> 0, count |-> 0]
Blank  == [k |-> "none", id |-> 0, d |-> NoDesc]
DataOf(id) == [k |-> "data", id |-> id, d |-> NoDesc]
DescOf(d) == [k |-> "desc", id |-> d.id, d |-> d]
Address(d) == (d.end + 1) * BmBlock - 1

\* BootMonFsCreateFile: hw is the description as the driver knows it, addr where it is
\* on the flash (0: nowhere), the rest matters while the file is open.
NewFile == [id |-> 0, hw |-> NoDesc, addr |-> 0, open |-> FALSE, name |-> "", size |-> 0, pos |-> 0,
            mode |-> "read", regs |-> <<>>]

OnFlash(f) == f.hw.count > 0
Physical(f) == IF f.hw.count = 0 THEN 0 ELSE (f.hw.end - f.hw.start + 1) * BmBlock

\* BootMonFsIsImageValid (the checksum is computed, and only warned about) and
\* BootMonFsDiscoverNextImage: one file for each description that is in its own last block.
IsImageValid(lba) ==
  LET c == bmFlash[(lba + 1) * BmBlock - 1]
  IN c.k = "desc" /\ c.d.end = lba /\ c.d.start <= c.d.end
Found(lba) ==
  LET c == bmFlash[(lba + 1) * BmBlock - 1]
  IN [NewFile EXCEPT !.id = c.id, !.hw = c.d, !.addr = (lba + 1) * BmBlock - 1]
Scan == LET lbas == Sublist([i \in 1 .. (BmLast + 1) |-> i - 1], {lba \in 0 .. BmLast : IsImageValid(lba)})
        IN [i \in DOMAIN lbas |-> Found(lbas[i])]

\* BootMonFsGetImageLength: what is not flushed yet is added, not joined.
ImageLength(f) ==
  LET length[k \in 0 .. Len(f.regs)] ==
        IF k = 0 THEN f.hw.size
        ELSE LET top == f.regs[k].off + f.regs[k].size
             IN IF top > length[k - 1] THEN length[k - 1] + top ELSE length[k - 1]
  IN length[Len(f.regs)]

\* BootMonGetFileFromAsciiFileName: an open file goes by its current name.
CurrentName(f) == IF f.open THEN f.name ELSE f.hw.name
Named(fs, n) == {i \in DOMAIN fs : CurrentName(fs[i]) = n}

\* The flash holds "a" in block 1, so that there is room before and after it; or in
\* block 0, "b" behind a gap; or nothing.
Seed(id, n, s) == [id |-> id, name |-> n, start |-> s, end |-> s, size |-> BmBlock - 2, count |-> 1]
Seeds(n, m) == {{}, {Seed(1, n, 1)}, {Seed(1, n, 0), Seed(2, m, 2)}}
FlashOf(ds) ==
  [c \in Cells |->
     IF \E d \in ds : c = Address(d) THEN DescOf(CHOOSE d \in ds : c = Address(d))
     ELSE IF \E d \in ds : c \in d.start * BmBlock .. d.start * BmBlock + d.size - 1
          THEN DataOf((CHOOSE d \in ds : c \div BmBlock = d.start).id)
     ELSE Blank]
BmInit ==
  /\ LET n == CHOOSE n \in BmNames : TRUE
         m == CHOOSE m \in BmNames : m # n
     IN \E ds \in Seeds(n, m) : bmFlash = FlashOf(ds)
  /\ bmUp = "unloaded" /\ bmFiles = <<>> /\ bmDir = 0 /\ bmWalk = 0 /\ bmHits = {} /\ bmRet = "none"
  /\ bmOps = 0 /\ bmFaults = 0

Counted == bmOps < BmMaxOps /\ bmOps' = bmOps + 1
Op == Counted /\ bmUp \in {"started", "scanned"} /\ bmWalk = 0 /\ UNCHANGED bmWalk
BmFault == bmFaults < BmMaxFaults /\ bmFaults' = bmFaults + 1
NoFault == UNCHANGED bmFaults
Flash  == <<bmFlash, bmHits, bmFaults>>
\* BootMonFsInitialize appends the files it finds to the list, unless it has done so.  A
\* block that cannot be read ends the scan as the end of the flash does.  Without memory
\* for another file the operation fails, and leaves what the next scan finds once more.
Scanned(k, s) == [s |-> s, files |-> bmFiles \o SubSeq(Scan, 1, k), fault |-> TRUE,
                  hits |-> IF k = (IF s = "OK" THEN Len(Scan) ELSE 0) THEN {} ELSE {"scan"}]
BootMonFsInitialize ==
  IF bmUp = "scanned" THEN {[s |-> "OK", files |-> bmFiles, fault |-> FALSE, hits |-> {}]}
  ELSE {[s |-> "OK", files |-> bmFiles \o Scan, fault |-> FALSE, hits |-> {}]}
       \cup {Scanned(k, "OK") : k \in 0 .. Len(Scan)} \cup {Scanned(k, "OutOfResources") : k \in 0 .. Len(Scan)}
Initialized(r) ==
  /\ bmUp' = (IF r.s = "OK" THEN "scanned" ELSE bmUp)
  /\ bmHits' = bmHits \cup r.hits /\ (IF r.fault THEN BmFault ELSE NoFault) /\ UNCHANGED bmFlash

Update(i, f) == bmFiles' = [bmFiles EXCEPT ![i] = f]
Opened(i) == i \in DOMAIN bmFiles /\ bmFiles[i].open
Refuse(s) == bmRet' = s /\ UNCHANGED <<bmFlash, bmUp, bmFiles, bmDir, bmHits, bmFaults>>

-------------------------------------------------------------------------------
\* Disk writes and their effect.

Put(at, n, c) == [at |-> at, n |-> n, c |-> c]
InvalidateNothing(addr) == Put(addr, 0, Blank)   \* faulty variant: the old description stays
InvalidateImageDescription(addr) == Put(addr, 1, Blank)
Covers(p) == p.at .. p.at + p.n - 1
Writes(flash, p) == [c \in Cells |-> IF c \in Covers(p) THEN p.c ELSE flash[c]]
Inside(p) == p.at + p.n <= (BmLast + 1) * BmBlock

\* WriteFileDescription: a file that ends with its block is said to end in the next.
Described(f, size, start) ==
  [id |-> f.id, name |-> f.name, start |-> start \div BmBlock,
   end |-> start \div BmBlock + (size + 1) \div BmBlock, size |-> size, count |-> 1]
WriteFileDescription(d) == Put(Address(d), 1, DescOf(d))

\* BootMonFsFindSpaceForNewFile: the first gap in the order of the list.  Differences
\* are unsigned: one below zero is larger than any file.
Gap(hi, lo) == IF hi < lo THEN (BmLast + 2) * BmBlock ELSE hi - lo
Behind(fs, i) ==   \* FileStart when the file at i is looked at
  LET before == {j \in 1 .. (i - 1) : OnFlash(fs[j])}
  IN IF before = {} THEN 0 ELSE (fs[Max(before)].hw.end + 1) * BmBlock
Fits(fs, i, size) == OnFlash(fs[i]) /\ Gap(fs[i].hw.start * BmBlock, Behind(fs, i)) >= size
Place(fs, i, size) ==
  LET fit == {j \in DOMAIN fs : Fits(fs, j, size)}
      j   == Min(fit)
      end == Behind(fs, Len(fs) + 1)
      pos == IF j > i THEN j - 1 ELSE j
  IN IF fit # {}
     THEN [ok |-> TRUE, start |-> Behind(fs, j),
           files |-> InsertAt(RemoveAt(fs, i), pos, fs[i]), at |-> pos]
     ELSE [ok |-> Gap((BmLast + 1) * BmBlock, end) >= size, start |-> end, files |-> fs, at |-> i]

\* The writes of one pending region.  s: the file so far, the writes so far, the
\* hazards met; room: whether the volume is full.
AppendEnd(fs, i) == IF i < Len(fs) THEN fs[i + 1].hw.start * BmBlock ELSE (BmLast + 1) * BmBlock
HasSpaceAlways(fs, i, f, start, need) == TRUE   \* faulty variant: the next file is not looked at
HasSpace(fs, i, f, start, need) == need <= Physical(f) \/ Gap(AppendEnd(fs, i), start) >= need
Hazards(old, new) ==
  (IF (new.size + 1) % BmBlock = 0 THEN {"exact"} ELSE {})
  \cup (IF old.count > 0 /\ new.end < old.end THEN {"back"} ELSE {})
FlushRegion(fs, i, start, fileEnd, s, r) ==
  LET end == start + r.off + r.size
      new == Described(s.f, r.off + r.size, start)
      data == Put(start + r.off, r.size, DataOf(s.f.id))
      old  == IF s.f.addr # 0 THEN <<InvalidateImageDescription(s.f.addr)>> ELSE <<>>
  IN IF s.full \/ r.size = 0 THEN s
     ELSE IF end < fileEnd THEN [s EXCEPT !.ws = Append(@, data)]
     ELSE IF ~HasSpace(fs, i, s.f, start, r.off + r.size + 1) THEN [s EXCEPT !.full = TRUE]
     ELSE [s EXCEPT !.ws = @ \o old \o <<data, WriteFileDescription(new)>>,
                    !.f.hw = new, !.f.addr = Address(new),
                    !.hits = @ \cup Hazards(s.f.hw, new)]

\* BootMonFsFlushFile: the regions, then the description if name or size differ from
\* it.  The old description is not invalidated then.  The regions are kept until the
\* first kept of the writes ws are done.
FlushRegions(fs, i, start) ==
  LET regs == fs[i].regs
      flushed[k \in 0 .. Len(regs)] ==
        IF k = 0 THEN [f |-> fs[i], ws |-> <<>>, hits |-> {}, full |-> FALSE]
        ELSE FlushRegion(fs, i, start, start + fs[i].hw.size, flushed[k - 1], regs[k])
  IN flushed[Len(regs)]
Late(f, s) == f.name # s.f.hw.name \/ f.size # s.f.hw.size
FlushEnd(fs, i, desc, s) ==
  IF s.full
  THEN [s |-> "VolumeFull", files |-> fs, at |-> i, f |-> s.f, ws |-> s.ws, kept |-> Len(s.ws), hits |-> s.hits]
  ELSE IF ~Late(fs[i], s)
  THEN [s |-> "OK", files |-> fs, at |-> i, f |-> [s.f EXCEPT !.regs = <<>>], ws |-> s.ws,
        kept |-> Len(s.ws), hits |-> s.hits]
  ELSE [s |-> "OK", files |-> fs, at |-> i,
        f |-> [s.f EXCEPT !.regs = <<>>, !.hw = desc, !.addr = Address(desc)],
        ws |-> Append(s.ws, WriteFileDescription(desc)), kept |-> Len(s.ws),
        hits |-> s.hits \cup Hazards(NoDesc, desc)
                 \cup (IF s.f.hw.count > 0 /\ desc.end # s.f.hw.end THEN {"moved"} ELSE {})]
FlushFrom(fs, i, start) ==
  FlushEnd(fs, i, Described(fs[i], fs[i].size, start), FlushRegions(fs, i, start))
FlushNew(fs, i, place) ==
  IF place.ok THEN FlushFrom(place.files, place.at, place.start)
  ELSE [s |-> "VolumeFull", files |-> fs, at |-> i, f |-> fs[i], ws |-> <<>>, kept |-> 0, hits |-> {}]
FlushOf(fs, i) ==
  IF OnFlash(fs[i]) THEN FlushFrom(fs, i, fs[i].hw.start * BmBlock)
  ELSE FlushNew(fs, i, Place(fs, i, fs[i].size + 1))

\* The list is to be in disk order for Place and AppendEnd to mean what they say.
InDiskOrder(fs) ==
  \A i, j \in DOMAIN fs : i < j /\ OnFlash(fs[i]) /\ OnFlash(fs[j]) => fs[i].hw.start < fs[j].hw.start
Unplaced(fs) == \E i, j \in DOMAIN fs : i < j /\ OnFlash(fs[i]) /\ ~OnFlash(fs[j])
OrderHit(fs) == IF InDiskOrder(fs) /\ ~Unplaced(fs) THEN {} ELSE {"order"}

\* The flash after k of the writes ws: a cell has what was written to it last.
Written(ws, k) ==
  [c \in Cells |-> LET js == {j \in 1 .. k : c \in Covers(ws[j])}
                   IN IF js = {} THEN bmFlash[c] ELSE ws[Max(js)].c]

\* What the driver knows when write k fails: it has set the description before.
Known(f, r, k) ==
  LET ws == r.ws
      regs == IF k > r.kept THEN <<>> ELSE f.regs
      ds == {j \in 1 .. k : ws[j].c.k = "desc"}
      j  == Max(ds)
  IN IF ds = {} THEN f ELSE [f EXCEPT !.hw = ws[j].c.d, !.addr = ws[j].at, !.regs = regs]

\* A flush to its end, or to a device error, after which the regions stay if they
\* were not all written.  after(f) is what the caller does with the file, which the flush has put at position at.
FlushTo(i, after(_), status(_)) ==
  \E r \in {FlushOf(bmFiles, i)} :
     \/ /\ \A k \in DOMAIN r.ws : Inside(r.ws[k])
        /\ bmFlash' = Written(r.ws, Len(r.ws))
        /\ bmFiles' = [r.files EXCEPT ![r.at] = after(r.f)]
        /\ bmHits' = bmHits \cup r.hits \cup OrderHit([r.files EXCEPT ![r.at] = r.f])
        /\ bmRet' = status(r.s) /\ NoFault
     \/ \E k \in DOMAIN r.ws :
          /\ \A j \in 1 .. (k - 1) : Inside(r.ws[j])
          /\ (~Inside(r.ws[k]) /\ NoFault) \/ BmFault
          /\ bmFlash' = Written(r.ws, k - 1)
          /\ bmFiles' = [r.files EXCEPT ![r.at] = after(Known(bmFiles[i], r, k))]
          /\ bmHits' = bmHits \cup r.hits \cup {"error"}
          /\ bmRet' = status("DeviceError")
NeedsNoFlush(f) == ~f.open \/ f.mode = "read"

-------------------------------------------------------------------------------
\* The operations of EFI_FILE_PROTOCOL.

\* BootMonFsOpenFile.  A path with a directory is refused, "" is the root directory.
FreshId(fs) ==
  CHOOSE id \in 1 .. (BmMaxFiles + (BmLast + 1) * (BmBlock + 1) + 1) :
    /\ \A i \in DOMAIN fs : fs[i].id # id
    /\ \A c \in Cells : bmFlash[c].id # id
OpenAs(f, n, m) == [f EXCEPT !.open = TRUE, !.name = n, !.size = ImageLength(f), !.pos = 0, !.mode = m]
OpenIn(fs, n, m) ==
  \/ /\ n = "dir\\x" /\ bmFiles' = fs /\ bmRet' = "NotFound" /\ UNCHANGED bmDir
  \/ /\ n = "" /\ bmFiles' = fs /\ bmDir' = 0 /\ bmRet' = "OK"
  \/ /\ n \in BmNames /\ Named(fs, n) = {} /\ m = "create" /\ Len(fs) < BmMaxFiles
     /\ bmFiles' = <<OpenAs([NewFile EXCEPT !.id = FreshId(fs)], n, m)>> \o fs
     /\ bmRet' = "OK" /\ UNCHANGED bmDir
  \/ /\ n \in BmNames /\ Named(fs, n) = {} /\ m # "create"
     /\ bmFiles' = fs /\ bmRet' = "NotFound" /\ UNCHANGED bmDir
  \/ /\ n \in BmNames /\ Named(fs, n) # {} /\ UNCHANGED bmDir
     /\ LET i == Min(Named(fs, n))
        IN IF fs[i].open THEN bmFiles' = fs /\ bmRet' = "Unsupported"
           ELSE bmFiles' = [fs EXCEPT ![i] = OpenAs(@, n, m)] /\ bmRet' = "OK"
BmOpen(n, m) ==
  /\ Op
  /\ \E r \in BootMonFsInitialize :
       /\ Initialized(r)
       /\ \/ r.s = "OK" /\ OpenIn(r.files, n, m)
          \/ r.s # "OK" /\ bmFiles' = r.files /\ bmRet' = r.s /\ UNCHANGED bmDir

\* BootMonFsFlushFile.
BmFlush(i) ==
  /\ Op /\ Opened(i)
  /\ IF NeedsNoFlush(bmFiles[i]) THEN Refuse("AccessDenied")
     ELSE FlushTo(i, LAMBDA f : f, LAMBDA s : s) /\ UNCHANGED <<bmUp, bmDir>>

\* BootMonFsReadFile flushes first, and does not look at how that went.
AtEnd(f) == f.pos >= f.size
Advanced(f, n) == IF AtEnd(f) THEN f ELSE [f EXCEPT !.pos = @ + (IF n > f.size - f.pos THEN f.size - f.pos ELSE n)]
BmRead(i, n) ==
  /\ Op /\ Opened(i) /\ UNCHANGED <<bmUp, bmDir>>
  /\ LET f == bmFiles[i]
         s == IF f.pos > f.size THEN "DeviceError" ELSE "OK"
     IN IF NeedsNoFlush(f)
        THEN Update(i, Advanced(f, n)) /\ bmRet' = s /\ UNCHANGED Flash
        ELSE FlushTo(i, LAMBDA g : Advanced(g, n), LAMBDA t : s)

\* BootMonFsWriteFile: the data waits in memory.
Pending(f, n) ==
  [f EXCEPT !.regs = Append(@, [off |-> f.pos, size |-> n]), !.pos = @ + n,
            !.size = IF f.pos + n > @ THEN f.pos + n ELSE @]
BmWrite(i, n) ==
  /\ Op /\ Opened(i) /\ Len(bmFiles[i].regs) < BmMaxRegions
  /\ \/ /\ bmFiles[i].mode = "read"
        /\ Refuse("AccessDenied")
     \/ /\ bmFiles[i].mode # "read"
        /\ Update(i, Pending(bmFiles[i], n)) /\ bmRet' = "OK"
        /\ UNCHANGED <<bmUp, bmDir, bmFlash, bmHits, bmFaults>>

\* BootMonFsSetPosition; -1 is the end of the file.
BmSetPosition(i, p) ==
  /\ Op /\ Opened(i)
  /\ Update(i, [bmFiles[i] EXCEPT !.pos = IF p = -1 THEN bmFiles[i].size ELSE p])
  /\ bmRet' = "OK" /\ UNCHANGED <<bmUp, bmDir, bmFlash, bmHits, bmFaults>>

\* SetFileSize: pending regions are cut or dropped; a longer file is written to.
Cut(regs, z) ==
  LET kept == Sublist(regs, {r \in ToSet(regs) : r.off <= z})
  IN [i \in DOMAIN kept |-> [kept[i] EXCEPT !.size = IF @ > z - kept[i].off THEN z - kept[i].off ELSE @]]
SetFileSize(f, z) ==
  IF z < f.size THEN [f EXCEPT !.size = z, !.regs = Cut(f.regs, z)]
  ELSE IF z > f.size THEN [f EXCEPT !.size = z, !.regs = Append(@, [off |-> f.size, size |-> z - f.size])]
  ELSE f

\* SetFileInfo: the size first, then the name, which may be refused after that.
BmSetInfo(i, z, n) ==
  /\ Op /\ Opened(i) /\ Len(bmFiles[i].regs) < BmMaxRegions
  /\ UNCHANGED <<bmUp, bmDir, bmFlash, bmHits, bmFaults>>
  /\ LET f == bmFiles[i]
     IN \/ /\ f.mode = "read" /\ (z # f.size \/ n # f.name)
           /\ bmRet' = "AccessDenied" /\ UNCHANGED bmFiles
        \/ /\ f.mode # "read" /\ n # f.name /\ Named(bmFiles, n) # {}
           /\ Update(i, SetFileSize(f, z)) /\ bmRet' = "AccessDenied"
        \/ /\ f.mode # "read" /\ (n = f.name \/ Named(bmFiles, n) = {})
           /\ Update(i, [SetFileSize(f, z) EXCEPT !.name = n]) /\ bmRet' = "OK"

\* BootMonFsCloseFile flushes and forgets how that went.
Closed(f) == [f EXCEPT !.open = FALSE, !.name = "", !.size = 0, !.pos = 0, !.mode = "read"]
BmClose(i) ==
  /\ Op /\ Opened(i) /\ UNCHANGED <<bmUp, bmDir>>
  /\ IF NeedsNoFlush(bmFiles[i])
     THEN Update(i, Closed(bmFiles[i])) /\ bmRet' = "OK" /\ UNCHANGED Flash
     ELSE FlushTo(i, Closed, LAMBDA s : IF s = "OK" THEN "OK" ELSE "Lost")

\* BootMonFsDelete.
BmDeleteKeeping(i) ==   \* faulty variant: the description stays on the flash
  /\ Op /\ Opened(i)
  /\ bmFiles' = RemoveAt(bmFiles, i) /\ bmRet' = "OK"
  /\ UNCHANGED <<bmUp, bmDir, bmFlash, bmHits, bmFaults>>
BmDelete(i) ==
  /\ Op /\ Opened(i) /\ UNCHANGED <<bmUp, bmDir>>
  /\ \/ /\ OnFlash(bmFiles[i]) /\ Inside(InvalidateImageDescription(bmFiles[i].addr))
        /\ bmFlash' = Writes(bmFlash, InvalidateImageDescription(bmFiles[i].addr))
        /\ bmFiles' = RemoveAt(bmFiles, i) /\ bmRet' = "OK" /\ UNCHANGED <<bmHits, bmFaults>>
     \/ /\ OnFlash(bmFiles[i])
        /\ BmFault \/ (~Inside(InvalidateImageDescription(bmFiles[i].addr)) /\ NoFault)
        /\ Update(i, [bmFiles[i] EXCEPT !.regs = <<>>]) /\ bmRet' = "DeleteFailure"
        /\ bmHits' = bmHits \cup {"error"} /\ UNCHANGED bmFlash
     \/ /\ ~OnFlash(bmFiles[i])
        /\ bmFiles' = RemoveAt(bmFiles, i) /\ bmRet' = "OK" /\ UNCHANGED Flash

\* The root directory: BootMonFsReadDirectory names one file after the other, as on the
\* flash, BootMonFsSetDirPosition starts again.
BmReadDirectory ==
  /\ Op /\ UNCHANGED <<bmUp, bmFiles, bmFlash, bmHits, bmFaults>>
  /\ IF bmDir < Len(bmFiles)
     THEN bmDir' = bmDir + 1 /\ bmRet' = bmFiles[bmDir + 1].hw.name
     ELSE bmRet' = "End" /\ UNCHANGED bmDir
BmSetDirPosition ==
  /\ Op /\ bmDir' = 0 /\ bmRet' = "OK" /\ UNCHANGED <<bmUp, bmFiles, bmFlash, bmHits, bmFaults>>

\* BootMonFsFlushDirectory goes from file to file.  A flush that moves a file to its
\* place takes the walk along with it, past the files in between.
BmFlushDirectory ==
  /\ Counted /\ bmWalk = 0 /\ bmFiles # <<>> /\ bmWalk' = 1
  /\ UNCHANGED <<bmFlash, bmUp, bmFiles, bmDir, bmHits, bmRet, bmFaults>>
BmFlushNext ==
  /\ bmWalk > 0 /\ UNCHANGED <<bmUp, bmDir, bmOps>>
  /\ IF bmWalk > Len(bmFiles)
     THEN bmWalk' = 0 /\ bmRet' = "OK" /\ UNCHANGED <<bmFiles, bmFlash, bmHits, bmFaults>>
     ELSE IF NeedsNoFlush(bmFiles[bmWalk])
     THEN bmWalk' = bmWalk + 1 /\ UNCHANGED <<bmFiles, bmRet, bmFlash, bmHits, bmFaults>>
     ELSE bmWalk' = FlushOf(bmFiles, bmWalk).at + 1 /\ FlushTo(bmWalk, LAMBDA f : f, LAMBDA s : s)

\* BootMonFsGetInfo scans the flash if nobody has.  ComputeFreeSpace may come out below
\* zero, which is a large number.
ComputeFreeSpace(fs) ==
  LET sum == FoldLeft(LAMBDA z, f : z + ImageLength(f), 0, fs)
  IN (BmLast + 1) * BmBlock - (sum + BmBlock + Len(fs))
InfoOf(fs, kind) ==
  CASE kind = "system" /\ ComputeFreeSpace(fs) < 0 -> "Wrapped"
    [] kind = "other" -> "Unsupported"
    [] OTHER -> "OK"
BmGetInfo(kind) ==
  /\ Op /\ UNCHANGED bmDir
  /\ \E r \in BootMonFsInitialize :
       /\ Initialized(r) /\ bmFiles' = r.files
       /\ bmRet' = IF r.s = "OK" THEN InfoOf(r.files, kind) ELSE r.s

\* BootMonFsEntryPoint: without a device path in the PCD the driver is not installed.
SupportedDevicePathsInit(paths) == IF paths = {} THEN "refused" ELSE "off"
BootMonFsEntryPoint ==
  /\ bmUp = "unloaded" /\ bmOps < BmMaxOps
  /\ \E paths \in {{}, {"nor"}} : bmUp' = SupportedDevicePathsInit(paths)
  /\ UNCHANGED <<bmFlash, bmFiles, bmDir, bmWalk, bmHits, bmRet, bmOps, bmFaults>>

\* BootMonFsDriverStart fails before it opened DiskIo, or after, when DiskIo stays open
\* and BootMonFsDriverSupported refuses the controller from then on.
\* BootMonFsDriverStop leaves the freed instance in mInstances: a start comes after a reset.
BootMonFsDriverSupported == bmUp = "off"
BootMonFsDriverStart ==
  /\ BootMonFsDriverSupported /\ bmOps < BmMaxOps
  /\ \/ bmUp' = "started" /\ bmRet' = "OK" /\ NoFault
     \/ bmUp' \in {"off", "leaked"} /\ bmRet' = "OutOfResources" /\ BmFault
  /\ UNCHANGED <<bmFlash, bmFiles, bmDir, bmWalk, bmHits, bmOps>>
Gone(up) == bmUp' = up /\ bmFiles' = <<>> /\ bmDir' = 0 /\ bmRet' = "none"
BootMonFsDriverStop ==
  /\ Op /\ Gone("stopped") /\ UNCHANGED <<bmFlash, bmHits, bmFaults>>

\* A reset, and a loss of power in the middle of a flush.  What was pending is gone.
Reset ==
  /\ Counted /\ bmUp # "unloaded" /\ bmWalk' = 0 /\ Gone("unloaded") /\ UNCHANGED <<bmFlash, bmHits, bmFaults>>
PowerLoss ==
  /\ Op /\ BmFault /\ Gone("unloaded")
  /\ \E i \in DOMAIN bmFiles :
       \E r \in {FlushOf(bmFiles, i)} :
          /\ ~NeedsNoFlush(bmFiles[i])
          /\ \E k \in DOMAIN r.ws :
               /\ \A j \in 1 .. k : Inside(r.ws[j])
               /\ bmFlash' = Written(r.ws, k)
          /\ bmHits' = bmHits \cup r.hits \cup OrderHit(r.files)

BmDone == bmOps = BmMaxOps /\ bmWalk = 0 /\ UNCHANGED bmVars

BmNext ==
  \/ \E n \in BmNames, m \in {"read", "write", "create"} : BmOpen(n, m)
  \/ \E n \in {"", "dir\\x"} : BmOpen(n, "read")
  \/ \E i \in DOMAIN bmFiles :
       \/ BmFlush(i) \/ BmClose(i) \/ BmDelete(i)
       \/ \E n \in BmSizes : BmWrite(i, n) \/ BmRead(i, n)
       \/ \E p \in BmSeeks \cup {-1} : BmSetPosition(i, p)
       \/ \E z \in BmSizes : BmSetInfo(i, z, bmFiles[i].name)
       \/ \E n \in BmNames : BmSetInfo(i, bmFiles[i].size, n)
  \/ \E kind \in {"label", "system", "file", "other"} : BmGetInfo(kind)
  \/ BmReadDirectory \/ BmSetDirPosition \/ BmFlushDirectory \/ BmFlushNext
  \/ BootMonFsEntryPoint \/ BootMonFsDriverStart \/ BootMonFsDriverStop \/ Reset \/ PowerLoss
  \/ BmDone
BmSpec == BmInit /\ [][BmNext]_bmVars

-------------------------------------------------------------------------------
Images == {bmFlash[(lba + 1) * BmBlock - 1].d : lba \in {l \in 0 .. BmLast : IsImageValid(l)}}
Extent(d) == d.start * BmBlock .. (d.end + 1) * BmBlock - 1

\* The hazards, after which nothing is claimed: "exact", a file that ends with its block
\* has been said to end in the next; "back", a file that got shorter has its description
\* moved to an earlier block, and "moved", to another one without the old one being
\* cleared; "order", a flush found the list out of disk order; "error", a device error
\* ended a flush or a delete; "scan", one left the list short, or a lack of memory left
\* in it what the next scan finds again.

\* Before any hazard: a scan of the flash, after a loss of power in the middle of a flush
\* too, finds files that share no block and hold no stray description.
BmScanFindsFiles ==
  bmHits = {} =>
    \A d \in Images :
      /\ \A e \in Images : d # e => Extent(d) \cap Extent(e) = {}
      /\ \A c \in Extent(d) : bmFlash[c].k = "desc" => bmFlash[c].d = d

\* Before any hazard the driver's list mirrors the flash: the files on it are those a scan
\* would find, so that another boot sees what this one sees.  It does so after a scan that
\* could not read a block behind the last file, and after one that found no memory for the
\* first, too.
BmListIsFlash ==
  bmHits = {} /\ bmUp = "scanned" =>
    {bmFiles[i].hw : i \in {j \in DOMAIN bmFiles : OnFlash(bmFiles[j])}} = Images

\* A step before any hazard changes a cell of a file whose description stays as it is only
\* to data of that file: BootMonFsFlushFile never writes into another one.
BmIsolation ==
  [][bmHits' = {} =>
       \A d \in Images \cap Images' : \A c \in Extent(d) :
         bmFlash'[c] # bmFlash[c] => bmFlash'[c].id = d.id]_bmVars

\* BootMonFsOpenFile's description tells a file that could not be found (EFI_NOT_FOUND)
\* from a device that reported an error (EFI_DEVICE_ERROR); the open that scans the flash
\* answers the first when the second has happened.
BmErrorIsNotAbsence ==
  [][\A n \in BmNames, m \in {"read", "write"} :
       BmOpen(n, m) /\ bmHits = {} /\ bmUp = "started" /\ (\E d \in Images : d.name = n) => bmRet' # "NotFound"]_bmVars
===============================================================================
