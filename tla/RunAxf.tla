-------------------------------- MODULE RunAxf --------------------------------
(*****************************************************************************)
(* The shell command runaxf (ARM/Library/ArmShellCmdRunAxf): read a file,    *)
(* make a list of what to load where (ElfLoader.c, BootMonFsLoader.c), leave *)
(* the boot services, copy, and jump to the program.                         *)
(*                                                                           *)
(* Memory is a function from cells to contents: byte k of the file, AxZero,  *)
(* or AxOther.  The memory map is a number of descriptors.                   *)
(*****************************************************************************)
EXTENDS Integers, SequencesExt, Sublists

CONSTANTS
  AxFile,     \* bytes in a file
  AxBase,     \* where the file is read to
  AxHeaders,  \* programs of up to two headers: their addresses
  AxPage,     \* descriptors of the memory map in a page
  AxMaxGrow,  \* bound on descriptors that are added to the map
  AxMaxOps, AxMaxFaults

ASSUME RunAxfAssumption ==
  /\ AxFile \in Nat \ {0} /\ AxBase \in Nat /\ AxHeaders \subseteq Nat /\ AxPage \in Nat \ {0}
  /\ AxMaxGrow \in Nat /\ AxMaxOps \in Nat /\ AxMaxFaults \in Nat

VARIABLES
  axUp,     \* the command is installed
  axPc,     \* step of ShellDynCmdRunAxfHandler, or of ShutdownUefiBootServices
  axHeld,   \* what the handler holds: Shell protocols, file, data, nodes
  axProg,   \* the file: its kind and headers
  axList,   \* LoadList
  axRet,    \* ShellStatus
  axMem,
  axMap,    \* the memory map: descriptors, MemoryMapSize, room in MemoryMap, whether it
            \* has changed since it was read, and whether the buffer was overrun
  axOps, axFaults

axVars == <<axUp, axPc, axHeld, axProg, axList, axRet, axMem, axMap, axOps, axFaults>>

AxZero == -1
AxOther == -2
AxCells == 0 .. (AxBase + AxFile - 1)
Fresh == [c \in AxCells |-> AxOther]

\* Program headers: type, p_vaddr, p_offset, p_filesz, p_memsz.  A region of a BootMonFs
\* file is one with as much in memory as in the file.
Headers ==
  {h \in [load : BOOLEAN, vaddr : AxHeaders, off : {0, 1}, filesz : {0, 2}, memsz : {0, 1, 2, 3}] :
     h.off + h.filesz <= AxFile}
Programs == {<<h>> : h \in Headers} \cup {<<h, k>> : h, k \in {x \in Headers : x.load /\ x.memsz \in {1, 3}}}
Kinds == {"elf", "machine", "bootmon", "junk"}
NoProg == [kind |-> "none", hs |-> <<>>]
NoMap == [n |-> AxPage, size |-> 0, room |-> 0, stale |-> FALSE, over |-> FALSE]

AxInit ==
  /\ axUp = FALSE /\ axPc = "idle" /\ axHeld = {} /\ axProg = NoProg /\ axList = <<>> /\ axRet = "none"
  /\ axMem = Fresh /\ axMap = NoMap /\ axOps = 0 /\ axFaults = 0

AxFault == axFaults < AxMaxFaults /\ axFaults' = axFaults + 1
AxNoFault == UNCHANGED axFaults
AxMemory == <<axMem, axMap>>

\* ShellDynCmdRunAxfInstall: without the HII package it fails, with the command installed.
ShellDynCmdRunAxfInstall ==
  /\ ~axUp /\ axPc = "idle" /\ axOps < AxMaxOps /\ axOps' = axOps + 1
  /\ \/ axUp' = TRUE /\ axRet' = "OK" /\ AxNoFault
     \/ axUp' \in BOOLEAN /\ axRet' = "Unsupported" /\ AxFault
  /\ UNCHANGED <<axPc, axHeld, axProg, axList>> /\ UNCHANGED AxMemory
ShellDynCmdRunAxfUninstall ==
  /\ axUp /\ axPc = "idle" /\ axOps < AxMaxOps /\ axOps' = axOps + 1 /\ axUp' = FALSE /\ axRet' = "OK"
  /\ UNCHANGED <<axPc, axHeld, axProg, axList, axFaults>> /\ UNCHANGED AxMemory

\* ShellDynCmdRunAxfHandler: protocols and arguments, the file (under its name or without
\* its extension), its data.
To(pc, held) == axPc' = pc /\ axHeld' = held
AxOnly == UNCHANGED <<axUp, axList, axOps>>
RunAxfOpens ==
  /\ axUp /\ axPc = "idle" /\ axOps < AxMaxOps /\ axOps' = axOps + 1 /\ UNCHANGED <<axUp, axList>>
  /\ UNCHANGED AxMemory
  /\ \/ To("idle", {}) /\ axRet' = "DeviceError" /\ AxFault /\ UNCHANGED axProg
     \/ To("cleanup", {"shell"}) /\ axRet' = "InvalidParameter" /\ AxNoFault /\ UNCHANGED axProg
     \/ \E k \in Kinds, hs \in Programs :
          /\ k \in {"machine", "junk"} => Len(hs) = 1 /\ hs[1].vaddr = 0 /\ hs[1].memsz = 1
          /\ To("data", {"shell", "file"}) /\ axRet' = "OK" /\ axProg' = [kind |-> k, hs |-> hs] /\ AxNoFault
RunAxfReads ==
  /\ axPc = "data" /\ AxOnly /\ UNCHANGED <<axProg, axMap>>
  /\ \/ /\ To("check", axHeld \cup {"data"}) /\ AxNoFault /\ UNCHANGED axRet
        /\ axMem' = [c \in AxCells |-> IF c >= AxBase THEN c - AxBase ELSE axMem[c]]
     \/ To("cleanup", axHeld) /\ axRet' \in {"OutOfResources", "DeviceError"} /\ AxFault /\ UNCHANGED axMem

\* ElfCheckFile; BootMonFsCheckFile refuses a region at address 0 or without bytes.
ElfCheckFile(p) == p.kind = "elf"
BootMonFsCheckFile(p) ==
  p.kind = "bootmon" /\ \A i \in DOMAIN p.hs : p.hs[i].vaddr # 0 /\ p.hs[i].filesz # 0

\* ElfLoadSegment: what is in the file, then the zeroes behind it.
Node(mem, off, len, zero) == [mem |-> mem, off |-> off, len |-> len, zero |-> zero]
SegmentZeroesFirst(h) ==   \* faulty variant: the zeroes start with the segment
  (IF h.filesz # 0 THEN <<Node(h.vaddr, h.off, h.filesz, FALSE)>> ELSE <<>>)
  \o (IF h.memsz > h.filesz THEN <<Node(h.vaddr, 0, h.memsz - h.filesz, TRUE)>> ELSE <<>>)
ElfLoadSegment(h) ==
  (IF h.filesz # 0 THEN <<Node(h.vaddr, h.off, h.filesz, FALSE)>> ELSE <<>>)
  \o (IF h.memsz > h.filesz THEN <<Node(h.vaddr + h.filesz, 0, h.memsz - h.filesz, TRUE)>> ELSE <<>>)
Loadable(p) == Sublist(p.hs, {h \in Headers : h.load})
\* ElfLoadFile stops at a segment with more bytes in the file than in memory, and refuses
\* a program without bytes.
ElfLoadFile(p) ==
  LET hs   == Loadable(p)
      good == SelectInSeq(hs, LAMBDA h : h.filesz > h.memsz)
      upto == IF good = 0 THEN hs ELSE SubSeq(hs, 1, good - 1)
  IN [s |-> IF good # 0 \/ \A i \in DOMAIN hs : hs[i].memsz = 0 THEN "InvalidParameter" ELSE "OK",
      list |-> FlattenSeq([i \in DOMAIN upto |-> ElfLoadSegment(upto[i])])]
BootMonFsLoadFile(p) ==
  [s |-> "OK", list |-> [i \in DOMAIN p.hs |-> Node(p.hs[i].vaddr, p.hs[i].off, p.hs[i].filesz, FALSE)]]
RunAxfLoads ==
  /\ axPc = "check" /\ UNCHANGED <<axUp, axProg, axOps>> /\ UNCHANGED AxMemory
  /\ \/ /\ ~ElfCheckFile(axProg) /\ ~BootMonFsCheckFile(axProg) /\ AxNoFault
        /\ To("cleanup", axHeld \ {"data"}) /\ axRet' = "Unsupported" /\ UNCHANGED axList
     \/ /\ ElfCheckFile(axProg) \/ BootMonFsCheckFile(axProg)
        /\ LET l == IF ElfCheckFile(axProg) THEN ElfLoadFile(axProg) ELSE BootMonFsLoadFile(axProg)
           IN \/ /\ axList' = l.list /\ AxNoFault
                 /\ To(IF l.s = "OK" /\ l.list # <<>> THEN "map" ELSE "cleanup",
                       IF l.list = <<>> THEN axHeld ELSE axHeld \cup {"nodes"})
              \/ /\ \E k \in 1 .. Len(l.list) : axList' = SubSeq(l.list, 1, k - 1)
                 /\ AxFault /\ To("cleanup", IF axList' = <<>> THEN axHeld ELSE axHeld \cup {"nodes"})
        /\ UNCHANGED axRet

-------------------------------------------------------------------------------
\* ShutdownUefiBootServices.  GetMemoryMap trusts MemoryMapSize: it writes the map when
\* that is large enough, whatever the buffer is, and refuses one that is not there.
Grow(m) == {[m EXCEPT !.n = @ + g, !.stale = @ \/ g # 0] : g \in 0 .. (IF m.n < AxPage + AxMaxGrow THEN 1 ELSE 0)}
Reads(m) == [m EXCEPT !.stale = FALSE, !.over = @ \/ m.n > m.room, !.size = m.n]
PagesExact(n) == (n + AxPage - 1) \div AxPage   \* faulty variant: no page to spare
Pages(n) == (n + AxPage - 1) \div AxPage + 1
Shutdown == AxOnly /\ UNCHANGED <<axHeld, axProg, axRet, axMem>>
\* The pages for the map may add to it.  Without pages the loop goes round, for ever if the
\* map does not grow.
GetMemoryMap ==
  /\ axPc = "map" /\ Shutdown
  /\ \/ axMap.size >= axMap.n /\ axMap.room > 0 /\ axMap' = Reads(axMap) /\ axPc' = "exit" /\ AxNoFault
     \/ axMap.size >= axMap.n /\ axMap.room = 0 /\ UNCHANGED <<axMap, axPc>> /\ AxNoFault
     \/ /\ axMap.size < axMap.n /\ axPc' = "mapagain"
        /\ \/ axMap' \in Grow([axMap EXCEPT !.size = axMap.n, !.room = Pages(axMap.n) * AxPage]) /\ AxNoFault
           \/ axMap' = [axMap EXCEPT !.size = axMap.n, !.room = 0] /\ AxFault
GetMemoryMapAgain ==
  /\ axPc = "mapagain" /\ Shutdown /\ AxNoFault
  /\ \/ axMap.size >= axMap.n /\ axMap.room > 0 /\ axMap' = Reads(axMap) /\ axPc' = "exit"
     \/ axMap.size >= axMap.n /\ axMap.room = 0 /\ axPc' = "map" /\ UNCHANGED axMap
     \/ axMap.size < axMap.n /\ axMap' = [axMap EXCEPT !.size = axMap.n] /\ axPc' = "map"
\* Event notifications allocate while the loop runs.
MapGrows ==
  /\ axPc \in {"map", "exit"} /\ Shutdown /\ AxNoFault /\ axMap' \in Grow(axMap) \ {axMap} /\ UNCHANGED axPc
ExitBootServices ==
  /\ axPc = "exit" /\ Shutdown /\ AxNoFault
  /\ \/ ~axMap.stale /\ axPc' = "copy" /\ UNCHANGED axMap
     \/ axMap.stale /\ axPc' = "map" /\ axMap' = [axMap EXCEPT !.size = 0, !.room = 0]

\* The list, node by node; the file's data is read where it is.
Copied(mem, n) ==
  [c \in AxCells |->
     IF c \notin n.mem .. n.mem + n.len - 1 THEN mem[c]
     ELSE IF n.zero THEN AxZero ELSE mem[AxBase + n.off + (c - n.mem)]]
CopyMem ==
  /\ axPc = "copy" /\ UNCHANGED <<axUp, axHeld, axProg, axRet, axMap, axOps, axFaults>>
  /\ IF axList = <<>> THEN axPc' = "hardware" /\ UNCHANGED <<axList, axMem>>
     ELSE axMem' = Copied(axMem, Head(axList)) /\ axList' = Tail(axList) /\ UNCHANGED axPc
\* PreparePlatformHardware: caches and MMU off; then the program.
PreparePlatformHardware ==
  /\ axPc = "hardware" /\ axPc' = "started"
  /\ UNCHANGED <<axUp, axHeld, axProg, axList, axRet, axMem, axMap, axOps, axFaults>>

\* Returning to the shell.
RunAxfReturns ==
  /\ axPc = "cleanup" /\ To("idle", {}) /\ axList' = <<>> /\ axProg' = NoProg /\ axMem' = Fresh
  /\ \/ AxNoFault /\ UNCHANGED axRet
     \/ AxFault /\ axRet' = IF axRet = "OK" THEN "DeviceError" ELSE axRet
  /\ UNCHANGED <<axUp, axMap, axOps>>

AxOver == (axPc = "started" \/ (axPc = "idle" /\ axOps = AxMaxOps)) /\ UNCHANGED axVars
AxNext ==
  \/ ShellDynCmdRunAxfInstall \/ ShellDynCmdRunAxfUninstall \/ RunAxfOpens \/ RunAxfReads \/ RunAxfLoads
  \/ GetMemoryMap \/ GetMemoryMapAgain \/ MapGrows \/ ExitBootServices \/ CopyMem \/ PreparePlatformHardware
  \/ RunAxfReturns \/ AxOver
AxSpec == AxInit /\ [][AxNext]_axVars

-------------------------------------------------------------------------------
\* The memory map never runs over the pages allocated for it: the page to spare covers
\* what that allocation, or a notification, adds between two calls of GetMemoryMap.
AxMapFits == ~axMap.over

SegmentCells(h) == h.vaddr .. h.vaddr + (IF axProg.kind = "elf" THEN h.memsz ELSE h.filesz) - 1
Apart(hs) ==
  /\ \A i \in DOMAIN hs : \A c \in SegmentCells(hs[i]) : c < AxBase
  /\ \A i, j \in DOMAIN hs : i # j => SegmentCells(hs[i]) \cap SegmentCells(hs[j]) = {}

\* Where a program's segments lie apart, from one another, from the file's data and from
\* the nodes of the list, which are not part of axMem, every byte of them holds what the
\* headers say when the program starts.
AxImageCorrect ==
  axPc = "started" =>
    LET hs == IF axProg.kind = "elf" THEN Loadable(axProg) ELSE axProg.hs
    IN Apart(hs) =>
         \A i \in DOMAIN hs : \A c \in SegmentCells(hs[i]) :
           axMem[c] = IF c - hs[i].vaddr < hs[i].filesz THEN hs[i].off + (c - hs[i].vaddr) ELSE AxZero
===============================================================================
