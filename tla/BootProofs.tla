------------------------------ MODULE BootProofs -------------------------------
(*****************************************************************************)
(* Proofs about the boot path: the boot device selection library cleans up   *)
(* and loads what it says, the FDT driver installs the first good tree and   *)
(* its shell commands leave nothing behind, boot options are kept, the       *)
(* memory map of runaxf fits and the program it starts is what the file says.*)
(*****************************************************************************)
EXTENDS FdtPlatform, BootOption, RunAxf, ListLemmas, TLAPS

-------------------------------------------------------------------------------
(* The memory map of runaxf.                                                 *)

MapInv ==
  /\ axMap \in [n : Nat, size : Nat, room : Nat, stale : BOOLEAN, over : BOOLEAN]
  /\ AxMapFits
  /\ axPc = "mapagain" => axMap.room = 0 \/ (axMap.size < axMap.room /\ axMap.n <= axMap.size + 1)
  /\ axPc # "mapagain" => axMap.room = 0 \/ axMap.size <= axMap.room

\* A map that grows does so by one descriptor.
LEMMA GrowFacts ==
  ASSUME NEW m \in [n : Nat, size : Nat, room : Nat, stale : BOOLEAN, over : BOOLEAN], NEW g \in Grow(m)
  PROVE  /\ g \in [n : Nat, size : Nat, room : Nat, stale : BOOLEAN, over : BOOLEAN]
         /\ m.n <= g.n /\ g.n <= m.n + 1 /\ g.size = m.size /\ g.room = m.room /\ g.over = m.over
<1> DEFINE top == IF m.n < AxPage + AxMaxGrow THEN 1 ELSE 0
<1>1. PICK k \in 0 .. top : g = [m EXCEPT !.n = @ + k, !.stale = @ \/ k # 0]
  BY DEF Grow
<1>2. k \in {0, 1}
  OBVIOUS
<1> DEFINE n == m.n + k
           s == m.stale \/ k # 0
<1>3. n \in Nat /\ m.n <= n /\ n <= m.n + 1 /\ s \in BOOLEAN
  BY <1>2
<1>4. g = [m EXCEPT !.n = n, !.stale = s]
  BY <1>1
<1> HIDE DEF n, s
<1> QED  BY <1>3, <1>4

\* The pages allocated for a map have room for one more descriptor.
LEMMA PagesRoom ==
  ASSUME NEW n \in Nat
  PROVE  Pages(n) * AxPage \in Nat /\ n < Pages(n) * AxPage
<1> DEFINE q == (n + AxPage - 1) \div AxPage
           r == (n + AxPage - 1) % AxPage
<1>1. AxPage \in Nat \ {0}
  BY RunAxfAssumption
<1>2. n + AxPage - 1 \in Nat
  BY <1>1
<1>3. q \in Nat /\ r \in 0 .. AxPage - 1 /\ n + AxPage - 1 = q * AxPage + r
  BY <1>1, <1>2
<1> HIDE DEF q, r
<1>4. (q + 1) * AxPage = q * AxPage + AxPage /\ q * AxPage \in Nat
  BY <1>1, <1>3
<1>5. (q + 1) * AxPage \in Nat /\ n < (q + 1) * AxPage
  BY <1>1, <1>3, <1>4
<1> QED  BY <1>5 DEF Pages, q

\* Every step of runaxf keeps the invariant.
LEMMA MapStep ==
  ASSUME MapInv, [AxNext]_axVars
  PROVE  MapInv'
<1> DEFINE Maps == [n : Nat, size : Nat, room : Nat, stale : BOOLEAN, over : BOOLEAN]
<1>1. axMap \in Maps /\ axMap.over = FALSE
  BY DEF MapInv, AxMapFits
<1>2. axMap.n \in Nat /\ axMap.size \in Nat /\ axMap.room \in Nat
  BY <1>1
<1>3. CASE axMap' = axMap /\ (axPc' = "mapagain" => axPc = "mapagain") /\ (axPc = "mapagain" => axPc' = "mapagain")
  BY <1>3 DEF MapInv, AxMapFits
<1>4. CASE axPc \in {"idle", "data", "check", "copy", "hardware", "cleanup"} /\ axMap' = axMap /\ axPc' # "mapagain"
  BY <1>4, <1>3
<1> DEFINE read == Reads(axMap)
<1>5. ASSUME axMap.n <= axMap.room
      PROVE  /\ read \in Maps /\ read.over = FALSE /\ read.size = axMap.n /\ read.room = axMap.room
             /\ read.size <= read.room
  <2> DEFINE o == axMap.over \/ axMap.n > axMap.room
  <2>1. o = FALSE
    BY <1>1, <1>2, <1>5
  <2>2. read = [axMap EXCEPT !.stale = FALSE, !.over = o, !.size = axMap.n]
    BY DEF Reads
  <2> HIDE DEF o, read
  <2> QED  BY <2>1, <2>2, <1>1, <1>2, <1>5
<1> HIDE DEF read
<1>6. CASE GetMemoryMap
  <2>1. axPc = "map" /\ (axMap.room = 0 \/ axMap.size <= axMap.room)
    BY <1>6 DEF GetMemoryMap, MapInv
  <2>2. CASE axMap.size >= axMap.n /\ axMap.room > 0 /\ axMap' = read /\ axPc' = "exit"
    <3>1. axMap.n <= axMap.room
      BY <2>1, <2>2, <1>2
    <3> QED  BY <3>1, <2>2, <1>5 DEF MapInv, AxMapFits
  <2>3. CASE /\ axMap' \in Grow([axMap EXCEPT !.size = axMap.n, !.room = Pages(axMap.n) * AxPage])
             /\ axPc' = "mapagain"
    <3> DEFINE room == Pages(axMap.n) * AxPage
               m == [axMap EXCEPT !.size = axMap.n, !.room = room]
    <3>1. room \in Nat /\ axMap.n < room
      BY <1>2, PagesRoom
    <3>2. axMap' \in Grow(m)
      BY <2>3
    <3> HIDE DEF room
    <3>3. m \in Maps /\ m.n = axMap.n /\ m.size = axMap.n /\ m.room = room /\ m.over = FALSE
      BY <3>1, <1>1, <1>2
    <3> HIDE DEF m
    <3>4. /\ axMap' \in Maps /\ m.n <= axMap'.n /\ axMap'.n <= m.n + 1
          /\ axMap'.size = m.size /\ axMap'.room = m.room /\ axMap'.over = m.over
      BY <3>2, <3>3, GrowFacts
    <3> QED  BY <3>1, <3>3, <3>4, <2>3 DEF MapInv, AxMapFits
  <2>4. CASE axMap' = [axMap EXCEPT !.size = axMap.n, !.room = 0] /\ axPc' = "mapagain"
    <3>1. axMap' \in Maps /\ axMap'.room = 0 /\ axMap'.over = FALSE
      BY <2>4, <1>1, <1>2
    <3> QED  BY <3>1, <2>4 DEF MapInv, AxMapFits
  <2>5. CASE UNCHANGED <<axMap, axPc>>
    BY <2>1, <2>5, <1>3
  <2> QED  BY <2>2, <2>3, <2>4, <2>5, <1>6 DEF GetMemoryMap, read
<1>7. CASE GetMemoryMapAgain
  <2>1. axPc = "mapagain" /\ (axMap.room = 0 \/ (axMap.size < axMap.room /\ axMap.n <= axMap.size + 1))
    BY <1>7 DEF GetMemoryMapAgain, MapInv
  <2>2. CASE axMap.room > 0 /\ axMap' = read /\ axPc' = "exit"
    <3>1. axMap.n <= axMap.room
      BY <2>1, <2>2, <1>2
    <3> QED  BY <3>1, <2>2, <1>5 DEF MapInv, AxMapFits
  <2>3. CASE axMap' = [axMap EXCEPT !.size = axMap.n] /\ axPc' = "map"
    <3>1. axMap' \in Maps /\ axMap'.size = axMap.n /\ axMap'.room = axMap.room /\ axMap'.over = FALSE
      BY <2>3, <1>1, <1>2
    <3> QED  BY <3>1, <2>1, <2>3, <1>2 DEF MapInv, AxMapFits
  <2>4. CASE axMap.room = 0 /\ axPc' = "map" /\ UNCHANGED axMap
    BY <2>4, <1>1 DEF MapInv, AxMapFits
  <2> QED  BY <2>2, <2>3, <2>4, <1>7 DEF GetMemoryMapAgain, read
<1>8. CASE MapGrows
  <2>1. axPc \in {"map", "exit"} /\ axPc' = axPc /\ axMap' \in Grow(axMap)
    BY <1>8 DEF MapGrows
  <2>2. /\ axMap' \in Maps /\ axMap'.size = axMap.size /\ axMap'.room = axMap.room /\ axMap'.over = FALSE
    BY <2>1, <1>1, GrowFacts
  <2> QED  BY <2>1, <2>2 DEF MapInv, AxMapFits
<1>9. CASE ExitBootServices
  <2>1. axPc = "exit" /\ axPc' \in {"copy", "map"}
    BY <1>9 DEF ExitBootServices
  <2>2. CASE axMap' = axMap
    BY <2>1, <2>2 DEF MapInv, AxMapFits
  <2>3. CASE axMap' = [axMap EXCEPT !.size = 0, !.room = 0]
    <3>1. axMap' \in Maps /\ axMap'.room = 0 /\ axMap'.over = FALSE
      BY <2>3, <1>1
    <3> QED  BY <3>1, <2>1 DEF MapInv, AxMapFits
  <2> QED  BY <2>2, <2>3, <1>9 DEF ExitBootServices
<1>10. CASE \/ ShellDynCmdRunAxfInstall \/ ShellDynCmdRunAxfUninstall \/ RunAxfOpens \/ RunAxfReads \/ RunAxfLoads
           \/ CopyMem \/ PreparePlatformHardware \/ RunAxfReturns
  <2>1. axPc \in {"idle", "data", "check", "copy", "hardware", "cleanup"} /\ axMap' = axMap
    BY <1>10 DEF ShellDynCmdRunAxfInstall, ShellDynCmdRunAxfUninstall, RunAxfOpens, RunAxfReads, RunAxfLoads,
                CopyMem, PreparePlatformHardware, RunAxfReturns, AxMemory
  <2>2. axPc' # "mapagain"
    BY <1>10 DEF ShellDynCmdRunAxfInstall, ShellDynCmdRunAxfUninstall, RunAxfOpens, RunAxfReads, RunAxfLoads,
                CopyMem, PreparePlatformHardware, RunAxfReturns, To
  <2> QED  BY <2>1, <2>2, <1>4
<1>11. CASE UNCHANGED axVars
  BY <1>11, <1>3 DEF axVars
<1> QED  BY <1>6, <1>7, <1>8, <1>9, <1>10, <1>11 DEF AxNext, AxOver

\* The memory map that ShutdownUefiBootServices reads never runs over its pages, however
\* long the map is and however often it grows between two calls of GetMemoryMap.
THEOREM AxMapFitsHolds == AxSpec => []AxMapFits
<1>1. AxInit => MapInv
  <2>1. AxPage \in Nat
    BY RunAxfAssumption
  <2> QED  BY <2>1 DEF AxInit, MapInv, NoMap, AxMapFits
<1>2. MapInv /\ [AxNext]_axVars => MapInv'
  BY MapStep
<1>3. MapInv => AxMapFits
  BY DEF MapInv
<1> QED  BY <1>1, <1>2, <1>3, PTL DEF AxSpec

-------------------------------------------------------------------------------
(* The FDT driver's shell commands.                                          *)

ShellInv ==
  /\ "who" \in DOMAIN fdtRun
  /\ fdtUp = "off" => ~fdtShell
  /\ fdtPc # "idle" /\ fdtRun.who # "setfdt" => fdtUp = "off"
  /\ fdtPc # "idle" /\ fdtRun.who = "setfdt" => fdtUp = "up"
  /\ fdtPc = "idle" /\ fdtShell => fdtHits \cap {"shell", "dump"} # {}

\* Every step of the driver keeps the invariant.
LEMMA ShellStep ==
  ASSUME ShellInv, [FdtNext]_<<fdtVars, bdsVars>>
  PROVE  ShellInv'
<1>1. CASE fdtPc = "idle" /\ fdtUp = "off" /\ fdtPc' = "install" /\ fdtRun'.who = "entry"
           /\ "who" \in DOMAIN fdtRun' /\ UNCHANGED <<fdtUp, fdtShell>>
  BY <1>1 DEF ShellInv
<1>2. ASSUME FdtPlatformEntryPoint
      PROVE  ShellInv'
  <2>1. fdtRun'.who = "entry" /\ "who" \in DOMAIN fdtRun'
    BY <1>2 DEF FdtPlatformEntryPoint, RunFdtInstallation
  <2> QED  BY <1>1, <1>2, <2>1 DEF FdtPlatformEntryPoint, RunFdtInstallation
\* A run goes on.
<1>3. ASSUME NextPath \/ InstallFdt
      PROVE  ShellInv'
  <2>1. fdtPc # "idle" /\ fdtPc' # "idle" /\ UNCHANGED <<fdtUp, fdtShell, fdtHits>>
    BY <1>3 DEF NextPath, InstallFdt
  <2>2. fdtRun' = fdtRun \/ \E x : fdtRun' = [fdtRun EXCEPT !.s = x]
    BY <1>3 DEF NextPath, InstallFdt
  <2>3. fdtRun'.who = fdtRun.who /\ "who" \in DOMAIN fdtRun'
    <3>1. "who" \in DOMAIN fdtRun
      BY DEF ShellInv
    <3>2. \A x : [fdtRun EXCEPT !.s = x].who = fdtRun.who /\ DOMAIN [fdtRun EXCEPT !.s = x] = DOMAIN fdtRun
      BY <3>1
    <3> QED  BY <2>2, <3>1, <3>2
  <2> QED  BY <2>1, <2>3 DEF ShellInv
<1>4. CASE EntryEnds
  <2>1. /\ fdtPc = "end" /\ fdtRun.who = "entry" /\ fdtPc' = "idle" /\ fdtRun' = NoRun
        /\ fdtUp' \in {"up", "unloaded"} /\ UNCHANGED fdtShell
    BY <1>4 DEF EntryEnds
  <2>2. ~fdtShell
    BY <2>1 DEF ShellInv
  <2> QED  BY <2>1, <2>2 DEF ShellInv, NoRun
<1>5. CASE SetFdtEnds
  <2>1. /\ fdtPc = "end" /\ fdtPc' = "idle" /\ fdtRun' = NoRun /\ fdtShell' = FALSE
    BY <1>5 DEF SetFdtEnds, SetFdtCleans
  <2> QED  BY <2>1 DEF ShellInv, NoRun
\* A command, which may start a run.
<1>6. ASSUME fdtPc = "idle", fdtUp = "up", fdtUp' = "up", fdtPc' = "idle", fdtRun' = fdtRun,
             \/ fdtShell' = FALSE
             \/ UNCHANGED <<fdtShell, fdtHits>>
             \/ "shell" \in fdtHits'
             \/ "dump" \in fdtHits'
      PROVE  ShellInv'
  BY <1>6 DEF ShellInv
<1>7. ASSUME NEW args, NEW i \in BOOLEAN, ShellDynCmdSetFdtHandler(args, i)
      PROVE  ShellInv'
  <2>1. fdtPc = "idle" /\ fdtUp = "up" /\ fdtUp' = "up"
    BY <1>7 DEF ShellDynCmdSetFdtHandler, Command, Returns, ShellInitializeFails, fdtIdle
  <2>2. CASE fdtPc' = fdtPc
    BY <2>1, <2>2, <1>6, <1>7
       DEF ShellDynCmdSetFdtHandler, Command, Returns, ShellInitializeFails, fdtIdle, SetFdtCleans, RunFdtInstallation
  <2>3. CASE fdtPc' # fdtPc
    <3>1. fdtPc' = "install" /\ fdtRun'.who = "setfdt" /\ "who" \in DOMAIN fdtRun'
      BY <2>3, <1>7 DEF ShellDynCmdSetFdtHandler, Returns, ShellInitializeFails, RunFdtInstallation
    <3> QED  BY <3>1, <2>1 DEF ShellInv
  <2> QED  BY <2>2, <2>3
<1>8. CASE ShellDynCmdDumpFdtHandler
  <2>1. fdtPc = "idle" /\ fdtUp = "up" /\ fdtUp' = "up" /\ fdtPc' = fdtPc /\ fdtRun' = fdtRun
    BY <1>8 DEF ShellDynCmdDumpFdtHandler, Command, Returns, ShellInitializeFails, fdtIdle
  <2> QED  BY <2>1, <1>6, <1>8 DEF ShellDynCmdDumpFdtHandler, ShellInitializeFails
<1>9. ASSUME UNCHANGED fdtVars
      PROVE  ShellInv'
  BY <1>9 DEF fdtVars, ShellInv
<1> QED  BY <1>2, <1>3, <1>4, <1>5, <1>7, <1>8, <1>9 DEF FdtNext, FdtStep, FdtBds, FdtOver

\* setfdt and dumpfdt take the Shell protocols off the driver's image again, for every
\* configuration, unless the shell library failed to start or there was no tree to dump.
THEOREM FdtShellFreeHolds == FdtSpec => []FdtShellFree
<1>1. FdtInit => ShellInv
  BY DEF FdtInit, FdtQuiet, NoRun, ShellInv
<1>2. ShellInv /\ [FdtNext]_<<fdtVars, bdsVars>> => ShellInv'
  BY ShellStep
<1>3. ShellInv => FdtShellFree
  BY DEF ShellInv, FdtShellFree
<1> QED  BY <1>1, <1>2, <1>3, PTL DEF FdtSpec
-------------------------------------------------------------------------------
(* The boot device selection library.                                        *)

\* The stages of the file system's loader and of the TFTP loader, and the labels.
FsStages  == {"fsproto", "root", "file", "info", "pages", "read"}
Labels    == {"CLOSE_FILE", "CLOSE_PROTOCOL", "Error", "return"}
Served    == {"dhcpconf", "dhcpsession", "dhcpmode", "dhcpbound", "mtftpconf", "size", "context", "pages", "read"}
Transfer  == {"dhcpchild", "dhcp", "dhcpsession", "mtftpchild", "mtftp", "pathname", "path", "packet", "context"}

\* What each loader may have open at each of its stages: only so do the labels release
\* all that is there.
FileInv ==
  /\ bdsStage \in FsStages \cup {"CLOSE_FILE", "CLOSE_PROTOCOL", "return"}
  /\ bdsOpen \subseteq {"fsproto", "root", "file", "info"}
  /\ bdsStage \in {"fsproto", "root", "file", "CLOSE_PROTOCOL", "return"} => "file" \notin bdsOpen
  /\ bdsStage \in {"fsproto", "return"} => "fsproto" \notin bdsOpen
  /\ "info" \in bdsOpen => bdsStatus # "OK" /\ bdsStage \in Labels
SectionInv ==
  /\ bdsStage \in {"fwvol", "section", "pages", "read", "return"} /\ bdsOpen \subseteq {"section"}
  /\ bdsStage \in {"fwvol", "section"} \/ (bdsStage = "return" /\ bdsStatus = "OK") => bdsOpen = {}
BareInv ==
  /\ bdsStage \in {"rawsize", "loadfile", "ask", "pages", "read", "return"} /\ bdsOpen = {}
  /\ bdsStage = "rawsize" => bdsKind = "raw"
  /\ bdsStage \in {"loadfile", "ask"} => bdsKind = "pxe"
\* A protocol is open on its child only, and a name or a context allocated for an open
\* protocol only.
Nested ==
  /\ "dhcp" \in bdsOpen => "dhcpchild" \in bdsOpen
  /\ "dhcpsession" \in bdsOpen => "dhcp" \in bdsOpen
  /\ "mtftp" \in bdsOpen => "mtftpchild" \in bdsOpen
  /\ "path" \in bdsOpen \/ "context" \in bdsOpen => "mtftp" \in bdsOpen
TransferInv ==
  /\ bdsStage \in {"dhcpchild", "dhcp", "mtftpchild", "mtftp", "Error", "return"} \cup Served
  /\ bdsOpen \subseteq Transfer /\ Nested
  /\ bdsStage = "dhcp" => "dhcpchild" \in bdsOpen
  /\ bdsStage \in {"mtftpchild", "mtftp"} /\ ~Static => "dhcp" \in bdsOpen
  /\ bdsStage \in {"dhcpconf", "dhcpsession"} => "dhcp" \in bdsOpen
  /\ bdsStage = "mtftp" => "mtftpchild" \in bdsOpen
  /\ bdsStage \in Served => "mtftp" \in bdsOpen
  /\ bdsStage = "return" => bdsOpen \subseteq {"pathname", "packet"}
PagesInv ==
  /\ bdsStage \in Labels => (bdsStatus # "OK" => bdsPages = 0)
  /\ bdsStage \notin Labels => bdsPages = IF bdsStage = "read" THEN 1 ELSE 0
KindInv ==
  /\ bdsKind \in {"none", "fs", "fv", "raw", "mem", "pxe", "tftp"}
  /\ bdsKind = "none" => bdsStage = "none" /\ bdsOpen = {} /\ bdsPages = 0
  /\ bdsKind = "fs" => FileInv
  /\ bdsKind = "fv" => SectionInv
  /\ bdsKind \in {"raw", "mem", "pxe"} => BareInv
  /\ bdsKind = "tftp" => TransferInv /\ PagesInv

\* A DHCP session of the loader's own is noted, and only one of its own.
DhcpInv ==
  IF "dhcpsession" \in bdsOpen THEN bdsNet.dhcp = TRUE /\ bdsNet.other = FALSE ELSE bdsNet.dhcp = bdsNet.other

\* A buffer grows beyond the bound only after a transfer that did not fit, or when the
\* server told so; a loader leaves its stages with success only when it has the image, or
\* when the server told such a size.
StatusInv ==
  /\ bdsStage \notin Labels => bdsStatus \in {"OK", "BufferTooSmall"}
  /\ bdsStage \in Labels /\ bdsStatus = "OK" => bdsImage = "data" \/ bdsNet.tsize > BdsBlock
  /\ bdsImage = "zero" => bdsStage = "return" /\ bdsStatus # "OK" /\ bdsPages = 0
  /\ bdsStage \notin Labels /\ bdsBuf > BdsBlock => bdsNet.tsize > BdsBlock \/ bdsStatus # "OK"
LoadingInv == KindInv /\ StatusInv /\ ~bdsWatchdog
LoadedInv ==
  /\ bdsCaller = "app" /\ bdsOpen \subseteq {"root", "pathname", "packet"} /\ bdsImage # "zero"
  /\ bdsImage = "data" \/ bdsNet.tsize > BdsBlock
  /\ bdsPc = "image" => ~bdsWatchdog
BdsInv ==
  /\ bdsNet \in Nets /\ bdsBuf \in Nat /\ bdsPages \in Int /\ DhcpInv
  /\ bdsPc \in {"idle", "connect"} =>
       /\ bdsKind = "none" /\ bdsStage = "none" /\ bdsOpen = {} /\ bdsBuf = 0 /\ bdsPages = 0
       /\ bdsImage # "zero" /\ ~bdsWatchdog
  /\ bdsPc = "load" => LoadingInv
  /\ bdsPc \in {"image", "start"} => LoadedInv
  /\ bdsPc = "done" => BdsCleansUp /\ BdsImageLoaded

\* The stage after each of the file system's loader, and where the loader leaves it for.
LEMMA FileTable ==
  ASSUME bdsKind = "fs"
  PROVE  /\ After("fsproto") = "root" /\ After("root") = "file" /\ After("file") = "info" /\ After("info") = "pages"
         /\ Label("fsproto") = "return" /\ Label("root") = "CLOSE_PROTOCOL" /\ Label("file") = "CLOSE_PROTOCOL"
         /\ Label("info") = "CLOSE_FILE" /\ Label("pages") = "CLOSE_FILE" /\ Label("read") = "CLOSE_FILE"
<1>1. StagesOf(bdsKind) = BdsFileSystemLoadImage
  BY DEF StagesOf
<1>2. /\ After("fsproto") = "root" /\ After("root") = "file" /\ After("file") = "info" /\ After("info") = "pages"
  BY <1>1 DEF After, BdsFileSystemLoadImage
<1>3. /\ Label("fsproto") = "return" /\ Label("root") = "CLOSE_PROTOCOL" /\ Label("file") = "CLOSE_PROTOCOL"
      /\ Label("info") = "CLOSE_FILE" /\ Label("pages") = "CLOSE_FILE" /\ Label("read") = "CLOSE_FILE"
  BY DEF Label
<1> QED  BY <1>2, <1>3

\* The same of the loaders that return at once.
LEMMA BareTable ==
  ASSUME bdsKind \in {"fv", "raw", "mem", "pxe"}
  PROVE  /\ \A stage : Label(stage) = "return"
         /\ bdsKind \in {"fv", "raw"} => After("fwvol") = "section" /\ After("rawsize") = "pages"
         /\ bdsKind = "pxe" => After("loadfile") = "ask"
<1>1. \A stage : Label(stage) = "return"
  BY DEF Label
<1>2. bdsKind \in {"fv", "raw"} => StagesOf(bdsKind) = BdsFirmwareVolumeLoadImage
  BY DEF StagesOf
<1>3. bdsKind = "pxe" => StagesOf(bdsKind) = BdsPxeLoadImage
  BY DEF StagesOf
<1>4. bdsKind \in {"fv", "raw"} => After("fwvol") = "section" /\ After("rawsize") = "pages"
  BY <1>2 DEF After, BdsFirmwareVolumeLoadImage
<1>5. bdsKind = "pxe" => After("loadfile") = "ask"
  BY <1>3 DEF After, BdsPxeLoadImage
<1> QED  BY <1>1, <1>4, <1>5

\* The same of the TFTP loader.
LEMMA TransferTable ==
  ASSUME bdsKind = "tftp"
  PROVE  /\ After("dhcpchild") = "dhcp" /\ After("dhcp") = "mtftpchild" /\ After("mtftpchild") = "mtftp"
         /\ After("mtftp") = IF Static THEN "mtftpconf" ELSE "dhcpconf"
         /\ After("dhcpconf") = "dhcpsession" /\ After("dhcpsession") = "dhcpmode" /\ After("dhcpmode") = "dhcpbound"
         /\ After("dhcpbound") = "mtftpconf" /\ After("mtftpconf") = "size" /\ After("context") = "pages"
         /\ \A stage : Label(stage) = "Error"
<1>1. StagesOf(bdsKind) = BdsTftpLoadImage
  BY DEF StagesOf
<1>2. \A stage : Label(stage) = "Error"
  BY DEF Label
<1> QED  BY <1>1, <1>2 DEF After, BdsTftpLoadImage

\* A loader that leaves a stage goes to a label.
LEMMA LeavesIs ==
  ASSUME NEW s, Leaves(s)
  PROVE  bdsStage' \in Labels /\ bdsStatus' = s
BY DEF Leaves, Label, Labels

\* A stage leads to another, and what is open fits that.
LEMMA StageKeeps ==
  ASSUME BdsInv, bdsPc = "load", UNCHANGED <<bdsPc, bdsWatchdog>>, KindInv', StatusInv', DhcpInv',
         bdsNet' \in Nets, bdsBuf' \in Nat, bdsPages' \in Int
  PROVE  BdsInv'
<1>1. ~bdsWatchdog'
  BY DEF BdsInv, LoadingInv
<1>2. LoadingInv'
  BY <1>1 DEF LoadingInv
<1> QED  BY <1>2 DEF BdsInv

\* A stage is one of a loader.
LEMMA Staged ==
  ASSUME BdsInv, bdsPc = "load"
  PROVE  /\ KindInv /\ StatusInv /\ DhcpInv /\ bdsNet \in Nets /\ bdsNet.tsize \in Int /\ bdsBuf \in Nat
         /\ bdsPages \in Int /\ BdsBlock \in Nat
<1>1. bdsNet \in Nets
  BY DEF BdsInv
<1>2. bdsNet.tsize \in Int
  <2>1. bdsNet.tsize \in BdsFileSize \cup {-1}
    BY <1>1 DEF Nets
  <2>2. \A x \in BdsFileSize \cup {-1} : x \in Int
    BY BdsLibAssumption
  <2> QED  BY <2>1, <2>2
<1> QED  BY <1>1, <1>2, BdsLibAssumption DEF BdsInv, LoadingInv

\* Connecting ends with a path to load from, or with an error.
LEMMA ConnectEnds ==
  ASSUME BdsConnectAndUpdateDevicePath
  PROVE  \/ bdsPc' = bdsPc
         \/ bdsPc' = "load" /\ bdsStatus' = "OK"
         \/ bdsPc' = "done" /\ bdsStatus' # "OK"
<1> DEFINE Out == \/ bdsPc' = bdsPc
                  \/ bdsPc' = "load" /\ bdsStatus' = "OK"
                  \/ bdsPc' = "done" /\ bdsStatus' # "OK"
<1>1. ASSUME NEW s, Leave(s)
      PROVE  Out
  BY <1>1 DEF Leave
<1>2. ASSUME NEW h, NEW rem, NEW drivers, Unconnected(h, rem, drivers)
      PROVE  Out
  <2> DEFINE t == TryRemovableDevice(bdsPath)
  <2>1. Leave("OK") \/ UNCHANGED <<bdsPc, bdsStatus>> \/ Leave(t.s)
    BY <1>2, Zenon DEF Unconnected
  <2> QED  BY <1>1, <2>1
<1>3. ASSUME NEW h, NEW rem, ConnectTurn(h, rem)
      PROVE  Out
  <2>1. bdsPc' = bdsPc \/ Unconnected(h, rem, bdsDrivers) \/ Unconnected(h, rem, Dispatched(h))
    BY <1>3 DEF ConnectTurn
  <2> QED  BY <1>2, <2>1
<1>4. ASSUME NEW rem, Connected(rem)
      PROVE  Out
  BY <1>1, <1>4 DEF Connected
<1> QED  BY <1>2, <1>3, <1>4 DEF BdsConnectAndUpdateDevicePath

\* A loader that was chosen has a name.
LEMMA LoaderChosen ==
  ASSUME BdsInv, BdsLoadImageAndUpdateDevicePath
  PROVE  \/ bdsPc' = "done" /\ bdsStatus' = "Unsupported" /\ UNCHANGED <<bdsKind, bdsStage>>
         \/ /\ bdsKind' \in {"fs", "fv", "mem", "pxe", "tftp"} /\ bdsStage' = First(bdsKind')
            /\ UNCHANGED <<bdsPc, bdsStatus>>
<1> DEFINE fit == {i \in DOMAIN FileLoaders : FileLoaders[i][2]}
           c   == CHOOSE i \in fit : \A j \in fit : i <= j
<1>1. /\ DOMAIN FileLoaders = 1 .. 5 /\ FileLoaders[1][1] = "fs" /\ FileLoaders[2][1] = "fv"
      /\ FileLoaders[3][1] = "mem" /\ FileLoaders[4][1] = "pxe" /\ FileLoaders[5][1] = "tftp"
  BY DEF FileLoaders
<1>2. IF fit = {} THEN bdsPc' = "done" /\ bdsStatus' = "Unsupported" /\ UNCHANGED <<bdsKind, bdsStage>>
      ELSE bdsKind' = FileLoaders[c][1] /\ bdsStage' = First(FileLoaders[c][1]) /\ UNCHANGED <<bdsPc, bdsStatus>>
  BY DEF BdsLoadImageAndUpdateDevicePath
<1>3. ASSUME fit # {}
      PROVE  c \in 1 .. 5
  <2>1. \A F \in SUBSET (1 .. 5) : F # {} => \E i \in F : \A j \in F : i <= j
    <3> SUFFICES ASSUME NEW F \in SUBSET (1 .. 5), F # {}
                 PROVE  \E i \in F : \A j \in F : i <= j
      OBVIOUS
    <3>1. \A j \in F : j \in {1, 2, 3, 4, 5}
      OBVIOUS
    <3>2. CASE 1 \in F
      BY <3>1, <3>2
    <3>3. CASE 1 \notin F /\ 2 \in F
      BY <3>1, <3>3
    <3>4. CASE 1 \notin F /\ 2 \notin F /\ 3 \in F
      BY <3>1, <3>4
    <3>5. CASE 1 \notin F /\ 2 \notin F /\ 3 \notin F /\ 4 \in F
      BY <3>1, <3>5
    <3>6. CASE 1 \notin F /\ 2 \notin F /\ 3 \notin F /\ 4 \notin F
      <4>1. \A j \in F : j = 5
        BY <3>1, <3>6
      <4>2. PICK x \in F : TRUE
        OBVIOUS
      <4>3. \A j \in F : x <= j
        BY <4>1
      <4> QED  BY <4>2, <4>3
    <3> QED  BY <3>2, <3>3, <3>4, <3>5, <3>6
  <2>2. fit \in SUBSET (1 .. 5)
    BY <1>1
  <2>3. \E i \in fit : \A j \in fit : i <= j
    BY <1>3, <2>1, <2>2
  <2> HIDE DEF fit
  <2>4. c \in fit
    BY <2>3
  <2> QED  BY <2>2, <2>4
<1> HIDE DEF fit, c
<1>4. fit # {} => FileLoaders[c][1] \in {"fs", "fv", "mem", "pxe", "tftp"}
  <2>1. fit # {} => c \in {1, 2, 3, 4, 5}
    BY <1>3
  <2> QED  BY <1>1, <2>1
<1> QED  BY <1>2, <1>4, Zenon

\* What may be open does not depend on the stage before.
LEMMA KindFacts ==
  ASSUME KindInv, bdsStage \notin Labels \cup {"none"}
  PROVE  /\ bdsKind \in {"fs", "fv", "raw", "mem", "pxe", "tftp"}
         /\ bdsKind = "fs" => FileInv /\ bdsStage \in FsStages
         /\ bdsKind = "fv" => SectionInv /\ bdsStage \in {"fwvol", "section", "pages", "read"}
         /\ bdsKind \in {"raw", "mem", "pxe"} => BareInv /\ bdsStage \in {"rawsize", "loadfile", "ask", "pages", "read"}
         /\ bdsKind = "tftp" => TransferInv /\ PagesInv /\ bdsStage \in {"dhcpchild", "dhcp", "mtftpchild", "mtftp"} \cup Served
BY DEF KindInv, FileInv, SectionInv, BareInv, TransferInv, Labels

\* A loader that leaves a stage keeps what it has open; the labels know what that may be.
LEMMA LeavesKeeps ==
  ASSUME KindInv, bdsStage \notin Labels \cup {"none"}, NEW s, Leaves(s), UNCHANGED <<bdsKind, bdsRem>>,
         bdsOpen' = bdsOpen \/ (bdsKind = "fs" /\ bdsStage = "info" /\ s # "OK" /\ bdsOpen' = bdsOpen \cup {"info"})
           \/ (s = "OK" /\ bdsOpen' = bdsOpen \ {"section"}),
         bdsKind = "fv" /\ s = "OK" => bdsOpen' = bdsOpen \ {"section"},
         bdsKind = "tftp" /\ s # "OK" => bdsPages' = 0
  PROVE  KindInv'
<1>1. bdsStage' = Label(bdsStage) /\ bdsStatus' = s
  BY DEF Leaves
<1>2. CASE bdsKind = "fs"
  <2>1. FileInv /\ bdsStage \in FsStages
    BY <1>2, KindFacts
  <2>2. /\ bdsStage = "fsproto" => bdsStage' = "return"
        /\ bdsStage \in {"root", "file"} => bdsStage' = "CLOSE_PROTOCOL"
        /\ bdsStage \in {"info", "pages", "read"} => bdsStage' = "CLOSE_FILE"
    BY <1>1, <1>2, FileTable
  <2>3. FileInv'
    BY <1>1, <1>2, <2>1, <2>2 DEF FileInv, FsStages, Labels
  <2> QED  BY <1>2, <2>3 DEF KindInv
<1>3. CASE bdsKind = "fv"
  <2>1. SectionInv
    BY <1>3, KindFacts
  <2>2. bdsStage' = "return"
    BY <1>1, <1>3, BareTable
  <2>3. SectionInv'
    BY <1>1, <1>3, <2>1, <2>2 DEF SectionInv
  <2> QED  BY <1>3, <2>3 DEF KindInv
<1>4. CASE bdsKind \in {"raw", "mem", "pxe"}
  <2>1. BareInv
    BY <1>4, KindFacts
  <2>2. bdsStage' = "return"
    BY <1>1, <1>4, BareTable
  <2>3. BareInv'
    BY <1>4, <2>1, <2>2 DEF BareInv
  <2> QED  BY <1>4, <2>3 DEF KindInv
<1>5. CASE bdsKind = "tftp"
  <2>1. TransferInv /\ PagesInv
    BY <1>5, KindFacts
  <2>2. bdsStage' = "Error" /\ bdsOpen' = bdsOpen
    <3>1. bdsStage' = "Error"
      BY <1>1, <1>5, TransferTable
    <3>2. "section" \notin bdsOpen
      BY <2>1 DEF TransferInv, Transfer
    <3> QED  BY <1>5, <3>1, <3>2
  <2>3. TransferInv'
    BY <2>1, <2>2 DEF TransferInv, Nested, Served, Static
  <2>4. PagesInv'
    BY <1>1, <1>5, <2>2 DEF PagesInv, Labels
  <2> QED  BY <1>5, <2>3, <2>4 DEF KindInv
<1> QED  BY <1>2, <1>3, <1>4, <1>5, KindFacts

\* A stage that opens what it is named for leads to the one after.
LEMMA AdvanceKeeps ==
  ASSUME KindInv, bdsStage \in Plain, bdsStage' = After(bdsStage), bdsOpen' = bdsOpen \cup ({bdsStage} \cap Opens),
         UNCHANGED <<bdsKind, bdsRem, bdsStatus, bdsPages>>
  PROVE  KindInv' /\ bdsStage' \notin Labels
<1>1. bdsStage \notin Labels \cup {"none"} /\ bdsStage \notin {"pages", "read", "section", "ask", "size", "dhcpsession"}
  BY DEF Plain, Opens, Labels
<1>2. CASE bdsKind = "fs"
  <2>1. FileInv /\ bdsStage \in {"fsproto", "root", "file", "info"}
    BY <1>1, <1>2, KindFacts DEF FsStages
  <2>2. /\ bdsStage = "fsproto" => bdsStage' = "root"
        /\ bdsStage = "root" => bdsStage' = "file"
        /\ bdsStage = "file" => bdsStage' = "info"
        /\ bdsStage = "info" => bdsStage' = "pages"
    BY <1>2, FileTable
  <2>3. FileInv' /\ bdsStage' \notin Labels
    BY <2>1, <2>2 DEF FileInv, FsStages, Labels, Opens
  <2> QED  BY <1>2, <2>3 DEF KindInv
<1>3. CASE bdsKind = "fv"
  <2>1. SectionInv /\ bdsStage = "fwvol" /\ bdsStage' = "section"
    BY <1>1, <1>3, KindFacts, BareTable
  <2>2. SectionInv' /\ bdsStage' \notin Labels
    BY <2>1 DEF SectionInv, Labels, Opens
  <2> QED  BY <1>3, <2>2 DEF KindInv
<1>4. CASE bdsKind \in {"raw", "mem", "pxe"}
  <2>1. BareInv /\ bdsStage \in {"rawsize", "loadfile"}
    BY <1>1, <1>4, KindFacts
  <2>2. bdsOpen' = {}
    BY <2>1 DEF BareInv, Opens
  <2>3. bdsStage' = "pages" \/ (bdsStage' = "ask" /\ bdsKind = "pxe")
    BY <1>4, <2>1, BareTable DEF BareInv
  <2>4. BareInv' /\ bdsStage' \notin Labels
    BY <2>2, <2>3 DEF BareInv, Labels
  <2> QED  BY <1>4, <2>4 DEF KindInv
<1>5. CASE bdsKind = "tftp"
  <2>1. TransferInv /\ PagesInv /\ bdsStage \in {"dhcpchild", "dhcp", "mtftpchild", "mtftp", "dhcpconf", "dhcpmode", "dhcpbound", "mtftpconf", "context"}
    BY <1>1, <1>5, KindFacts DEF Served
  <2>2. /\ bdsStage = "dhcpchild" => bdsStage' = "dhcp"
        /\ bdsStage = "dhcp" => bdsStage' = "mtftpchild"
        /\ bdsStage = "mtftpchild" => bdsStage' = "mtftp"
        /\ bdsStage = "mtftp" => bdsStage' = IF Static THEN "mtftpconf" ELSE "dhcpconf"
        /\ bdsStage = "dhcpconf" => bdsStage' = "dhcpsession"
        /\ bdsStage = "dhcpmode" => bdsStage' = "dhcpbound"
        /\ bdsStage = "dhcpbound" => bdsStage' = "mtftpconf"
        /\ bdsStage = "mtftpconf" => bdsStage' = "size"
        /\ bdsStage = "context" => bdsStage' = "pages"
    BY <1>5, TransferTable
  <2>3. Static' = Static
    BY DEF Static
  <2>4. bdsStage \in Transfer /\ bdsStage \in Opens => bdsOpen' = bdsOpen \cup {bdsStage}
    OBVIOUS
  <2>5. bdsStage \notin Opens => bdsOpen' = bdsOpen
    OBVIOUS
  <2>6. bdsOpen' \subseteq Transfer /\ Nested'
    BY <2>1, <2>4, <2>5 DEF TransferInv, Nested, Transfer, Opens, Served
  <2>7. TransferInv'
    <3>1. CASE bdsStage \in {"dhcpchild", "dhcp"}
      BY <2>1, <2>2, <2>3, <2>6, <3>1 DEF TransferInv, Served, Opens
    <3>2. CASE bdsStage \in {"mtftpchild", "mtftp"}
      BY <2>1, <2>2, <2>3, <2>6, <3>2 DEF TransferInv, Served, Opens
    <3>3. CASE bdsStage \in {"dhcpconf", "dhcpmode", "dhcpbound", "mtftpconf", "context"}
      BY <2>1, <2>2, <2>3, <2>6, <3>3 DEF TransferInv, Served, Opens
    <3> QED  BY <2>1, <3>1, <3>2, <3>3
  <2>8. bdsStage' \notin Labels \cup {"read"} /\ bdsStage \notin Labels \cup {"read"}
    BY <2>1, <2>2 DEF Labels
  <2>9. PagesInv'
    BY <2>1, <2>8 DEF PagesInv
  <2> QED  BY <1>5, <2>7, <2>8, <2>9 DEF KindInv
<1> QED  BY <1>1, <1>2, <1>3, <1>4, <1>5, KindFacts

\* The status that a loader leaves with fits the image it has.
LEMMA LeavesStatus ==
  ASSUME StatusInv, bdsStage \notin Labels, NEW s, Leaves(s), bdsNet'.tsize = bdsNet.tsize,
         bdsImage' = bdsImage \/ bdsImage' = "data", s = "OK" => bdsImage' = "data" \/ bdsNet.tsize > BdsBlock
  PROVE  StatusInv'
<1>1. bdsImage # "zero"
  BY DEF StatusInv, Labels
<1> QED  BY <1>1, LeavesIs DEF StatusInv

\* So does the status when a stage leads to another.
LEMMA OtherStatus ==
  ASSUME StatusInv, bdsStage \notin Labels, bdsStage' \notin Labels, bdsNet'.tsize = bdsNet.tsize,
         bdsImage' = bdsImage \/ bdsImage' = "pages", bdsStatus' = bdsStatus,
         bdsBuf' = bdsBuf \/ (bdsBuf' > BdsBlock => bdsNet.tsize > BdsBlock)
  PROVE  StatusInv'
<1>1. bdsImage # "zero" /\ bdsImage' # "zero"
  BY DEF StatusInv, Labels
<1> QED  BY <1>1 DEF StatusInv

\* The stages that open, configure and ask.
LEMMA PlainStageKeeps ==
  ASSUME BdsInv, PlainStage
  PROVE  BdsInv'
<1>1. bdsPc = "load" /\ bdsStage \in Plain /\ UNCHANGED <<bdsPc, bdsKind, bdsBuf, bdsNet, bdsImage, bdsPages, bdsWatchdog, bdsRem>>
  BY DEF PlainStage, LoadOnly, bdsConn
<1>2. /\ KindInv /\ StatusInv /\ DhcpInv /\ bdsNet \in Nets /\ bdsBuf \in Nat /\ bdsPages \in Int
  BY <1>1, Staged
<1>3. bdsStage \notin Labels \cup {"none"} /\ bdsStage \notin {"read", "dhcpsession"}
  BY <1>1 DEF Plain, Opens, Labels
<1>4. CASE bdsStage' = After(bdsStage) /\ bdsOpen' = bdsOpen \cup ({bdsStage} \cap Opens) /\ UNCHANGED bdsStatus
  <2>1. KindInv' /\ bdsStage' \notin Labels
    BY <1>1, <1>2, <1>4, AdvanceKeeps
  <2>2. StatusInv'
    BY <1>1, <1>2, <1>3, <1>4, <2>1, OtherStatus
  <2>3. DhcpInv'
    BY <1>1, <1>2, <1>3, <1>4 DEF DhcpInv
  <2> QED  BY <1>1, <1>2, <2>1, <2>2, <2>3, StageKeeps
<1>5. ASSUME NEW s \in {"Timeout", "Error"}, Leaves(s), bdsOpen' = bdsOpen \cup ({bdsStage} \cap {"info"})
      PROVE  BdsInv'
  <2>1. bdsStage = "info" => bdsKind = "fs"
    BY <1>2, <1>3, KindFacts DEF FsStages, Served
  <2>2. bdsKind = "tftp" => bdsPages' = 0
    <3>1. bdsKind = "tftp" => PagesInv
      BY <1>2 DEF KindInv
    <3> QED  BY <1>1, <1>3, <3>1 DEF PagesInv
  <2>3. s # "OK"
    BY <1>5
  <2>4. bdsOpen' = bdsOpen \/ (bdsStage = "info" /\ bdsOpen' = bdsOpen \cup {"info"})
    BY <1>5
  <2>5. KindInv'
    BY <1>1, <1>2, <1>3, <1>5, <2>1, <2>2, <2>3, <2>4, LeavesKeeps
  <2>6. StatusInv'
    BY <1>1, <1>2, <1>3, <1>5, <2>3, LeavesStatus
  <2>7. DhcpInv'
    BY <1>1, <1>2, <2>4 DEF DhcpInv
  <2> QED  BY <1>1, <1>2, <2>5, <2>6, <2>7, StageKeeps
<1> QED  BY <1>4, <1>5 DEF PlainStage

\* The section of a firmware volume, PXE, DHCP and the size of the buffer.
LEMMA AskKeeps ==
  ASSUME BdsInv, SectionStage \/ PxeStage \/ DhcpStage \/ SizeStage
  PROVE  BdsInv'
<1>1. bdsPc = "load" /\ UNCHANGED <<bdsPc, bdsImage, bdsPages, bdsWatchdog, bdsRem>>
  BY DEF SectionStage, PxeStage, DhcpStage, SizeStage, LoadOnly, bdsConn
<1>2. /\ KindInv /\ StatusInv /\ DhcpInv /\ bdsNet \in Nets /\ bdsNet.tsize \in Int /\ bdsBuf \in Nat /\ bdsPages \in Int
      /\ BdsBlock \in Nat
  BY <1>1, Staged
<1>3. bdsStage \in {"section", "ask", "dhcpsession", "size"} /\ bdsStage \notin Labels \cup {"none", "read"}
  BY DEF SectionStage, PxeStage, DhcpStage, SizeStage, Labels
<1>4. /\ bdsStage = "section" => bdsKind = "fv" /\ SectionInv
      /\ bdsStage = "ask" => bdsKind \in {"raw", "mem", "pxe"} /\ BareInv
      /\ bdsStage \in {"dhcpsession", "size"} => bdsKind = "tftp" /\ TransferInv /\ PagesInv
  BY <1>2, <1>3, KindFacts DEF FsStages, Served
<1>5. CASE SectionStage
  <2>1. bdsStage = "section" /\ UNCHANGED <<bdsBuf, bdsNet, bdsStatus>>
    BY <1>5 DEF SectionStage
  <2>2. bdsOpen = {}
    BY <1>4, <2>1 DEF SectionInv
  <2>3. CASE bdsStage' = "pages" /\ bdsOpen' = bdsOpen \cup {"section"} /\ UNCHANGED bdsKind
    <3>1. SectionInv' /\ bdsStage' \notin Labels
      BY <2>2, <2>3 DEF SectionInv, Labels
    <3>2. KindInv' /\ DhcpInv'
      BY <1>2, <1>4, <2>1, <2>3, <3>1 DEF KindInv, DhcpInv
    <3>3. StatusInv'
      BY <1>1, <1>2, <1>3, <2>1, <3>1, OtherStatus
    <3> QED  BY <1>1, <1>2, <2>1, <3>2, <3>3, StageKeeps
  <2>4. CASE bdsKind' = "raw" /\ bdsStage' = "rawsize" /\ UNCHANGED bdsOpen
    <3>1. BareInv' /\ bdsStage' \notin Labels
      BY <2>2, <2>4 DEF BareInv, Labels
    <3>2. KindInv' /\ DhcpInv'
      BY <1>2, <2>1, <2>4, <3>1 DEF KindInv, DhcpInv
    <3>3. StatusInv'
      BY <1>1, <1>2, <1>3, <2>1, <3>1, OtherStatus
    <3> QED  BY <1>1, <1>2, <2>1, <3>2, <3>3, StageKeeps
  <2> QED  BY <1>5, <2>3, <2>4 DEF SectionStage
<1>6. CASE PxeStage
  <2>1. bdsStage = "ask" /\ UNCHANGED <<bdsKind, bdsOpen, bdsBuf>>
    BY <1>6 DEF PxeStage
  <2>2. bdsNet' \in Nets /\ bdsNet'.tsize = bdsNet.tsize /\ bdsNet'.dhcp = bdsNet.dhcp /\ bdsNet'.other = bdsNet.other
    BY <1>2, <1>6 DEF PxeStage, Nets
  <2>3. DhcpInv'
    BY <1>2, <2>1, <2>2 DEF DhcpInv
  <2>4. CASE bdsStage' \in {"loadfile", "pages"} /\ UNCHANGED bdsStatus
    <3>1. BareInv' /\ bdsStage' \notin Labels
      BY <1>4, <2>1, <2>4 DEF BareInv, Labels
    <3>2. KindInv'
      BY <1>4, <2>1, <3>1 DEF KindInv
    <3>3. StatusInv'
      BY <1>1, <1>2, <1>3, <2>1, <2>2, <2>4, <3>1, OtherStatus
    <3> QED  BY <1>1, <1>2, <2>1, <2>2, <2>3, <3>2, <3>3, StageKeeps
  <2>5. CASE Leaves("Error")
    <3>1. KindInv'
      BY <1>1, <1>2, <1>3, <1>4, <2>1, <2>5, LeavesKeeps
    <3>2. StatusInv'
      BY <1>1, <1>2, <1>3, <2>2, <2>5, LeavesStatus
    <3> QED  BY <1>1, <1>2, <2>1, <2>2, <2>3, <3>1, <3>2, StageKeeps
  <2> QED  BY <1>6, <2>4, <2>5 DEF PxeStage
<1>7. CASE DhcpStage
  <2>1. bdsStage = "dhcpsession" /\ UNCHANGED <<bdsKind, bdsBuf>>
    BY <1>7 DEF DhcpStage
  <2>2. bdsKind = "tftp" /\ TransferInv /\ bdsPages = 0
    BY <1>3, <1>4, <2>1 DEF PagesInv
  <2>3. CASE /\ bdsStage' = After(bdsStage) /\ bdsNet' = [bdsNet EXCEPT !.dhcp = TRUE] /\ UNCHANGED bdsStatus
             /\ bdsOpen' = IF bdsNet.dhcp THEN bdsOpen ELSE bdsOpen \cup {"dhcpsession"}
    <3>1. /\ bdsNet' \in Nets /\ bdsNet'.tsize = bdsNet.tsize /\ bdsNet'.dhcp = TRUE /\ bdsNet'.other = bdsNet.other
          /\ bdsNet.dhcp \in BOOLEAN /\ bdsNet.other \in BOOLEAN
      BY <1>2, <2>3 DEF Nets
    <3>2. bdsStage' = "dhcpmode"
      BY <2>1, <2>2, <2>3, TransferTable
    <3>3. "dhcpsession" \in bdsOpen => bdsNet.dhcp
      BY <1>2 DEF DhcpInv
    <3>4. DhcpInv'
      <4>1. CASE bdsNet.dhcp = TRUE
        BY <1>2, <2>3, <3>1, <4>1 DEF DhcpInv
      <4>2. CASE bdsNet.dhcp = FALSE
        BY <1>2, <2>3, <3>1, <3>3, <4>2 DEF DhcpInv
      <4> QED  BY <3>1, <4>1, <4>2
    <3>5. bdsOpen' \in {bdsOpen, bdsOpen \cup {"dhcpsession"}}
      BY <2>3
    <3>6. TransferInv'
      BY <1>1, <2>1, <2>2, <3>2, <3>5 DEF TransferInv, Nested, Transfer, Served, Static
    <3>7. PagesInv' /\ bdsStage' \notin Labels
      BY <1>1, <2>2, <3>2 DEF PagesInv, Labels
    <3>8. KindInv'
      BY <2>1, <2>2, <3>6, <3>7 DEF KindInv
    <3>9. StatusInv'
      BY <1>1, <1>2, <1>3, <2>1, <2>3, <3>1, <3>7, OtherStatus
    <3> QED  BY <1>1, <1>2, <2>1, <3>1, <3>4, <3>8, <3>9, StageKeeps
  <2>4. CASE Leaves("Error") /\ UNCHANGED <<bdsNet, bdsOpen>>
    <3>1. KindInv'
      BY <1>1, <1>2, <1>3, <2>1, <2>2, <2>4, LeavesKeeps
    <3>2. StatusInv'
      BY <1>1, <1>2, <1>3, <2>4, LeavesStatus
    <3>3. DhcpInv'
      BY <1>2, <2>4 DEF DhcpInv
    <3> QED  BY <1>1, <1>2, <2>1, <2>4, <3>1, <3>2, <3>3, StageKeeps
  <2> QED  BY <1>7, <2>3, <2>4 DEF DhcpStage
<1>8. CASE SizeStage
  <2>1. /\ bdsBuf' \in {Mtftp4GetFileSize, BdsBlock} /\ bdsStage' = "context"
        /\ bdsOpen' \in {bdsOpen \cup {"pathname", "path", "packet"}, bdsOpen \cup {"pathname", "path"}}
        /\ bdsStage = "size" /\ UNCHANGED <<bdsKind, bdsNet, bdsStatus>>
    BY <1>8 DEF SizeStage
  <2>2. bdsBuf' \in Nat /\ (bdsBuf' > BdsBlock => bdsNet.tsize > BdsBlock)
    <3>1. bdsNet.tsize \in BdsFileSize \cup {-1}
      BY <1>2 DEF Nets
    <3>2. bdsNet.tsize = -1 \/ bdsNet.tsize \in Nat
      BY <3>1, BdsLibAssumption
    <3> QED  BY <1>2, <2>1, <3>2 DEF Mtftp4GetFileSize
  <2>3. bdsKind = "tftp" /\ TransferInv /\ bdsPages = 0 /\ "mtftp" \in bdsOpen
    BY <1>3, <1>4, <2>1 DEF PagesInv, TransferInv, Served
  <2>4. TransferInv'
    BY <1>1, <2>1, <2>3 DEF TransferInv, Nested, Transfer, Served, Static
  <2>5. PagesInv' /\ bdsStage' \notin Labels
    BY <1>1, <2>1, <2>3 DEF PagesInv, Labels
  <2>6. KindInv' /\ DhcpInv'
    BY <1>2, <2>1, <2>3, <2>4, <2>5 DEF KindInv, DhcpInv
  <2>7. StatusInv'
    BY <1>1, <1>2, <1>3, <2>1, <2>2, <2>5, OtherStatus
  <2> QED  BY <1>1, <1>2, <2>1, <2>2, <2>6, <2>7, StageKeeps
<1> QED  BY <1>5, <1>6, <1>7, <1>8

\* The pages.
LEMMA PagesKeeps ==
  ASSUME BdsInv, PagesStage
  PROVE  BdsInv'
<1>1. /\ bdsPc = "load" /\ bdsStage = "pages"
      /\ UNCHANGED <<bdsPc, bdsKind, bdsOpen, bdsBuf, bdsNet, bdsWatchdog, bdsRem>>
  BY DEF PagesStage, LoadOnly, bdsConn
<1>2. /\ KindInv /\ StatusInv /\ DhcpInv /\ bdsNet \in Nets /\ bdsNet.tsize \in Int /\ bdsBuf \in Nat /\ bdsPages \in Int
      /\ BdsBlock \in Nat
  BY <1>1, Staged
<1>3. bdsStage \notin Labels \cup {"none", "read"}
  BY <1>1 DEF Labels
<1>4. DhcpInv'
  BY <1>1, <1>2 DEF DhcpInv
<1>5. bdsKind = "tftp" => TransferInv /\ bdsPages = 0
  BY <1>2, <1>3 DEF KindInv, PagesInv
<1>6. ASSUME NEW s, Leaves(s), UNCHANGED <<bdsImage, bdsPages>>, s = "OK" => bdsKind = "tftp" /\ bdsNet.tsize > BdsBlock
      PROVE  BdsInv'
  <2>1. KindInv'
    BY <1>1, <1>2, <1>3, <1>5, <1>6, LeavesKeeps
  <2>2. StatusInv'
    BY <1>1, <1>2, <1>3, <1>6, LeavesStatus
  <2> QED  BY <1>1, <1>2, <1>4, <1>6, <2>1, <2>2, StageKeeps
<1>7. CASE bdsKind = "tftp" /\ bdsBuf > BdsBlock /\ Leaves(bdsStatus) /\ UNCHANGED <<bdsImage, bdsPages>>
  <2>1. bdsStatus = "OK" => bdsNet.tsize > BdsBlock
    BY <1>2, <1>3, <1>7 DEF StatusInv
  <2>2. PICK s : s = bdsStatus
    OBVIOUS
  <2> QED  BY <1>6, <1>7, <2>1, <2>2
<1>8. CASE bdsStage' = "read" /\ bdsImage' = "pages" /\ bdsPages' = bdsPages + 1 /\ UNCHANGED bdsStatus
  <2>1. bdsStage' \notin Labels /\ bdsPages' \in Int /\ (bdsKind = "tftp" => bdsPages' = 1)
    BY <1>2, <1>5, <1>8 DEF Labels
  <2>2. bdsKind = "fs" => FileInv'
    BY <1>1, <1>2, <1>3, <1>8, KindFacts DEF FileInv, FsStages, Labels
  <2>3. bdsKind = "fv" => SectionInv'
    BY <1>1, <1>2, <1>3, <1>8, KindFacts DEF SectionInv
  <2>4. bdsKind \in {"raw", "mem", "pxe"} => BareInv'
    BY <1>1, <1>2, <1>3, <1>8, KindFacts DEF BareInv
  <2>5. bdsKind = "tftp" => TransferInv' /\ PagesInv'
    <3>1. bdsKind = "tftp" => TransferInv'
      BY <1>1, <1>5, <1>8 DEF TransferInv, Nested, Served, Static
    <3>2. bdsKind = "tftp" => PagesInv'
      BY <1>8, <2>1 DEF PagesInv
    <3> QED  BY <3>1, <3>2
  <2>6. KindInv'
    BY <1>1, <1>2, <1>3, <2>2, <2>3, <2>4, <2>5, KindFacts DEF KindInv
  <2>7. StatusInv'
    BY <1>1, <1>2, <1>3, <1>8, <2>1, OtherStatus
  <2> QED  BY <1>1, <1>2, <1>4, <2>1, <2>6, <2>7, StageKeeps
<1>9. CASE Leaves("OutOfResources") /\ UNCHANGED <<bdsImage, bdsPages>>
  BY <1>6, <1>9
<1> QED  BY <1>7, <1>8, <1>9 DEF PagesStage

\* The reading of the image.
LEMMA ReadKeeps ==
  ASSUME BdsInv, ReadStage
  PROVE  BdsInv'
<1>1. /\ bdsPc = "load" /\ bdsStage = "read" /\ UNCHANGED <<bdsPc, bdsKind, bdsNet, bdsWatchdog, bdsRem>>
  BY DEF ReadStage, LoadOnly, bdsConn
<1>2. /\ KindInv /\ StatusInv /\ DhcpInv /\ bdsNet \in Nets /\ bdsNet.tsize \in Int /\ bdsBuf \in Nat /\ bdsPages \in Int
      /\ BdsBlock \in Nat
  BY <1>1, Staged
<1>3. bdsStage \notin Labels \cup {"none"}
  BY <1>1 DEF Labels
<1>4. bdsKind = "tftp" => TransferInv /\ bdsPages = 1
  BY <1>1, <1>2, <1>3 DEF KindInv, PagesInv
<1>5. CASE bdsImage' = "data" /\ Leaves("OK") /\ bdsOpen' = bdsOpen \ {"section"} /\ UNCHANGED <<bdsBuf, bdsPages>>
  <2>1. KindInv'
    BY <1>1, <1>2, <1>3, <1>5, LeavesKeeps
  <2>2. StatusInv'
    BY <1>1, <1>2, <1>3, <1>5, LeavesStatus
  <2>3. DhcpInv'
    BY <1>1, <1>2, <1>5 DEF DhcpInv
  <2> QED  BY <1>1, <1>2, <1>5, <2>1, <2>2, <2>3, StageKeeps
<1>6. CASE /\ bdsKind = "tftp" /\ bdsBuf' = NextBuffer(bdsBuf) /\ bdsStage' = "pages" /\ bdsPages' = bdsPages - 1
           /\ bdsStatus' = "BufferTooSmall" /\ UNCHANGED <<bdsOpen, bdsImage>>
  <2>1. bdsBuf' \in Nat
    <3>1. (bdsBuf + BdsBlock) \div BdsBlock \in Nat
      BY <1>2, BdsLibAssumption
    <3> QED  BY <1>2, <1>6, <3>1 DEF NextBuffer
  <2>2. bdsPages' = 0 /\ bdsStage' \notin Labels
    BY <1>4, <1>6 DEF Labels
  <2>3. TransferInv'
    BY <1>1, <1>4, <1>6 DEF TransferInv, Nested, Served, Static
  <2>4. PagesInv'
    BY <1>6, <2>2 DEF PagesInv
  <2>5. KindInv' /\ DhcpInv'
    BY <1>1, <1>2, <1>6, <2>3, <2>4 DEF KindInv, DhcpInv
  <2>6. StatusInv'
    <3>1. bdsImage # "zero"
      BY <1>2, <1>3 DEF StatusInv, Labels
    <3> QED  BY <1>6, <2>2, <3>1 DEF StatusInv
  <2> QED  BY <1>1, <1>2, <2>1, <2>2, <2>5, <2>6, StageKeeps
<1>7. CASE /\ Leaves("Error") /\ bdsPages' = (IF bdsKind = "tftp" THEN bdsPages - 1 ELSE bdsPages)
           /\ UNCHANGED <<bdsOpen, bdsBuf, bdsImage>>
  <2>1. bdsPages' \in Int /\ (bdsKind = "tftp" => bdsPages' = 0)
    BY <1>2, <1>4, <1>7
  <2>2. KindInv'
    BY <1>1, <1>2, <1>3, <1>7, <2>1, LeavesKeeps
  <2>3. StatusInv'
    BY <1>1, <1>2, <1>3, <1>7, LeavesStatus
  <2>4. DhcpInv'
    BY <1>1, <1>2, <1>7 DEF DhcpInv
  <2> QED  BY <1>1, <1>2, <1>7, <2>1, <2>2, <2>3, <2>4, StageKeeps
<1> QED  BY <1>5, <1>6, <1>7 DEF ReadStage

\* The labels.
LEMMA LabelsKeep ==
  ASSUME BdsInv, CloseStage \/ ErrorStage
  PROVE  BdsInv'
<1>1. /\ bdsPc = "load" /\ bdsStage \in {"CLOSE_FILE", "CLOSE_PROTOCOL", "Error"}
      /\ UNCHANGED <<bdsPc, bdsKind, bdsBuf, bdsPages, bdsStatus, bdsWatchdog, bdsRem>>
  BY DEF CloseStage, ErrorStage, LoadOnly, bdsConn
<1>2. /\ KindInv /\ StatusInv /\ DhcpInv /\ bdsNet \in Nets /\ bdsNet.tsize \in Int /\ bdsBuf \in Nat /\ bdsPages \in Int
  BY <1>1, Staged
<1>3. CASE CloseStage
  <2>1. bdsStage \in {"CLOSE_FILE", "CLOSE_PROTOCOL"} /\ UNCHANGED <<bdsNet, bdsImage>>
    BY <1>3 DEF CloseStage
  <2>2. bdsKind = "fs" /\ FileInv
    BY <1>2, <2>1 DEF KindInv, SectionInv, BareInv, TransferInv, Served
  <2>3. \/ bdsStage = "CLOSE_FILE" /\ bdsOpen' = bdsOpen \ {"file"} /\ bdsStage' = "CLOSE_PROTOCOL"
        \/ bdsStage = "CLOSE_PROTOCOL" /\ bdsOpen' = bdsOpen \ {"fsproto"} /\ bdsStage' = "return"
    BY <1>3 DEF CloseStage
  <2>4. FileInv' /\ bdsStage \in Labels /\ bdsStage' \in Labels
    BY <1>1, <2>2, <2>3 DEF FileInv, FsStages, Labels
  <2>5. KindInv'
    BY <1>1, <2>2, <2>4 DEF KindInv
  <2>6. DhcpInv'
    BY <1>2, <2>1, <2>3 DEF DhcpInv
  <2>7. StatusInv'
    BY <1>1, <1>2, <2>1, <2>4 DEF StatusInv
  <2> QED  BY <1>1, <1>2, <2>1, <2>5, <2>6, <2>7, StageKeeps
<1>4. CASE ErrorStage
  <2>1. /\ bdsStage = "Error" /\ bdsStage' = "return" /\ bdsOpen' = bdsOpen \ Released(bdsOpen)
        /\ bdsNet' = (IF {"dhcpchild", "dhcp", "dhcpsession"} \subseteq bdsOpen THEN [bdsNet EXCEPT !.dhcp = FALSE] ELSE bdsNet)
        /\ bdsImage' = (IF bdsStatus # "OK" THEN "zero" ELSE bdsImage)
    BY <1>4 DEF ErrorStage
  <2>2. bdsKind = "tftp" /\ TransferInv /\ PagesInv
    BY <1>2, <2>1 DEF KindInv, FileInv, SectionInv, BareInv, FsStages
  <2>3. bdsOpen' \subseteq {"pathname", "packet"}
    <3>1. bdsOpen \subseteq Transfer /\ Nested
      BY <2>2 DEF TransferInv
    <3>2. {"dhcpchild", "dhcp", "dhcpsession"} \cap bdsOpen \subseteq Released(bdsOpen)
      BY <3>1 DEF Nested, Released
    <3>3. {"mtftpchild", "mtftp", "path", "context"} \cap bdsOpen \subseteq Released(bdsOpen)
      BY <3>1 DEF Nested, Released
    <3> QED  BY <2>1, <3>1, <3>2, <3>3 DEF Transfer
  <2>4. TransferInv'
    BY <2>1, <2>3 DEF TransferInv, Nested, Transfer, Served
  <2>5. bdsStage \in Labels /\ bdsStage' \in Labels
    BY <2>1 DEF Labels
  <2>6. PagesInv'
    BY <1>1, <2>2, <2>5 DEF PagesInv
  <2>7. KindInv'
    BY <1>1, <2>2, <2>4, <2>6 DEF KindInv
  <2>8. bdsNet' \in Nets /\ bdsNet'.tsize = bdsNet.tsize /\ DhcpInv'
    <3>1. CASE "dhcpsession" \in bdsOpen
      <4>1. {"dhcpchild", "dhcp", "dhcpsession"} \subseteq bdsOpen
        BY <2>2, <3>1 DEF TransferInv, Nested
      <4>2. /\ bdsNet' \in Nets /\ bdsNet'.tsize = bdsNet.tsize /\ bdsNet'.dhcp = FALSE /\ bdsNet'.other = bdsNet.other
        BY <1>2, <2>1, <4>1 DEF Nets
      <4>3. bdsNet.other = FALSE
        BY <1>2, <3>1 DEF DhcpInv
      <4> QED  BY <2>3, <4>2, <4>3 DEF DhcpInv
    <3>2. CASE "dhcpsession" \notin bdsOpen
      <4>1. bdsNet' = bdsNet
        BY <2>1, <3>2
      <4> QED  BY <1>2, <2>3, <3>2, <4>1 DEF DhcpInv
    <3> QED  BY <3>1, <3>2
  <2>9. StatusInv'
    <3>1. bdsStatus # "OK" => bdsPages = 0
      BY <2>2, <2>5 DEF PagesInv
    <3> QED  BY <1>1, <1>2, <2>1, <2>5, <2>8, <3>1 DEF StatusInv
  <2> QED  BY <1>1, <1>2, <2>7, <2>8, <2>9, StageKeeps
<1> QED  BY <1>3, <1>4

\* The return to the caller, or to BdsStartEfiApplication.
LEMMA ReturnKeeps ==
  ASSUME BdsInv, LoadReturns
  PROVE  BdsInv'
<1>1. /\ bdsPc = "load" /\ bdsStage = "return" /\ bdsPc' = (IF bdsStatus = "OK" /\ bdsCaller = "app" THEN "image" ELSE "done")
      /\ UNCHANGED <<bdsOpen, bdsBuf, bdsNet, bdsImage, bdsPages, bdsStatus, bdsWatchdog, bdsCaller>>
  BY DEF LoadReturns, LoadOnly
<1>2. /\ KindInv /\ StatusInv /\ DhcpInv /\ bdsNet \in Nets /\ bdsBuf \in Nat /\ bdsPages \in Int /\ ~bdsWatchdog
  BY <1>1, Staged DEF BdsInv, LoadingInv
<1>3. bdsStage \in Labels
  BY <1>1 DEF Labels
<1>4. /\ bdsOpen \subseteq Forgotten /\ "dhcpsession" \notin bdsOpen
      /\ bdsStatus = "OK" => bdsOpen \subseteq {"root", "pathname", "packet"}
  BY <1>1, <1>2 DEF KindInv, FileInv, SectionInv, BareInv, TransferInv, Forgotten
<1>5. /\ bdsStatus = "OK" => bdsImage = "data" \/ bdsNet.tsize > BdsBlock
      /\ bdsImage = "zero" => bdsStatus # "OK" /\ bdsPages = 0
  BY <1>2, <1>3 DEF StatusInv
<1>6. bdsNet.dhcp = bdsNet.other
  BY <1>2, <1>4 DEF DhcpInv
<1>7. DhcpInv'
  BY <1>1, <1>2 DEF DhcpInv
<1>8. CASE bdsPc' = "image"
  <2>1. bdsStatus = "OK" /\ bdsCaller = "app"
    BY <1>1, <1>8
  <2>2. LoadedInv'
    BY <1>1, <1>2, <1>4, <1>5, <2>1 DEF LoadedInv
  <2> QED  BY <1>1, <1>2, <1>7, <1>8, <2>2 DEF BdsInv
<1>9. CASE bdsPc' = "done"
  <2>1. bdsStatus = "OK" => {"info", "section"} \cap bdsOpen = {}
    BY <1>4
  <2>2. BdsCleansUp'
    BY <1>1, <1>2, <1>4, <1>5, <1>6, <2>1 DEF BdsCleansUp
  <2>3. BdsImageLoaded'
    BY <1>1, <1>5, <1>9 DEF BdsImageLoaded
  <2> QED  BY <1>1, <1>2, <1>7, <1>9, <2>2, <2>3 DEF BdsInv
<1> QED  BY <1>1, <1>8, <1>9

\* A call, connecting, and the choice of a loader.
LEMMA CallKeepsBds ==
  ASSUME BdsInv, BdsStart \/ BdsLoadImage \/ BdsConnectAndUpdateDevicePath \/ BdsLoadImageAndUpdateDevicePath
  PROVE  BdsInv'
<1>1. bdsNet' = bdsNet /\ bdsBuf' = bdsBuf /\ bdsPages' = bdsPages /\ bdsWatchdog' = bdsWatchdog
  BY DEF BdsStart, BdsLoadImage, BdsCall, BdsConnectAndUpdateDevicePath, BdsLoadImageAndUpdateDevicePath, bdsLoad
<1>2. bdsNet \in Nets /\ DhcpInv /\ bdsBuf \in Nat /\ bdsPages \in Int
  BY DEF BdsInv
<1>3. CASE BdsStart \/ BdsLoadImage
  <2>1. /\ bdsPc = "idle" /\ bdsPc' = "connect" /\ bdsKind' = bdsKind /\ bdsStage' = bdsStage /\ bdsImage' = "unset"
        /\ bdsOpen' = {}
    BY <1>3 DEF BdsStart, BdsLoadImage, BdsCall
  <2>2. bdsOpen = {}
    BY <2>1 DEF BdsInv
  <2>3. DhcpInv'
    BY <1>1, <1>2, <2>1, <2>2 DEF DhcpInv
  <2> QED  BY <1>1, <2>1, <2>3 DEF BdsInv
<1>4. CASE BdsConnectAndUpdateDevicePath
  <2>1. /\ bdsPc = "connect" /\ UNCHANGED <<bdsKind, bdsStage, bdsImage, bdsCaller, bdsOpen>>
    BY <1>4 DEF BdsConnectAndUpdateDevicePath, bdsLoad
  <2>2. /\ bdsKind = "none" /\ bdsStage = "none" /\ bdsOpen = {} /\ bdsBuf = 0 /\ bdsPages = 0 /\ bdsImage # "zero"
        /\ ~bdsWatchdog /\ BdsBlock \in Nat
    BY <2>1, BdsLibAssumption DEF BdsInv
  <2>3. DhcpInv' /\ bdsNet.dhcp = bdsNet.other
    BY <1>1, <1>2, <2>1, <2>2 DEF DhcpInv
  <2>4. CASE bdsPc' = bdsPc
    BY <1>1, <2>1, <2>2, <2>3, <2>4 DEF BdsInv
  <2>5. CASE bdsPc' = "load" /\ bdsStatus' = "OK"
    <3>1. "none" \notin Labels
      BY DEF Labels
    <3>2. KindInv'
      BY <1>1, <2>1, <2>2 DEF KindInv
    <3>3. StatusInv'
      BY <1>1, <2>1, <2>2, <2>5, <3>1 DEF StatusInv
    <3> QED  BY <1>1, <1>2, <2>2, <2>3, <2>5, <3>2, <3>3 DEF BdsInv, LoadingInv
  <2>6. CASE bdsPc' = "done" /\ bdsStatus' # "OK"
    <3>1. BdsCleansUp' /\ BdsImageLoaded'
      BY <1>1, <2>1, <2>2, <2>3, <2>6 DEF BdsCleansUp, BdsImageLoaded
    <3> QED  BY <1>1, <1>2, <2>3, <2>6, <3>1 DEF BdsInv
  <2> QED  BY <1>4, <2>4, <2>5, <2>6, ConnectEnds
<1>5. CASE BdsLoadImageAndUpdateDevicePath
  <2>1. /\ bdsPc = "load" /\ bdsKind = "none" /\ UNCHANGED <<bdsImage, bdsCaller, bdsRem, bdsOpen>>
    BY <1>5 DEF BdsLoadImageAndUpdateDevicePath, bdsConn
  <2>2. KindInv /\ StatusInv /\ ~bdsWatchdog /\ bdsOpen = {} /\ bdsPages = 0 /\ bdsStage = "none" /\ bdsStage \notin Labels
    BY <2>1 DEF BdsInv, LoadingInv, KindInv, Labels
  <2>3. DhcpInv' /\ bdsNet.dhcp = bdsNet.other /\ bdsImage # "zero"
    BY <1>1, <1>2, <2>1, <2>2 DEF DhcpInv, StatusInv
  <2>4. CASE bdsPc' = "done" /\ bdsStatus' = "Unsupported"
    <3>1. BdsCleansUp' /\ BdsImageLoaded'
      BY <1>1, <2>1, <2>2, <2>3, <2>4 DEF BdsCleansUp, BdsImageLoaded
    <3> QED  BY <1>1, <1>2, <2>3, <2>4, <3>1 DEF BdsInv
  <2>5. CASE /\ bdsKind' \in {"fs", "fv", "mem", "pxe", "tftp"} /\ bdsStage' = First(bdsKind')
             /\ UNCHANGED <<bdsPc, bdsStatus>>
    <3>1. /\ bdsKind' = "fs" => bdsStage' = "fsproto"
          /\ bdsKind' = "fv" => bdsStage' = "fwvol"
          /\ bdsKind' = "mem" => bdsStage' = "pages"
          /\ bdsKind' = "pxe" => bdsStage' = "loadfile"
          /\ bdsKind' = "tftp" => bdsStage' = IF Static THEN "mtftpchild" ELSE "dhcpchild"
      BY <2>5 DEF First
    <3>2. Static' = Static
      BY <2>1 DEF Static
    <3>3. bdsOpen' = {} /\ bdsPages' = 0
      BY <1>1, <2>1, <2>2
    <3>4. bdsStage' \notin Labels /\ bdsStage' # "read"
      BY <2>5, <3>1 DEF Labels
    <3>5. bdsKind' = "fs" => FileInv'
      BY <3>1, <3>3 DEF FileInv, FsStages
    <3>6. bdsKind' = "fv" => SectionInv'
      BY <3>1, <3>3 DEF SectionInv
    <3>7. bdsKind' \in {"raw", "mem", "pxe"} => BareInv'
      BY <2>5, <3>1, <3>3 DEF BareInv
    <3>8. bdsKind' = "tftp" => TransferInv' /\ PagesInv'
      <4>1. bdsKind' = "tftp" => PagesInv'
        BY <3>3, <3>4 DEF PagesInv
      <4>2. bdsKind' = "tftp" => TransferInv'
        BY <3>1, <3>2, <3>3 DEF TransferInv, Nested, Served
      <4> QED  BY <4>1, <4>2
    <3>9. KindInv'
      BY <2>5, <3>5, <3>6, <3>7, <3>8 DEF KindInv
    <3>10. StatusInv'
      BY <1>1, <2>1, <2>2, <2>3, <2>5, <3>4 DEF StatusInv
    <3> QED  BY <1>1, <1>2, <2>1, <2>2, <2>3, <2>5, <3>9, <3>10 DEF BdsInv, LoadingInv
  <2> QED  BY <1>5, <2>4, <2>5, LoaderChosen
<1> QED  BY <1>3, <1>4, <1>5

\* Every step of the library keeps its invariant.
LEMMA BdsStepKeeps ==
  ASSUME BdsInv, [BdsNext]_bdsVars
  PROVE  BdsInv'
<1>1. CASE UNCHANGED bdsVars
  BY <1>1 DEF bdsVars, BdsInv, LoadingInv, LoadedInv, KindInv, StatusInv, DhcpInv, FileInv, SectionInv, BareInv,
              TransferInv, PagesInv, Nested, Static, BdsCleansUp, BdsImageLoaded
<1>2. CASE BdsStartEfiApplication
  <2>1. /\ bdsPc \in {"image", "start"} /\ UNCHANGED <<bdsNet, bdsBuf, bdsPages, bdsOpen, bdsImage, bdsCaller>>
        /\ \/ bdsPc = "image" /\ bdsPc' = "start"
           \/ bdsPc = "image" /\ bdsPc' = "done" /\ bdsWatchdog' = bdsWatchdog
           \/ bdsPc = "start" /\ bdsPc' = "done" /\ bdsWatchdog' = FALSE
           \/ bdsPc' = "reset"
    BY <1>2 DEF BdsStartEfiApplication, bdsLoad
  <2>2. LoadedInv /\ DhcpInv /\ bdsNet \in Nets /\ bdsBuf \in Nat /\ bdsPages \in Int
    BY <2>1 DEF BdsInv
  <2>3. DhcpInv'
    BY <2>1, <2>2 DEF DhcpInv
  <2>4. bdsPc' = "start" => LoadedInv'
    BY <2>1, <2>2 DEF LoadedInv
  <2>5. /\ bdsOpen \subseteq Forgotten /\ {"info", "section"} \cap bdsOpen = {} /\ bdsNet.dhcp = bdsNet.other
    BY <2>2 DEF LoadedInv, Forgotten, DhcpInv
  <2>6. bdsPc' = "done" => BdsCleansUp' /\ BdsImageLoaded'
    BY <2>1, <2>2, <2>5 DEF LoadedInv, BdsCleansUp, BdsImageLoaded
  <2> QED  BY <2>1, <2>2, <2>3, <2>4, <2>6 DEF BdsInv
<1> QED  BY <1>1, <1>2, CallKeepsBds, PlainStageKeeps, AskKeeps, PagesKeeps, ReadKeeps, LabelsKeep, ReturnKeeps
         DEF BdsNext, BdsStep, BdsOver

\* The library's invariant, of every call.
LEMMA BdsAlways == BdsSpec => []BdsInv
<1>1. BdsInit => BdsInv
  <2> SUFFICES ASSUME BdsInit
               PROVE  BdsInv
    OBVIOUS
  <2>1. bdsNet \in Nets /\ bdsNet.dhcp = bdsNet.other /\ bdsOpen = {}
    BY DEF BdsInit, Idle
  <2>2. DhcpInv
    BY <2>1 DEF DhcpInv
  <2> QED  BY <2>1, <2>2 DEF BdsInit, Idle, BdsInv
<1>2. BdsInv /\ [BdsNext]_bdsVars => BdsInv'
  BY BdsStepKeeps
<1>3. BdsSpec => BdsInit /\ [][BdsNext]_bdsVars
  BY PTL DEF BdsSpec
<1> QED  BY <1>1, <1>2, <1>3, PTL

\* Whatever stage fails, BdsLoadImage and BdsStartEfiApplication return with every
\* protocol, child and buffer released but those no path of the code releases, with DHCP
\* as they found it, with the watchdog off, and a download that failed leaves no pages,
\* however often its buffer has grown.
THEOREM BdsCleansUpHolds == BdsSpec => []BdsCleansUp
<1>1. BdsInv => BdsCleansUp
  BY DEF BdsInv, BdsCleansUp
<1> QED  BY <1>1, BdsAlways, PTL

\* BdsLoadImage succeeds, and BdsStartEfiApplication starts an image, only when it has
\* been read, unless the server told a size above MAX_TFTP_FILE_SIZE.
THEOREM BdsImageLoadedHolds == BdsSpec => []BdsImageLoaded
<1>1. BdsInv => BdsImageLoaded
  BY DEF BdsInv, LoadedInv, BdsImageLoaded
<1> QED  BY <1>1, BdsAlways, PTL


-------------------------------------------------------------------------------
(* Boot options.                                                             *)

\* What is wrong with none of the hazards: the listed options are there, and the one that
\* is about to be listed is there and is not listed yet.
Listed(i) == boOrder # NoOrder /\ i \in Range(boOrder)
OptionsInv ==
  /\ boOrder = NoOrder \/ boOrder \in Seq(Indices)
  /\ boNew.index \in Indices /\ DOMAIN boStore = Indices /\ DOMAIN boMeant = Indices
  /\ boHits = {} => BootOptionsKept
  /\ boHits = {} /\ boPc = "order" =>
       /\ ~Listed(boNew.index)
       /\ BootOptionFromLoadOptionVariable(boNew.index) = boMeant[boNew.index]

\* s is the list a followed by the list b.
Joined(s, a, b, S) ==
  /\ s \in Seq(S) /\ Len(s) = Len(a) + Len(b) /\ DOMAIN s = 1 .. Len(s) /\ (a # <<>> => Head(s) = a[1])
  /\ \A i \in 1 .. Len(a) : s[i] = a[i]
  /\ \A i \in 1 .. Len(b) : s[Len(a) + i] = b[i]

\* Two lists in a row.
LEMMA Concatenated ==
  ASSUME NEW S, NEW a \in Seq(S), NEW b \in Seq(S)
  PROVE  Joined(a \o b, a, b, S)
BY DEF Joined

\* An order without one of its entries.
LEMMA Removed ==
  ASSUME NEW S, NEW s \in Seq(S), NEW k \in DOMAIN s
  PROVE  /\ RemoveAt(s, k) \in Seq(S) /\ Len(RemoveAt(s, k)) = Len(s) - 1
         /\ \A j \in 1 .. Len(s) - 1 : RemoveAt(s, k)[j] = s[IF j < k THEN j ELSE j + 1]
<1> DEFINE a == SubSeq(s, 1, k - 1)
           b == SubSeq(s, k + 1, Len(s))
<1>1. k \in 1 .. Len(s) /\ Len(s) \in Nat
  OBVIOUS
<1>2. a \in Seq(S) /\ Len(a) = k - 1 /\ \A j \in 1 .. k - 1 : a[j] = s[j]
  BY <1>1
<1>3. b \in Seq(S) /\ Len(b) = Len(s) - k /\ \A j \in 1 .. Len(s) - k : b[j] = s[k + j]
  BY <1>1
<1> HIDE DEF a, b
<1>4. Joined(a \o b, a, b, S)
  BY <1>2, <1>3, Concatenated
<1>5. RemoveAt(s, k) = a \o b
  BY DEF RemoveAt, a, b
<1>6. PICK r : r = a \o b
  OBVIOUS
<1>7. Joined(r, a, b, S)
  BY <1>4, <1>6, Zenon
<1>8. r \in Seq(S) /\ Len(r) = Len(s) - 1
  BY <1>1, <1>2, <1>3, <1>7 DEF Joined
<1>9. ASSUME NEW j \in 1 .. Len(s) - 1
      PROVE  r[j] = s[IF j < k THEN j ELSE j + 1]
  <2>1. CASE j < k
    <3>1. j \in 1 .. k - 1
      BY <1>1, <2>1
    <3>2. r[j] = a[j] /\ a[j] = s[j]
      BY <1>2, <1>7, <3>1 DEF Joined
    <3> QED  BY <2>1, <3>2
  <2>2. CASE ~(j < k)
    <3> DEFINE i == j - (k - 1)
    <3>1. i \in 1 .. Len(s) - k /\ (k - 1) + i = j /\ k + i = j + 1
      BY <1>1, <2>2
    <3> HIDE DEF i
    <3>2. r[(k - 1) + i] = b[i] /\ b[i] = s[k + i]
      BY <1>2, <1>3, <1>7, <3>1 DEF Joined
    <3> QED  BY <2>2, <3>1, <3>2
  <2> QED  BY <2>1, <2>2
<1> QED  BY <1>5, <1>6, <1>8, <1>9, Zenon

\* A creation takes an index that is not listed, or meets a hazard.
LEMMA IndexIsFree ==
  ASSUME NEW readable \in BOOLEAN, NEW order, order = GetEnvironmentVariable(boOrder, readable)
  PROVE  /\ BootOptionAllocateBootIndex(order) \in Indices
         /\ IndexHits(order) = {} => ~Listed(BootOptionAllocateBootIndex(order))
<1> DEFINE free == {i \in Indices : i \notin Range(order.v)}
<1>1. 0 \in Indices /\ Indices \subseteq Nat
  BY BootOptionAssumption DEF Indices
<1>2. boOrder # NoOrder /\ order.s = "OK" => order.v = boOrder
  BY DEF GetEnvironmentVariable
<1>3. boOrder # NoOrder /\ IndexHits(order) = {} => order.s = "OK" /\ free # {}
  BY DEF IndexHits
<1>4. CASE order.s # "OK" \/ free = {}
  <2>1. BootOptionAllocateBootIndex(order) = 0
    BY <1>4 DEF BootOptionAllocateBootIndex
  <2> QED  BY <1>1, <1>3, <1>4, <2>1 DEF Listed
<1>5. CASE order.s = "OK" /\ free # {}
  <2>1. free \in SUBSET Nat
    BY <1>1
  <2>2. \E i \in free : \A j \in free : i <= j
    BY <1>5, <2>1, FirstOf
  <2>3. BootOptionAllocateBootIndex(order) = CHOOSE i \in free : \A j \in free : i <= j
    BY <1>5 DEF BootOptionAllocateBootIndex
  <2>4. \A i \in free : i \in Indices /\ i \notin Range(order.v)
    OBVIOUS
  <2> HIDE DEF free
  <2>5. BootOptionAllocateBootIndex(order) \in free
    BY <2>2, <2>3
  <2> QED  BY <1>2, <1>5, <2>4, <2>5 DEF Listed
<1> QED  BY <1>4, <1>5

\* What is stored is read back.
LEMMA PackedIsParsed ==
  ASSUME NEW opt \in BoContents
  PROVE  BootOptionParseLoadOption(Packed(opt)) = opt
<1>1. opt \in Nat
  BY BootOptionAssumption
<1> QED  BY <1>1 DEF Packed, BootOptionParseLoadOption, Desc, Path

\* An option is written: what is meant is there, under its index and under the others.
LEMMA StoreKeeps ==
  ASSUME OptionsInv, NEW i \in Indices, NEW opt \in BoContents, NEW hits, Stores(i, opt, hits),
         boMeant' = [boMeant EXCEPT ![i] = opt], boOrder' = boOrder
  PROVE  /\ DOMAIN boStore' = Indices /\ DOMAIN boMeant' = Indices
         /\ boOrder' = NoOrder \/ boOrder' \in Seq(Indices)
         /\ boHits' = {} => /\ boHits = {} /\ hits = {} /\ BootOptionsKept'
                            /\ BootOptionFromLoadOptionVariable(i)' = boMeant'[i]
<1>1. DOMAIN boMeant' = Indices /\ (boOrder' = NoOrder \/ boOrder' \in Seq(Indices))
  BY DEF OptionsInv
<1>2. /\ DOMAIN boStore' = Indices
      /\ boHits' = {} => boHits = {} /\ hits = {} /\ boStore' = [boStore EXCEPT ![i] = Packed(opt)]
  BY DEF OptionsInv, Stores
<1>3. ASSUME boHits' = {}
      PROVE  BootOptionsKept' /\ BootOptionFromLoadOptionVariable(i)' = boMeant'[i]
  <2>1. /\ boStore' = [boStore EXCEPT ![i] = Packed(opt)] /\ BootOptionsKept /\ boHits = {}
        /\ DOMAIN boStore = Indices /\ DOMAIN boMeant = Indices
    BY <1>2, <1>3 DEF OptionsInv
  <2>2. boStore'[i] = Packed(opt) /\ \A j \in Indices : j # i => boStore'[j] = boStore[j]
    BY <2>1
  <2>3. boMeant'[i] = opt /\ \A j \in Indices : j # i => boMeant'[j] = boMeant[j]
    BY <2>1
  <2>4. BootOptionFromLoadOptionVariable(i)' = boMeant'[i]
    BY <2>2, <2>3, PackedIsParsed DEF BootOptionFromLoadOptionVariable
  <2>5. ASSUME boOrder # NoOrder
        PROVE  /\ \A j \in Range(boOrder) : BootOptionParseLoadOption(boStore'[j]) = boMeant'[j]
               /\ \A j, k \in DOMAIN boOrder : boOrder[j] = boOrder[k] => j = k
    <3>1. /\ \A j \in Range(boOrder) : BootOptionParseLoadOption(boStore[j]) = boMeant[j]
          /\ \A j, k \in DOMAIN boOrder : boOrder[j] = boOrder[k] => j = k
      BY <2>1, <2>5 DEF BootOptionsKept, BootOptionFromLoadOptionVariable
    <3>2. \A j \in Range(boOrder) : j \in Indices
      BY <2>5 DEF OptionsInv, Range
    <3>3. BootOptionParseLoadOption(boStore'[i]) = boMeant'[i]
      BY <2>4 DEF BootOptionFromLoadOptionVariable
    <3>4. ASSUME NEW j \in Range(boOrder)
          PROVE  BootOptionParseLoadOption(boStore'[j]) = boMeant'[j]
      BY <2>2, <2>3, <3>1, <3>2, <3>3, Zenon
    <3> QED  BY <3>1, <3>4
  <2>6. BootOptionsKept'
    BY <2>5 DEF BootOptionsKept, BootOptionFromLoadOptionVariable
  <2> QED  BY <2>4, <2>6
<1> QED  BY <1>1, <1>2, <1>3

\* The creation of an option, before it is listed, and the update of one.
LEMMA WriteKeeps ==
  ASSUME OptionsInv, NEW opt \in BoContents,
         BootOptionCreate(opt) \/ \E i \in Indices : BootOptionUpdate(i, opt)
  PROVE  OptionsInv'
<1>1. CASE BootOptionCreate(opt)
  <2>1. PICK readable \in BOOLEAN :
          LET order == GetEnvironmentVariable(boOrder, readable)
              i     == BootOptionAllocateBootIndex(order)
          IN /\ Stores(i, opt, IndexHits(order)) /\ boNew' = [index |-> i, opt |-> opt]
             /\ boMeant' = [boMeant EXCEPT ![i] = opt]
    BY <1>1, Zenon DEF BootOptionCreate
  <2>2. PICK order : order = GetEnvironmentVariable(boOrder, readable)
    OBVIOUS
  <2>3. PICK i : i = BootOptionAllocateBootIndex(order)
    OBVIOUS
  <2>4. /\ Stores(i, opt, IndexHits(order)) /\ boNew' = [index |-> i, opt |-> opt]
        /\ boMeant' = [boMeant EXCEPT ![i] = opt]
    BY <2>1, <2>2, <2>3, Zenon
  <2>5. boNew'.index = i /\ boOrder' = boOrder
    BY <1>1, <2>4 DEF BootOptionCreate
  <2>6. i \in Indices /\ (IndexHits(order) = {} => ~Listed(i))
    BY <2>2, <2>3, IndexIsFree, Zenon
  <2>7. /\ DOMAIN boStore' = Indices /\ DOMAIN boMeant' = Indices
        /\ boOrder' = NoOrder \/ boOrder' \in Seq(Indices)
        /\ boHits' = {} => /\ boHits = {} /\ IndexHits(order) = {} /\ BootOptionsKept'
                           /\ BootOptionFromLoadOptionVariable(i)' = boMeant'[i]
    BY <2>4, <2>5, <2>6, StoreKeeps
  <2>8. boHits' = {} => BootOptionParseLoadOption(boStore'[i]) = boMeant'[i]
    BY <2>7 DEF BootOptionFromLoadOptionVariable
  <2>9. Listed(i)' <=> Listed(i)
    BY <2>5 DEF Listed
  <2>10. boHits' = {} => ~Listed(i)'
    BY <2>6, <2>7, <2>9
  <2>11. boHits' = {} => ~Listed(boNew.index)' /\ BootOptionFromLoadOptionVariable(boNew.index)' = boMeant'[boNew'.index]
    BY <2>5, <2>8, <2>10 DEF BootOptionFromLoadOptionVariable, Listed
  <2> QED  BY <2>5, <2>6, <2>7, <2>11 DEF OptionsInv
<1>2. ASSUME NEW i \in Indices, BootOptionUpdate(i, opt)
      PROVE  OptionsInv'
  <2>1. /\ Stores(i, opt, {}) /\ boMeant' = [boMeant EXCEPT ![i] = opt] /\ boOrder' = boOrder
        /\ boPc' = boPc /\ boPc = "idle" /\ boNew' = boNew
    BY <1>2 DEF BootOptionUpdate, BoOp
  <2>2. /\ DOMAIN boStore' = Indices /\ DOMAIN boMeant' = Indices
        /\ boOrder' = NoOrder \/ boOrder' \in Seq(Indices)
        /\ boHits' = {} => BootOptionsKept'
    BY <2>1, StoreKeeps
  <2> QED  BY <2>1, <2>2 DEF OptionsInv
<1> QED  BY <1>1, <1>2

\* The index of the new option goes to the end of the order.
LEMMA AddKeeps ==
  ASSUME OptionsInv, AddToBootOrder
  PROVE  OptionsInv'
<1>1. boPc = "order" /\ boPc' = "idle" /\ UNCHANGED <<boStore, boNew, boMeant>>
  BY DEF AddToBootOrder
<1>2. PICK readable \in BOOLEAN :
        /\ boHits' = boHits \cup IF readable \/ boOrder = NoOrder THEN {} ELSE {"unread"}
        /\ \/ boOrder' = Append(GetEnvironmentVariable(boOrder, readable).v, boNew.index)
           \/ boOrder' = boOrder
  BY Zenon DEF AddToBootOrder
<1>3. CASE boOrder' = boOrder
  <2>1. boHits' = {} => boHits = {}
    BY <1>2
  <2>2. boHits' = {} => BootOptionsKept'
    BY <1>1, <1>3, <2>1 DEF OptionsInv, BootOptionsKept, BootOptionFromLoadOptionVariable
  <2> QED  BY <1>1, <1>3, <2>2 DEF OptionsInv
<1>4. CASE boOrder' = Append(GetEnvironmentVariable(boOrder, readable).v, boNew.index)
  <2>1. PICK v : v = GetEnvironmentVariable(boOrder, readable).v
    OBVIOUS
  <2>2. /\ v = <<>> \/ (v = boOrder /\ boOrder # NoOrder)
        /\ boOrder # NoOrder /\ readable => v = boOrder
    BY <2>1 DEF GetEnvironmentVariable
  <2>3. v \in Seq(Indices) /\ boNew.index \in Indices
    <3>1. <<>> \in Seq(Indices)
      OBVIOUS
    <3>2. (boOrder # NoOrder => boOrder \in Seq(Indices)) /\ boNew.index \in Indices
      BY DEF OptionsInv
    <3> QED  BY <2>2, <3>1, <3>2, Zenon
  <2>4. boOrder' = Append(v, boNew.index)
    BY <1>4, <2>1
  <2>5. /\ boOrder' \in Seq(Indices) /\ DOMAIN boOrder' = 1 .. (Len(v) + 1) /\ Len(v) \in Nat
        /\ DOMAIN v = 1 .. Len(v)
        /\ \A j \in 1 .. Len(v) : boOrder'[j] = v[j]
        /\ boOrder'[Len(v) + 1] = boNew.index
    BY <2>3, <2>4
  <2>6. ASSUME boHits' = {}
        PROVE  BootOptionsKept'
    <3>1. boHits = {} /\ (boOrder # NoOrder => readable)
      BY <1>2, <2>6
    <3>2. /\ \A j \in 1 .. Len(v) : /\ BootOptionParseLoadOption(boStore[v[j]]) = boMeant[v[j]]
                                    /\ v[j] # boNew.index
          /\ \A j, k \in 1 .. Len(v) : v[j] = v[k] => j = k
      <4>1. CASE v = <<>>
        BY <4>1
      <4>2. CASE v = boOrder /\ boOrder # NoOrder
        <5>1. BootOptionsKept /\ ~Listed(boNew.index)
          BY <1>1, <3>1 DEF OptionsInv
        <5>2. \A j \in 1 .. Len(v) : v[j] \in Range(boOrder)
          BY <2>5, <4>2 DEF Range
        <5>3. boNew.index \notin Range(boOrder)
          BY <4>2, <5>1 DEF Listed
        <5> QED  BY <2>5, <3>1, <4>2, <5>1, <5>2, <5>3 DEF BootOptionsKept, BootOptionFromLoadOptionVariable
      <4> QED  BY <2>2, <4>1, <4>2
    <3>3. BootOptionParseLoadOption(boStore[boNew.index]) = boMeant[boNew.index]
      BY <1>1, <3>1 DEF OptionsInv, BootOptionFromLoadOptionVariable
    <3>4. \A j \in 1 .. (Len(v) + 1) : j \in 1 .. Len(v) \/ j = Len(v) + 1
      BY <2>5
    <3>5. \A j \in DOMAIN boOrder' : BootOptionParseLoadOption(boStore[boOrder'[j]]) = boMeant[boOrder'[j]]
      BY <2>5, <3>2, <3>3, <3>4, Zenon
    <3>6. \A j, k \in DOMAIN boOrder' : boOrder'[j] = boOrder'[k] => j = k
      BY <2>5, <3>2, <3>4, Zenon
    <3>7. \A i \in Range(boOrder') : BootOptionParseLoadOption(boStore[i]) = boMeant[i]
      BY <3>5 DEF Range
    <3> QED  BY <1>1, <3>6, <3>7 DEF BootOptionsKept, BootOptionFromLoadOptionVariable
  <2> QED  BY <1>1, <2>5, <2>6 DEF OptionsInv
<1> QED  BY <1>2, <1>3, <1>4

\* The operating system takes an option out of the order.
LEMMA UnlistKeeps ==
  ASSUME OptionsInv, NEW i \in Indices, Unlist(i)
  PROVE  OptionsInv'
<1>1. /\ boPc = "idle" /\ boPc' = boPc /\ boOrder # NoOrder /\ UNCHANGED <<boNew, boMeant, boHits>>
      /\ boStore' \in {boStore, [boStore EXCEPT ![i] = None]}
  BY DEF Unlist, BoOp
<1>2. PICK k \in DOMAIN boOrder : boOrder[k] = i /\ boOrder' = RemoveAt(boOrder, k)
  BY DEF Unlist
<1>3. /\ boOrder \in Seq(Indices) /\ DOMAIN boOrder = 1 .. Len(boOrder) /\ Len(boOrder) \in Nat
      /\ k \in 1 .. Len(boOrder)
  BY <1>1 DEF OptionsInv
<1>4. /\ boOrder' \in Seq(Indices) /\ Len(boOrder') = Len(boOrder) - 1
      /\ \A j \in 1 .. Len(boOrder) - 1 : boOrder'[j] = boOrder[IF j < k THEN j ELSE j + 1]
  BY <1>2, <1>3, Removed
<1>5. DOMAIN boStore' = Indices /\ \A j \in Indices : j # i => boStore'[j] = boStore[j]
  BY <1>1 DEF OptionsInv
<1>6. ASSUME boHits' = {}
      PROVE  BootOptionsKept'
  <2> DEFINE At(j) == IF j < k THEN j ELSE j + 1
  <2>1. \A j \in 1 .. Len(boOrder) - 1 : At(j) \in 1 .. Len(boOrder) /\ At(j) # k
    BY <1>3
  <2>2. \A j, l \in 1 .. Len(boOrder) - 1 : At(j) = At(l) => j = l
    BY <1>3
  <2>3. DOMAIN boOrder' = 1 .. Len(boOrder) - 1
    BY <1>3, <1>4
  <2>4. \A j \in DOMAIN boOrder' : boOrder'[j] = boOrder[At(j)]
    BY <1>4, <2>3
  <2> HIDE DEF At
  <2>5. /\ \A j \in DOMAIN boOrder : BootOptionParseLoadOption(boStore[boOrder[j]]) = boMeant[boOrder[j]]
        /\ \A j, l \in DOMAIN boOrder : boOrder[j] = boOrder[l] => j = l
    BY <1>1, <1>6 DEF OptionsInv, BootOptionsKept, BootOptionFromLoadOptionVariable, Range
  <2>6. \A j \in DOMAIN boOrder : boOrder[j] \in Indices /\ (j # k => boOrder[j] # i)
    BY <1>2, <1>3, <2>5
  <2>7. \A j \in DOMAIN boOrder' : BootOptionParseLoadOption(boStore'[boOrder'[j]]) = boMeant'[boOrder'[j]]
    BY <1>1, <1>3, <1>5, <2>1, <2>3, <2>4, <2>5, <2>6
  <2>8. \A j, l \in DOMAIN boOrder' : boOrder'[j] = boOrder'[l] => j = l
    BY <1>3, <2>1, <2>2, <2>3, <2>4, <2>5
  <2>9. \A x \in Range(boOrder') : BootOptionParseLoadOption(boStore'[x]) = boMeant'[x]
    BY <2>7 DEF Range
  <2> QED  BY <2>8, <2>9 DEF BootOptionsKept, BootOptionFromLoadOptionVariable
<1> QED  BY <1>1, <1>4, <1>5, <1>6 DEF OptionsInv

\* Every option that BootOrder lists is there, once, and is what was stored under its
\* index last, across losses of power between the two writes of a creation, failures to
\* write BootOrder and an operating system that edits it: a creation takes no index that
\* is in use.  Unless a write was lost, BootOrder could not be read, or was full.
THEOREM BootOptionsKeptHolds == BoSpec => []BootOptionsKept
<1>1. BoInit => OptionsInv
  <2> SUFFICES ASSUME BoInit
               PROVE  OptionsInv
    OBVIOUS
  <2>1. 0 \in Indices
    BY BootOptionAssumption DEF Indices
  <2> QED  BY <2>1 DEF BoInit, OptionsInv, BootOptionsKept
<1>2. OptionsInv /\ [BoNext]_boVars => OptionsInv'
  <2> SUFFICES ASSUME OptionsInv, [BoNext]_boVars
               PROVE  OptionsInv'
    OBVIOUS
  <2>1. CASE UNCHANGED boVars
    BY <2>1 DEF boVars, OptionsInv, Listed, BootOptionsKept, BootOptionFromLoadOptionVariable
  <2>2. ASSUME NEW i \in Indices, BootOptionFromLoadOptionIndex(i)
        PROVE  OptionsInv'
    BY <2>2 DEF BootOptionFromLoadOptionIndex, OptionsInv, Listed, BootOptionsKept,
                BootOptionFromLoadOptionVariable
  <2>3. CASE BoPowerLoss
    BY <2>3 DEF BoPowerLoss, OptionsInv, Listed, BootOptionsKept, BootOptionFromLoadOptionVariable
  <2>4. CASE BoOver
    BY <2>1, <2>4 DEF BoOver
  <2> QED  BY <2>1, <2>2, <2>3, <2>4, WriteKeeps, AddKeeps, UnlistKeeps DEF BoNext
<1>3. OptionsInv => BootOptionsKept
  BY DEF OptionsInv, BootOptionsKept
<1> QED  BY <1>1, <1>2, <1>3, PTL DEF BoSpec

-------------------------------------------------------------------------------
(* The FDT that is installed.                                                *)

\* What the library's stages and handles are between the calls.
StagesQuiet ==
  /\ bdsPc # "load" => bdsKind = "none" /\ bdsStage = "none"
  /\ bdsKind = "none" => bdsStage = "none"
HandlesInv ==
  /\ bdsDevices = Devices /\ bdsDrivers = Drivers
  /\ Roots \subseteq bdsHandles /\ bdsHandles \subseteq AllConnected

\* The loading of a path that leads to a device tree, when nothing fails.
MemLoading ==
  /\ bdsPath = <<"mem">>
  /\ bdsPc = "load" =>
       /\ bdsHandle = <<>> /\ bdsRem = <<"mem">>
       /\ bdsKind = "none" \/ (bdsKind = "mem" /\ bdsStage \in {"pages", "read", "return"})
DiskLoading ==
  /\ bdsPath = <<"pci", "hd", "file">>
  /\ bdsPc = "connect" =>
       bdsPrev = <<>> \/ (bdsPrev \in {<<"pci">>, <<"pci", "hd">>} /\ <<"pci", "hd">> \in bdsHandles)
  /\ bdsPc = "load" =>
       /\ bdsHandle = <<"pci", "hd">> /\ bdsRem = <<"file">>
       /\ bdsKind = "none" \/ (bdsKind = "fs" /\ bdsStage \in FsStages \cup {"CLOSE_FILE", "CLOSE_PROTOCOL", "return"})
Loading(n) ==
  /\ bdsCaller = "driver" /\ bdsPc \in {"connect", "load", "done"}
  /\ bdsPc = "done" \/ bdsStage \in Labels => bdsStatus = "OK" /\ bdsImage = "data"
  /\ n = "mem" => MemLoading
  /\ n = "disk" => DiskLoading

\* The handles on the way to the disk.
LEMMA DiskHandles ==
  ASSUME HandlesInv
  PROVE  LET p == <<"pci", "hd", "file">>
         IN /\ Above(p) # {}
            /\ Nearest(p) = IF <<"pci", "hd">> \in bdsHandles THEN <<"pci", "hd">> ELSE <<"pci">>
            /\ RestOf(p, <<"pci", "hd">>) = <<"file">> /\ RestOf(p, <<"pci">>) = <<"hd", "file">>
<1> DEFINE p == <<"pci", "hd", "file">>
<1>1. /\ IsPrefix(<<"pci">>, p) /\ IsPrefix(<<"pci", "hd">>, p)
      /\ ~IsPrefix(<<"fv">>, p) /\ ~IsPrefix(<<"net">>, p)
      /\ ~IsPrefix(<<"pci", "usb">>, p) /\ ~IsPrefix(<<"pci", "usb", "hd">>, p)
  BY DEF IsPrefix
<1>2. <<"pci">> \in bdsHandles
  BY DEF HandlesInv, Roots
<1>3. bdsHandles \subseteq {<<"pci">>, <<"fv">>, <<"net">>, <<"pci", "hd">>, <<"pci", "usb">>, <<"pci", "usb", "hd">>}
  BY DEF HandlesInv, AllConnected, Roots, Devices
<1>4. Above(p) = bdsHandles \cap {<<"pci">>, <<"pci", "hd">>}
  <2> HIDE DEF p
  <2> QED  BY <1>1, <1>3 DEF Above
<1>5. Len(<<"pci">>) = 1 /\ Len(<<"pci", "hd">>) = 2
  OBVIOUS
<1>6. ASSUME <<"pci", "hd">> \in bdsHandles
      PROVE  Nearest(p) = <<"pci", "hd">>
  <2> HIDE DEF p
  <2>1. /\ <<"pci", "hd">> \in Above(p) /\ \A k \in Above(p) : Len(k) <= Len(<<"pci", "hd">>)
        /\ \A h \in Above(p) : h = <<"pci", "hd">> \/ (h = <<"pci">> /\ ~(Len(<<"pci", "hd">>) <= Len(h)))
    BY <1>4, <1>5, <1>6
  <2> QED  BY <2>1 DEF Nearest
<1>7. ASSUME <<"pci", "hd">> \notin bdsHandles
      PROVE  Nearest(p) = <<"pci">>
  <2> HIDE DEF p
  <2>1. Above(p) = {<<"pci">>}
    BY <1>2, <1>4, <1>7
  <2>2. Len(<<"pci">>) <= Len(<<"pci">>)
    BY <1>5
  <2> QED  BY <2>1, <2>2 DEF Nearest
<1>8. RestOf(p, <<"pci", "hd">>) = <<"file">> /\ RestOf(p, <<"pci">>) = <<"hd", "file">>
  <2> DEFINE T == {"pci", "hd", "file"}
             a == SubSeq(p, 2, 3)
             b == SubSeq(p, 3, 3)
  <2>1. p \in Seq(T) /\ Len(p) = 3 /\ p[2] = "hd" /\ p[3] = "file"
    OBVIOUS
  <2> HIDE DEF p, T
  <2>2. a \in Seq(T) /\ Len(a) = 2 /\ \A i \in 1 .. 2 : a[i] = p[2 + i - 1]
    <3>1. \A i \in 2 .. 3 : p[i] \in T
      BY <2>1 DEF T
    <3>2. /\ a \in Seq(T) /\ Len(a) = IF 2 <= 3 THEN 3 - 2 + 1 ELSE 0
          /\ \A i \in 1 .. 3 - 2 + 1 : a[i] = p[2 + i - 1]
      BY <3>1, SubSeqProperties
    <3> QED  BY <3>2
  <2>3. a \in Seq(T) /\ Len(a) = 2 /\ a[1] = "hd" /\ a[2] = "file"
    <3> HIDE DEF a
    <3> QED  BY <2>1, <2>2
  <2>4. b \in Seq(T) /\ Len(b) = 1 /\ b[1] = "file"
    BY <2>1, SubSeqProperties
  <2>5. a = <<"hd", "file">> /\ b = <<"file">>
    <3> HIDE DEF a, b
    <3> QED  BY <2>3, <2>4
  <2> QED  BY <1>5, <2>1, <2>5 DEF RestOf
<1> QED  BY <1>2, <1>4, <1>6, <1>7, <1>8

\* No handle leads to a place in memory.
LEMMA MemHandles ==
  ASSUME HandlesInv
  PROVE  Above(<<"mem">>) = {}
<1>1. bdsHandles \subseteq {<<"pci">>, <<"fv">>, <<"net">>, <<"pci", "hd">>, <<"pci", "usb">>, <<"pci", "usb", "hd">>}
  BY DEF HandlesInv, AllConnected, Roots, Devices
<1>2. /\ ~IsPrefix(<<"pci">>, <<"mem">>) /\ ~IsPrefix(<<"fv">>, <<"mem">>) /\ ~IsPrefix(<<"net">>, <<"mem">>)
      /\ ~IsPrefix(<<"pci", "hd">>, <<"mem">>) /\ ~IsPrefix(<<"pci", "usb">>, <<"mem">>)
      /\ ~IsPrefix(<<"pci", "usb", "hd">>, <<"mem">>)
  BY DEF IsPrefix
<1> QED  BY <1>1, <1>2 DEF Above

\* Connecting adds devices that are there, and loses no driver.
LEMMA HandlesKept ==
  ASSUME HandlesInv, [BdsNext]_bdsVars
  PROVE  HandlesInv'
<1>1. CASE UNCHANGED bdsWorld
  BY <1>1 DEF HandlesInv, AllConnected, bdsWorld
<1>2. ASSUME NEW h, NEW rem, NEW drivers, drivers = Drivers, Unconnected(h, rem, drivers), bdsDevices' = bdsDevices
      PROVE  HandlesInv'
  <2>1. bdsHandles' = bdsHandles \/ bdsHandles' = AllConnected
    BY <1>2, Zenon DEF Unconnected
  <2>2. bdsDrivers' = Drivers
    BY <1>2, Zenon DEF Unconnected
  <2> QED  BY <1>2, <2>1, <2>2 DEF HandlesInv, AllConnected
<1>3. ASSUME NEW h, NEW rem, ConnectTurn(h, rem), bdsDevices' = bdsDevices
      PROVE  HandlesInv'
  <2>1. bdsDrivers = Drivers /\ Dispatched(h) = Drivers
    BY DEF HandlesInv, Dispatched
  <2>2. ASSUME bdsDrivers' = Dispatched(h), bdsHandles' = bdsHandles \cup Reaches(h, rem)
        PROVE  HandlesInv'
    <3>1. Reaches(h, rem) \subseteq bdsDevices
      BY DEF Reaches
    <3> QED  BY <1>3, <2>1, <2>2, <3>1 DEF HandlesInv, AllConnected
  <2> QED  BY <1>2, <1>3, <2>1, <2>2 DEF ConnectTurn
<1>4. ASSUME NEW rem, Connected(rem), bdsDevices' = bdsDevices
      PROVE  HandlesInv'
  BY <1>1, <1>4 DEF Connected, bdsWorld
<1>5. CASE BdsConnectAndUpdateDevicePath
  BY <1>2, <1>3, <1>4, <1>5 DEF BdsConnectAndUpdateDevicePath, HandlesInv
<1>6. BdsConnectAndUpdateDevicePath \/ UNCHANGED bdsWorld
  BY DEF BdsNext, BdsStart, BdsLoadImage, BdsCall, BdsStep, BdsLoadImageAndUpdateDevicePath, PlainStage, SectionStage,
         PxeStage, DhcpStage, SizeStage, PagesStage, ReadStage, CloseStage, ErrorStage, LoadReturns,
         BdsStartEfiApplication, BdsOver, LoadOnly, bdsWorld, bdsVars
<1> QED  BY <1>1, <1>5, <1>6

\* A stage belongs to a loader.
LEMMA StagesKept ==
  ASSUME StagesQuiet, [BdsNext]_bdsVars
  PROVE  StagesQuiet'
<1>1. CASE LoadReturns
  BY <1>1 DEF LoadReturns, StagesQuiet
<1>2. CASE BdsConnectAndUpdateDevicePath
  BY <1>2 DEF BdsConnectAndUpdateDevicePath, bdsLoad, StagesQuiet
<1>3. CASE BdsStart \/ BdsLoadImage \/ BdsOver \/ UNCHANGED bdsVars
  BY <1>3 DEF BdsStart, BdsLoadImage, BdsCall, BdsOver, bdsVars, StagesQuiet
<1>4. CASE BdsLoadImageAndUpdateDevicePath
  <2> DEFINE fit == {i \in DOMAIN FileLoaders : FileLoaders[i][2]}
             k == FileLoaders[CHOOSE i \in fit : \A j \in fit : i <= j][1]
  <2>1. \/ bdsKind' = bdsKind /\ bdsStage' = bdsStage
        \/ fit # {} /\ bdsKind' = k /\ UNCHANGED bdsPc
    BY <1>4, Zenon DEF BdsLoadImageAndUpdateDevicePath
  <2>2. bdsPc = "load" /\ bdsKind = "none" /\ bdsStage = "none"
    BY <1>4 DEF BdsLoadImageAndUpdateDevicePath, StagesQuiet
  <2>3. fit # {} => k # "none"
    <3>1. fit \in SUBSET (1 .. 5)
      BY DEF FileLoaders
    <3>2. \A i \in {1, 2, 3, 4, 5} : FileLoaders[i][1] # "none"
      BY DEF FileLoaders
    <3>3. fit # {} => \E i \in fit : \A j \in fit : i <= j
      <4> HIDE DEF fit
      <4>1. fit \in SUBSET Nat
        BY <3>1
      <4> QED  BY <4>1, FirstOf
    <3>4. fit # {} => (CHOOSE i \in fit : \A j \in fit : i <= j) \in {1, 2, 3, 4, 5}
      <4> DEFINE c == CHOOSE i \in fit : \A j \in fit : i <= j
      <4>1. fit # {} => c \in fit
        <5> HIDE DEF fit
        <5> QED  BY <3>3, Zenon
      <4> HIDE DEF fit, c
      <4>2. fit # {} => c \in 1 .. 5
        BY <3>1, <4>1
      <4>3. fit # {} => c \in {1, 2, 3, 4, 5}
        BY <4>2
      <4> QED  BY <4>3 DEF c
    <3> QED  BY <3>2, <3>4
  <2> HIDE DEF fit, k
  <2> QED  BY <2>1, <2>2, <2>3 DEF StagesQuiet
<1>5. CASE \/ PlainStage \/ SectionStage \/ PxeStage \/ DhcpStage \/ SizeStage \/ PagesStage \/ ReadStage
           \/ CloseStage \/ ErrorStage
  <2>1. bdsPc = "load" /\ bdsPc' = bdsPc /\ (bdsKind' = bdsKind \/ bdsKind' = "raw")
    BY <1>5 DEF PlainStage, SectionStage, PxeStage, DhcpStage, SizeStage, PagesStage, ReadStage, CloseStage, ErrorStage,
                LoadOnly
  <2>2. bdsStage # "none"
    BY <1>5 DEF PlainStage, SectionStage, PxeStage, DhcpStage, SizeStage, PagesStage, ReadStage, CloseStage, ErrorStage,
                Plain, Opens
  <2>3. bdsKind' # "none"
    BY <2>1, <2>2 DEF StagesQuiet
  <2> QED  BY <2>1, <2>3 DEF StagesQuiet
<1>6. CASE BdsStartEfiApplication
  <2>1. bdsPc # "load" /\ bdsPc' # "load" /\ bdsKind' = bdsKind /\ bdsStage' = bdsStage
    BY <1>6 DEF BdsStartEfiApplication, bdsLoad
  <2> QED  BY <2>1 DEF StagesQuiet
<1> QED  BY <1>1, <1>2, <1>3, <1>4, <1>5, <1>6 DEF BdsNext, BdsStep

\* Connecting leads to the place in memory, and to the disk.
LEMMA ConnectLeads ==
  ASSUME HandlesInv, StagesQuiet, NEW n \in {"mem", "disk"}, Loading(n), BdsConnectAndUpdateDevicePath
  PROVE  Loading(n)'
<1>1. /\ bdsPc = "connect" /\ bdsKind = "none" /\ bdsDrivers = Drivers /\ bdsCaller' = bdsCaller
      /\ bdsKind' = bdsKind /\ bdsStage' = bdsStage /\ bdsStage \notin Labels /\ bdsDevices = Devices
  BY DEF BdsConnectAndUpdateDevicePath, bdsLoad, StagesQuiet, HandlesInv, Labels
<1>2. ASSUME NEW h, NEW rem, NEW drivers, Unconnected(h, rem, drivers), rem # <<>>, ~IsRemovableDevice(rem)
      PROVE  bdsHandle' = h /\ bdsRem' = rem /\ bdsPc' = "load" /\ bdsPath' = bdsPath
  BY <1>2, Zenon DEF Unconnected, Leave
<1>3. CASE n = "mem"
  <2>1. bdsPath = <<"mem">>
    BY <1>3 DEF Loading, MemLoading
  <2>2. <<"mem">> # <<>> /\ ~IsRemovableDevice(<<"mem">>)
    BY DEF IsRemovableDevice, RemovableAt, BdsIsRemovableUsb, BdsIsRemovableHd
  <2>3. Unconnected(<<>>, <<"mem">>, bdsDrivers)
    BY <2>1, MemHandles, Zenon DEF BdsConnectAndUpdateDevicePath
  <2>4. bdsHandle' = <<>> /\ bdsRem' = <<"mem">> /\ bdsPc' = "load" /\ bdsPath' = bdsPath
    BY <1>2, <2>2, <2>3
  <2> QED  BY <1>1, <1>3, <2>1, <2>4 DEF Loading, MemLoading
<1>4. CASE n = "disk"
  <2> DEFINE p == <<"pci", "hd", "file">>
  <2>1. bdsPath = p /\ (bdsPrev = <<>> \/ (bdsPrev \in {<<"pci">>, <<"pci", "hd">>} /\ <<"pci", "hd">> \in bdsHandles))
    BY <1>1, <1>4 DEF Loading, DiskLoading
  <2>2. /\ Above(p) # {}
        /\ Nearest(p) = IF <<"pci", "hd">> \in bdsHandles THEN <<"pci", "hd">> ELSE <<"pci">>
        /\ RestOf(p, <<"pci", "hd">>) = <<"file">> /\ RestOf(p, <<"pci">>) = <<"hd", "file">>
    BY DiskHandles
  <2>3. <<"file">> # <<>> /\ <<"hd", "file">> # <<>> /\ ~IsRemovableDevice(<<"file">>) /\ <<"pci">> # <<>>
        /\ <<"pci">> # <<"pci", "hd">>
    BY DEF IsRemovableDevice, RemovableAt, BdsIsRemovableUsb, BdsIsRemovableHd
  <2> HIDE DEF p
  <2>4. ConnectTurn(Nearest(p), RestOf(p, Nearest(p)))
    BY <2>1, <2>2, <2>3, Zenon DEF BdsConnectAndUpdateDevicePath
  <2>5. ASSUME bdsHandle' = <<"pci", "hd">>, bdsRem' = <<"file">>, bdsPc' = "load", bdsPath' = bdsPath
        PROVE  Loading(n)'
    BY <1>1, <1>4, <2>1, <2>5 DEF Loading, DiskLoading, p
  <2>6. ASSUME bdsPrev' \in {<<"pci">>, <<"pci", "hd">>}, <<"pci", "hd">> \in bdsHandles', bdsPath' = bdsPath, bdsPc' = bdsPc
        PROVE  Loading(n)'
    BY <1>1, <1>4, <2>1, <2>6 DEF Loading, DiskLoading, p
  <2>7. CASE <<"pci", "hd">> \in bdsHandles
    <3>1. ConnectTurn(<<"pci", "hd">>, <<"file">>)
      BY <2>2, <2>4, <2>7
    <3>2. \/ \E drivers : Unconnected(<<"pci", "hd">>, <<"file">>, drivers)
          \/ /\ bdsPrev' = <<"pci", "hd">> /\ UNCHANGED <<bdsPath, bdsPc>>
             /\ bdsHandles' = bdsHandles \cup Reaches(<<"pci", "hd">>, <<"file">>)
      BY <3>1, Zenon DEF ConnectTurn
    <3> QED  BY <1>2, <2>3, <2>5, <2>6, <2>7, <3>2
  <2>8. CASE <<"pci", "hd">> \notin bdsHandles
    <3>1. ConnectTurn(<<"pci">>, <<"hd", "file">>) /\ bdsPrev = <<>>
      BY <2>1, <2>2, <2>4, <2>8
    <3>2. Reaches(<<"pci">>, <<"hd", "file">>) = {<<"pci", "hd">>}
      <4> DEFINE q == <<"pci">> \o <<"hd">>
      <4>1. Head(<<"hd", "file">>) = "hd"
        OBVIOUS
      <4>2. q \in Seq({"pci", "hd"}) /\ Len(q) = 2 /\ q[1] = "pci" /\ q[2] = "hd"
        OBVIOUS
      <4>3. q = <<"pci", "hd">>
        <5> HIDE DEF q
        <5> QED  BY <4>2
      <4>4. <<"pci">> \o <<Head(<<"hd", "file">>)>> = <<"pci", "hd">> /\ Head(<<"hd", "file">>) = "hd"
        BY <4>1, <4>3
      <4>5. <<"pci", "hd">> \in bdsDevices /\ "hd" \in bdsDrivers
        BY <1>1 DEF Devices, Drivers
      <4> QED  BY <2>3, <4>4, <4>5 DEF Reaches
    <3>3. "NotFound" \notin ConnectOutcomes(<<"pci">>, <<"hd", "file">>)
      BY <2>3, <2>8, <3>2 DEF ConnectOutcomes
    <3>4. /\ bdsPrev' = <<"pci">> /\ UNCHANGED <<bdsPath, bdsPc>>
          /\ bdsHandles' = bdsHandles \cup Reaches(<<"pci">>, <<"hd", "file">>)
      BY <2>3, <3>1, <3>3, Zenon DEF ConnectTurn
    <3> QED  BY <2>6, <3>2, <3>4
  <2> QED  BY <2>7, <2>8
<1> QED  BY <1>3, <1>4

\* The loader is the first that accepts what is left of the path.
LEMMA LoaderIs ==
  ASSUME NEW m \in 1 .. 5, FileLoaders[m][2] = TRUE, \A j \in 1 .. m - 1 : FileLoaders[j][2] = FALSE,
         BdsLoadImageAndUpdateDevicePath
  PROVE  bdsKind' = FileLoaders[m][1] /\ bdsStage' = First(FileLoaders[m][1]) /\ bdsPc' = bdsPc
<1> DEFINE fit == {i \in DOMAIN FileLoaders : FileLoaders[i][2]}
           c   == CHOOSE i \in fit : \A j \in fit : i <= j
<1>1. DOMAIN FileLoaders = 1 .. 5
  BY DEF FileLoaders
<1>2. IF fit = {} THEN bdsPc' = "done" /\ bdsStatus' = "Unsupported" /\ UNCHANGED <<bdsKind, bdsStage>>
      ELSE bdsKind' = FileLoaders[c][1] /\ bdsStage' = First(FileLoaders[c][1]) /\ UNCHANGED <<bdsPc, bdsStatus>>
  BY DEF BdsLoadImageAndUpdateDevicePath
<1>3. fit \subseteq 1 .. 5 /\ m \in fit
  BY <1>1
<1>4. \A j \in fit : m <= j
  <2> SUFFICES ASSUME NEW j \in fit, ~(m <= j)
               PROVE  FALSE
    OBVIOUS
  <2>1. j \in 1 .. m - 1 /\ FileLoaders[j][2]
    BY <1>1
  <2> QED  BY <2>1
<1>5. c = m
  <2> HIDE DEF fit
  <2>1. c \in fit /\ \A j \in fit : c <= j
    BY <1>3, <1>4, Zenon
  <2> HIDE DEF c
  <2>2. c <= m /\ m <= c /\ c \in 1 .. 5
    BY <1>3, <1>4, <2>1
  <2> QED  BY <2>2
<1> HIDE DEF fit, c
<1> QED  BY <1>2, <1>3, <1>5

\* Without a failure the loader of the path reads it to the end.
LEMMA LoadLeads ==
  ASSUME HandlesInv, StagesQuiet, bdsFaults \in Nat, bdsFaults' = bdsFaults,
         NEW n \in {"mem", "disk"}, Loading(n), BdsStep
  PROVE  Loading(n)'
<1>1. ~BdsFault
  BY DEF BdsFault
<1> DEFINE FsLoading == FsStages \cup {"CLOSE_FILE", "CLOSE_PROTOCOL", "return"}
<1>2. ASSUME bdsPc = "load", bdsStage # "none"
      PROVE  /\ n = "mem" => bdsKind = "mem" /\ bdsStage \in {"pages", "read", "return"}
             /\ n = "disk" => bdsKind = "fs" /\ bdsStage \in FsLoading
             /\ bdsKind \in {"mem", "fs"} /\ bdsStage \in FsLoading
  <2>1. bdsKind # "none"
    BY <1>2 DEF StagesQuiet
  <2> QED  BY <1>2, <2>1 DEF Loading, MemLoading, DiskLoading, FsStages
<1>3. ASSUME bdsPc = "load", UNCHANGED <<bdsPath, bdsRem, bdsHandle, bdsPrev, bdsCaller, bdsPc>>,
             bdsStage' \in Labels => bdsStatus' = "OK" /\ bdsImage' = "data",
             n = "mem" => bdsKind' = "mem" /\ bdsStage' \in {"pages", "read", "return"},
             n = "disk" => bdsKind' = "fs" /\ bdsStage' \in FsLoading
      PROVE  Loading(n)'
  BY <1>3 DEF Loading, MemLoading, DiskLoading
<1>4. CASE BdsLoadImageAndUpdateDevicePath
  <2>1. UNCHANGED <<bdsPath, bdsRem, bdsHandle, bdsPrev, bdsCaller>> /\ bdsPc = "load" /\ bdsDrivers = Drivers
    BY <1>4 DEF BdsLoadImageAndUpdateDevicePath, bdsConn, HandlesInv
  <2>2. /\ FileLoaders[1] = <<"fs", BdsFileSystemSupport(bdsHandle, bdsRem)>>
        /\ FileLoaders[2] = <<"fv", BdsFirmwareVolumeSupport(bdsHandle, bdsRem)>>
        /\ FileLoaders[3] = <<"mem", BdsMemoryMapSupport(bdsPath, bdsRem)>>
    BY DEF FileLoaders
  <2>3. CASE n = "mem"
    <3>1. bdsPath = <<"mem">> /\ bdsHandle = <<>> /\ bdsRem = <<"mem">>
      BY <2>1, <2>3 DEF Loading, MemLoading
    <3>2. Head(<<"mem">>) = "mem" /\ <<"mem">> # <<>>
      OBVIOUS
    <3>3. /\ BdsFileSystemSupport(bdsHandle, bdsRem) = FALSE /\ BdsFirmwareVolumeSupport(bdsHandle, bdsRem) = FALSE
          /\ BdsMemoryMapSupport(bdsPath, bdsRem) = TRUE
      BY <3>1, <3>2, Zenon DEF BdsFileSystemSupport, BdsFirmwareVolumeSupport, BdsMemoryMapSupport, HasFs
    <3>4. FileLoaders[3][2] = TRUE /\ FileLoaders[3][1] = "mem" /\ \A j \in 1 .. 3 - 1 : FileLoaders[j][2] = FALSE
      <4>1. \A j \in 1 .. 3 - 1 : j = 1 \/ j = 2
        OBVIOUS
      <4> QED  BY <2>2, <3>3, <4>1
    <3>5. bdsKind' = "mem" /\ bdsStage' = First("mem") /\ bdsPc' = bdsPc
      <4>1. 3 \in 1 .. 5
        OBVIOUS
      <4>2. bdsKind' = FileLoaders[3][1] /\ bdsStage' = First(FileLoaders[3][1]) /\ bdsPc' = bdsPc
        BY <1>4, <3>4, <4>1, LoaderIs, Zenon
      <4> QED  BY <3>4, <4>2, Zenon
    <3>6. First("mem") = "pages"
      BY DEF First
    <3> QED  BY <1>3, <2>1, <2>3, <3>5, <3>6 DEF Labels
  <2>4. CASE n = "disk"
    <3>1. bdsHandle = <<"pci", "hd">> /\ bdsRem = <<"file">>
      BY <2>1, <2>4 DEF Loading, DiskLoading
    <3>2. Head(<<"file">>) = "file" /\ <<"file">> # <<>> /\ <<"pci", "hd">> # <<>> /\ Last(<<"pci", "hd">>) = "hd"
      BY DEF Last
    <3>3. BdsFileSystemSupport(bdsHandle, bdsRem) = TRUE
      BY <2>1, <3>1, <3>2, Zenon DEF BdsFileSystemSupport, HasFs, Drivers
    <3>4. FileLoaders[1][2] = TRUE /\ FileLoaders[1][1] = "fs" /\ \A j \in 1 .. 1 - 1 : FileLoaders[j][2] = FALSE
      BY <2>2, <3>3
    <3>5. bdsKind' = "fs" /\ bdsStage' = First("fs") /\ bdsPc' = bdsPc
      <4>1. 1 \in 1 .. 5
        OBVIOUS
      <4>2. bdsKind' = FileLoaders[1][1] /\ bdsStage' = First(FileLoaders[1][1]) /\ bdsPc' = bdsPc
        BY <1>4, <3>4, <4>1, LoaderIs, Zenon
      <4> QED  BY <3>4, <4>2, Zenon
    <3>6. First("fs") = "fsproto"
      BY DEF First
    <3> QED  BY <1>3, <2>1, <2>4, <3>5, <3>6 DEF FsStages, Labels
  <2> QED  BY <2>3, <2>4
<1>5. CASE PlainStage
  <2>1. /\ bdsPc = "load" /\ bdsStage \in Plain /\ bdsStage' = After(bdsStage)
        /\ UNCHANGED <<bdsPath, bdsRem, bdsHandle, bdsPrev, bdsCaller, bdsPc, bdsKind>>
    BY <1>1, <1>5 DEF PlainStage, LoadOnly, bdsConn
  <2>2. bdsStage \notin {"none", "pages", "read", "CLOSE_FILE", "CLOSE_PROTOCOL", "return"}
    BY <2>1 DEF Plain, Opens
  <2>3. bdsKind = "fs" /\ bdsStage \in {"fsproto", "root", "file", "info"} /\ n = "disk"
    BY <1>2, <2>1, <2>2 DEF FsStages
  <2>4. After(bdsStage) \in {"root", "file", "info", "pages"}
    BY <2>3, FileTable
  <2> QED  BY <1>3, <2>1, <2>3, <2>4 DEF FsStages, Labels
<1>6. CASE PagesStage
  <2>1. bdsPc = "load" /\ bdsStage = "pages"
    BY <1>6 DEF PagesStage, LoadOnly
  <2>2. bdsKind # "tftp"
    BY <1>2, <2>1
  <2>3. bdsStage' = "read" /\ UNCHANGED <<bdsPath, bdsRem, bdsHandle, bdsPrev, bdsCaller, bdsPc, bdsKind>>
    BY <1>1, <1>6, <2>2 DEF PagesStage, LoadOnly, bdsConn
  <2> QED  BY <1>2, <1>3, <2>1, <2>3 DEF FsStages, Labels
<1>7. CASE ReadStage
  <2>1. bdsPc = "load" /\ bdsStage = "read"
    BY <1>7 DEF ReadStage, LoadOnly
  <2>2. bdsKind # "tftp"
    BY <1>2, <2>1
  <2>3. /\ bdsImage' = "data" /\ Leaves("OK")
        /\ UNCHANGED <<bdsPath, bdsRem, bdsHandle, bdsPrev, bdsCaller, bdsPc, bdsKind>>
    BY <1>1, <1>7, <2>2 DEF ReadStage, LoadOnly, bdsConn
  <2>4. bdsStatus' = "OK" /\ bdsStage' = Label("read")
    BY <2>1, <2>3 DEF Leaves
  <2>5. bdsKind = "mem" => Label("read") = "return"
    BY BareTable
  <2>6. bdsKind = "fs" => Label("read") = "CLOSE_FILE"
    BY FileTable
  <2> QED  BY <1>2, <1>3, <2>1, <2>3, <2>4, <2>5, <2>6
<1>8. CASE CloseStage
  <2>1. /\ bdsPc = "load" /\ bdsStage \in {"CLOSE_FILE", "CLOSE_PROTOCOL"} /\ bdsStage' \in {"CLOSE_PROTOCOL", "return"}
        /\ UNCHANGED <<bdsPath, bdsRem, bdsHandle, bdsPrev, bdsCaller, bdsPc, bdsKind, bdsStatus, bdsImage>>
    BY <1>8 DEF CloseStage, LoadOnly, bdsConn
  <2>2. n = "disk" /\ bdsKind = "fs"
    BY <1>2, <2>1
  <2>3. bdsStatus = "OK" /\ bdsImage = "data"
    BY <2>1 DEF Loading, Labels
  <2> QED  BY <1>3, <2>1, <2>2, <2>3
<1>9. CASE LoadReturns
  <2>1. /\ bdsPc = "load" /\ bdsStage = "return" /\ bdsKind' = "none" /\ bdsStage' = "none"
        /\ bdsPc' = (IF bdsStatus = "OK" /\ bdsCaller = "app" THEN "image" ELSE "done")
        /\ UNCHANGED <<bdsPath, bdsRem, bdsHandle, bdsPrev, bdsCaller, bdsStatus, bdsImage>>
    BY <1>9 DEF LoadReturns, LoadOnly, bdsConn
  <2>2. bdsCaller = "driver" /\ bdsStatus = "OK" /\ bdsImage = "data"
    BY <2>1 DEF Loading, Labels
  <2>3. bdsPc' = "done"
    BY <2>1, <2>2
  <2> QED  BY <2>1, <2>2, <2>3 DEF Loading, MemLoading, DiskLoading
<1>10. CASE SectionStage \/ PxeStage \/ DhcpStage \/ SizeStage \/ ErrorStage
  <2>1. bdsPc = "load" /\ bdsStage \in {"section", "ask", "dhcpsession", "size", "Error"}
    BY <1>10 DEF SectionStage, PxeStage, DhcpStage, SizeStage, ErrorStage, LoadOnly
  <2> QED  BY <1>2, <2>1 DEF FsStages
<1>11. CASE BdsStartEfiApplication
  BY <1>11 DEF BdsStartEfiApplication, Loading
<1> QED  BY <1>4, <1>5, <1>6, <1>7, <1>8, <1>9, <1>10, <1>11, ConnectLeads DEF BdsStep

\* A run has tried its first k paths, and none before the one it has installed leads to
\* a device tree.
FdtNames == FdtPaths \cup {"none", "mem", "nowhere", "disk", "-", "", "bad", "many"}
Tried(k) ==
  /\ fdtTodo = SubSeq(fdtRun.paths, k + 1, Len(fdtRun.paths)) /\ (fdtRun.s = "OK" => k > 0)
  /\ bdsFaults = 0 =>
       IF fdtRun.s = "OK"
       THEN Leads(fdtRun.paths[k]) /\ fdtTable = fdtRun.paths[k] /\ \A j \in 1 .. k - 1 : ~Leads(fdtRun.paths[j])
       ELSE \A j \in 1 .. k : ~Leads(fdtRun.paths[j])
Running ==
  /\ fdtRun.s = "OK" => fdtTable \in fdtCfg.good
  /\ fdtRun.s # "OK" => fdtTable = fdtRun.old
  /\ \E k \in 0 .. Len(fdtRun.paths) : Tried(k)
  /\ fdtPc = "load" => fdtRun.s # "OK" /\ fdtTodo # <<>>
  /\ fdtPc = "end" => fdtRun.s = "OK" \/ fdtTodo = <<>> \/ bdsFaults # 0
RunInv ==
  /\ fdtRun = [who |-> fdtRun.who, paths |-> fdtRun.paths, old |-> fdtRun.old, s |-> fdtRun.s]
  /\ fdtRun.paths \in Seq(FdtNames) /\ fdtCfg \in Configs /\ fdtVar \in FdtNames
  /\ fdtPc # "idle" => Running
LibraryInv ==
  /\ bdsFaults \in Nat /\ HandlesInv /\ StagesQuiet
  /\ fdtPc = "load" /\ bdsFaults = 0 /\ Head(fdtTodo) \in {"mem", "disk"} => Loading(Head(fdtTodo))
FdtInv == LibraryInv /\ RunInv

\* A run with another status.
LEMMA RunWith ==
  ASSUME NEW r, NEW x, r = [who |-> r.who, paths |-> r.paths, old |-> r.old, s |-> r.s]
  PROVE  LET q == [r EXCEPT !.s = x]
         IN /\ q = [who |-> q.who, paths |-> q.paths, old |-> q.old, s |-> q.s]
            /\ q.who = r.who /\ q.paths = r.paths /\ q.old = r.old /\ q.s = x
<1>1. PICK w, p, o, s : r = [who |-> w, paths |-> p, old |-> o, s |-> s]
  OBVIOUS
<1>2. [r EXCEPT !.s = x] = [who |-> w, paths |-> p, old |-> o, s |-> x]
  BY <1>1
<1> QED  BY <1>1, <1>2

\* The paths that are left.
LEMMA NextTodo ==
  ASSUME NEW S, NEW p \in Seq(S), NEW k \in 0 .. Len(p), SubSeq(p, k + 1, Len(p)) # <<>>
  PROVE  /\ k < Len(p) /\ Head(SubSeq(p, k + 1, Len(p))) = p[k + 1] /\ p[k + 1] \in S
         /\ Tail(SubSeq(p, k + 1, Len(p))) = SubSeq(p, (k + 1) + 1, Len(p))
<1>1. k < Len(p)
  <2> DEFINE n == Len(p)
  <2>1. n \in Nat
    OBVIOUS
  <2>2. k = n => SubSeq(p, k + 1, n) = <<>>
    <3> HIDE DEF n
    <3> QED  BY <2>1, SubSeqEmpty
  <2> QED  BY <2>2
<1>2. k + 1 \in 1 .. Len(p) /\ Len(p) \in k + 1 .. Len(p) /\ p[k + 1] \in S
  <2> DEFINE n == Len(p)
  <2>1. n \in Nat /\ k \in 0 .. n /\ k < n /\ \A i \in 1 .. n : p[i] \in S
    BY <1>1
  <2> HIDE DEF n
  <2>2. k + 1 \in 1 .. n /\ n \in k + 1 .. n /\ p[k + 1] \in S
    BY <2>1
  <2> QED  BY <2>2 DEF n
<1> QED  BY <1>1, <1>2, HeadTailOfSubSeq, Zenon

\* When no path has been tried, all are left, and only then.
LEMMA WholeTodo ==
  ASSUME NEW S, NEW p \in Seq(S), NEW k \in 0 .. Len(p), p = SubSeq(p, k + 1, Len(p)),
         SubSeq(p, k + 1, Len(p)) # <<>>
  PROVE  k = 0
<1> DEFINE n == Len(p)
           t == SubSeq(p, k + 1, n)
<1>1. n \in Nat /\ \A i \in 1 .. n : p[i] \in S
  OBVIOUS
<1>2. k < n
  BY NextTodo
<1> HIDE DEF n
<1>3. Len(t) = IF k + 1 <= n THEN n - (k + 1) + 1 ELSE 0
  BY <1>1, SubSeqProperties
<1>4. Len(t) = n
  BY DEF n
<1> HIDE DEF t
<1> QED  BY <1>1, <1>2, <1>3, <1>4

\* A failure is counted, and no step takes one back.
LEMMA FaultsCount ==
  ASSUME bdsFaults \in Nat, FdtNext
  PROVE  bdsFaults' = bdsFaults \/ bdsFaults' = bdsFaults + 1
<1>1. CASE BdsNoFault \/ BdsFault \/ UNCHANGED bdsVars
  BY <1>1 DEF BdsNoFault, BdsFault, bdsVars
<1>2. CASE FdtPlatformEntryPoint \/ SetFdtEnds \/ FdtOver
  BY <1>1, <1>2 DEF FdtPlatformEntryPoint, SetFdtEnds, FdtOver
<1>3. CASE NextPath \/ InstallFdt \/ EntryEnds
  BY <1>1, <1>3 DEF NextPath, InstallFdt, EntryEnds, BdsCall
<1>4. CASE FdtBds
  BY <1>1, <1>4 DEF FdtBds, BdsStep, BdsConnectAndUpdateDevicePath, BdsLoadImageAndUpdateDevicePath, PlainStage,
     SectionStage, PxeStage, DhcpStage, SizeStage, PagesStage, ReadStage, CloseStage, ErrorStage, LoadReturns,
     BdsStartEfiApplication
<1>5. ASSUME NEW args, NEW i, ShellDynCmdSetFdtHandler(args, i)
      PROVE  BdsNoFault \/ BdsFault
  BY <1>5, Zenon DEF ShellDynCmdSetFdtHandler, ShellInitializeFails
<1>6. CASE ShellDynCmdDumpFdtHandler
  BY <1>1, <1>6 DEF ShellDynCmdDumpFdtHandler, ShellInitializeFails
<1> QED  BY <1>1, <1>2, <1>3, <1>4, <1>5, <1>6, Zenon DEF FdtNext, FdtStep

\* The library, while the driver does something else.
LEMMA LibraryQuiet ==
  ASSUME LibraryInv, FdtNext, UNCHANGED <<bdsDevices, bdsHandles, bdsDrivers, bdsKind, bdsStage>>, fdtPc' # "load",
         bdsPc' = bdsPc \/ bdsPc = "done"
  PROVE  LibraryInv'
<1>1. bdsFaults' \in Nat
  BY FaultsCount DEF LibraryInv
<1>2. HandlesInv'
  BY DEF HandlesInv, AllConnected, LibraryInv
<1>3. StagesQuiet'
  BY DEF StagesQuiet, LibraryInv
<1> QED  BY <1>1, <1>2, <1>3 DEF LibraryInv

\* A new run.
LEMMA RunStarts ==
  ASSUME RunInv, NEW who, NEW var \in FdtNames, RunFdtInstallation(who, var), UNCHANGED <<fdtCfg, fdtTable>>,
         fdtVar' \in FdtNames
  PROVE  RunInv'
<1> DEFINE p == Candidates(var)
<1>1. p \in Seq(FdtNames)
  <2>1. fdtCfg.pcd \in Seq(FdtNames)
    <3>1. fdtCfg.pcd \in {<<>>, <<"mem">>, <<"nowhere", "disk">>}
      BY DEF RunInv, Configs
    <3>2. {"mem", "nowhere", "disk"} \subseteq FdtNames
      BY Zenon DEF FdtNames
    <3>3. <<>> \in Seq(FdtNames) /\ <<"mem">> \in Seq(FdtNames) /\ <<"nowhere", "disk">> \in Seq(FdtNames)
      BY <3>2
    <3> QED  BY <3>1, <3>3
  <2>2. (IF "override" \in fdtCfg.features /\ var # "none" THEN <<var>> ELSE <<>>) \in Seq(FdtNames)
    OBVIOUS
  <2> QED  BY <2>1, <2>2 DEF Candidates
<1> HIDE DEF p
<1>2. /\ fdtPc' = "install" /\ fdtTodo' = p /\ fdtRun' = [who |-> who, paths |-> p, old |-> fdtTable, s |-> "NotFound"]
      /\ fdtRun'.paths = p /\ fdtRun'.s = "NotFound" /\ fdtRun'.old = fdtTable /\ fdtRun'.who = who
  BY DEF RunFdtInstallation, p
<1>3. p = SubSeq(p, 0 + 1, Len(p)) /\ Len(p) \in Nat
  BY <1>1
<1>4. 0 \in 0 .. Len(fdtRun'.paths) /\ \A j \in 1 .. 0 : ~Leads(fdtRun.paths[j])'
  BY <1>2, <1>3
<1>5. Tried(0)'
  BY <1>2, <1>3, <1>4 DEF Tried
<1>6. Running'
  BY <1>2, <1>4, <1>5 DEF Running
<1> QED  BY <1>1, <1>2, <1>6 DEF RunInv

\* The next path, or the end.
LEMMA NextPathSteps ==
  ASSUME FdtInv, NextPath
  PROVE  FdtInv'
<1>1. bdsFaults \in Nat /\ HandlesInv /\ StagesQuiet
  BY DEF FdtInv, LibraryInv
<1>2. FdtNext
  BY DEF FdtNext, FdtStep
<1>3. fdtPc = "install" /\ RunInv /\ Running /\ UNCHANGED <<fdtCfg, fdtVar, fdtTable, fdtTodo>>
  BY DEF NextPath, FdtInv, RunInv
<1>4. PICK k \in 0 .. Len(fdtRun.paths) : Tried(k)
  BY <1>3 DEF Running
<1>5. UNCHANGED <<bdsDevices, bdsHandles, bdsDrivers, bdsKind, bdsStage>>
  BY DEF NextPath, BdsCall, bdsVars, bdsWorld, bdsLoad
<1>6. CASE /\ fdtTodo = <<>> \/ fdtRun.s = "OK"
           /\ fdtPc' = "end" /\ UNCHANGED fdtRun /\ UNCHANGED bdsVars
  <2>1. bdsFaults' = bdsFaults /\ bdsPc' = bdsPc
    BY <1>6 DEF bdsVars
  <2>2. Tried(k)'
    BY <1>3, <1>4, <1>6, <2>1 DEF Tried, Leads
  <2>3. Running'
    BY <1>3, <1>4, <1>6, <2>1, <2>2 DEF Running
  <2>4. LibraryInv'
    BY <1>2, <1>5, <1>6, <2>1, LibraryQuiet DEF FdtInv
  <2> QED  BY <1>3, <1>6, <2>3, <2>4 DEF FdtInv, RunInv
<1>7. CASE fdtTodo # <<>> /\ fdtRun.s # "OK" /\ fdtPc' = "load" /\ UNCHANGED fdtRun /\ BdsCall(Head(fdtTodo), "driver")
  <2> PICK h : h = Head(fdtTodo)
    OBVIOUS
  <2>1. /\ bdsFaults' = bdsFaults /\ bdsPc = "idle" /\ bdsPc' = "connect" /\ bdsCaller' = "driver"
        /\ bdsPath' = PathOf(h) /\ bdsPrev' = <<>>
    BY <1>7 DEF BdsCall
  <2>2. Tried(k)'
    BY <1>3, <1>4, <1>7, <2>1 DEF Tried, Leads
  <2>3. Running'
    BY <1>3, <1>4, <1>7, <2>1, <2>2 DEF Running
  <2>4. HandlesInv' /\ StagesQuiet'
    BY <1>1, <1>5, <2>1 DEF HandlesInv, AllConnected, StagesQuiet
  <2>5. PathOf("mem") = <<"mem">> /\ PathOf("disk") = <<"pci", "hd", "file">>
    BY DEF PathOf
  <2>6. Head(fdtTodo') = h
    BY <1>3
  <2>7. h \in {"mem", "disk"} => Loading(h)'
    BY <1>1, <1>5, <2>1, <2>5 DEF Loading, MemLoading, DiskLoading, StagesQuiet, Labels
  <2>8. Head(fdtTodo') \in {"mem", "disk"} => Loading(Head(fdtTodo))'
    BY <2>6, <2>7, Zenon DEF Loading
  <2>9. LibraryInv'
    BY <1>1, <2>1, <2>4, <2>8 DEF LibraryInv
  <2> QED  BY <1>3, <1>7, <2>3, <2>9 DEF FdtInv, RunInv
<1>8. CASE /\ BdsFault /\ fdtPc' = "end" /\ fdtRun' = [fdtRun EXCEPT !.s = "Error"] /\ fdtRun.s # "OK"
           /\ UNCHANGED bdsPc
  <2>1. bdsFaults' # 0
    BY <1>1, <1>8 DEF BdsFault
  <2>2. /\ fdtRun' = [who |-> fdtRun'.who, paths |-> fdtRun'.paths, old |-> fdtRun'.old, s |-> fdtRun'.s]
        /\ fdtRun'.paths = fdtRun.paths /\ fdtRun'.old = fdtRun.old /\ fdtRun'.s = "Error"
    BY <1>3, <1>8, RunWith DEF RunInv
  <2>3. Tried(k)'
    BY <1>3, <1>4, <2>1, <2>2 DEF Tried
  <2>4. Running'
    BY <1>3, <1>4, <1>8, <2>1, <2>2, <2>3 DEF Running
  <2>5. LibraryInv'
    BY <1>2, <1>5, <1>8, LibraryQuiet DEF FdtInv
  <2> QED  BY <1>3, <1>8, <2>2, <2>4, <2>5 DEF FdtInv, RunInv
<1>9. CASE /\ fdtTodo # <<>> /\ fdtTodo = fdtRun.paths /\ BdsFault /\ fdtPc' = "end"
            /\ fdtRun' = [fdtRun EXCEPT !.s = "Error"]
            /\ UNCHANGED <<bdsWorld, bdsConn, bdsLoad, bdsPc, bdsCaller, bdsStatus, bdsWatchdog>>
  <2>1. fdtRun.paths \in Seq(FdtNames) /\ fdtRun.paths = SubSeq(fdtRun.paths, k + 1, Len(fdtRun.paths))
        /\ SubSeq(fdtRun.paths, k + 1, Len(fdtRun.paths)) # <<>>
    BY <1>3, <1>4, <1>9 DEF RunInv, Tried
  <2>2. k = 0
    BY <2>1, WholeTodo
  <2>3. fdtRun.s # "OK"
    BY <1>4, <2>2 DEF Tried
  <2> QED  BY <1>8, <1>9, <2>3
<1> QED  BY <1>6, <1>7, <1>9, Zenon DEF NextPath

\* A path has been loaded.
LEMMA InstallSteps ==
  ASSUME FdtInv, InstallFdt
  PROVE  FdtInv'
<1>1. bdsFaults \in Nat /\ LibraryInv
  BY DEF FdtInv, LibraryInv
<1>2. FdtNext
  BY DEF FdtNext, FdtStep
<1>3. bdsFaults' = bdsFaults \/ bdsFaults' = bdsFaults + 1
  BY <1>1, <1>2, FaultsCount
<1>4. /\ fdtPc = "load" /\ bdsPc = "done" /\ fdtPc' = "install" /\ RunInv /\ Running
      /\ UNCHANGED <<fdtCfg, fdtVar>> /\ fdtTodo' = Tail(fdtTodo)
  BY DEF InstallFdt, FdtInv, RunInv
<1>5. UNCHANGED <<bdsDevices, bdsHandles, bdsDrivers, bdsKind, bdsStage>>
  BY DEF InstallFdt, bdsWorld
<1>6. LibraryInv'
  BY <1>1, <1>2, <1>4, <1>5, LibraryQuiet
<1>7. PICK k \in 0 .. Len(fdtRun.paths) : Tried(k)
  BY <1>4 DEF Running
<1> DEFINE h == fdtRun.paths[k + 1]
           n == Len(fdtRun.paths)
<1>8. fdtRun.paths \in Seq(FdtNames) /\ n \in Nat
  BY <1>4 DEF RunInv
<1>9. k < n /\ Head(fdtTodo) = h /\ fdtTodo' = SubSeq(fdtRun.paths, (k + 1) + 1, n)
  <2>1. fdtTodo = SubSeq(fdtRun.paths, k + 1, n) /\ fdtTodo # <<>>
    BY <1>4, <1>7 DEF Running, Tried
  <2>2. /\ k < Len(fdtRun.paths) /\ Head(SubSeq(fdtRun.paths, k + 1, n)) = fdtRun.paths[k + 1]
        /\ Tail(SubSeq(fdtRun.paths, k + 1, n)) = SubSeq(fdtRun.paths, (k + 1) + 1, n)
    BY <1>8, <2>1, NextTodo
  <2> QED  BY <1>4, <2>1, <2>2
<1>10. h \in fdtCfg.good => h \in {"mem", "disk"} /\ Leads(h)
  BY <1>4 DEF RunInv, Configs, Leads
<1>11. bdsFaults = 0 /\ h \in fdtCfg.good => bdsStatus = "OK" /\ bdsImage = "data"
  BY <1>1, <1>4, <1>9, <1>10 DEF LibraryInv, Loading
<1>12. fdtRun.s # "OK" /\ fdtTable = fdtRun.old
  BY <1>4 DEF Running
<1>13. bdsFaults = 0 => \A j \in 1 .. k : ~Leads(fdtRun.paths[j])
  BY <1>7, <1>12 DEF Tried
<1>14. k + 1 \in 0 .. n /\ k + 1 > 0 /\ (k + 1) - 1 = k /\ 1 .. k + 1 = (1 .. k) \cup {k + 1}
  <2> HIDE DEF n
  <2> QED  BY <1>7, <1>8, <1>9
<1> HIDE DEF h, n
<1>15. ASSUME NEW x, fdtRun' = [fdtRun EXCEPT !.s = x], x # "OK", fdtTable' = fdtTable,
              bdsFaults' = 0 => ~(h \in fdtCfg.good)
       PROVE  FdtInv'
  <2>1. /\ fdtRun' = [who |-> fdtRun'.who, paths |-> fdtRun'.paths, old |-> fdtRun'.old, s |-> fdtRun'.s]
        /\ fdtRun'.paths = fdtRun.paths /\ fdtRun'.old = fdtRun.old /\ fdtRun'.s = x
    BY <1>4, <1>15, RunWith DEF RunInv
  <2>2. bdsFaults' = 0 => bdsFaults = 0 /\ ~Leads(h)
    BY <1>1, <1>3, <1>15 DEF Leads
  <2>3. bdsFaults' = 0 => \A j \in 1 .. k + 1 : ~Leads(fdtRun.paths[j])
    BY <1>13, <1>14, <2>2, Zenon DEF h
  <2>4. Tried(k + 1)'
    BY <1>4, <1>9, <1>15, <2>1, <2>3 DEF Tried, Leads, n
  <2>5. \E i \in 0 .. Len(fdtRun'.paths) : Tried(i)'
    BY <1>14, <2>1, <2>4 DEF n
  <2>6. Running'
    BY <1>4, <1>12, <1>15, <2>1, <2>5 DEF Running
  <2> QED  BY <1>4, <1>6, <2>1, <2>6 DEF FdtInv, RunInv
<1>16. CASE bdsStatus # "OK" /\ fdtRun' = [fdtRun EXCEPT !.s = bdsStatus] /\ UNCHANGED fdtTable /\ BdsNoFault
  BY <1>11, <1>15, <1>16 DEF BdsNoFault
<1>17. CASE ~GoodFdt /\ fdtRun' = [fdtRun EXCEPT !.s = "LoadError"] /\ UNCHANGED fdtTable /\ BdsNoFault
  BY <1>9, <1>11, <1>15, <1>17 DEF GoodFdt, BdsNoFault
<1>18. CASE fdtRun' = [fdtRun EXCEPT !.s = "OutOfResources"] /\ UNCHANGED fdtTable /\ BdsFault
  <2>1. bdsFaults' # 0
    BY <1>1, <1>18 DEF BdsFault
  <2> QED  BY <1>15, <1>18, <2>1
<1>19. CASE GoodFdt /\ fdtRun' = [fdtRun EXCEPT !.s = "OK"] /\ BdsNoFault /\ fdtTable' = Head(fdtTodo)
  <2>1. /\ fdtRun' = [who |-> fdtRun'.who, paths |-> fdtRun'.paths, old |-> fdtRun'.old, s |-> fdtRun'.s]
        /\ fdtRun'.paths = fdtRun.paths /\ fdtRun'.old = fdtRun.old /\ fdtRun'.s = "OK"
    BY <1>4, <1>19, RunWith DEF RunInv
  <2>2. fdtTable' = h /\ h \in fdtCfg.good /\ bdsFaults' = bdsFaults
    BY <1>9, <1>19 DEF GoodFdt, BdsNoFault
  <2>3. bdsFaults' = 0 => \A j \in 1 .. (k + 1) - 1 : ~Leads(fdtRun.paths[j])
    BY <1>13, <1>14, <2>2
  <2>4. Tried(k + 1)'
    BY <1>4, <1>9, <1>10, <1>14, <2>1, <2>2, <2>3 DEF Tried, Leads, n, h
  <2>5. \E i \in 0 .. Len(fdtRun'.paths) : Tried(i)'
    BY <1>14, <2>1, <2>4 DEF n
  <2>6. Running'
    BY <1>4, <2>1, <2>2, <2>5 DEF Running
  <2> QED  BY <1>4, <1>6, <2>1, <2>6 DEF FdtInv, RunInv
<1> QED  BY <1>16, <1>17, <1>18, <1>19 DEF InstallFdt

\* Every step of the driver keeps the invariant.
LEMMA FdtKeeps ==
  ASSUME FdtInv, [FdtNext]_<<fdtVars, bdsVars>>
  PROVE  FdtInv'
<1>1. bdsFaults \in Nat /\ HandlesInv /\ StagesQuiet /\ RunInv /\ LibraryInv
  BY DEF FdtInv, LibraryInv
<1>2. CASE UNCHANGED <<fdtVars, bdsVars>>
  <2>1. HandlesInv' /\ StagesQuiet'
    BY <1>1, <1>2 DEF bdsVars, HandlesInv, AllConnected, StagesQuiet
  <2>2. Loading(Head(fdtTodo)) => Loading(Head(fdtTodo))'
    BY <1>2 DEF fdtVars, bdsVars, Loading, MemLoading, DiskLoading
  <2>3. UNCHANGED <<fdtPc, fdtTodo, bdsFaults, fdtRun, fdtCfg, fdtVar, fdtTable>>
    BY <1>2 DEF fdtVars, bdsVars
  <2>4. LibraryInv'
    BY <1>1, <2>1, <2>2, <2>3 DEF LibraryInv
  <2>5. RunInv'
    BY <1>1, <2>3 DEF RunInv, Running, Tried, Leads
  <2> QED  BY <2>4, <2>5 DEF FdtInv
<1>3. CASE FdtBds
  <2>1. fdtPc = "load" /\ BdsStep /\ UNCHANGED <<fdtPc, fdtTodo, fdtRun, fdtCfg, fdtVar, fdtTable>>
    BY <1>3 DEF FdtBds, fdtVars
  <2>2. FdtNext /\ BdsNext
    BY <1>3, <2>1 DEF FdtNext, FdtStep, BdsNext
  <2>3. bdsFaults' = bdsFaults \/ bdsFaults' = bdsFaults + 1
    BY <1>1, <2>2, FaultsCount
  <2>4. HandlesInv' /\ StagesQuiet'
    BY <1>1, <2>2, HandlesKept, StagesKept
  <2>5. bdsFaults' \in Nat /\ (bdsFaults' = 0 => bdsFaults = 0)
    BY <1>1, <2>3
  <2> PICK h : h = Head(fdtTodo)
    OBVIOUS
  <2>6. ASSUME bdsFaults' = 0, h \in {"mem", "disk"}
        PROVE  Loading(h)'
    <3>1. bdsFaults' = bdsFaults /\ Loading(h)
      BY <1>1, <2>1, <2>5, <2>6 DEF LibraryInv
    <3> QED  BY <1>1, <2>1, <2>6, <3>1, LoadLeads
  <2>7. Head(fdtTodo') = h
    BY <2>1
  <2>8. bdsFaults' = 0 /\ Head(fdtTodo') \in {"mem", "disk"} => Loading(Head(fdtTodo))'
    BY <2>6, <2>7, Zenon DEF Loading
  <2>9. LibraryInv'
    BY <2>4, <2>5, <2>8 DEF LibraryInv
  <2>10. RunInv'
    BY <1>1, <2>1, <2>5 DEF RunInv, Running, Tried, Leads
  <2> QED  BY <2>9, <2>10 DEF FdtInv
<1>4. CASE FdtPlatformEntryPoint
  <2>1. /\ RunFdtInstallation("entry", fdtVar) /\ UNCHANGED <<fdtCfg, fdtTable, fdtVar>> /\ UNCHANGED bdsVars
        /\ fdtPc' = "install"
    BY <1>4 DEF FdtPlatformEntryPoint, RunFdtInstallation
  <2>2. RunInv'
    BY <1>1, <2>1, RunStarts DEF RunInv
  <2>3. LibraryInv'
    BY <1>1, <1>4, <2>1, LibraryQuiet DEF FdtNext, bdsVars
  <2> QED  BY <2>2, <2>3 DEF FdtInv
<1>5. CASE EntryEnds \/ SetFdtEnds
  <2>1. fdtPc' = "idle" /\ fdtRun' = NoRun /\ UNCHANGED <<fdtCfg, fdtVar>>
        /\ UNCHANGED <<bdsDevices, bdsHandles, bdsDrivers, bdsKind, bdsStage, bdsPc>>
    BY <1>5 DEF EntryEnds, SetFdtEnds, bdsVars, bdsWorld, bdsLoad
  <2>2. FdtNext
    BY <1>5, Zenon DEF FdtNext, FdtStep
  <2>3. LibraryInv'
    BY <1>1, <2>1, <2>2, LibraryQuiet
  <2>4. RunInv'
    BY <1>1, <2>1 DEF RunInv, NoRun
  <2> QED  BY <2>3, <2>4 DEF FdtInv
<1>6. ASSUME NEW args \in FdtNames, NEW i, ShellDynCmdSetFdtHandler(args, i), FdtNext
      PROVE  FdtInv'
  <2>1. fdtPc = "idle" /\ UNCHANGED <<bdsDevices, bdsHandles, bdsDrivers, bdsKind, bdsStage, bdsPc>>
    BY <1>6 DEF ShellDynCmdSetFdtHandler, Command, NoBds, bdsWorld, bdsLoad
  <2>2. FdtNext
    BY <1>6
  <2>3. fdtPc' = "install" \/ fdtPc' = "idle"
    BY <1>6, <2>1 DEF ShellDynCmdSetFdtHandler, Returns, ShellInitializeFails, RunFdtInstallation
  <2>4. LibraryInv'
    BY <1>1, <2>1, <2>2, <2>3, LibraryQuiet
  <2>5. UNCHANGED <<fdtPc, fdtRun, fdtCfg>> /\ fdtVar' \in FdtNames => RunInv'
    BY <1>1, <2>1 DEF RunInv
  <2>6. ASSUME NEW s, Returns(s)
        PROVE  RunInv'
    BY <1>1, <2>5, <2>6 DEF Returns, fdtIdle, RunInv
  <2>7. ASSUME fdtVar' = (IF args = "-" THEN fdtVar ELSE NewValue(args)),
               UNCHANGED <<fdtCfg, fdtTable, fdtUp, fdtCmds, fdtHits>>,
               UNCHANGED <<fdtPc, fdtTodo, fdtRun>> \/ RunFdtInstallation("setfdt", fdtVar')
        PROVE  RunInv'
    <3>1. fdtVar' \in FdtNames
      <4>1. "none" \in FdtNames
        BY Zenon DEF FdtNames
      <4>2. NewValue(args) \in FdtNames
        BY <1>6, <4>1, Zenon DEF NewValue
      <4> QED  BY <1>1, <2>7, <4>2 DEF RunInv
    <3>2. PICK v \in FdtNames : v = fdtVar'
      BY <3>1
    <3> DEFINE same == <<fdtCfg, fdtTable, fdtUp, fdtCmds, fdtHits>>
    <3>3. UNCHANGED same /\ (UNCHANGED <<fdtPc, fdtTodo, fdtRun>> \/ RunFdtInstallation("setfdt", fdtVar'))
      BY <2>7, Zenon
    <3>4. UNCHANGED <<fdtCfg, fdtTable>>
      BY <3>3
    <3>5. CASE UNCHANGED <<fdtPc, fdtTodo, fdtRun>>
      BY <2>5, <3>1, <3>5, <3>4
    <3>6. CASE RunFdtInstallation("setfdt", fdtVar')
      <4>1. RunFdtInstallation("setfdt", v)
        BY <3>2, <3>6
      <4> QED  BY <1>1, <3>1, <3>4, <4>1, RunStarts
    <3> QED  BY <3>5, <3>6, <3>3, Zenon
  <2>8. RunInv'
    <3>1. \A s : Returns(s) => RunInv'
      BY <2>6
    <3>2. (\E s : Returns(s)) \/ (/\ fdtVar' = (IF args = "-" THEN fdtVar ELSE NewValue(args))
                                  /\ UNCHANGED <<fdtCfg, fdtTable, fdtUp, fdtCmds, fdtHits>>
                                  /\ \/ UNCHANGED <<fdtPc, fdtTodo, fdtRun>>
                                     \/ RunFdtInstallation("setfdt", fdtVar'))
      BY <1>6, Zenon DEF ShellDynCmdSetFdtHandler, ShellInitializeFails
    <3> QED  BY <2>7, <3>2, <3>1, Zenon
  <2> QED  BY <2>4, <2>8 DEF FdtInv
<1>7. CASE ShellDynCmdDumpFdtHandler
  <2>1. fdtPc = "idle" /\ UNCHANGED <<bdsDevices, bdsHandles, bdsDrivers, bdsKind, bdsStage, bdsPc>>
    BY <1>7 DEF ShellDynCmdDumpFdtHandler, Command, NoBds, bdsWorld, bdsLoad
  <2>2. UNCHANGED <<fdtPc, fdtRun, fdtCfg, fdtVar>>
    BY <1>7 DEF ShellDynCmdDumpFdtHandler, Returns, ShellInitializeFails, fdtIdle
  <2>3. LibraryInv'
    BY <1>1, <1>7, <2>1, <2>2, LibraryQuiet DEF FdtNext
  <2>4. RunInv'
    BY <1>1, <2>1, <2>2 DEF RunInv
  <2> QED  BY <2>3, <2>4 DEF FdtInv
<1>8. CASE FdtOver
  BY <1>2, <1>8 DEF FdtOver
<1>9. ASSUME NEW args \in FdtPaths \cup {"-", "", "bad", "many"}, NEW i \in BOOLEAN, ShellDynCmdSetFdtHandler(args, i)
      PROVE  FdtInv'
  <2>1. FdtNext
    BY <1>9, Zenon DEF FdtNext
  <2>2. args \in FdtNames
    BY Zenon DEF FdtNames
  <2> QED  BY <1>6, <1>9, <2>1, <2>2, Zenon
<1>10. FdtNext => \/ FdtPlatformEntryPoint \/ FdtStep \/ FdtOver \/ ShellDynCmdDumpFdtHandler \/ FdtInv'
  BY <1>9, Zenon DEF FdtNext
<1> QED  BY <1>2, <1>3, <1>4, <1>5, <1>7, <1>8, <1>10, NextPathSteps, InstallSteps DEF FdtStep

\* RunFdtInstallation installs the device tree of the first of its paths that has one, when
\* nothing failed; it never installs one that is corrupt, and when it fails the table is the
\* one there was before: for every set of paths a user may set and every bound on failures.
THEOREM FdtFirstWinsHolds == FdtSpec => []FdtFirstWins
<1>1. FdtInit => FdtInv
  <2> SUFFICES ASSUME FdtInit
               PROVE  FdtInv
    OBVIOUS
  <2>1. fdtPc = "idle" /\ fdtRun = NoRun /\ fdtCfg \in Configs /\ fdtVar \in FdtNames
    BY Zenon DEF FdtInit, FdtQuiet, FdtNames
  <2>2. RunInv
    BY <2>1 DEF RunInv, NoRun
  <2>3. LibraryInv
    BY <2>1 DEF FdtInit, Idle, LibraryInv, HandlesInv, StagesQuiet, AllConnected
  <2> QED  BY <2>2, <2>3 DEF FdtInv
<1>2. FdtInv /\ [FdtNext]_<<fdtVars, bdsVars>> => FdtInv'
  BY FdtKeeps
<1>3. FdtInv => FdtFirstWins
  <2> SUFFICES ASSUME FdtInv, fdtPc = "end"
               PROVE  FdtFirstWins
    BY DEF FdtFirstWins
  <2>1. RunInv /\ Running /\ fdtRun.paths \in Seq(FdtNames)
    BY DEF FdtInv, RunInv
  <2> DEFINE n == Len(fdtRun.paths)
             I == {i \in 1 .. n : Leads(fdtRun.paths[i])}
             first == SelectInSeq(fdtRun.paths, Leads)
  <2>2. n \in Nat
    BY <2>1
  <2>3. PICK k \in 0 .. n : Tried(k)
    BY <2>1 DEF Running
  <2>4. first = IF I # {} THEN CHOOSE x \in I : \A y \in I : x =< y ELSE 0
    BY Zenon DEF SelectInSeq, Min
  <2>5. fdtTodo = SubSeq(fdtRun.paths, k + 1, n) /\ k \in Nat
    BY <2>2, <2>3 DEF Tried
  <2>6. fdtTodo = <<>> => k = n
    <3> SUFFICES ASSUME fdtTodo = <<>>, k # n
                 PROVE  FALSE
      OBVIOUS
    <3>1. \A i \in 1 .. n : fdtRun.paths[i] \in FdtNames
      BY <2>1
    <3> DEFINE t == SubSeq(fdtRun.paths, k + 1, n)
    <3> HIDE DEF n
    <3>2. Len(t) = IF k + 1 <= n THEN n - (k + 1) + 1 ELSE 0
      BY <2>2, <2>5, <3>1, SubSeqProperties
    <3>3. t = <<>>
      BY <2>5
    <3> HIDE DEF t
    <3> QED  BY <2>2, <2>3, <3>2, <3>3
  <2>7. ASSUME bdsFaults = 0, fdtRun.s = "OK"
        PROVE  first # 0 /\ fdtTable = fdtRun.paths[first]
    <3>1. k > 0 /\ Leads(fdtRun.paths[k]) /\ fdtTable = fdtRun.paths[k] /\ \A j \in 1 .. k - 1 : ~Leads(fdtRun.paths[j])
      BY <2>3, <2>7 DEF Tried
    <3> HIDE DEF n
    <3>2. k \in I /\ \A y \in I : k <= y
      BY <2>2, <2>3, <3>1
    <3>3. I \subseteq Nat
      BY <2>2
    <3> HIDE DEF I
    <3>4. first \in I /\ \A y \in I : first <= y
      BY <2>4, <3>2, Zenon
    <3> HIDE DEF first
    <3>5. first = k
      BY <3>2, <3>3, <3>4
    <3> QED  BY <3>1, <3>5, <2>5
  <2>8. ASSUME bdsFaults = 0, fdtRun.s # "OK"
        PROVE  first = 0
    <3>1. k = n /\ \A j \in 1 .. k : ~Leads(fdtRun.paths[j])
      BY <2>1, <2>3, <2>6, <2>8 DEF Running, Tried
    <3>2. I = {}
      BY <3>1
    <3> QED  BY <2>4, <3>2, Zenon
  <2> QED  BY <2>1, <2>7, <2>8 DEF FdtFirstWins, Running
<1> QED  BY <1>1, <1>2, <1>3, PTL DEF FdtSpec

-------------------------------------------------------------------------------
(* The image that runaxf starts.                                             *)

\* k is the function that FlattenSeq(q) is defined by, on the first n sequences.
FlattenLoop(q, n, k) == k = [i \in 1 .. n |-> IF i = 1 THEN q[i] ELSE k[i - 1] \o q[i]]

\* The function that FlattenSeq is defined by is there.
LEMMA FlattenLoopExists ==
  ASSUME NEW q, NEW n \in Nat
  PROVE  \E k : FlattenLoop(q, n, k)
<1> DEFINE N == {m \in Nat : \E k : FlattenLoop(q, m, k)}
<1>1. 0 \in N
  <2> DEFINE k == [i \in 1 .. 0 |-> <<>>]
  <2>1. k = [i \in 1 .. 0 |-> IF i = 1 THEN q[i] ELSE k[i - 1] \o q[i]]
    OBVIOUS
  <2> HIDE DEF k
  <2> QED  BY <2>1 DEF FlattenLoop
<1>2. ASSUME NEW m \in N
      PROVE  m + 1 \in N
  <2>1. PICK k : FlattenLoop(q, m, k)
    OBVIOUS
  <2> DEFINE v == IF m + 1 = 1 THEN q[m + 1] ELSE k[m] \o q[m + 1]
             g == [i \in 1 .. m + 1 |-> IF i = m + 1 THEN v ELSE k[i]]
             e(i) == IF i = 1 THEN q[i] ELSE g[i - 1] \o q[i]
  <2>2. m \in Nat /\ m + 1 \in Nat
    OBVIOUS
  <2>3. ASSUME NEW i \in 1 .. m + 1
        PROVE  g[i] = e(i)
    <3>1. CASE i = m + 1
      <4>1. i # 1 => i - 1 = m /\ m \in 1 .. m + 1 /\ m # m + 1
        BY <2>2, <3>1
      <4>2. g[i] = v /\ (i # 1 => g[i - 1] = k[m])
        BY <3>1, <4>1
      <4> HIDE DEF g
      <4> QED  BY <3>1, <4>2
    <3>2. CASE i # m + 1
      <4>1. i \in 1 .. m /\ (i # 1 => i - 1 \in 1 .. m + 1 /\ i - 1 # m + 1)
        BY <2>2, <3>2
      <4>2. g[i] = k[i] /\ (i # 1 => g[i - 1] = k[i - 1])
        BY <3>2, <4>1
      <4>3. k[i] = IF i = 1 THEN q[i] ELSE k[i - 1] \o q[i]
        BY <2>1, <4>1, Zenon DEF FlattenLoop
      <4> HIDE DEF g
      <4> QED  BY <4>2, <4>3
    <3> QED  BY <3>1, <3>2
  <2>4. g = [i \in 1 .. m + 1 |-> e(i)]
    <3>1. g = [i \in 1 .. m + 1 |-> g[i]]
      OBVIOUS
    <3> HIDE DEF g
    <3> QED  BY <2>3, <3>1, Zenon
  <2> HIDE DEF g
  <2>5. FlattenLoop(q, m + 1, g)
    BY <2>4, Zenon DEF FlattenLoop
  <2> QED  BY <2>2, <2>5
<1>3. N = Nat
  <2> HIDE DEF N
  <2>1. N \in SUBSET Nat
    BY DEF N
  <2> QED  BY <1>1, <1>2, <2>1, Counting
<1> QED  BY <1>3

\* x is in the sequence s.
Has(s, x) == \E i \in 1 .. Len(s) : s[i] = x

\* What is in two sequences that are put behind one another.
LEMMA HasBoth ==
  ASSUME NEW T, NEW s \in Seq(T), NEW t \in Seq(T)
  PROVE  s \o t \in Seq(T) /\ \A x : Has(s \o t, x) <=> Has(s, x) \/ Has(t, x)
<1> DEFINE r == s \o t
           m == Len(s)
           n == Len(t)
<1>1. /\ r \in Seq(T) /\ Len(r) = m + n /\ m \in Nat /\ n \in Nat
      /\ \A i \in 1 .. m + n : r[i] = IF i <= m THEN s[i] ELSE t[i - m]
  OBVIOUS
<1> HIDE DEF r, m, n
<1>2. ASSUME NEW x, Has(r, x)
      PROVE  Has(s, x) \/ Has(t, x)
  <2>1. PICK i \in 1 .. m + n : r[i] = x
    BY <1>1, <1>2 DEF Has
  <2>2. CASE i <= m
    BY <1>1, <2>1, <2>2 DEF Has, m
  <2>3. CASE ~(i <= m)
    <3>1. i - m \in 1 .. n /\ t[i - m] = x
      BY <1>1, <2>1, <2>3
    <3> QED  BY <3>1 DEF Has, n
  <2> QED  BY <2>2, <2>3
<1>3. ASSUME NEW x, Has(s, x)
      PROVE  Has(r, x)
  <2>1. PICK i \in 1 .. m : s[i] = x
    BY <1>3 DEF Has, m
  <2>2. i \in 1 .. m + n /\ r[i] = x
    BY <1>1, <2>1
  <2> QED  BY <1>1, <2>2 DEF Has
<1>4. ASSUME NEW x, Has(t, x)
      PROVE  Has(r, x)
  <2>1. PICK i \in 1 .. n : t[i] = x
    BY <1>4 DEF Has, n
  <2>2. m \in Nat /\ n \in Nat
    BY <1>1
  <2>3. m + i \in 1 .. m + n /\ ~(m + i <= m) /\ (m + i) - m = i
    BY <2>2
  <2>4. r[m + i] = x
    BY <1>1, <2>1, <2>3
  <2> QED  BY <1>1, <2>3, <2>4 DEF Has
<1> QED  BY <1>1, <1>2, <1>3, <1>4 DEF r

\* FlattenSeq puts the sequences behind one another: what is in one of them, and nothing
\* else.
LEMMA FlattenHas ==
  ASSUME NEW T, NEW q \in Seq(Seq(T))
  PROVE  /\ FlattenSeq(q) \in Seq(T)
         /\ \A x : Has(FlattenSeq(q), x) <=> \E j \in 1 .. Len(q) : Has(q[j], x)
<1> DEFINE n == Len(q)
<1>1. n \in Nat /\ \A j \in 1 .. n : q[j] \in Seq(T)
  OBVIOUS
<1> HIDE DEF n
<1> DEFINE k == CHOOSE k : FlattenLoop(q, n, k)
           Good(m) == k[m] \in Seq(T) /\ \A x : Has(k[m], x) <=> \E j \in 1 .. m : Has(q[j], x)
           N == {m \in Nat : m \in 1 .. n => Good(m)}
<1>2. FlattenLoop(q, n, k)
  BY <1>1, FlattenLoopExists
<1>3. FlattenSeq(q) = IF n = 0 THEN q ELSE k[n]
  BY Zenon DEF FlattenSeq, FlattenLoop, n
<1> HIDE DEF k
<1>4. \A i \in 1 .. n : k[i] = IF i = 1 THEN q[i] ELSE k[i - 1] \o q[i]
  BY <1>2, Zenon DEF FlattenLoop
<1>5. 0 \in N
  OBVIOUS
<1>6. ASSUME NEW m \in N
      PROVE  m + 1 \in N
  <2> SUFFICES ASSUME m + 1 \in 1 .. n
               PROVE  Good(m + 1)
    OBVIOUS
  <2>1. q[m + 1] \in Seq(T) /\ m \in Nat
    BY <1>1
  <2>2. CASE m = 0
    <3>1. k[1] = q[1] /\ 1 .. 1 = {1}
      BY <1>4, <2>2
    <3>2. k[1] \in Seq(T) /\ \A x : Has(k[1], x) <=> \E j \in 1 .. 1 : Has(q[j], x)
      BY <2>1, <2>2, <3>1
    <3> QED  BY <2>2, <3>2
  <2>3. CASE m # 0
    <3>1. m \in 1 .. n /\ m + 1 # 1 /\ (m + 1) - 1 = m /\ 1 .. m + 1 = (1 .. m) \cup {m + 1}
      BY <1>1, <2>1, <2>3
    <3>2. Good(m)
      BY <3>1
    <3>3. k[m + 1] = k[m] \o q[m + 1]
      BY <1>4, <3>1
    <3>4. k[m] \o q[m + 1] \in Seq(T) /\ \A x : Has(k[m] \o q[m + 1], x) <=> Has(k[m], x) \/ Has(q[m + 1], x)
      BY <2>1, <3>2, HasBoth
    <3> QED  BY <3>1, <3>2, <3>3, <3>4
  <2> QED  BY <2>2, <2>3
<1>7. N = Nat
  <2> HIDE DEF N
  <2>1. N \in SUBSET Nat
    BY DEF N
  <2> QED  BY <1>5, <1>6, <2>1, Counting
<1>8. CASE n = 0
  <2>1. q = <<>> /\ 1 .. n = {} /\ Len(<<>>) = 0 /\ <<>> \in Seq(T)
    BY <1>8 DEF n
  <2>2. FlattenSeq(q) = <<>>
    BY <1>3, <1>8, <2>1
  <2> QED  BY <2>1, <2>2 DEF Has, n
<1>9. CASE n # 0
  <2>1. n \in 1 .. n
    BY <1>1, <1>9
  <2>2. Good(n)
    BY <1>1, <1>7, <2>1
  <2> QED  BY <1>3, <1>9, <2>2 DEF n
<1> QED  BY <1>8, <1>9

\* The nodes of a header: its bytes from the file, and the zeroes behind them.
Image(p) == IF p.kind = "elf" THEN Loadable(p) ELSE p.hs
Want(h, c) == IF c - h.vaddr < h.filesz THEN h.off + (c - h.vaddr) ELSE AxZero
NodeCells(n) == n.mem .. n.mem + n.len - 1
IsNodeOf(n, h) ==
  \/ n = Node(h.vaddr, h.off, h.filesz, FALSE)
  \/ axProg.kind = "elf" /\ h.memsz > h.filesz /\ n = Node(h.vaddr + h.filesz, 0, h.memsz - h.filesz, TRUE)
Nodes == [mem : Nat, off : Nat, len : Nat, zero : BOOLEAN]

\* The file is where it was read to, and a byte of a segment is there, or still in the list.
FileRead == \A c \in AxCells : c >= AxBase => axMem[c] = c - AxBase
Pending(c) == \E k \in 1 .. Len(axList) : c \in NodeCells(axList[k])
Placed(hs) ==
  /\ axList \in Seq(Nodes)
  /\ axProg.kind = "elf" => \A i \in 1 .. Len(hs) : hs[i].filesz <= hs[i].memsz
  /\ \A k \in 1 .. Len(axList) : \E i \in 1 .. Len(hs) : IsNodeOf(axList[k], hs[i])
  /\ Apart(hs) =>
       /\ FileRead
       /\ \A i \in 1 .. Len(hs) : \A c \in SegmentCells(hs[i]) : axMem[c] = Want(hs[i], c) \/ Pending(c)
AxLoaded == {"map", "mapagain", "exit", "copy", "hardware", "started"}
ImageInv ==
  /\ axProg.hs \in Seq(Headers)
  /\ axPc = "check" => FileRead
  /\ axPc \in AxLoaded => Placed(Image(axProg))
  /\ axPc \in {"hardware", "started"} => axList = <<>>

\* The numbers of a header.
LEMMA HeaderFacts ==
  ASSUME NEW h \in Headers
  PROVE  /\ h.vaddr \in Nat /\ h.off \in Nat /\ h.filesz \in Nat /\ h.memsz \in Nat
         /\ h.off + h.filesz <= AxFile /\ AxFile \in Nat /\ AxBase \in Nat
<1>1. /\ h.vaddr \in AxHeaders /\ h.off \in {0, 1} /\ h.filesz \in {0, 2} /\ h.memsz \in {0, 1, 2, 3}
      /\ h.off + h.filesz <= AxFile
  BY DEF Headers
<1>2. h.vaddr \in Nat /\ AxFile \in Nat /\ AxBase \in Nat
  BY <1>1, RunAxfAssumption
<1>3. h.off \in Nat /\ h.filesz \in Nat
  BY <1>1
<1>4. h.memsz \in Nat
  BY <1>1
<1> QED  BY <1>1, <1>2, <1>3, <1>4

\* The headers that are loaded are headers of the program.
LEMMA ImageHeaders ==
  ASSUME NEW p, p.hs \in Seq(Headers)
  PROVE  Image(p) \in Seq(Headers) /\ \A i \in 1 .. Len(Image(p)) : Image(p)[i] \in Headers
<1>1. Loadable(p) \in Seq(Headers)
  BY SublistFacts DEF Loadable
<1>2. Image(p) \in Seq(Headers)
  BY <1>1 DEF Image
<1> HIDE DEF Image
<1> QED  BY <1>2

\* ElfLoadSegment makes the nodes of a header, both of them unless one is empty.
LEMMA SegmentNodes ==
  ASSUME NEW h \in Headers
  PROVE  LET s == ElfLoadSegment(h)
             d == Node(h.vaddr, h.off, h.filesz, FALSE)
             z == Node(h.vaddr + h.filesz, 0, h.memsz - h.filesz, TRUE)
         IN /\ s \in Seq(Nodes)
            /\ \A x : Has(s, x) <=> (h.filesz # 0 /\ x = d) \/ (h.memsz > h.filesz /\ x = z)
<1> DEFINE d == Node(h.vaddr, h.off, h.filesz, FALSE)
           z == Node(h.vaddr + h.filesz, 0, h.memsz - h.filesz, TRUE)
           a == IF h.filesz # 0 THEN <<d>> ELSE <<>>
           b == IF h.memsz > h.filesz THEN <<z>> ELSE <<>>
<1>1. d \in Nodes
  BY HeaderFacts DEF Node, Nodes
<1>2. h.memsz > h.filesz => z \in Nodes
  <2> SUFFICES ASSUME h.memsz > h.filesz
               PROVE  z \in Nodes
    OBVIOUS
  <2>1. h.vaddr + h.filesz \in Nat /\ h.memsz - h.filesz \in Nat
    BY HeaderFacts
  <2> QED  BY <2>1 DEF Node, Nodes
<1>3. ElfLoadSegment(h) = a \o b
  BY DEF ElfLoadSegment
<1> HIDE DEF d, z
<1>4. a \in Seq(Nodes) /\ \A x : Has(a, x) <=> h.filesz # 0 /\ x = d
  BY <1>1 DEF Has
<1>5. b \in Seq(Nodes) /\ \A x : Has(b, x) <=> h.memsz > h.filesz /\ x = z
  BY <1>2 DEF Has
<1> HIDE DEF a, b
<1>6. /\ a \o b \in Seq(Nodes)
      /\ \A x : Has(a \o b, x) <=> (h.filesz # 0 /\ x = d) \/ (h.memsz > h.filesz /\ x = z)
  BY <1>4, <1>5, HasBoth
<1> QED  BY <1>3, <1>6, Zenon DEF d, z

\* The list of a program has the nodes of its headers, and nothing else: each byte of a
\* segment is in one of them.
LEMMA ListPlaces ==
  ASSUME NEW hs \in Seq(Headers), FileRead',
         axProg' = axProg,
         axList' \in Seq(Nodes), axProg.kind = "elf" => \A i \in 1 .. Len(hs) : hs[i].filesz <= hs[i].memsz,
         \A k \in 1 .. Len(axList') : \E i \in 1 .. Len(hs) : IsNodeOf(axList'[k], hs[i]),
         \A i \in 1 .. Len(hs) :
           /\ hs[i].filesz # 0 => Has(axList', Node(hs[i].vaddr, hs[i].off, hs[i].filesz, FALSE))
           /\ axProg.kind = "elf" /\ hs[i].memsz > hs[i].filesz =>
                Has(axList', Node(hs[i].vaddr + hs[i].filesz, 0, hs[i].memsz - hs[i].filesz, TRUE))
  PROVE  Placed(hs)'
<1>1. ASSUME NEW i \in 1 .. Len(hs), NEW c \in SegmentCells(hs[i])
      PROVE  Pending(c)'
  <2> DEFINE h == hs[i]
             d == Node(h.vaddr, h.off, h.filesz, FALSE)
             z == Node(h.vaddr + h.filesz, 0, h.memsz - h.filesz, TRUE)
  <2>1. h \in Headers
    OBVIOUS
  <2>2. /\ h.filesz # 0 => Has(axList', d)
        /\ axProg.kind = "elf" /\ h.memsz > h.filesz => Has(axList', z)
    OBVIOUS
  <2>3. d.mem = h.vaddr /\ d.len = h.filesz /\ z.mem = h.vaddr + h.filesz /\ z.len = h.memsz - h.filesz
    BY DEF Node
  <2>4. c \in h.vaddr .. h.vaddr + (IF axProg.kind = "elf" THEN h.memsz ELSE h.filesz) - 1
    BY DEF SegmentCells
  <2> HIDE DEF h, d, z
  <2>5. ASSUME NEW n, Has(axList', n), c \in NodeCells(n)
        PROVE  Pending(c)'
    BY <2>5 DEF Has, Pending
  <2>6. PICK v \in Nat, f \in Nat, m \in Nat : h.vaddr = v /\ h.filesz = f /\ h.memsz = m
    BY <2>1, HeaderFacts
  <2>7. NodeCells(d) = v .. v + f - 1 /\ NodeCells(z) = v + f .. v + f + (m - f) - 1
    BY <2>3, <2>6 DEF NodeCells
  <2>8. c \in v .. v + (IF axProg.kind = "elf" THEN m ELSE f) - 1
    BY <2>4, <2>6
  <2>9. CASE c - v < f
    <3>1. c \in v .. v + f - 1 /\ f # 0
      BY <2>8, <2>9
    <3> QED  BY <2>2, <2>5, <2>6, <2>7, <3>1
  <2>10. CASE ~(c - v < f)
    <3>1. axProg.kind = "elf"
      BY <2>8, <2>10
    <3>2. c \in v + f .. v + f + (m - f) - 1 /\ m > f
      <4>1. c \in v .. v + m - 1
        BY <2>8, <3>1
      <4>2. c \in Int /\ v + f <= c /\ c <= v + m - 1 /\ v + f + (m - f) - 1 = v + m - 1
        BY <2>10, <4>1
      <4> QED  BY <4>2
    <3> QED  BY <2>2, <2>5, <2>6, <2>7, <3>1, <3>2
  <2> QED  BY <2>9, <2>10
<1>2. \A k \in 1 .. Len(axList') : \E i \in 1 .. Len(hs) : IsNodeOf(axList[k], hs[i])'
  BY DEF IsNodeOf
<1>3. \A i \in 1 .. Len(hs) : SegmentCells(hs[i])' = SegmentCells(hs[i])
  BY DEF SegmentCells
<1> QED  BY <1>1, <1>2, <1>3, Zenon DEF Placed

\* A list that is loaded without an error places the image.
LEMMA LoadPlaces ==
  ASSUME ImageInv, RunAxfLoads, axPc' \in AxLoaded
  PROVE  Placed(Image(axProg))'
<1>1. /\ axPc = "check" /\ FileRead /\ axProg' = axProg /\ axMem' = axMem /\ axProg.hs \in Seq(Headers)
  BY DEF RunAxfLoads, AxMemory, ImageInv
<1>2. FileRead'
  BY <1>1 DEF FileRead
<1> PICK hs : hs = Image(axProg)
  OBVIOUS
<1>3. hs \in Seq(Headers) /\ \A i \in 1 .. Len(hs) : hs[i] \in Headers
  BY <1>1, ImageHeaders
<1>4. Image(axProg)' = hs
  BY <1>1 DEF Image, Loadable
<1>5. ASSUME Placed(hs)'
      PROVE  Placed(Image(axProg))'
  <2> QED  BY <1>4, <1>5, Zenon DEF Placed, Apart
<1>6. \/ ElfCheckFile(axProg) /\ ElfLoadFile(axProg).s = "OK" /\ axList' = ElfLoadFile(axProg).list
      \/ ~ElfCheckFile(axProg) /\ axList' = BootMonFsLoadFile(axProg).list
  BY Zenon DEF RunAxfLoads, To, AxLoaded
<1>7. CASE ElfCheckFile(axProg) /\ ElfLoadFile(axProg).s = "OK" /\ axList' = ElfLoadFile(axProg).list
  <2>1. axProg.kind = "elf" /\ hs = Loadable(axProg)
    BY <1>7 DEF ElfCheckFile, Image
  <2> DEFINE I == {i \in 1 .. Len(hs) : hs[i].filesz > hs[i].memsz}
             good == IF I # {} THEN Min(I) ELSE 0
             upto == IF good = 0 THEN hs ELSE SubSeq(hs, 1, good - 1)
             q == [i \in DOMAIN upto |-> ElfLoadSegment(upto[i])]
  <2>2. SelectInSeq(hs, LAMBDA h : h.filesz > h.memsz) = good
    BY Zenon DEF SelectInSeq
  <2>3. /\ good = 0
        /\ axList' = FlattenSeq(q)
    BY <1>7, <2>1, <2>2, Zenon DEF ElfLoadFile
  <2>4. I = {}
    <3>1. I \subseteq 1 .. Len(hs) /\ I \in SUBSET Nat
      OBVIOUS
    <3> SUFFICES ASSUME I # {}
                 PROVE  FALSE
      OBVIOUS
    <3>2. \E i \in I : \A j \in I : i <= j
      <4> HIDE DEF I
      <4> QED  BY <3>1, FirstOf
    <3>3. Min(I) \in I
      <4> HIDE DEF I
      <4> QED  BY <3>2, Zenon DEF Min
    <3>4. Min(I) # 0
      <4> DEFINE x == Min(I)
      <4>1. x \in I
        BY <3>3
      <4> HIDE DEF x
      <4>2. x # 0
        BY <4>1
      <4> QED  BY <4>2 DEF x
    <3> QED  BY <2>3, <3>4, Zenon
  <2>5. upto = hs
    BY <2>3, Zenon
  <2>6. \A i \in 1 .. Len(hs) : hs[i].filesz <= hs[i].memsz
    <3> SUFFICES ASSUME NEW i \in 1 .. Len(hs)
                 PROVE  hs[i].filesz <= hs[i].memsz
      OBVIOUS
    <3>1. hs[i].filesz \in Nat /\ hs[i].memsz \in Nat /\ ~(hs[i].filesz > hs[i].memsz)
      BY <1>3, <2>4, HeaderFacts
    <3> QED  BY <3>1
  <2>7. /\ q \in Seq(Seq(Nodes)) /\ Len(q) = Len(hs)
        /\ \A j \in 1 .. Len(hs) : q[j] = ElfLoadSegment(hs[j])
    <3>1. q = [i \in DOMAIN hs |-> ElfLoadSegment(hs[i])]
      <4> HIDE DEF upto
      <4> QED  BY <2>5
    <3>2. DOMAIN hs = 1 .. Len(hs)
      BY <1>3
    <3>3. q = [i \in 1 .. Len(hs) |-> ElfLoadSegment(hs[i])]
      BY <3>1, <3>2, Zenon
    <3>4. \A j \in 1 .. Len(hs) : ElfLoadSegment(hs[j]) \in Seq(Nodes)
      BY <1>3, SegmentNodes
    <3>5. Len(hs) \in Nat
      BY <1>3
    <3> HIDE DEF q
    <3> QED  BY <3>3, <3>4, <3>5
  <2> HIDE DEF q, upto, good, I
  <2>8. /\ axList' \in Seq(Nodes)
        /\ \A x : Has(axList', x) <=> \E j \in 1 .. Len(hs) : Has(ElfLoadSegment(hs[j]), x)
    BY <2>3, <2>7, FlattenHas
  <2>9. ASSUME NEW k \in 1 .. Len(axList')
        PROVE  \E i \in 1 .. Len(hs) : IsNodeOf(axList'[k], hs[i])
    <3>1. Has(axList', axList'[k])
      BY DEF Has
    <3>2. PICK j \in 1 .. Len(hs) : Has(ElfLoadSegment(hs[j]), axList'[k])
      BY <2>8, <3>1
    <3> QED  BY <1>3, <2>1, <3>2, SegmentNodes DEF IsNodeOf
  <2>10. ASSUME NEW i \in 1 .. Len(hs)
         PROVE  /\ hs[i].filesz # 0 => Has(axList', Node(hs[i].vaddr, hs[i].off, hs[i].filesz, FALSE))
                /\ hs[i].memsz > hs[i].filesz =>
                     Has(axList', Node(hs[i].vaddr + hs[i].filesz, 0, hs[i].memsz - hs[i].filesz, TRUE))
    BY <1>3, <2>8, SegmentNodes
  <2>11. Placed(hs)'
    <3> QED  BY <1>1, <1>2, <1>3, <2>6, <2>8, <2>9, <2>10, ListPlaces, Zenon
  <2> QED  BY <1>5, <2>11
<1>8. CASE ~ElfCheckFile(axProg) /\ axList' = BootMonFsLoadFile(axProg).list
  <2> DEFINE d(h) == Node(h.vaddr, h.off, h.filesz, FALSE)
  <2>1. axProg.kind # "elf" /\ hs = axProg.hs
    BY <1>8 DEF ElfCheckFile, Image
  <2>2. axList' = [i \in 1 .. Len(hs) |-> d(hs[i])] /\ Len(hs) \in Nat
    BY <1>3, <1>8, <2>1 DEF BootMonFsLoadFile
  <2>3. \A i \in 1 .. Len(hs) : d(hs[i]) \in Nodes
    BY <1>3, HeaderFacts DEF Node, Nodes
  <2> HIDE DEF d
  <2>4. axList' \in Seq(Nodes) /\ Len(axList') = Len(hs) /\ \A i \in 1 .. Len(hs) : axList'[i] = d(hs[i])
    BY <2>2, <2>3
  <2>5. \A k \in 1 .. Len(axList') : \E i \in 1 .. Len(hs) : IsNodeOf(axList'[k], hs[i])
    BY <2>4 DEF IsNodeOf, d
  <2>6. \A i \in 1 .. Len(hs) : Has(axList', Node(hs[i].vaddr, hs[i].off, hs[i].filesz, FALSE))
    BY <2>4 DEF Has, d
  <2>7. Placed(hs)'
    <3> QED  BY <1>1, <1>2, <1>3, <2>1, <2>4, <2>5, <2>6, ListPlaces, Zenon
  <2> QED  BY <1>5, <2>7
<1> QED  BY <1>6, <1>7, <1>8

\* The bytes that a node puts where it belongs are those of its header.
LEMMA NodeRight ==
  ASSUME NEW hs \in Seq(Headers), Apart(hs), FileRead, NEW i \in 1 .. Len(hs),
         axProg.kind = "elf" => hs[i].filesz <= hs[i].memsz, NEW n, IsNodeOf(n, hs[i]), NEW c \in NodeCells(n)
  PROVE  /\ c \in SegmentCells(hs[i]) /\ c \in AxCells /\ c < AxBase
         /\ (IF n.zero THEN AxZero ELSE axMem[AxBase + n.off + (c - n.mem)]) = Want(hs[i], c)
<1>1. hs[i] \in Headers /\ i \in DOMAIN hs
  OBVIOUS
<1> DEFINE elf == axProg.kind = "elf"
<1>2. PICK h : h = hs[i]
  OBVIOUS
<1>3. PICK v \in Nat, o \in Nat, f \in Nat, m \in Nat : h.vaddr = v /\ h.off = o /\ h.filesz = f /\ h.memsz = m
  BY <1>1, <1>2, HeaderFacts
<1>4. o + f <= AxFile /\ AxFile \in Nat /\ AxBase \in Nat /\ (elf => f <= m)
  BY <1>1, <1>2, <1>3, HeaderFacts
<1>5. SegmentCells(hs[i]) = v .. v + (IF elf THEN m ELSE f) - 1
  BY <1>2, <1>3 DEF SegmentCells
<1>6. \A d \in SegmentCells(hs[i]) : d < AxBase
  BY <1>1 DEF Apart
<1>7. AxCells = 0 .. AxBase + AxFile - 1
  BY DEF AxCells
<1>8. Want(hs[i], c) = IF c - v < f THEN o + (c - v) ELSE AxZero
  BY <1>2, <1>3 DEF Want
<1> HIDE DEF elf
<1>9. CASE n = Node(v, o, f, FALSE)
  <2>1. n.mem = v /\ n.off = o /\ n.len = f /\ n.zero = FALSE
    BY <1>9 DEF Node
  <2>2. c \in v .. v + f - 1
    BY <2>1 DEF NodeCells
  <2>3. c \in SegmentCells(hs[i])
    <3>1. v + f - 1 <= v + (IF elf THEN m ELSE f) - 1
      BY <1>4
    <3> QED  BY <1>5, <2>2, <3>1
  <2>4. c < AxBase /\ c \in AxCells
    BY <1>4, <1>6, <1>7, <2>2, <2>3
  <2> DEFINE a == AxBase + o + (c - v)
  <2>5. a \in AxCells /\ a >= AxBase /\ a - AxBase = o + (c - v) /\ c - v < f
    BY <1>4, <1>7, <2>2
  <2>6. axMem[a] = o + (c - v)
    BY <2>5 DEF FileRead
  <2> QED  BY <1>8, <2>1, <2>3, <2>4, <2>5, <2>6
<1>10. CASE elf /\ m > f /\ n = Node(v + f, 0, m - f, TRUE)
  <2>1. n.mem = v + f /\ n.len = m - f /\ n.zero = TRUE
    BY <1>10 DEF Node
  <2>2. c \in v + f .. v + f + (m - f) - 1
    BY <2>1 DEF NodeCells
  <2>3. c \in v .. v + m - 1 /\ ~(c - v < f)
    <3>1. c \in Int /\ v + f <= c /\ c <= v + m - 1
      BY <2>2
    <3> QED  BY <3>1
  <2>4. c \in SegmentCells(hs[i])
    BY <1>5, <1>10, <2>3
  <2>5. c < AxBase /\ c \in AxCells
    BY <1>4, <1>6, <1>7, <2>3, <2>4
  <2> QED  BY <1>8, <2>1, <2>3, <2>4, <2>5
<1> QED  BY <1>2, <1>3, <1>9, <1>10 DEF IsNodeOf, elf

\* Copying a node keeps what is placed.
LEMMA CopyPlaces ==
  ASSUME ImageInv, CopyMem, axList # <<>>
  PROVE  Placed(Image(axProg))'
<1>1. /\ axPc = "copy" /\ axProg' = axProg /\ axList' = Tail(axList) /\ axMem' = Copied(axMem, Head(axList))
      /\ Placed(Image(axProg)) /\ axProg.hs \in Seq(Headers)
  BY DEF CopyMem, ImageInv, AxLoaded
<1> PICK hs : hs = Image(axProg)
  OBVIOUS
<1>2. hs \in Seq(Headers) /\ DOMAIN hs = 1 .. Len(hs) /\ Placed(hs)
  BY <1>1, ImageHeaders
<1>3. Image(axProg)' = hs
  BY <1>1 DEF Image, Loadable
<1> DEFINE n == axList[1]
           len == Len(axList)
<1>4. axList \in Seq(Nodes) /\ len \in Nat \ {0} /\ Head(axList) = n
  BY <1>2 DEF Placed
<1>5. axList' \in Seq(Nodes) /\ Len(axList') = len - 1 /\ \A k \in 1 .. len - 1 : axList'[k] = axList[k + 1]
  <2>1. /\ Tail(axList) \in Seq(Nodes) /\ Len(Tail(axList)) = Len(axList) - 1
        /\ \A k \in 1 .. Len(Tail(axList)) : Tail(axList)[k] = axList[k + 1]
    BY <1>4, HeadTailProperties
  <2> QED  BY <1>1, <2>1
<1> HIDE DEF len
<1>6. PICK i \in 1 .. Len(hs) : IsNodeOf(n, hs[i])
  BY <1>2, <1>4 DEF Placed, len
<1>7. axProg.kind = "elf" => hs[i].filesz <= hs[i].memsz
  BY <1>2 DEF Placed
<1>8. PICK x : x = n
  OBVIOUS
<1>9. \A c \in AxCells : axMem'[c] =
        IF c \notin NodeCells(x) THEN axMem[c]
        ELSE IF x.zero THEN AxZero ELSE axMem[AxBase + x.off + (c - x.mem)]
  BY <1>1, <1>4, <1>8 DEF Copied, NodeCells
<1>10. (\A j \in 1 .. Len(hs) : SegmentCells(hs[j])' = SegmentCells(hs[j])) /\ Apart(hs)' = Apart(hs)
  BY <1>1 DEF SegmentCells, Apart
<1>11. ASSUME Apart(hs)
       PROVE  /\ FileRead'
              /\ \A j \in 1 .. Len(hs) : \A c \in SegmentCells(hs[j]) : axMem'[c] = Want(hs[j], c) \/ Pending(c)'
  <2>1. FileRead /\ \A j \in 1 .. Len(hs) : \A c \in SegmentCells(hs[j]) : axMem[c] = Want(hs[j], c) \/ Pending(c)
    BY <1>2, <1>11 DEF Placed
  <2>2. \A c \in NodeCells(x) :
          /\ c \in SegmentCells(hs[i]) /\ c \in AxCells /\ c < AxBase
          /\ (IF x.zero THEN AxZero ELSE axMem[AxBase + x.off + (c - x.mem)]) = Want(hs[i], c)
    BY <1>2, <1>6, <1>7, <1>8, <1>11, <2>1, NodeRight
  <2>3. ASSUME NEW c \in AxCells, c >= AxBase
        PROVE  axMem'[c] = c - AxBase
    <3>1. c \in Int /\ AxBase \in Int
      BY RunAxfAssumption DEF AxCells
    <3>2. c \notin NodeCells(x)
      BY <2>2, <2>3, <3>1
    <3> QED  BY <1>9, <2>1, <2>3, <3>2 DEF FileRead
  <2>4. ASSUME NEW j \in 1 .. Len(hs), NEW c \in SegmentCells(hs[j])
        PROVE  axMem'[c] = Want(hs[j], c) \/ Pending(c)'
    <3>1. CASE c \in NodeCells(x)
      <4>1. c \in SegmentCells(hs[i])
        BY <2>2, <3>1
      <4>2. i = j
        BY <1>2, <1>11, <2>4, <4>1 DEF Apart
      <4>3. axMem'[c] = IF x.zero THEN AxZero ELSE axMem[AxBase + x.off + (c - x.mem)]
        BY <1>9, <2>2, <3>1, Zenon
      <4>4. (IF x.zero THEN AxZero ELSE axMem[AxBase + x.off + (c - x.mem)]) = Want(hs[i], c)
        BY <2>2, <3>1, Zenon
      <4> QED  BY <4>2, <4>3, <4>4, Zenon
    <3>2. CASE c \notin NodeCells(x)
      <4>1. c \in AxCells
        <5>1. hs[j] \in Headers
          BY <1>2
        <5>2. c < AxBase
          BY <1>2, <1>11 DEF Apart
        <5>3. PICK v \in Nat : hs[j].vaddr = v
          BY <5>1, HeaderFacts
        <5>4. c \in v .. v + (IF axProg.kind = "elf" THEN hs[j].memsz ELSE hs[j].filesz) - 1
          BY <5>3 DEF SegmentCells
        <5>5. c \in Int /\ v <= c
          BY <5>4
        <5>6. AxBase \in Nat /\ AxFile \in Nat
          BY RunAxfAssumption
        <5> QED  BY <5>2, <5>5, <5>6 DEF AxCells
      <4>2. axMem'[c] = axMem[c]
        BY <1>9, <3>2, <4>1
      <4>3. ASSUME Pending(c)
            PROVE  Pending(c)'
        <5>1. PICK k \in 1 .. len : c \in NodeCells(axList[k])
          BY <4>3 DEF Pending, len
        <5>2. k # 1
          BY <1>8, <3>2, <5>1
        <5>3. k - 1 \in 1 .. len - 1 /\ (k - 1) + 1 = k
          BY <1>4, <5>1, <5>2
        <5>4. axList'[k - 1] = axList[k]
          BY <1>5, <5>3
        <5>5. k - 1 \in 1 .. Len(axList') /\ c \in NodeCells(axList'[k - 1])
          BY <1>5, <5>1, <5>3, <5>4
        <5> QED  BY <5>5 DEF Pending, NodeCells
      <4> QED  BY <2>1, <4>2, <4>3
    <3> QED  BY <3>1, <3>2
  <2> QED  BY <2>3, <2>4 DEF FileRead
<1>12. \A k \in 1 .. Len(axList') : \E j \in 1 .. Len(hs) : IsNodeOf(axList[k], hs[j])'
  <2> SUFFICES ASSUME NEW k \in 1 .. Len(axList')
               PROVE  \E j \in 1 .. Len(hs) : IsNodeOf(axList[k], hs[j])'
    OBVIOUS
  <2>1. k + 1 \in 1 .. len /\ axList'[k] = axList[k + 1]
    BY <1>4, <1>5
  <2>2. PICK j \in 1 .. Len(hs) : IsNodeOf(axList[k + 1], hs[j])
    BY <1>2, <2>1 DEF Placed, len
  <2> QED  BY <1>1, <2>1, <2>2 DEF IsNodeOf
<1>13. axProg'.kind = "elf" => \A j \in 1 .. Len(hs) : hs[j].filesz <= hs[j].memsz
  BY <1>1, <1>2 DEF Placed
<1>14. Placed(hs)'
  BY <1>5, <1>10, <1>11, <1>12, <1>13, Zenon DEF Placed
<1> QED  BY <1>3, <1>14, Zenon DEF Placed, Apart

\* Every step of runaxf keeps the invariant.
LEMMA ImageStep ==
  ASSUME ImageInv, [AxNext]_axVars
  PROVE  ImageInv'
<1>1. ASSUME UNCHANGED <<axProg, axMem, axList>>, axPc \in AxLoaded
      PROVE  Placed(Image(axProg))'
  <2>1. Placed(Image(axProg))
    BY <1>1 DEF ImageInv
  <2> PICK hs : hs = Image(axProg)
    OBVIOUS
  <2>2. Image(axProg)' = hs
    BY <1>1 DEF Image, Loadable
  <2>3. Placed(hs)'
    <3>1. Placed(hs)
      BY <2>1
    <3>2. Apart(hs)' = Apart(hs) /\ FileRead' = FileRead
      BY <1>1 DEF Apart, SegmentCells, FileRead
    <3>3. \A h : SegmentCells(h)' = SegmentCells(h)
      BY <1>1 DEF SegmentCells
    <3>4. \A c : Pending(c)' = Pending(c)
      BY <1>1 DEF Pending, NodeCells
    <3>5. \A h, k : IsNodeOf(axList[k], h)' = IsNodeOf(axList[k], h)
      BY <1>1 DEF IsNodeOf
    <3>6. axProg' = axProg /\ axList' = axList /\ axMem' = axMem
      BY <1>1
    <3> QED  BY <3>1, <3>2, <3>3, <3>4, <3>5, <3>6 DEF Placed
  <2> QED  BY <2>2, <2>3, Zenon DEF Placed, Apart
<1>2. axProg.hs \in Seq(Headers)
  BY DEF ImageInv
\* A step that goes on with what is loaded.
<1>3. ASSUME UNCHANGED <<axProg, axMem, axList>>, axPc \in AxLoaded, axPc' \in AxLoaded,
             axPc' \in {"hardware", "started"} => axList = <<>>
      PROVE  ImageInv'
  BY <1>1, <1>2, <1>3 DEF ImageInv, AxLoaded
\* A step of the handler, before anything is loaded or after it has failed.
<1>4. ASSUME axProg'.hs \in Seq(Headers), axPc' \notin AxLoaded, axPc' = "check" => FileRead'
      PROVE  ImageInv'
  BY <1>4 DEF ImageInv, AxLoaded
<1>5. CASE UNCHANGED axVars
  <2>1. UNCHANGED <<axProg, axMem, axList, axPc>>
    BY <1>5 DEF axVars
  <2>2. CASE axPc \in AxLoaded
    BY <1>3, <2>1, <2>2 DEF ImageInv
  <2>3. CASE axPc \notin AxLoaded
    <3>1. axPc = "check" => FileRead'
      BY <2>1 DEF ImageInv, FileRead
    <3> QED  BY <1>2, <1>4, <2>1, <2>3, <3>1
  <2> QED  BY <2>2, <2>3
<1>6. CASE ShellDynCmdRunAxfInstall \/ ShellDynCmdRunAxfUninstall
  <2>1. axPc = "idle" /\ axPc' = axPc /\ axProg' = axProg
    BY <1>6 DEF ShellDynCmdRunAxfInstall, ShellDynCmdRunAxfUninstall
  <2> QED  BY <1>2, <1>4, <2>1 DEF AxLoaded
<1>7. CASE RunAxfOpens
  <2>1. axPc' \in {"idle", "cleanup", "data"}
    BY <1>7 DEF RunAxfOpens, To
  <2>2. axProg' = axProg \/ \E k \in Kinds, hs \in Programs : axProg' = [kind |-> k, hs |-> hs]
    BY <1>7 DEF RunAxfOpens
  <2>3. \A hs \in Programs : hs \in Seq(Headers)
    <3>1. \A h \in Headers : <<h>> \in Seq(Headers)
      OBVIOUS
    <3>2. \A h, k \in Headers : <<h, k>> \in Seq(Headers)
      OBVIOUS
    <3>3. {x \in Headers : x.load /\ x.memsz \in {1, 3}} \subseteq Headers
      OBVIOUS
    <3>4. ASSUME NEW hs \in Programs
          PROVE  hs \in Seq(Headers)
      <4>1. (\E h \in Headers : hs = <<h>>) \/ \E h, k \in Headers : hs = <<h, k>>
        BY <3>3 DEF Programs
      <4> QED  BY <3>1, <3>2, <4>1
    <3> QED  BY <3>4
  <2>4. axProg'.hs \in Seq(Headers)
    BY <1>2, <2>2, <2>3
  <2> QED  BY <1>4, <2>1, <2>4 DEF AxLoaded
<1>8. CASE RunAxfReads
  <2>1. axProg' = axProg /\ axPc' \in {"check", "cleanup"}
    BY <1>8 DEF RunAxfReads, To
  <2>2. axPc' = "check" => axMem' = [c \in AxCells |-> IF c >= AxBase THEN c - AxBase ELSE axMem[c]]
    BY <1>8 DEF RunAxfReads, To
  <2>3. axPc' = "check" => FileRead'
    BY <2>2 DEF FileRead
  <2> QED  BY <1>2, <1>4, <2>1, <2>3 DEF AxLoaded
<1>9. CASE RunAxfLoads
  <2>1. axProg' = axProg /\ axPc' \in {"cleanup", "map"}
    BY <1>9 DEF RunAxfLoads, To
  <2>2. CASE axPc' = "map"
    <3>1. Placed(Image(axProg))'
      BY <1>9, <2>2, LoadPlaces DEF AxLoaded
    <3> QED  BY <1>2, <2>1, <2>2, <3>1 DEF ImageInv
  <2>3. CASE axPc' = "cleanup"
    BY <1>2, <1>4, <2>1, <2>3 DEF AxLoaded
  <2> QED  BY <2>1, <2>2, <2>3
<1>10. CASE GetMemoryMap \/ GetMemoryMapAgain \/ MapGrows \/ ExitBootServices
  <2>1. /\ axPc \in {"map", "mapagain", "exit"} /\ axPc' \in {"map", "mapagain", "exit", "copy"}
        /\ UNCHANGED <<axProg, axMem, axList>>
    BY <1>10 DEF GetMemoryMap, GetMemoryMapAgain, MapGrows, ExitBootServices, Shutdown, AxOnly
  <2> QED  BY <1>3, <2>1 DEF AxLoaded
<1>11. CASE CopyMem
  <2>1. CASE axList = <<>>
    <3>1. axPc = "copy" /\ axPc' = "hardware" /\ UNCHANGED <<axProg, axMem, axList>>
      BY <1>11, <2>1 DEF CopyMem
    <3> QED  BY <1>3, <2>1, <3>1 DEF AxLoaded
  <2>2. CASE axList # <<>>
    <3>1. axPc = "copy" /\ axPc' = axPc /\ axProg' = axProg
      BY <1>11, <2>2 DEF CopyMem
    <3>2. Placed(Image(axProg))'
      BY <1>11, <2>2, CopyPlaces
    <3> QED  BY <1>2, <3>1, <3>2 DEF ImageInv
  <2> QED  BY <2>1, <2>2
<1>12. CASE PreparePlatformHardware
  <2>1. axPc = "hardware" /\ axPc' = "started" /\ UNCHANGED <<axProg, axMem, axList>> /\ axList = <<>>
    BY <1>12 DEF PreparePlatformHardware, ImageInv
  <2> QED  BY <1>3, <2>1 DEF AxLoaded
<1>13. CASE RunAxfReturns
  <2>1. axPc' = "idle" /\ axProg' = NoProg
    BY <1>13 DEF RunAxfReturns, To
  <2>2. NoProg.hs \in Seq(Headers)
    BY DEF NoProg
  <2> QED  BY <1>4, <2>1, <2>2 DEF AxLoaded
<1> QED  BY <1>5, <1>6, <1>7, <1>8, <1>9, <1>10, <1>11, <1>12, <1>13 DEF AxNext, AxOver

\* When the program starts, every byte of its segments holds what the headers say: for
\* every size and place of the file and every set of addresses, in whatever order the list
\* is copied, provided the segments lie apart.
THEOREM AxImageCorrectHolds == AxSpec => []AxImageCorrect
<1>1. AxInit => ImageInv
  BY DEF AxInit, ImageInv, NoProg, AxLoaded
<1>2. ImageInv /\ [AxNext]_axVars => ImageInv'
  BY ImageStep
<1>3. ImageInv => AxImageCorrect
  <2> SUFFICES ASSUME ImageInv, axPc = "started"
               PROVE  AxImageCorrect
    BY DEF AxImageCorrect
  <2> PICK hs : hs = Image(axProg)
    OBVIOUS
  <2>1. hs \in Seq(Headers) /\ Placed(hs) /\ axList = <<>>
    BY ImageHeaders DEF ImageInv, AxLoaded
  <2>2. DOMAIN hs = 1 .. Len(hs) /\ Len(axList) = 0
    BY <2>1
  <2>3. Apart(hs) => \A i \in DOMAIN hs : \A c \in SegmentCells(hs[i]) : axMem[c] = Want(hs[i], c)
    BY <2>1, <2>2 DEF Placed, Pending
  <2> QED  BY <2>3, Zenon DEF AxImageCorrect, Image, Want
<1> QED  BY <1>1, <1>2, <1>3, PTL DEF AxSpec

===============================================================================
