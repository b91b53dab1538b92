------------------------------- MODULE BdsLib ---------------------------------
(*****************************************************************************)
(* The boot device selection library (ARM/Library/BdsLib): connect the       *)
(* drivers along a device path, find the loader for what is left of it, load *)
(* the image (file system, firmware volume, memory, PXE, TFTP) and start it. *)
(*                                                                           *)
(* A device path is a sequence of nodes and a handle is the path it stands   *)
(* for.  A loader goes through stages: a stage that fails leaves for one of  *)
(* the loader's labels or returns at once, and what the loader has opened by *)
(* then is released at the labels, or is not.                                *)
(*****************************************************************************)
EXTENDS Integers, SequencesExt

CONSTANTS
  BdsPaths,     \* names of the paths that callers load
  BdsBlock,     \* 16 MB, the step and the bound of the TFTP buffer, in units
  BdsFileSize,  \* sizes a file on the TFTP server may have
  BdsMaxFaults  \* bound on failures

ASSUME BdsLibAssumption ==
  /\ BdsBlock \in Nat \ {0} /\ BdsFileSize \subseteq Nat \ {0} /\ BdsMaxFaults \in Nat

VARIABLES
  bdsDevices,  \* what is attached behind the root handles
  bdsHandles,  \* handles with a device path
  bdsDrivers,  \* drivers that are loaded; the others wait in a firmware volume
  bdsPc,       \* "idle", "connect", "load", "image", "start", "done" or "reset"
  bdsCaller,   \* who has called: BdsStartEfiApplication or another driver
  bdsPath,     \* *DevicePath
  bdsRem,      \* RemainingDevicePath
  bdsHandle,   \* Handle; <<>> when nothing has been located
  bdsPrev,     \* PreviousHandle
  bdsKind,     \* the loader that was found
  bdsStage,    \* the stage or the label it is in
  bdsOpen,     \* what it has opened or allocated and not released; "dhcpsession" is
               \* Dhcp4ToStop
  bdsBuf,      \* TftpBufferSize
  bdsNet,      \* the network: size of the file, its size as told by the server, whether
               \* somebody else has started DHCP, whether it runs, whether PXE does
  bdsImage,    \* "unset", "zero", "pages" (allocated) or "data" (loaded)
  bdsPages,    \* pages that stay allocated
  bdsStatus,   \* what is returned
  bdsWatchdog, \* the watchdog timer is running
  bdsFaults

bdsVars == <<bdsDevices, bdsHandles, bdsDrivers, bdsPc, bdsCaller, bdsPath, bdsRem, bdsHandle, bdsPrev,
             bdsKind, bdsStage, bdsOpen, bdsBuf, bdsNet, bdsImage, bdsPages, bdsStatus, bdsWatchdog, bdsFaults>>
bdsWorld == <<bdsDevices, bdsHandles, bdsDrivers>>
bdsConn  == <<bdsPath, bdsRem, bdsHandle, bdsPrev>>
bdsLoad  == <<bdsKind, bdsStage, bdsOpen, bdsBuf, bdsNet, bdsImage, bdsPages>>

\* The paths, by the name of what they lead to, and the devices that may be attached
\* behind the root handles: a partition is there only when its stick is.
PathOf(n) ==
  CASE n = "disk"    -> <<"pci", "hd", "file">>      [] n = "short"   -> <<"hd", "file">>
    [] n = "whole"   -> <<"hd">>                     [] n = "stick"   -> <<"usb", "hd", "file">>
    [] n = "app"     -> <<"fv", "fvfile">>           [] n = "named"   -> <<"fv", "file">>
    [] n = "mem"     -> <<"mem">>                    [] n = "pxe"     -> <<"net">>
    [] n = "dhcp"    -> <<"net", "ip4", "file">>     [] n = "static"  -> <<"net", "ip4s", "file">>
    [] n = "nowhere" -> <<"sata", "file">>
Roots   == {<<"pci">>, <<"fv">>, <<"net">>}
Devices == {<<"pci", "hd">>, <<"pci", "usb">>, <<"pci", "usb", "hd">>}
Attached == {ds \in SUBSET Devices : <<"pci", "usb", "hd">> \in ds => <<"pci", "usb">> \in ds}
\* A device driver makes handles of its nodes; "fs" puts the file system on partitions.
Drivers == {"hd", "usb", "fs"}
HasFs(h) == h # <<>> /\ Last(h) = "hd" /\ "fs" \in bdsDrivers

Idle ==
  /\ bdsPc = "idle" /\ bdsCaller = "app" /\ bdsPath = <<>> /\ bdsRem = <<>> /\ bdsHandle = <<>>
  /\ bdsPrev = <<>> /\ bdsKind = "none" /\ bdsStage = "none" /\ bdsOpen = {} /\ bdsBuf = 0
  /\ bdsImage = "unset" /\ bdsPages = 0 /\ bdsStatus = "none" /\ bdsWatchdog = FALSE /\ bdsFaults = 0
NetQuiet == [file |-> 1, tsize |-> 1, other |-> FALSE, dhcp |-> FALSE, pxe |-> FALSE]
Nets == [file : BdsFileSize, tsize : BdsFileSize \cup {-1}, other : BOOLEAN, dhcp : BOOLEAN, pxe : BOOLEAN]
BdsInit ==
  /\ Idle /\ bdsDevices \in Attached /\ bdsHandles = Roots /\ bdsDrivers \in SUBSET Drivers
  /\ bdsNet \in {n \in Nets : n.dhcp = n.other}

BdsFault == bdsFaults < BdsMaxFaults /\ bdsFaults' = bdsFaults + 1
BdsNoFault == UNCHANGED bdsFaults

-------------------------------------------------------------------------------
\* BdsConnectAndUpdateDevicePath.

Above(p) == {h \in bdsHandles : IsPrefix(h, p)}
Nearest(p) == CHOOSE h \in Above(p) : \A k \in Above(p) : Len(k) <= Len(h)
RestOf(p, h) == SubSeq(p, Len(h) + 1, Len(p))

\* ConnectController starts the driver for the next node, not further.  A driver is
\* dispatched when it waits in a firmware volume.
Reaches(h, rem) ==
  IF rem # <<>> /\ h \o <<Head(rem)>> \in bdsDevices /\ Head(rem) \in bdsDrivers
  THEN {h \o <<Head(rem)>>} ELSE {}
ConnectOutcomes(h, rem) ==
  IF rem = <<>> \/ Reaches(h, rem) \ bdsHandles # {} THEN {"OK"} ELSE {"OK", "NotFound"}

\* BdsIsRemovableUsb, BdsIsRemovableHd: nodes that name a device wherever it is attached.
BdsIsRemovableUsb(n) == n = "usb"
BdsIsRemovableHd(n) == n = "hd"
RemovableAt(p) == {i \in DOMAIN p : BdsIsRemovableUsb(p[i]) \/ BdsIsRemovableHd(p[i])}
IsRemovableDevice(p) == RemovableAt(p) # {}

\* BdsGetDeviceUsb, BdsGetDeviceHd: the devices with UsbIo, or partitions with DiskIo, of
\* that description.
BdsGetDeviceUsb(hs) == {h \in hs : Last(h) = "usb"}
BdsGetDeviceHd(hs) == {h \in hs : Last(h) = "hd"}

\* BdsConnectAllDrivers: every driver there is, on every handle.
AllConnected == Roots \cup bdsDevices

\* TryRemovableDevice looks for the first removable node of the whole path, among what is
\* connected now and, if it is not there, among what is connected by all drivers.  Every
\* such device, followed by the rest of the path, is an answer.
RemovableOf(p) == LET i == CHOOSE i \in RemovableAt(p) : \A j \in RemovableAt(p) : i <= j IN i
GetDevice(p, hs) == IF BdsIsRemovableUsb(p[RemovableOf(p)]) THEN BdsGetDeviceUsb(hs) ELSE BdsGetDeviceHd(hs)
TryRemovableDevice(p) ==
  LET rest == RestOf(p, SubSeq(p, 1, RemovableOf(p)))
      now  == GetDevice(p, bdsHandles)
      late == GetDevice(p, AllConnected)
  IN IF ~IsRemovableDevice(p) THEN [s |-> "NotFound", all |-> FALSE, paths |-> {}]
     ELSE IF now # {} THEN [s |-> "OK", all |-> FALSE, paths |-> {h \o rest : h \in now}]
     ELSE [s |-> IF late = {} THEN "NotFound" ELSE "OK", all |-> TRUE, paths |-> {h \o rest : h \in late}]

Leave(s) == bdsPc' = (IF s = "OK" THEN "load" ELSE "done") /\ bdsStatus' = s

\* The loop has ended: with the path connected to its end, with a rest that a loader may
\* know, or with a removable device to look for.  When that is found the function calls
\* itself with the new path, as often as it comes here: nothing counts the calls.
Connected(rem) ==
  \E s \in ConnectOutcomes(Nearest(bdsPath), rem) :
    /\ bdsHandle' = Nearest(bdsPath) /\ bdsRem' = rem /\ bdsHandles' = bdsHandles /\ Leave(s)
    /\ UNCHANGED <<bdsPath, bdsPrev, bdsDrivers>>
Unconnected(h, rem, drivers) ==
  \/ /\ rem # <<>> /\ ~IsRemovableDevice(rem)
     /\ bdsHandle' = h /\ bdsRem' = rem /\ Leave("OK")
     /\ bdsDrivers' = drivers /\ UNCHANGED <<bdsHandles, bdsPath, bdsPrev>>
  \/ /\ rem = <<>> \/ IsRemovableDevice(rem)
     /\ LET t == TryRemovableDevice(bdsPath)
        IN /\ bdsHandles' = IF t.all THEN AllConnected ELSE bdsHandles
           /\ bdsDrivers' = IF t.all THEN Drivers ELSE drivers
           /\ \/ /\ t.s = "OK" /\ bdsPath' \in t.paths /\ bdsPrev' = <<>> /\ bdsHandle' = <<>>
                 /\ bdsRem' = <<>> /\ UNCHANGED <<bdsPc, bdsStatus>>
              \/ /\ t.s # "OK" /\ bdsHandle' = h /\ bdsRem' = rem /\ Leave(t.s)
                 /\ UNCHANGED <<bdsPath, bdsPrev>>

\* A turn of the loop: locate, dispatch drivers if that led nowhere new, connect.
Dispatched(h) == IF h = bdsPrev THEN Drivers ELSE bdsDrivers
ConnectTurn(h, rem) ==
  \/ /\ h = bdsPrev /\ bdsDrivers = Drivers   \* Dispatch: EFI_NOT_FOUND
     /\ Unconnected(h, rem, bdsDrivers)
  \/ /\ h # bdsPrev \/ bdsDrivers # Drivers
     /\ \/ /\ "OK" \in ConnectOutcomes(h, rem) /\ rem # <<>>
           /\ bdsDrivers' = Dispatched(h) /\ bdsHandle' = h /\ bdsPrev' = h /\ bdsRem' = rem
           /\ bdsHandles' = bdsHandles \cup Reaches(h, rem) /\ UNCHANGED <<bdsPath, bdsPc, bdsStatus>>
        \/ /\ "NotFound" \in ConnectOutcomes(h, rem) /\ Unconnected(h, rem, Dispatched(h))
BdsConnectAndUpdateDevicePath ==
  /\ bdsPc = "connect" /\ BdsNoFault
  /\ \/ Above(bdsPath) = {} /\ Unconnected(<<>>, bdsPath, bdsDrivers)
     \/ /\ Above(bdsPath) # {}
        /\ LET h == Nearest(bdsPath) IN
           \/ ConnectTurn(h, RestOf(bdsPath, h))
           \/ RestOf(bdsPath, h) = <<>> /\ h # bdsPrev /\ Connected(<<>>)
  /\ UNCHANGED <<bdsDevices, bdsCaller, bdsWatchdog>> /\ UNCHANGED bdsLoad

-------------------------------------------------------------------------------
\* The loaders: what they accept, in the order of FileLoaders.

BdsFileSystemSupport(h, rem) == HasFs(h) /\ rem # <<>> /\ Head(rem) = "file"
BdsFirmwareVolumeSupport(h, rem) == rem # <<>> /\ Head(rem) = "fvfile"
BdsMemoryMapSupport(p, rem) == Head(p) = "mem" \/ (rem # <<>> /\ Head(rem) = "mem")
BdsPxeSupport(h, rem) == rem = <<>> /\ h = <<"net">>
BdsTftpSupport(h, rem) ==
  /\ Len(rem) > 1 /\ rem[1] \in {"ip4", "ip4s"} /\ rem[2] = "file" /\ h = <<"net">>
FileLoaders ==
  <<<<"fs", BdsFileSystemSupport(bdsHandle, bdsRem)>>, <<"fv", BdsFirmwareVolumeSupport(bdsHandle, bdsRem)>>,
    <<"mem", BdsMemoryMapSupport(bdsPath, bdsRem)>>, <<"pxe", BdsPxeSupport(bdsHandle, bdsRem)>>,
    <<"tftp", BdsTftpSupport(bdsHandle, bdsRem)>>>>

\* The stages of each loader, the first one and the one after each that has no action of
\* its own.  The stages "pages" and "read" follow in all of them.
Static == Head(bdsRem) = "ip4s"
BdsFileSystemLoadImage     == [fsproto |-> "root", root |-> "file", file |-> "info", info |-> "pages"]
BdsFirmwareVolumeLoadImage == [fwvol |-> "section", rawsize |-> "pages"]
BdsPxeLoadImage            == [loadfile |-> "ask"]
BdsTftpLoadImage ==
  [dhcpchild |-> "dhcp", dhcp |-> "mtftpchild", mtftpchild |-> "mtftp",
   mtftp |-> IF Static THEN "mtftpconf" ELSE "dhcpconf",
   dhcpconf |-> "dhcpsession", dhcpsession |-> "dhcpmode", dhcpmode |-> "dhcpbound", dhcpbound |-> "mtftpconf",
   mtftpconf |-> "size", context |-> "pages"]
First(k) ==
  CASE k = "fs" -> "fsproto" [] k = "fv" -> "fwvol" [] k = "mem" -> "pages" [] k = "pxe" -> "loadfile"
    [] k = "tftp" -> IF Static THEN "mtftpchild" ELSE "dhcpchild"
StagesOf(k) ==
  CASE k = "fs" -> BdsFileSystemLoadImage [] k \in {"fv", "raw"} -> BdsFirmwareVolumeLoadImage
    [] k = "pxe" -> BdsPxeLoadImage [] k = "tftp" -> BdsTftpLoadImage
After(stage) == StagesOf(bdsKind)[stage]

\* Where a loader goes when it leaves a stage for good: the labels of the file system's
\* loader, the one of the TFTP loader; the others return.
LabelEarly(stage) ==   \* faulty variant: the file is left open when it cannot be read
  CASE bdsKind = "fs"   -> IF stage = "fsproto" THEN "return" ELSE "CLOSE_PROTOCOL"
    [] bdsKind = "tftp" -> "Error"
    [] OTHER            -> "return"
Label(stage) ==
  CASE bdsKind = "fs" /\ stage = "fsproto"                    -> "return"
    [] bdsKind = "fs" /\ stage \in {"root", "file"}           -> "CLOSE_PROTOCOL"
    [] bdsKind = "fs" /\ stage \notin {"fsproto", "root", "file"} -> "CLOSE_FILE"
    [] bdsKind = "tftp"                                       -> "Error"
    [] bdsKind \notin {"fs", "tftp"}                          -> "return"
Leaves(s) == bdsStage' = Label(bdsStage) /\ bdsStatus' = s

\* BdsLoadImageAndUpdateDevicePath.
BdsLoadImageAndUpdateDevicePath ==
  /\ bdsPc = "load" /\ bdsKind = "none"
  /\ LET fit == {i \in DOMAIN FileLoaders : FileLoaders[i][2]}
         k   == FileLoaders[CHOOSE i \in fit : \A j \in fit : i <= j][1]
     IN IF fit = {} THEN bdsPc' = "done" /\ bdsStatus' = "Unsupported" /\ UNCHANGED <<bdsKind, bdsStage>>
        ELSE bdsKind' = k /\ bdsStage' = First(k) /\ UNCHANGED <<bdsPc, bdsStatus>>
  /\ UNCHANGED <<bdsWorld, bdsConn, bdsOpen, bdsBuf, bdsNet, bdsImage, bdsPages, bdsCaller, bdsWatchdog, bdsFaults>>

LoadOnly == bdsPc = "load" /\ UNCHANGED <<bdsWorld, bdsConn, bdsCaller, bdsWatchdog>>

\* A stage that any of its calls may fail, and what it opens.  The information on a file
\* is given back when it has been read, and not when reading it fails.
Opens == {"fsproto", "root", "file", "dhcpchild", "dhcp", "mtftpchild", "mtftp", "context"}
Plain == Opens \cup {"info", "fwvol", "rawsize", "loadfile", "dhcpconf", "dhcpmode", "dhcpbound", "mtftpconf"}
PlainStage ==
  /\ bdsStage \in Plain /\ LoadOnly /\ UNCHANGED <<bdsPc, bdsKind, bdsBuf, bdsNet, bdsImage, bdsPages>>
  /\ \/ /\ bdsStage' = After(bdsStage) /\ bdsOpen' = bdsOpen \cup ({bdsStage} \cap Opens)
        /\ UNCHANGED bdsStatus /\ BdsNoFault
     \/ /\ Leaves(IF bdsStage = "dhcpbound" THEN "Timeout" ELSE "Error")
        /\ bdsOpen' = bdsOpen \cup ({bdsStage} \cap {"info"}) /\ BdsFault

\* BdsFirmwareVolumeLoadImage: the section, in a buffer of its own, or when there is none
\* the file as it is.
SectionStage ==
  /\ bdsStage = "section" /\ LoadOnly /\ BdsNoFault
  /\ \/ bdsStage' = "pages" /\ bdsOpen' = bdsOpen \cup {"section"} /\ UNCHANGED bdsKind
     \/ bdsKind' = "raw" /\ bdsStage' = "rawsize" /\ UNCHANGED bdsOpen
  /\ UNCHANGED <<bdsPc, bdsBuf, bdsNet, bdsImage, bdsPages, bdsStatus>>

\* BdsPxeLoadImage: PXE that is already started is stopped, and asked again.
PxeStage ==
  /\ bdsStage = "ask" /\ LoadOnly
  /\ \/ /\ bdsNet.pxe /\ bdsStage' = "loadfile" /\ bdsNet' = [bdsNet EXCEPT !.pxe = FALSE]
        /\ UNCHANGED bdsStatus /\ BdsNoFault
     \/ ~bdsNet.pxe /\ bdsStage' = "pages" /\ UNCHANGED <<bdsNet, bdsStatus>> /\ BdsNoFault
     \/ Leaves("Error") /\ UNCHANGED bdsNet /\ BdsFault
  /\ UNCHANGED <<bdsPc, bdsKind, bdsOpen, bdsBuf, bdsImage, bdsPages>>

\* BdsTftpLoadImage starts DHCP, and notes that it has to stop it unless somebody else had
\* started it.
DhcpStage ==
  /\ bdsStage = "dhcpsession" /\ LoadOnly
  /\ \/ /\ bdsStage' = After(bdsStage) /\ bdsNet' = [bdsNet EXCEPT !.dhcp = TRUE]
        /\ bdsOpen' = (IF bdsNet.dhcp THEN bdsOpen ELSE bdsOpen \cup {"dhcpsession"})
        /\ UNCHANGED bdsStatus /\ BdsNoFault
     \/ Leaves("Error") /\ UNCHANGED <<bdsNet, bdsOpen>> /\ BdsFault
  /\ UNCHANGED <<bdsPc, bdsKind, bdsBuf, bdsImage, bdsPages>>

\* The name of the file, as text and in ASCII, and the size of the buffer: the one the
\* server tells in a packet of its own, or 16 MB.
Mtftp4GetFileSize == IF bdsNet.tsize = -1 THEN BdsBlock ELSE bdsNet.tsize
SizeStage ==
  /\ bdsStage = "size" /\ LoadOnly
  /\ \/ /\ bdsBuf' = Mtftp4GetFileSize /\ bdsOpen' = bdsOpen \cup {"pathname", "path", "packet"} /\ BdsNoFault
     \/ /\ bdsBuf' = BdsBlock /\ bdsOpen' = bdsOpen \cup {"pathname", "path"} /\ BdsFault
  /\ bdsStage' = "context"
  /\ UNCHANGED <<bdsPc, bdsKind, bdsNet, bdsImage, bdsPages, bdsStatus>>

\* The pages: a buffer for TFTP larger than MAX_TFTP_FILE_SIZE is not tried, and what the
\* loop leaves with then is the status it came with.
NextBuffer(b) == ((b + BdsBlock) \div BdsBlock) * BdsBlock
PagesStageUnreported ==   \* faulty variant: the failure is not reported
  /\ bdsStage = "pages" /\ LoadOnly
  /\ \/ Leaves(bdsStatus) /\ UNCHANGED <<bdsImage, bdsPages>>
     \/ bdsStage' = "read" /\ bdsImage' = "pages" /\ bdsPages' = bdsPages + 1 /\ UNCHANGED bdsStatus
  /\ UNCHANGED <<bdsPc, bdsKind, bdsOpen, bdsBuf, bdsNet, bdsFaults>>
PagesStage ==
  /\ bdsStage = "pages" /\ LoadOnly
  /\ \/ /\ bdsKind = "tftp" /\ bdsBuf > BdsBlock /\ Leaves(bdsStatus) /\ UNCHANGED <<bdsImage, bdsPages>>
        /\ BdsNoFault
     \/ /\ bdsKind = "tftp" => bdsBuf <= BdsBlock
        /\ bdsStage' = "read" /\ bdsImage' = "pages" /\ bdsPages' = bdsPages + 1
        /\ UNCHANGED bdsStatus /\ BdsNoFault
     \/ /\ bdsKind = "tftp" => bdsBuf <= BdsBlock
        /\ Leaves("OutOfResources") /\ UNCHANGED <<bdsImage, bdsPages>> /\ BdsFault
  /\ UNCHANGED <<bdsPc, bdsKind, bdsOpen, bdsBuf, bdsNet>>

\* The image is copied (the buffer of a section is given back then) or read.  Only the
\* TFTP loader frees the pages when that fails, and it tries a larger buffer when the file
\* did not fit.
Unfailing == {"fv", "mem"}
ReadStage ==
  /\ bdsStage = "read" /\ LoadOnly /\ UNCHANGED <<bdsPc, bdsKind, bdsNet>>
  /\ \/ /\ bdsKind = "tftp" => bdsNet.file <= bdsBuf
        /\ bdsImage' = "data" /\ Leaves("OK") /\ bdsOpen' = bdsOpen \ {"section"}
        /\ UNCHANGED <<bdsBuf, bdsPages>> /\ BdsNoFault
     \/ /\ bdsKind = "tftp" /\ bdsNet.file > bdsBuf
        /\ bdsBuf' = NextBuffer(bdsBuf) /\ bdsStage' = "pages" /\ bdsPages' = bdsPages - 1
        /\ bdsStatus' = "BufferTooSmall" /\ UNCHANGED <<bdsOpen, bdsImage>> /\ BdsNoFault
     \/ /\ bdsKind \notin Unfailing /\ Leaves("Error")
        /\ bdsPages' = (IF bdsKind = "tftp" THEN bdsPages - 1 ELSE bdsPages)
        /\ UNCHANGED <<bdsOpen, bdsBuf, bdsImage>> /\ BdsFault

\* The labels CLOSE_FILE and CLOSE_PROTOCOL.
CloseStage ==
  /\ LoadOnly
  /\ \/ bdsStage = "CLOSE_FILE" /\ bdsOpen' = bdsOpen \ {"file"} /\ bdsStage' = "CLOSE_PROTOCOL"
     \/ bdsStage = "CLOSE_PROTOCOL" /\ bdsOpen' = bdsOpen \ {"fsproto"} /\ bdsStage' = "return"
  /\ UNCHANGED <<bdsPc, bdsKind, bdsBuf, bdsNet, bdsImage, bdsPages, bdsStatus, bdsFaults>>

\* The label Error: DHCP is stopped if it is to be, its protocol closed if it is open and
\* its child destroyed if there is one; then what belongs to the transfer.
Released(open) ==
  (IF "dhcpchild" \in open THEN {"dhcpchild"} \cup (IF "dhcp" \in open THEN {"dhcp", "dhcpsession"} ELSE {}) ELSE {})
  \cup (IF "mtftpchild" \in open
        THEN {"mtftpchild"} \cup (IF "mtftp" \in open THEN {"mtftp", "path", "context"} ELSE {}) ELSE {})
ErrorStage ==
  /\ bdsStage = "Error" /\ LoadOnly /\ bdsStage' = "return" /\ bdsOpen' = bdsOpen \ Released(bdsOpen)
  /\ bdsNet' = (IF {"dhcpchild", "dhcp", "dhcpsession"} \subseteq bdsOpen THEN [bdsNet EXCEPT !.dhcp = FALSE] ELSE bdsNet)
  /\ bdsImage' = (IF bdsStatus # "OK" THEN "zero" ELSE bdsImage)
  /\ UNCHANGED <<bdsPc, bdsKind, bdsBuf, bdsPages, bdsStatus, bdsFaults>>

\* The loader returns: BdsLoadImage to its caller, or BdsStartEfiApplication goes on.
LoadReturns ==
  /\ bdsStage = "return" /\ LoadOnly /\ bdsStage' = "none" /\ bdsKind' = "none"
  /\ bdsPc' = (IF bdsStatus = "OK" /\ bdsCaller = "app" THEN "image" ELSE "done")
  /\ UNCHANGED <<bdsOpen, bdsBuf, bdsNet, bdsImage, bdsPages, bdsStatus, bdsFaults>>

-------------------------------------------------------------------------------
\* BdsStartEfiApplication: LoadImage and LoadOptions, then the image, which the watchdog
\* may end.
BdsStartEfiApplication ==
  /\ \/ bdsPc = "image" /\ bdsPc' = "start" /\ bdsWatchdog' = TRUE /\ BdsNoFault /\ UNCHANGED bdsStatus
     \/ bdsPc = "image" /\ bdsPc' = "done" /\ bdsStatus' = "Error" /\ BdsFault /\ UNCHANGED bdsWatchdog
     \/ bdsPc = "start" /\ bdsPc' = "done" /\ bdsStatus' \in {"OK", "Error"} /\ bdsWatchdog' = FALSE /\ BdsNoFault
     \/ bdsPc = "start" /\ bdsPc' = "reset" /\ UNCHANGED <<bdsWatchdog, bdsStatus, bdsFaults>>
  /\ UNCHANGED <<bdsWorld, bdsConn, bdsLoad, bdsCaller>>

\* LocateEfiApplicationInFvByName goes through the files of the firmware volumes in order
\* and compares as many letters as the name has.  LocateEfiApplicationInFvByGuid makes a
\* file path of an application that has a name, which no loader accepts on a volume.
FvFiles == <<[guid |-> 1, ui |-> <<>>], [guid |-> 2, ui |-> <<"S", "h", "X">>], [guid |-> 3, ui |-> <<"S", "h">>]>>
LocateEfiApplicationInFvByName(name) ==
  LET fit == {i \in DOMAIN FvFiles : FvFiles[i].ui # <<>> /\ IsPrefix(name, FvFiles[i].ui)}
  IN IF fit = {} THEN "none" ELSE "app"
LocateEfiApplicationInFvByGuid(guid) ==
  LET fit == {i \in DOMAIN FvFiles : FvFiles[i].guid = guid}
  IN IF fit = {} THEN "none" ELSE IF \E i \in fit : FvFiles[i].ui # <<>> THEN "named" ELSE "app"
Located ==
  {LocateEfiApplicationInFvByName(n) : n \in {<<"S", "h">>, <<"Z">>}}
  \cup {LocateEfiApplicationInFvByGuid(g) : g \in 1 .. 4}

\* BdsLoadImage, and the same for an application.  What an earlier call has left open is
\* out of the reach of this one.
BdsCall(n, who) ==
  /\ bdsPc = "idle" /\ bdsPc' = "connect" /\ bdsCaller' = who /\ bdsPath' = PathOf(n)
  /\ bdsRem' = <<>> /\ bdsHandle' = <<>> /\ bdsPrev' = <<>> /\ bdsImage' = "unset" /\ bdsStatus' = "none"
  /\ bdsOpen' = {}
  /\ UNCHANGED <<bdsWorld, bdsKind, bdsStage, bdsBuf, bdsNet, bdsPages, bdsWatchdog, bdsFaults>>
BdsStart == \E n \in BdsPaths \cup (Located \ {"none"}) : BdsCall(n, "app")
BdsLoadImage == \E n \in BdsPaths : BdsCall(n, "driver")

BdsStep ==
  \/ BdsConnectAndUpdateDevicePath \/ BdsLoadImageAndUpdateDevicePath \/ PlainStage \/ SectionStage
  \/ PxeStage \/ DhcpStage \/ SizeStage \/ PagesStage \/ ReadStage \/ CloseStage \/ ErrorStage \/ LoadReturns
  \/ BdsStartEfiApplication
BdsOver == bdsPc \in {"done", "reset"} /\ UNCHANGED bdsVars
BdsNext == BdsStart \/ BdsLoadImage \/ BdsStep \/ BdsOver
BdsSpec == BdsInit /\ [][BdsNext]_bdsVars /\ WF_bdsVars(BdsStep)

-------------------------------------------------------------------------------
\* What the loaders never give back: the root directory, the information on a file that
\* could not be read, the buffer of a section that found no pages, and of a transfer the
\* text of the path and the server's answer on the size.
Forgotten == {"root", "info", "section", "pathname", "packet"}

\* At whatever stage a loader fails, its labels are enough: BdsLoadImage and
\* BdsStartEfiApplication return with nothing open or allocated but what is never given
\* back (after a success not even a buffer of the file information or of a section), DHCP
\* as they found it (one of their own stopped, one of somebody else running on), the
\* watchdog off, and no pages of a download that failed.
BdsCleansUp ==
  bdsPc = "done" =>
    /\ bdsOpen \subseteq Forgotten /\ bdsNet.dhcp = bdsNet.other /\ ~bdsWatchdog
    /\ bdsStatus = "OK" => {"info", "section"} \cap bdsOpen = {}
    /\ bdsImage = "zero" => bdsPages = 0

\* Success means that the image has been read, unless the server told a size above
\* MAX_TFTP_FILE_SIZE.
BdsImageLoaded ==
  bdsPc \in {"image", "start"} \/ (bdsPc = "done" /\ bdsCaller = "driver" /\ bdsStatus = "OK") =>
    bdsImage = "data" \/ bdsNet.tsize > BdsBlock

\* The search that has no end: the first removable node of the path is attached where the
\* path says, and a later one is not, so that the same device is found again and again.
Stranded ==
  \E i, j \in RemovableAt(bdsPath) :
    /\ i = RemovableOf(bdsPath) /\ i < j
    /\ SubSeq(bdsPath, 1, i) \in bdsDevices /\ SubSeq(bdsPath, 1, j) \notin bdsDevices

===============================================================================
