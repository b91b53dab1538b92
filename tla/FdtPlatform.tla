----------------------------- MODULE FdtPlatform ------------------------------
(*****************************************************************************)
(* The FDT platform driver (ARM/Drivers/FdtPlatformDxe): it installs the     *)
(* first good device tree of the paths it is given, the variable "Fdt" first *)
(* and then the list of the platform, and offers the shell commands setfdt   *)
(* and dumpfdt.  Every path is loaded by BdsLib, step by step.               *)
(*****************************************************************************)
EXTENDS BdsLib

CONSTANTS
  FdtPaths,    \* paths a user may set, some of which lead to a device tree
  FdtMaxOps    \* bound on shell commands

ASSUME FdtPlatformAssumption == FdtMaxOps \in Nat

VARIABLES
  fdtCfg,    \* the platform: PcdFdtDevicePaths, the features, which files are good
  fdtVar,    \* the variable "Fdt" ("none": it does not exist)
  fdtTable,  \* the path of the FDT in the configuration table
  fdtUp,     \* "off", "up", or "unloaded" (the entry point failed)
  fdtCmds,   \* commands with a Shell Dynamic Command protocol
  fdtShell,  \* the Shell protocols are installed on the driver's image
  fdtPc,     \* "idle", "install" (RunFdtInstallation), "load" (InstallFdt) or "end"
  fdtTodo,   \* paths that have not been tried
  fdtRun,    \* the run: who asked, its paths, the table before it, its status
  fdtRet,    \* status of the last command
  fdtHits,   \* hazards that have happened
  fdtOps

fdtVars == <<fdtCfg, fdtVar, fdtTable, fdtUp, fdtCmds, fdtShell, fdtPc, fdtTodo, fdtRun, fdtRet, fdtHits, fdtOps>>
fdtIdle == <<fdtCfg, fdtVar, fdtTable, fdtUp, fdtCmds, fdtTodo, fdtRun>>

NoRun == [who |-> "none", paths |-> <<>>, old |-> "none", s |-> "none"]
FdtQuiet ==
  /\ fdtTable = "none" /\ fdtUp = "off" /\ fdtCmds = {} /\ fdtShell = FALSE /\ fdtPc = "idle"
  /\ fdtTodo = <<>> /\ fdtRun = NoRun /\ fdtRet = "none" /\ fdtHits = {} /\ fdtOps = 0
Configs ==
  [pcd : {<<>>, <<"mem">>, <<"nowhere", "disk">>}, features : SUBSET {"override", "dump"},
   good : {{}, {"mem"}, {"mem", "disk"}}]
FdtInit ==
  /\ FdtQuiet /\ fdtCfg \in Configs /\ fdtVar \in FdtPaths \cup {"none"}
  /\ Idle /\ bdsDevices = Devices /\ bdsHandles = Roots /\ bdsDrivers = Drivers /\ bdsNet = NetQuiet

\* EfiCodeToShellCode.
EfiCodeToShellCode(s) ==
  IF s \in {"OK", "InvalidParameter", "Unsupported", "OutOfResources", "NotFound"} THEN s ELSE "Aborted"

-------------------------------------------------------------------------------
\* RunFdtInstallation: the variable if that is a feature, then the list of the platform.
Candidates(var) ==
  (IF "override" \in fdtCfg.features /\ var # "none" THEN <<var>> ELSE <<>>) \o fdtCfg.pcd
RunFdtInstallation(who, var) ==
  /\ fdtPc' = "install"
  /\ fdtTodo' = Candidates(var)
  /\ fdtRun' = [who |-> who, paths |-> Candidates(var), old |-> fdtTable, s |-> "NotFound"]

\* The next path, or the end with the status of the last one.  Reading the variable may
\* fail, and then the platform's list is not tried.
NextPath ==
  /\ fdtPc = "install"
  /\ \/ /\ (fdtTodo = <<>> \/ fdtRun.s = "OK") /\ fdtPc' = "end" /\ UNCHANGED <<fdtTodo, fdtRun>>
        /\ UNCHANGED bdsVars
     \/ /\ fdtTodo # <<>> /\ fdtRun.s # "OK" /\ fdtPc' = "load" /\ UNCHANGED <<fdtTodo, fdtRun>>
        /\ BdsCall(Head(fdtTodo), "driver")
     \/ /\ fdtTodo # <<>> /\ fdtTodo = fdtRun.paths /\ Len(fdtTodo) > Len(fdtCfg.pcd)
        /\ BdsFault /\ fdtPc' = "end" /\ fdtRun' = [fdtRun EXCEPT !.s = "Error"] /\ UNCHANGED fdtTodo
        /\ UNCHANGED <<bdsWorld, bdsConn, bdsLoad, bdsPc, bdsCaller, bdsStatus, bdsWatchdog>>
  /\ UNCHANGED <<fdtCfg, fdtVar, fdtTable, fdtUp, fdtCmds, fdtShell, fdtRet, fdtHits, fdtOps>>

\* InstallFdt when BdsLoadImage has returned: check the header, copy the tree to runtime
\* memory and install it.  Pages of a file that fails the check are freed with a count
\* of zero, and so are not.
GoodFdt == bdsImage = "data" /\ Head(fdtTodo) \in fdtCfg.good
InstallUnchecked ==   \* faulty variant: the header is not looked at
  /\ fdtPc = "load" /\ bdsPc = "done" /\ bdsPc' = "idle" /\ fdtPc' = "install" /\ fdtTodo' = Tail(fdtTodo)
  /\ fdtTable' = (IF bdsStatus = "OK" THEN Head(fdtTodo) ELSE fdtTable)
  /\ fdtRun' = [fdtRun EXCEPT !.s = bdsStatus] /\ UNCHANGED <<bdsPages, bdsFaults>>
  /\ UNCHANGED <<fdtCfg, fdtVar, fdtUp, fdtCmds, fdtShell, fdtRet, fdtHits, fdtOps>>
  /\ UNCHANGED <<bdsWorld, bdsConn, bdsKind, bdsStage, bdsOpen, bdsBuf, bdsNet, bdsImage, bdsCaller, bdsStatus, bdsWatchdog>>
InstallFdt ==
  /\ fdtPc = "load" /\ bdsPc = "done" /\ bdsPc' = "idle"
  /\ fdtPc' = "install" /\ fdtTodo' = Tail(fdtTodo)
  /\ \/ /\ bdsStatus # "OK" /\ fdtRun' = [fdtRun EXCEPT !.s = bdsStatus] /\ BdsNoFault
        /\ UNCHANGED <<fdtTable, bdsPages>>
     \/ /\ bdsStatus = "OK" /\ ~GoodFdt /\ fdtRun' = [fdtRun EXCEPT !.s = "LoadError"] /\ BdsNoFault
        /\ UNCHANGED <<fdtTable, bdsPages>>
     \/ /\ bdsStatus = "OK" /\ GoodFdt /\ fdtRun' = [fdtRun EXCEPT !.s = "OutOfResources"] /\ BdsFault
        /\ bdsPages' = bdsPages - 1 /\ UNCHANGED fdtTable
     \/ /\ bdsStatus = "OK" /\ GoodFdt /\ fdtRun' = [fdtRun EXCEPT !.s = "OK"] /\ BdsNoFault
        /\ bdsPages' = bdsPages - 1 /\ fdtTable' = Head(fdtTodo)
  /\ UNCHANGED <<fdtCfg, fdtVar, fdtUp, fdtCmds, fdtShell, fdtRet, fdtHits, fdtOps>>
  /\ UNCHANGED <<bdsWorld, bdsConn, bdsKind, bdsStage, bdsOpen, bdsBuf, bdsNet, bdsImage, bdsCaller, bdsStatus, bdsWatchdog>>

\* FdtPlatformEntryPoint: install the tree, then the commands.  What it returns is the
\* status of the last thing it did.
FdtPlatformEntryPoint ==
  /\ fdtPc = "idle" /\ fdtUp = "off" /\ RunFdtInstallation("entry", fdtVar)
  /\ UNCHANGED <<fdtCfg, fdtVar, fdtTable, fdtUp, fdtCmds, fdtShell, fdtRet, fdtHits, fdtOps>> /\ UNCHANGED bdsVars
Commands == (IF "override" \in fdtCfg.features THEN <<"setfdt">> ELSE <<>>)
            \o (IF "dump" \in fdtCfg.features THEN <<"dumpfdt">> ELSE <<>>)
EntryEnds ==
  /\ fdtPc = "end" /\ fdtRun.who = "entry" /\ fdtPc' = "idle"
  /\ \/ /\ fdtCmds' = Range(Commands) /\ BdsNoFault /\ UNCHANGED fdtHits
        /\ fdtUp' = IF Commands = <<>> /\ fdtRun.s # "OK" THEN "unloaded" ELSE "up"
     \/ /\ Commands # <<>> /\ BdsFault
        /\ \E bad \in Range(Commands) :
             /\ fdtCmds' = Range(Commands) \ {bad}
             /\ fdtUp' = IF bad = Last(Commands) THEN "unloaded" ELSE "up"
             /\ fdtHits' = fdtHits \cup {"command"}
  /\ fdtRun' = NoRun /\ fdtTodo' = <<>> /\ fdtRet' = fdtRun.s
  /\ UNCHANGED <<fdtCfg, fdtVar, fdtTable, fdtShell, fdtOps>>
  /\ UNCHANGED <<bdsWorld, bdsConn, bdsLoad, bdsPc, bdsCaller, bdsStatus, bdsWatchdog>>

-------------------------------------------------------------------------------
\* The shell commands.  Both put the Shell protocols on the driver's image first, which
\* fails while they are still there.

\* UpdateFdtTextDevicePath: "" deletes the variable.
UpdateFdtTextDevicePath(file) ==
  CASE file = "" -> IF fdtVar = "none" THEN "NotFound" ELSE "OK"
    [] file = "bad" -> "InvalidParameter"
    [] OTHER -> "OK"
NewValue(file) == IF file = "" THEN "none" ELSE file

Command(c) == fdtPc = "idle" /\ fdtUp = "up" /\ c \in fdtCmds /\ fdtOps < FdtMaxOps /\ fdtOps' = fdtOps + 1
Returns(s) == fdtRet' = s /\ UNCHANGED fdtIdle /\ UNCHANGED fdtPc
NoBds == UNCHANGED <<bdsWorld, bdsConn, bdsLoad, bdsPc, bdsCaller, bdsStatus, bdsWatchdog>>
ShellInitializeFails ==
  Returns("Aborted") /\ fdtShell' = TRUE /\ fdtHits' = fdtHits \cup {"shell"} /\ BdsFault

\* ShellDynCmdSetFdtHandler: args is the file path ("-": none), i whether -i is given.
\* DisplayFdtDevicePaths changes nothing.
SetFdtLeaves ==   \* faulty variant: a failed update returns at once
  fdtShell' = TRUE
SetFdtCleans == fdtShell' = FALSE
ShellDynCmdSetFdtHandler(args, i) ==
  /\ Command("setfdt") /\ NoBds
  /\ \/ /\ fdtShell /\ Returns("Aborted") /\ UNCHANGED <<fdtShell, fdtHits>> /\ BdsNoFault
     \/ /\ ~fdtShell /\ ShellInitializeFails
     \/ /\ ~fdtShell /\ args = "many"
        /\ Returns("InvalidParameter") /\ SetFdtCleans /\ UNCHANGED fdtHits /\ BdsNoFault
     \/ /\ ~fdtShell /\ args \notin {"-", "many"} /\ UNCHANGED fdtHits
        /\ \/ UpdateFdtTextDevicePath(args) # "OK" /\ Returns(UpdateFdtTextDevicePath(args)) /\ BdsNoFault
           \/ UpdateFdtTextDevicePath(args) = "OK" /\ Returns("Aborted") /\ BdsFault
        /\ SetFdtCleans
     \/ /\ ~fdtShell /\ args # "many" /\ (args = "-" \/ UpdateFdtTextDevicePath(args) = "OK")
        /\ fdtVar' = (IF args = "-" THEN fdtVar ELSE NewValue(args)) /\ BdsNoFault
        /\ \/ /\ ~i /\ fdtRet' = "OK" /\ SetFdtCleans /\ UNCHANGED <<fdtPc, fdtTodo, fdtRun>>
           \/ /\ i /\ RunFdtInstallation("setfdt", fdtVar') /\ fdtShell' = TRUE /\ UNCHANGED fdtRet
        /\ UNCHANGED <<fdtCfg, fdtTable, fdtUp, fdtCmds, fdtHits>>
SetFdtEnds ==
  /\ fdtPc = "end" /\ fdtRun.who = "setfdt" /\ fdtPc' = "idle" /\ SetFdtCleans
  /\ fdtRet' = EfiCodeToShellCode(fdtRun.s) /\ fdtRun' = NoRun /\ fdtTodo' = <<>>
  /\ UNCHANGED <<fdtCfg, fdtVar, fdtTable, fdtUp, fdtCmds, fdtHits, fdtOps>> /\ UNCHANGED bdsVars

\* ShellDynCmdDumpFdtHandler: without a device tree it returns and leaves the Shell
\* protocols on the image.  DumpFdt changes nothing.
ShellDynCmdDumpFdtHandler ==
  /\ Command("dumpfdt") /\ NoBds
  /\ \/ fdtShell /\ Returns("Aborted") /\ UNCHANGED <<fdtShell, fdtHits>> /\ BdsNoFault
     \/ ~fdtShell /\ ShellInitializeFails
     \/ /\ ~fdtShell /\ fdtTable = "none" /\ Returns("NotFound") /\ fdtShell' = TRUE
        /\ fdtHits' = fdtHits \cup {"dump"} /\ BdsNoFault
     \/ ~fdtShell /\ fdtTable # "none" /\ Returns("OK") /\ UNCHANGED <<fdtShell, fdtHits>> /\ BdsNoFault

FdtBds == fdtPc = "load" /\ BdsStep /\ UNCHANGED fdtVars
FdtStep == NextPath \/ InstallFdt \/ EntryEnds \/ SetFdtEnds \/ FdtBds
FdtOver ==
  /\ fdtPc = "idle" /\ (fdtUp = "unloaded" \/ (fdtUp = "up" /\ (fdtOps = FdtMaxOps \/ fdtCmds = {})))
  /\ UNCHANGED <<fdtVars, bdsVars>>
FdtNext ==
  \/ FdtPlatformEntryPoint \/ FdtStep \/ FdtOver
  \/ \E args \in FdtPaths \cup {"-", "", "bad", "many"}, i \in BOOLEAN : ShellDynCmdSetFdtHandler(args, i)
  \/ ShellDynCmdDumpFdtHandler
FdtSpec == FdtInit /\ [][FdtNext]_<<fdtVars, bdsVars>>

-------------------------------------------------------------------------------
\* A path that leads to a good device tree, when nothing fails.
Leads(p) == p \in fdtCfg.good /\ p # "nowhere"

\* RunFdtInstallation installs the device tree of the first of its paths that has one (if
\* nothing failed), never one that is corrupt, and when it fails the table is the old one.
FdtFirstWins ==
  fdtPc = "end" =>
    /\ fdtRun.s = "OK" => fdtTable \in fdtCfg.good
    /\ fdtRun.s # "OK" => fdtTable = fdtRun.old
    /\ bdsFaults = 0 =>
         LET first == SelectInSeq(fdtRun.paths, Leads)
         IN IF first = 0 THEN fdtRun.s # "OK" ELSE fdtRun.s = "OK" /\ fdtTable = fdtRun.paths[first]

\* A shell command takes the Shell protocols off the driver's image again, so that the
\* next one can be run: unless the library failed to start or there was no tree to dump.
FdtShellFree == fdtPc = "idle" /\ fdtShell => fdtHits \cap {"shell", "dump"} # {}
===============================================================================
