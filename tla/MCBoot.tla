-------------------------------- MODULE MCBoot --------------------------------
(*****************************************************************************)
(* The parts of the boot path that share no state with each other, each run  *)
(* by itself while the others stay as they were at power on: the boot device *)
(* selection library, the FDT driver on top of it, the boot options, the     *)
(* image loader of the shell and the file system of the boot monitor.        *)
(*****************************************************************************)
EXTENDS FdtPlatform, BootOption, RunAxf, BootMonFs

VARIABLE part

Parts == {"bds", "fdt", "option", "runaxf", "bootmonfs"}
bootVars == <<part, fdtVars, bdsVars, boVars, axVars, bmVars>>

\* One state each for the parts that do not run.
BdsHeld == Idle /\ bdsDevices = Devices /\ bdsHandles = Roots /\ bdsDrivers = Drivers /\ bdsNet = NetQuiet
\* What is attached and how the network behaves do not meet in any load: one varies at a
\* time.
BdsVaried == bdsDevices = Devices \/ bdsNet = NetQuiet
FdtHeld == FdtQuiet /\ fdtCfg = [pcd |-> <<>>, features |-> {}, good |-> {}] /\ fdtVar = "none"
BmHeld  == BmInit /\ \A c \in Cells : bmFlash[c] = Blank

BootInit ==
  /\ part \in Parts
  /\ CASE part = "bds" -> BdsInit /\ BdsVaried /\ FdtHeld
       [] part = "fdt" -> FdtInit
       [] OTHER        -> BdsHeld /\ FdtHeld
  /\ BoInit /\ AxInit
  /\ IF part = "bootmonfs" THEN BmInit ELSE BmHeld

BootNext ==
  \/ part = "bds"       /\ BdsNext /\ UNCHANGED <<part, fdtVars, boVars, axVars, bmVars>>
  \/ part = "fdt"       /\ FdtNext /\ UNCHANGED <<part, boVars, axVars, bmVars>>
  \/ part = "option"    /\ BoNext  /\ UNCHANGED <<part, fdtVars, bdsVars, axVars, bmVars>>
  \/ part = "runaxf"    /\ AxNext  /\ UNCHANGED <<part, fdtVars, bdsVars, boVars, bmVars>>
  \/ part = "bootmonfs" /\ BmNext  /\ UNCHANGED <<part, fdtVars, bdsVars, boVars, axVars>>

\* The library runs on: nothing else takes the processor from it for ever.
BdsTurn  == BdsStep /\ UNCHANGED <<part, fdtVars, boVars, axVars, bmVars>>
BootSpec == BootInit /\ [][BootNext]_bootVars /\ WF_bootVars(BdsTurn)
===============================================================================
