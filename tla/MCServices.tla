------------------------------ MODULE MCServices ------------------------------
(*****************************************************************************)
(* The small services that share no state with each other, each run by       *)
(* itself while the others stay as they were at power on: the parameters of  *)
(* a TEE call, OP-TEE's clock, the TPM library, the Juno mailbox, the        *)
(* Versatile Express configuration registers, Fastboot and the display.      *)
(*****************************************************************************)
EXTENDS OpteeParams, OpteeTime, Tpm2Device, JunoMtl, SysConfig, FastBoot, LcdPlatform

VARIABLE part

Parts == {"params", "time", "tpm", "mtl", "sysconfig", "fastboot", "lcd"}
svcVars == <<part, paramsVars, timeVars, tpmVars, mtlVars, scVars, fbVars, lcdVars>>

\* One state each for the parts that may start in several.
ScHeld == ScInit /\ scLibrary = "boot"
FbHeld ==
  /\ FbInit /\ fbPresent = <<Other>> /\ fbDevice = [v \in FbValues |-> Other]
  /\ fbSize = [d \in FbDevices |-> 1]
  /\ fbGpt = [n \in FbNumbers |-> CHOOSE l \in FbLabels : TRUE]

\* The names and the values of the handles are interchangeable: partition 1 has the
\* first name, and value 1 comes before value 2.  Partition 2 has the larger size.
FbAtStart ==
  /\ FbInit /\ fbGpt[1].kept = CHOOSE k \in FbKept : TRUE
  /\ fbPresent[1] # 2
  /\ fbSize[1] = 1 /\ fbSize[2] = 2

LcdAtStart == LcdInit /\ lcdBoard = [lib |-> "Juno", base |-> "none", debug |-> TRUE, format |-> TRUE]

SvcInit ==
  /\ part \in Parts
  /\ ParamsInit /\ TimeInit /\ TpmInit /\ MtlInit
  /\ IF part = "sysconfig" THEN ScInit ELSE ScHeld
  /\ IF part = "fastboot" THEN FbAtStart ELSE FbHeld
  /\ IF part = "lcd" THEN LcdInit ELSE LcdAtStart

SvcNext ==
  \/ part = "params"    /\ ParamsNext /\ UNCHANGED <<part, timeVars, tpmVars, mtlVars, scVars, fbVars, lcdVars>>
  \/ part = "time"      /\ TimeNext   /\ UNCHANGED <<part, paramsVars, tpmVars, mtlVars, scVars, fbVars, lcdVars>>
  \/ part = "tpm"       /\ TpmNext    /\ UNCHANGED <<part, paramsVars, timeVars, mtlVars, scVars, fbVars, lcdVars>>
  \/ part = "mtl"       /\ MtlNext    /\ UNCHANGED <<part, paramsVars, timeVars, tpmVars, scVars, fbVars, lcdVars>>
  \/ part = "sysconfig" /\ ScNext     /\ UNCHANGED <<part, paramsVars, timeVars, tpmVars, mtlVars, fbVars, lcdVars>>
  \/ part = "fastboot"  /\ FbNext     /\ UNCHANGED <<part, paramsVars, timeVars, tpmVars, mtlVars, scVars, lcdVars>>
  \/ part = "lcd"       /\ LcdNext    /\ UNCHANGED <<part, paramsVars, timeVars, tpmVars, mtlVars, scVars, fbVars>>

SvcSpec == SvcInit /\ [][SvcNext]_svcVars
===============================================================================
