-------------------------------- MODULE FastBoot ------------------------------
(*****************************************************************************)
(* The Versatile Express platform of Android Fastboot                        *)
(* (ArmVExpressFastBoot.c): Init pairs the block device handles of the flash *)
(* with the labels of its GPT, and the host then flashes by label.           *)
(*                                                                           *)
(* A label is its part of up to LabelKept characters and the rest ("" when   *)
(* there is none): Init copies PARTITION_NAME_MAX_LENGTH bytes, half of the  *)
(* characters, so that only the first part of a label reaches the list, and  *)
(* a label longer than that is followed by whatever the pool left there.     *)
(* The flash device path is one node, as in ArmVExpress.dsc.inc.             *)
(*                                                                           *)
(* An EFI_HANDLE is the address of pool memory: when a handle has gone, a    *)
(* new one may have its value, for another partition or another device.      *)
(*****************************************************************************)
EXTENDS Integers, FiniteSets, SequencesExt, Sublists

CONSTANTS
  FbNumbers,    \* the partition numbers of the flash, from 1
  FbValues,     \* the values the handles of partitions and further devices take
  FbKept,       \* the first halves of the labels, in the GPT and in requests
  FbRests,      \* their rests, and what the pool may hold behind a label
  FbSizes       \* sizes of partitions and of images

ASSUME FastBootAssumption ==
  /\ FbNumbers \subseteq Nat \ {0} /\ FbSizes \subseteq Nat \ {0}
  /\ FbValues \subseteq Nat \ {0} /\ IsFiniteSet(FbValues)
  /\ "" \in FbRests

FbLabels == [kept : FbKept, rest : FbRests]
NoWrite  == [size |-> 0]

\* The handles with a block device are another device, the flash itself, its
\* "partition 0", which stands for the whole device, which stay; and those of its
\* partitions and of further devices, which come and go.
Other     == -2
Flash     == -1
WholeDisk == 0

VARIABLES
  fbGpt,      \* the GPT: the label of each partition number
  fbSize,     \* the size of each partition and of a further device
  fbPresent,  \* the handles installed now, in the order they are enumerated
  fbDevice,   \* per handle value: the partition, or Other, it stands for
  fbGone,     \* handle values that went since the last Init (history)
  fbList,     \* mPartitionListHead: names and handles; the number is history
  fbOpen,     \* "off", "installed" or "up": between Init and UnInit
  fbWrite,    \* what the last operation wrote: where, how much, under which name, for
              \* which partition of the list, and if its handle stayed since Init
  fbRet       \* status of the last operation

fbVars == <<fbGpt, fbSize, fbPresent, fbDevice, fbGone, fbList, fbOpen, fbWrite, fbRet>>

FbDevices == FbNumbers \cup {Other}
PartitionTwice(d) == \E v, w \in FbValues : v # w /\ d[v] = d[w] /\ d[v] # Other

FbInit ==
  /\ fbGpt \in [FbNumbers -> FbLabels] /\ fbSize \in [FbDevices -> FbSizes]
  /\ fbPresent \in {<<Other>>} \cup {p \o <<Other, Flash, WholeDisk>> : p \in SetToSeqs(FbValues)}
  /\ fbDevice \in [FbValues -> FbDevices] /\ ~PartitionTwice(fbDevice) /\ fbGone = {}
  /\ fbList = <<>> /\ fbOpen = "off" /\ fbWrite = NoWrite /\ fbRet = "SUCCESS"

ArmAndroidFastbootPlatformEntryPoint ==
  /\ fbOpen = "off" /\ fbOpen' = "installed"
  /\ UNCHANGED <<fbGpt, fbSize, fbPresent, fbDevice, fbGone, fbList, fbRet>> /\ fbWrite' = NoWrite

\* ReadPartitionEntries: the header, then the table, is read; there may be no
\* room, no GPT, or a read that fails.
ReadPartitionEntries == {"SUCCESS", "OUT_OF_RESOURCES", "DEVICE_ERROR"}

\* Faulty variant: partition numbers counted from 0.
LabelCountedFromZero(n) == IF n + 1 \in FbNumbers THEN fbGpt[n + 1] ELSE fbGpt[n]

\* "Partition numbers start from 1": entry n - 1 of the table is partition n's.
LabelOf(n) == fbGpt[n]

\* What StrCmp finds in a list entry: the label as far as it was copied, then,
\* when it is not over, whatever was in the pool.
CopiedName(n, tail) ==
  [kept |-> LabelOf(n).kept, rest |-> IF LabelOf(n).rest = "" THEN "" ELSE tail]

\* The partitions of the flash among the handles: the other devices, the flash
\* itself and partition 0 are passed over.
FlashPartitions == Sublist(fbPresent, {v \in FbValues : fbDevice[v] # Other})

\* FreePartitionList
FreePartitionList == fbList' = <<>>

\* ArmFastbootPlatformInit, no flash device or no GPT: "Failing to locate
\* partitions should not prevent to do other Android FastBoot actions".
InitWithoutPartitions(read) ==
  /\ fbOpen # "off" /\ (Flash \notin ToSet(fbPresent) \/ read # "SUCCESS")
  /\ fbOpen' = "up" /\ fbList' = <<>> /\ fbGone' = {} /\ fbRet' = "SUCCESS"
  /\ UNCHANGED <<fbGpt, fbSize, fbPresent, fbDevice>> /\ fbWrite' = NoWrite

\* ... and the list filled, one entry per partition in the order of the handles,
\* unless the pool runs out.
ListEntry(v, tails) ==
  [name |-> CopiedName(fbDevice[v], tails[fbDevice[v]]), handle |-> v, number |-> fbDevice[v]]

ArmFastbootPlatformInit(read, tails) ==
  /\ fbOpen # "off" /\ Flash \in ToSet(fbPresent) /\ read = "SUCCESS"
  /\ fbOpen' = "up" /\ fbGone' = {}
  /\ \/ /\ fbList' = [i \in DOMAIN FlashPartitions |-> ListEntry(FlashPartitions[i], tails)]
        /\ fbRet' = "SUCCESS"
     \/ FlashPartitions # <<>> /\ FreePartitionList /\ fbRet' = "OUT_OF_RESOURCES"
  /\ UNCHANGED <<fbGpt, fbSize, fbPresent, fbDevice>> /\ fbWrite' = NoWrite

ArmFastbootPlatformUnInit ==
  /\ fbOpen = "up"
  /\ fbOpen' = "installed" /\ FreePartitionList
  /\ UNCHANGED <<fbGpt, fbSize, fbPresent, fbDevice, fbGone, fbRet>> /\ fbWrite' = NoWrite

\* The entry a request finds: the first of that name.
Matching(name) == SelectInSeq(fbList, LAMBDA e : e.name = name)

FlashEnds(status) == fbRet' = status /\ UNCHANGED <<fbGpt, fbSize, fbPresent, fbDevice, fbGone, fbList, fbOpen>>

Fits(h, size) == fbSize[fbDevice[h]] >= size

\* ArmFastbootPlatformFlashPartition: found by name, a handle still or again, of a
\* device large enough, then written and flushed; a disk error leaves the write
\* undone or part done.
ArmFastbootPlatformFlashPartition(name, size) ==
  /\ fbOpen = "up"
  /\ LET found == Matching(name)
         handle == fbList[found].handle
         write == [device |-> fbDevice[handle], size |-> size, name |-> name,
                   number |-> fbList[found].number, stayed |-> handle \notin fbGone]
     IN \/ found = 0 /\ FlashEnds("NOT_FOUND") /\ fbWrite' = NoWrite
        \/ found # 0 /\ handle \notin ToSet(fbPresent) /\ FlashEnds("NOT_FOUND") /\ fbWrite' = NoWrite
        \/ /\ found # 0 /\ handle \in ToSet(fbPresent)
           /\ \/ ~Fits(handle, size) /\ FlashEnds("VOLUME_FULL") /\ fbWrite' = NoWrite
              \/ /\ Fits(handle, size)
                 /\ \E status \in {"SUCCESS", "DEVICE_ERROR"} : FlashEnds(status)
                 /\ fbWrite' = write

\* ArmFastbootPlatformErasePartition does nothing.
ArmFastbootPlatformErasePartition == fbOpen = "up" /\ FlashEnds("SUCCESS") /\ fbWrite' = NoWrite

\* ArmFastbootPlatformGetVar answers the product name to every name but
\* "product"; the answer changes nothing here.
ArmFastbootPlatformGetVar == fbOpen = "up" /\ FlashEnds("SUCCESS") /\ fbWrite' = NoWrite

ArmFastbootPlatformOemCommand(command) ==
  /\ fbOpen = "up"
  /\ FlashEnds(IF command = "Demonstrate" THEN "SUCCESS" ELSE "NOT_FOUND") /\ fbWrite' = NoWrite

\* External: a handle goes when its driver is stopped, and one that comes is last in
\* the order of the handles, for a partition that has none or another device, under
\* any value that is free.
HandleGoes(v) ==
  /\ v \in ToSet(fbPresent)
  /\ fbPresent' = Sublist(fbPresent, ToSet(fbPresent) \ {v}) /\ fbGone' = fbGone \cup {v}
  /\ UNCHANGED <<fbGpt, fbSize, fbDevice, fbList, fbOpen, fbRet>> /\ fbWrite' = NoWrite

HandleComes(v, d) ==
  /\ Flash \in ToSet(fbPresent) /\ v \notin ToSet(fbPresent)
  /\ d # Other => \A w \in FbValues \cap ToSet(fbPresent) : fbDevice[w] # d
  /\ fbPresent' = Append(fbPresent, v) /\ fbDevice' = [fbDevice EXCEPT ![v] = d]
  /\ UNCHANGED <<fbGpt, fbSize, fbGone, fbList, fbOpen, fbRet>> /\ fbWrite' = NoWrite

FbNext ==
  \/ ArmAndroidFastbootPlatformEntryPoint \/ ArmFastbootPlatformUnInit
  \/ \E read \in ReadPartitionEntries :
       \/ InitWithoutPartitions(read)
       \/ \E tails \in [FbNumbers -> FbRests] : ArmFastbootPlatformInit(read, tails)
  \/ \E name \in FbLabels, size \in FbSizes : ArmFastbootPlatformFlashPartition(name, size)
  \/ ArmFastbootPlatformErasePartition \/ ArmFastbootPlatformGetVar
  \/ \E c \in {"Demonstrate", "other"} : ArmFastbootPlatformOemCommand(c)
  \/ \E v \in FbValues : HandleGoes(v) \/ \E d \in FbDevices : HandleComes(v, d)

FbSpec == FbInit /\ [][FbNext]_fbVars

-------------------------------------------------------------------------------
\* "We will use these labels as the key in ArmFastbootPlatformFlashPartition":
\* whatever the order of the handles, handles that go and come between requests and
\* Inits that fail half way, an image goes under a name only to the device of a handle
\* that Init listed for a partition of that label, and fits into that device.  The
\* label is compared as far as it was copied: where it is longer, what follows in the
\* name is not looked at.  And the device is that partition as long as the handle has
\* not gone since Init: a new handle of the same value may stand for another, and
\* what is written through it goes there, though the image is meant for "the partition
\* named" (ArmVExpressFastBoot.c:317).
FbWritesNamed ==
  fbWrite # NoWrite =>
    /\ fbGpt[fbWrite.number].kept = fbWrite.name.kept
    /\ fbGpt[fbWrite.number].rest = "" => fbWrite.name.rest = ""
    /\ fbWrite.size <= fbSize[fbWrite.device]
    /\ fbWrite.stayed => fbWrite.device = fbWrite.number
===============================================================================
