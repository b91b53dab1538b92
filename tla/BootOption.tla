----------------------------- MODULE BootOption -------------------------------
(*****************************************************************************)
(* Boot options (BdsLoadOption.c, GetEnvironmentVariable of BdsHelper.c):    *)
(* Boot#### variables and BootOrder, which lists their indices.  A creation  *)
(* writes the one and then the other; what SetVariable returns is not looked *)
(* at, and the power may be lost in between.                                 *)
(*****************************************************************************)
EXTENDS Integers, SequencesExt

CONSTANTS
  BoMaxIndex,   \* the last index, 0xFFFF
  BoContents,   \* sizes of the optional data, which tell options apart
  BoMaxOps,     \* bound on operations
  BoMaxFaults   \* bound on failures and losses of power

ASSUME BootOptionAssumption ==
  BoMaxIndex \in Nat /\ BoContents \subseteq Nat /\ BoMaxOps \in Nat /\ BoMaxFaults \in Nat

VARIABLES
  boStore,   \* Boot#### by index: a packed EFI_LOAD_OPTION, or none
  boOrder,   \* BootOrder; <<-1>>: it does not exist
  boPc,      \* "idle", "order" (Boot#### is written, BootOrder is not)
  boNew,     \* the BDS_LOAD_OPTION that is being created
  boMeant,   \* the option the user has stored last under an index, -1 for none
  boRead,    \* what the last BootOptionFromLoadOptionIndex returned
  boHits,    \* hazards that have happened
  boOps, boFaults

boVars == <<boStore, boOrder, boPc, boNew, boMeant, boRead, boHits, boOps, boFaults>>

Indices == 0 .. BoMaxIndex
NoOrder == <<-1>>
None == [size |-> 0, desc |-> 0, path |-> 0]

BoInit ==
  /\ boStore = [i \in Indices |-> None] /\ boOrder = NoOrder /\ boPc = "idle" /\ boMeant = [i \in Indices |-> -1]
  /\ boNew = [index |-> 0, opt |-> 0] /\ boRead = -1 /\ boHits = {} /\ boOps = 0 /\ boFaults = 0

BoOp == boPc = "idle" /\ boOps < BoMaxOps /\ boOps' = boOps + 1
BoFault == boFaults < BoMaxFaults /\ boFaults' = boFaults + 1

\* The packed option: attributes and length (6 bytes), description, path, optional data.
\* BootOptionParseLoadOption takes what is behind the path for optional data.
Desc == 4
Path == 8
Packed(opt) == [size |-> 6 + Desc + Path + opt, desc |-> Desc, path |-> Path]
BootOptionParseLoadOption(v) == IF v.size < 12 THEN -1 ELSE v.size - (6 + v.desc + v.path)

\* GetEnvironmentVariable without a default value: a variable that is not there and one
\* that cannot be read are the same to the callers.
GetEnvironmentVariable(order, readable) ==
  IF order = NoOrder \/ ~readable THEN [s |-> "Error", v |-> <<>>] ELSE [s |-> "OK", v |-> order]

\* BootOptionAllocateBootIndex: the first index that BootOrder does not list, or 0.
CountedIndex(order) == Len(order.v) % (BoMaxIndex + 1)   \* faulty variant: the number of options
BootOptionAllocateBootIndex(order) ==
  LET free == {i \in Indices : i \notin Range(order.v)}
  IN IF order.s # "OK" \/ free = {} THEN 0 ELSE CHOOSE i \in free : \A j \in free : i <= j
IndexHits(order) ==
  (IF order.s # "OK" /\ boOrder # NoOrder THEN {"unread"} ELSE {})
  \cup (IF order.s = "OK" /\ Indices \subseteq Range(order.v) THEN {"full"} ELSE {})

\* BootOptionToLoadOptionVariable.
Stores(i, opt, hits) ==
  \/ /\ boStore' = [boStore EXCEPT ![i] = Packed(opt)] /\ boHits' = boHits \cup hits /\ UNCHANGED boFaults
  \/ /\ BoFault /\ boHits' = boHits \cup hits \cup {"lost"} /\ UNCHANGED boStore
BootOptionCreate(opt) ==
  /\ BoOp
  /\ \E readable \in BOOLEAN :
       LET order == GetEnvironmentVariable(boOrder, readable)
           i     == BootOptionAllocateBootIndex(order)
       IN /\ readable \/ boFaults < BoMaxFaults
          /\ Stores(i, opt, IndexHits(order)) /\ boNew' = [index |-> i, opt |-> opt]
          /\ boMeant' = [boMeant EXCEPT ![i] = opt]
  /\ boPc' = "order" /\ UNCHANGED <<boOrder, boRead>>
BootOptionUpdate(i, opt) ==
  /\ BoOp /\ boOrder # NoOrder /\ i \in Range(boOrder) /\ Stores(i, opt, {})
  /\ boMeant' = [boMeant EXCEPT ![i] = opt] /\ UNCHANGED <<boPc, boNew, boOrder, boRead>>

\* The new index at the end of BootOrder, or a new BootOrder.
AddToBootOrder ==
  /\ boPc = "order" /\ boPc' = "idle"
  /\ \E readable \in BOOLEAN :
       LET order == GetEnvironmentVariable(boOrder, readable)
       IN /\ readable \/ boFaults < BoMaxFaults
          /\ boHits' = boHits \cup IF readable \/ boOrder = NoOrder THEN {} ELSE {"unread"}
          /\ \/ boOrder' = Append(order.v, boNew.index) /\ UNCHANGED boFaults
             \/ UNCHANGED boOrder /\ BoFault
  /\ UNCHANGED <<boStore, boNew, boMeant, boRead, boOps>>

\* BootOptionFromLoadOptionIndex.
BootOptionFromLoadOptionVariable(i) == BootOptionParseLoadOption(boStore[i])
BootOptionFromLoadOptionIndex(i) ==
  /\ BoOp /\ boRead' = BootOptionFromLoadOptionVariable(i)
  /\ UNCHANGED <<boStore, boOrder, boPc, boNew, boMeant, boHits, boFaults>>

\* Others write the variables too: an operating system takes an option out of BootOrder,
\* with its variable or without.  The power is lost between the two writes.
Unlist(i) ==
  /\ BoOp /\ boOrder # NoOrder
  /\ \E k \in DOMAIN boOrder : boOrder[k] = i /\ boOrder' = RemoveAt(boOrder, k)
  /\ boStore' \in {boStore, [boStore EXCEPT ![i] = None]}
  /\ UNCHANGED <<boPc, boNew, boMeant, boRead, boHits, boFaults>>
BoPowerLoss ==
  /\ boPc = "order" /\ BoFault /\ boPc' = "idle"
  /\ UNCHANGED <<boStore, boOrder, boNew, boMeant, boRead, boHits, boOps>>

BoOver == boPc = "idle" /\ boOps = BoMaxOps /\ UNCHANGED boVars
BoNext ==
  \/ \E opt \in BoContents : BootOptionCreate(opt)
  \/ \E i \in Indices : BootOptionFromLoadOptionIndex(i) \/ Unlist(i) \/ \E opt \in BoContents : BootOptionUpdate(i, opt)
  \/ AddToBootOrder \/ BoPowerLoss \/ BoOver
BoSpec == BoInit /\ [][BoNext]_boVars

-------------------------------------------------------------------------------
\* Every option that BootOrder lists is there, once, and is what was stored under its
\* index last: a creation takes no index that is in use.  Unless a write was lost,
\* BootOrder could not be read, or all the indices were taken.
BootOptionsKept ==
  boHits = {} /\ boOrder # NoOrder =>
    /\ \A i \in Range(boOrder) : BootOptionFromLoadOptionVariable(i) = boMeant[i]
    /\ \A j, k \in DOMAIN boOrder : boOrder[j] = boOrder[k] => j = k
===============================================================================
