-------------------------------- MODULE MCSdMmc -------------------------------
(*****************************************************************************)
(* Model checking of the slots and of the transfers of the SD/MMC driver,    *)
(* each by itself: SdMmcBlockIo sees the resets of its slot as SlotReset.    *)
(*****************************************************************************)
EXTENDS SdMmcSlots, SdMmcBlockIo

VARIABLE part

sdVars == <<part, vars, ioVars>>

\* One state for the part that does not run.
SlotsHeld == Init /\ card = [h \in Hosts |-> "none"]
IoHeld    == IoInit /\ media = NoMedia /\ req = [dir |-> "read", id |-> 0, lba |-> 0, size |-> 0]

SdInit ==
  \/ part = "slots" /\ Init /\ IoHeld
  \/ part = "io"    /\ SlotsHeld /\ IoInit

SdNext ==
  \/ part = "slots" /\ Next   /\ UNCHANGED <<part, ioVars>>
  \/ part = "io"    /\ IoNext /\ UNCHANGED <<part, vars>>

SdSpec == SdInit /\ [][SdNext]_sdVars /\ SlotsFairness
===============================================================================
