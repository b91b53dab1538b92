------------------------------ MODULE LcdPlatform -----------------------------
(*****************************************************************************)
(* The platform half of the graphics output driver, in its four versions:    *)
(* PL111 and HDLCD on the Versatile Express boards, Mali DP on the models    *)
(* and HDLCD on Juno.  The graphics output driver (external) initialises the *)
(* display, asks for the frame buffer and sets modes.                        *)
(*                                                                           *)
(* A setting holds the number of the mode it was last set for, the           *)
(* multiplexer the site it shows.  A refused setting may have been carried   *)
(* out.  A call is one step: nothing runs between its writes, and it may     *)
(* fail at each of them.  ASSERTs are those of a release build; lcdBoard     *)
(* says whether the clock is probed first, as debug builds do.               *)
(*****************************************************************************)
EXTENDS Integers, Sequences

CONSTANTS
  LcdTable,   \* the number of modes in mDisplayModes
  LcdMaxMode, \* the PCD that limits them, 0 for none
  LcdClocks,  \* the number of clocks the SCP knows
  HdLcdClock  \* the number of the HDLCD's clock, ARM_JUNO_CSS_CLKID_HDLCD_0

ASSUME LcdAssumption ==
  /\ LcdTable \in Nat \ {0} /\ LcdMaxMode \in 0..LcdTable
  /\ LcdClocks \in Nat /\ HdLcdClock \in 0..(LcdClocks - 1)

VARIABLES
  lcdBoard,  \* which library, and how it was built
  lcdReg,    \* the settings of the display's path
  lcdEdid,   \* the EDID protocols are installed
  lcdHeld,   \* the DRAM frame buffers allocated, by address
  lcdWc,     \* the addresses marked write-combining
  lcdVram,   \* the DRAM frame buffers handed to the driver
  lcdMode,   \* the mode of the last LcdPlatformSetMode that succeeded, or NoMode
  lcdRet     \* what the last call returned

lcdVars == <<lcdBoard, lcdReg, lcdEdid, lcdHeld, lcdWc, lcdVram, lcdMode, lcdRet>>

NoMode    == -1
LcdAddresses == {"tile", "low", "wide"}
LcdSettings  == {"OSC", "OSC_SITE1", "DVIMODE", "MUXFPGA"} \union {"CLOCK"}
Boards ==
  [lib : {"PL111"}, site : {"MOTHERBOARD", "DAUGHTERBOARD_1", "DAUGHTERBOARD_2"}, dvi : BOOLEAN, format : BOOLEAN]
  \union [lib : {"HdLcd"}, base : {"none", "tile"}, format : BOOLEAN]
  \union [lib : {"MaliDp"}, base : {"none", "low", "wide"}, format : BOOLEAN]
  \union [lib : {"Juno"}, base : {"none", "low"}, debug : BOOLEAN, format : BOOLEAN]

LcdInit ==
  /\ lcdBoard \in Boards
  /\ lcdReg = [r \in LcdSettings |-> IF r = "MUXFPGA" THEN "none" ELSE NoMode]
  /\ lcdEdid = FALSE /\ lcdHeld = {} /\ lcdWc = {} /\ lcdVram = {}
  /\ lcdMode = NoMode /\ lcdRet = "SUCCESS"

-----------------------------------------------------------------------------
(* LcdPlatformInitializeDisplay.                                             *)

\* The multiplexer, then the EDID protocols; either may fail.
ShowSite(site) ==
  \E muxed, shown, installed \in BOOLEAN :
    /\ muxed => shown
    /\ lcdReg' = IF shown THEN [lcdReg EXCEPT !["MUXFPGA"] = site] ELSE lcdReg
    /\ installed => muxed /\ ~lcdEdid
    /\ lcdEdid' = (lcdEdid \/ installed)
    /\ lcdRet' = IF installed THEN "SUCCESS" ELSE "DEVICE_ERROR"

Pl111InitializeDisplay ==
  /\ lcdBoard.lib = "PL111"
  /\ IF lcdBoard.format THEN ShowSite(lcdBoard.site)
     ELSE lcdRet' = "UNSUPPORTED" /\ UNCHANGED <<lcdReg, lcdEdid>>
  /\ UNCHANGED <<lcdBoard, lcdHeld, lcdWc, lcdVram, lcdMode>>

HdLcdInitializeDisplay ==
  /\ lcdBoard.lib = "HdLcd"
  /\ IF lcdBoard.format THEN ShowSite("DAUGHTERBOARD_1")
     ELSE lcdRet' = "UNSUPPORTED" /\ UNCHANGED <<lcdReg, lcdEdid>>
  /\ UNCHANGED <<lcdBoard, lcdHeld, lcdWc, lcdVram, lcdMode>>

\* Mali DP and Juno only check the pixel format.
MaliDpInitializeDisplay ==
  /\ lcdBoard.lib \in {"MaliDp", "Juno"}
  /\ lcdRet' = IF lcdBoard.format THEN "SUCCESS" ELSE "UNSUPPORTED"
  /\ UNCHANGED <<lcdBoard, lcdReg, lcdEdid, lcdHeld, lcdWc, lcdVram, lcdMode>>

-----------------------------------------------------------------------------
(* LcdPlatformGetVram.                                                       *)

VramFails(status) == lcdRet' = status /\ UNCHANGED <<lcdHeld, lcdWc, lcdVram>>

\* A frame buffer that is not part of the memory UEFI allocates from.
VramReserved == lcdRet' = "SUCCESS" /\ UNCHANGED <<lcdHeld, lcdWc, lcdVram>>

\* The pages are given back when they cannot be made write-combining; the
\* faulty variant keeps them.
MarkUncachedKeeps(a) ==
  \/ /\ lcdWc' = lcdWc \union {a} /\ lcdHeld' = lcdHeld \union {a}
     /\ lcdVram' = lcdVram \union {a} /\ lcdRet' = "SUCCESS"
  \/ lcdHeld' = lcdHeld \union {a} /\ lcdRet' = "DEVICE_ERROR" /\ UNCHANGED <<lcdWc, lcdVram>>
MarkUncached(a) ==
  \/ /\ lcdWc' = lcdWc \union {a} /\ lcdHeld' = lcdHeld \union {a}
     /\ lcdVram' = lcdVram \union {a} /\ lcdRet' = "SUCCESS"
  \/ VramFails("DEVICE_ERROR")

\* AllocatePages finds no memory, or one of the free addresses it may use.
AllocateVram(addresses, valid) ==
  \/ VramFails("OUT_OF_RESOURCES")
  \/ \E a \in addresses \ lcdHeld : IF a \in valid THEN MarkUncached(a) ELSE VramFails("UNSUPPORTED")

Pl111GetVram ==
  /\ lcdBoard.lib = "PL111"
  /\ CASE lcdBoard.site = "MOTHERBOARD"     -> VramReserved
       [] lcdBoard.site = "DAUGHTERBOARD_1" -> AllocateVram({"tile"}, LcdAddresses)
       [] OTHER                             -> VramFails("UNSUPPORTED")
  /\ UNCHANGED <<lcdBoard, lcdReg, lcdEdid, lcdMode>>

HdLcdGetVram ==
  /\ lcdBoard.lib = "HdLcd"
  /\ AllocateVram(IF lcdBoard.base = "none" THEN LcdAddresses ELSE {"tile"}, LcdAddresses)
  /\ UNCHANGED <<lcdBoard, lcdReg, lcdEdid, lcdMode>>

\* Mali DP's registers hold 40 bits of the address.
DpValidBaseAddr == LcdAddresses \ {"wide"}
MaliDpGetVram ==
  /\ lcdBoard.lib = "MaliDp"
  /\ CASE lcdBoard.base = "none"            -> AllocateVram(LcdAddresses, DpValidBaseAddr)
       [] lcdBoard.base \in DpValidBaseAddr -> VramReserved
       [] OTHER                             -> VramFails("UNSUPPORTED")
  /\ UNCHANGED <<lcdBoard, lcdReg, lcdEdid, lcdMode>>

JunoGetVram ==
  /\ lcdBoard.lib = "Juno"
  /\ IF lcdBoard.base = "none" THEN AllocateVram(LcdAddresses, LcdAddresses) ELSE VramReserved
  /\ UNCHANGED <<lcdBoard, lcdReg, lcdEdid, lcdMode>>

-----------------------------------------------------------------------------
(* LcdPlatformSetMode.                                                       *)

LcdPlatformGetMaxMode ==
  CASE lcdBoard.lib = "PL111" -> LcdMaxMode
    [] lcdBoard.lib = "HdLcd" -> LcdTable
    [] OTHER                  -> IF LcdMaxMode # 0 THEN LcdMaxMode ELSE LcdTable

\* The first k settings of w, over those of before.
Written(w, k) ==
  [r \in LcdSettings |-> IF \E i \in 1..k : w[i][1] = r
                         THEN w[CHOOSE i \in 1..k : w[i][1] = r][2] ELSE lcdReg[r]]

\* The settings are made in order up to the first that is refused; the faulty
\* variant returns the status of the last one.
WriteSettingsBlind(m, w) ==
  \/ lcdReg' = Written(w, Len(w)) /\ lcdMode' = m /\ lcdRet' = "SUCCESS"
  \/ lcdReg' = Written(Tail(w), Len(w) - 1) /\ lcdMode' = m /\ lcdRet' = "SUCCESS"
  \/ lcdReg' = Written(w, Len(w) - 1) /\ lcdMode' = NoMode /\ lcdRet' = "DEVICE_ERROR"
WriteSettings(m, w) ==
  \/ lcdReg' = Written(w, Len(w)) /\ lcdMode' = m /\ lcdRet' = "SUCCESS"
  \/ \E k \in 0..(Len(w) - 1), carried \in {0, 1} :
       lcdReg' = Written(w, k + carried) /\ lcdMode' = NoMode /\ lcdRet' = "DEVICE_ERROR"

ModeRefused(status) == lcdRet' = status /\ UNCHANGED <<lcdReg, lcdMode>>

\* The oscillator, the DVI mode (the models have no DVI output), the multiplexer.
Pl111Oscillator == IF lcdBoard.site = "MOTHERBOARD" THEN "OSC" ELSE "OSC_SITE1"
Pl111Settings(m) ==
  IF lcdBoard.dvi THEN <<<<Pl111Oscillator, m>>, <<"DVIMODE", m>>, <<"MUXFPGA", lcdBoard.site>>>>
                  ELSE <<<<Pl111Oscillator, m>>, <<"MUXFPGA", lcdBoard.site>>>>
Pl111SetMode(m) ==
  /\ lcdBoard.lib = "PL111"
  /\ CASE m >= LcdPlatformGetMaxMode        -> ModeRefused("INVALID_PARAMETER")
       [] lcdBoard.site = "DAUGHTERBOARD_2" -> ModeRefused("UNSUPPORTED")
       [] OTHER                             -> WriteSettings(m, Pl111Settings(m))
  /\ UNCHANGED <<lcdBoard, lcdEdid, lcdHeld, lcdWc, lcdVram>>

HdLcdSetMode(m) ==
  /\ lcdBoard.lib = "HdLcd"
  /\ IF m >= LcdPlatformGetMaxMode THEN ModeRefused("INVALID_PARAMETER")
     ELSE WriteSettings(m, <<<<"OSC_SITE1", m>>, <<"DVIMODE", m>>, <<"MUXFPGA", "DAUGHTERBOARD_1">>>>)
  /\ UNCHANGED <<lcdBoard, lcdEdid, lcdHeld, lcdWc, lcdVram>>

\* The models need no settings.
MaliDpSetMode(m) ==
  /\ lcdBoard.lib = "MaliDp"
  /\ IF m >= LcdPlatformGetMaxMode THEN ModeRefused("INVALID_PARAMETER")
     ELSE lcdMode' = m /\ lcdRet' = "SUCCESS" /\ UNCHANGED lcdReg
  /\ UNCHANGED <<lcdBoard, lcdEdid, lcdHeld, lcdWc, lcdVram>>

\* Asking the SCP for its clocks one by one finds the HDLCD's clock, unless the
\* SCP refuses a question it must answer.  A clock it says nothing of is skipped.
ProbeHdLcdClock ==
  {"UNSUPPORTED", "DEVICE_ERROR"} \union
  LET answered == SUBSET (0..(LcdClocks - 1)) IN
  {IF HdLcdClock \in s THEN "SUCCESS" ELSE "NOT_FOUND" : s \in answered}

\* The clock is set; a debug build asks for it again and returns that answer,
\* so that a mode that was set may be reported as an error.
JunoSetMode(m) ==
  /\ lcdBoard.lib = "Juno"
  /\ \/ m >= LcdPlatformGetMaxMode /\ ModeRefused("INVALID_PARAMETER")
     \/ m < LcdPlatformGetMaxMode /\ ModeRefused("NOT_FOUND") \* no clock protocol
     \/ /\ m < LcdPlatformGetMaxMode
        /\ \E probed \in (IF lcdBoard.debug THEN ProbeHdLcdClock ELSE {"SUCCESS"}) :
             IF probed # "SUCCESS" THEN ModeRefused(probed)
             ELSE \/ WriteSettings(m, <<<<"CLOCK", m>>>>)
                  \/ /\ lcdBoard.debug
                     /\ lcdReg' = [lcdReg EXCEPT !["CLOCK"] = m]
                     /\ lcdMode' = NoMode /\ lcdRet' = "DEVICE_ERROR"
  /\ UNCHANGED <<lcdBoard, lcdEdid, lcdHeld, lcdWc, lcdVram>>

\* What is asked of a mode.
Answered(m) ==
  /\ lcdRet' = IF m >= LcdPlatformGetMaxMode THEN "INVALID_PARAMETER" ELSE "SUCCESS"
  /\ UNCHANGED <<lcdBoard, lcdReg, lcdEdid, lcdHeld, lcdWc, lcdVram, lcdMode>>
LcdPlatformQueryMode(m)  == Answered(m)
LcdPlatformGetTimings(m) == Answered(m)
LcdPlatformGetBpp(m)     == Answered(m)

LcdNext ==
  \/ Pl111InitializeDisplay \/ HdLcdInitializeDisplay \/ MaliDpInitializeDisplay
  \/ Pl111GetVram \/ HdLcdGetVram \/ MaliDpGetVram \/ JunoGetVram
  \/ \E m \in 0..LcdTable :
       \/ Pl111SetMode(m) \/ HdLcdSetMode(m) \/ MaliDpSetMode(m) \/ JunoSetMode(m)
       \/ LcdPlatformQueryMode(m) \/ LcdPlatformGetTimings(m) \/ LcdPlatformGetBpp(m)

LcdSpec == LcdInit /\ [][LcdNext]_lcdVars

-----------------------------------------------------------------------------
\* The settings a picture needs on each board.
LcdPath ==
  CASE lcdBoard.lib = "PL111"  -> {Pl111Oscillator} \union IF lcdBoard.dvi THEN {"DVIMODE"} ELSE {}
    [] lcdBoard.lib = "HdLcd"  -> {"OSC_SITE1", "DVIMODE"}
    [] lcdBoard.lib = "MaliDp" -> {}
    [] lcdBoard.lib = "Juno"   -> {"CLOCK"}

(* After LcdPlatformSetMode has returned success for a mode, and until it is *)
(* called again, every setting of the display's path is that of the mode     *)
(* (PL111LcdArmVExpress.c, LcdPlatformSetMode), and the multiplexer shows    *)
(* the board's own site, however many earlier calls left it half set.        *)
LcdModeSet ==
  lcdMode # NoMode =>
    /\ \A r \in LcdPath : lcdReg[r] = lcdMode
    /\ lcdBoard.lib = "PL111" => lcdReg["MUXFPGA"] = lcdBoard.site
    /\ lcdBoard.lib = "HdLcd" => lcdReg["MUXFPGA"] = "DAUGHTERBOARD_1"

\* What a setting may hold: nothing yet, a mode of the board, or its own site.
ModeValues == {NoMode} \union (0 .. (LcdPlatformGetMaxMode - 1))
SiteValues ==
  {"none"} \union CASE lcdBoard.lib = "PL111" -> {lcdBoard.site}
                    [] lcdBoard.lib = "HdLcd" -> {"DAUGHTERBOARD_1"}
                    [] OTHER                  -> {}

(* A call that fails leaves the display half set, and nothing undoes the     *)
(* settings it made: they are of the mode asked for, the others of earlier   *)
(* calls.  What holds of such a display is that no setting was ever made for *)
(* a mode past the board's last one, or for another site, whatever calls     *)
(* failed and where.                                                         *)
LcdHalfSet ==
  /\ \A r \in LcdSettings \ {"MUXFPGA"} : lcdReg[r] \in ModeValues
  /\ lcdReg["MUXFPGA"] \in SiteValues

(* The DRAM allocated for the display is what LcdPlatformGetVram handed out, *)
(* write-combining and where the controller can reach it: a call that fails  *)
(* half way keeps no memory and hands out none it has freed.                 *)
LcdFrameBuffer ==
  /\ lcdHeld = lcdVram /\ lcdVram \subseteq lcdWc
  /\ lcdBoard.lib = "MaliDp" => lcdVram \subseteq DpValidBaseAddr

(* A display whose mode was set is set in full; one a failed call left half  *)
(* set holds settings of the board's modes, mixed; and in both the frame     *)
(* buffer is memory the firmware still holds.                                *)
LcdConsistent == LcdModeSet /\ LcdHalfSet /\ LcdFrameBuffer
===============================================================================
