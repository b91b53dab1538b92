--------------------------- MODULE MCSdMmcCommand ---------------------------
(* Cards for SdMmcCommand: an SD card, an eMMC that needs more current for a *)
(* wider bus, and cards the driver must turn down.                           *)
EXTENDS SdMmcCommand

Card(kind, hc, size, need) ==
  [kind |-> kind, hc |-> hc, size |-> size, mult |-> 0, blen |-> 1,
   sectors |-> ((size + 1) * 4 * 2) \div BlockLen, need |-> need, tran |-> 50,
   old |-> FALSE, lowv |-> FALSE, id |-> 7]

GoodCards == {Card("sd", FALSE, 1, 0), Card("mmc", TRUE, 2, 1)}
BadCards  == {Card("combo", FALSE, 0, 0), Card("sdio", FALSE, 0, 0),
              [Card("mmc", FALSE, 1, 0) EXCEPT !.old = TRUE],
              [Card("mmc", TRUE, 1, 0) EXCEPT !.lowv = TRUE],
              [Card("sd", TRUE, 1, 0) EXCEPT !.tran = 0]}
AllCards  == GoodCards \cup BadCards
=============================================================================
