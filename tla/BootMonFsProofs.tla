---------------------------- MODULE BootMonFsProofs ----------------------------
(*****************************************************************************)
(* Proofs about BootMonFs.  As long as no hazard has been met, the flash is  *)
(* good and the driver's list mirrors it, and so it is after every write of  *)
(* a flush: a file has a room of whole blocks, from the one where it begins  *)
(* to the one where the next file does, and a flush writes there only.       *)
(*****************************************************************************)
EXTENDS BootMonFs, ListLemmas, TLAPS

-------------------------------------------------------------------------------
(* Blocks and cells. *)

\* The first cell of block b.
BmAt(b) == b * BmBlock

\* Blocks follow one another.
LEMMA BmAtFacts ==
  ASSUME NEW a \in Nat, NEW b \in Nat
  PROVE  /\ BmAt(a) \in Nat /\ BmAt(0) = 0 /\ BmAt(a + 1) = BmAt(a) + BmBlock /\ BmAt(a + b) = BmAt(a) + BmAt(b)
         /\ a < b => BmAt(a) + BmBlock <= BmAt(b)
         /\ a <= b => BmAt(a) <= BmAt(b)
         /\ BmBlock \in Nat /\ BmBlock >= 2 /\ BmLast \in Nat
<1>1. BmBlock \in Nat /\ BmBlock >= 2 /\ BmLast \in Nat
  <2>1. BmBlock \in Nat \ {0, 1} /\ BmLast \in Nat
    BY BootMonFsAssumption, Zenon
  <2> QED  BY <2>1
<1>2. \A k \in Nat : k * BmBlock \in Nat /\ (k # 0 => BmBlock <= k * BmBlock)
  BY <1>1
<1>3. \A j, k \in Nat : (j + k) * BmBlock = j * BmBlock + k * BmBlock /\ 0 * BmBlock = 0 /\ 1 * BmBlock = BmBlock
  BY <1>1
<1>4. a <= b => b - a \in Nat /\ b = a + (b - a)
  OBVIOUS
<1>5. a <= b => BmAt(b) = BmAt(a) + (b - a) * BmBlock
  BY <1>3, <1>4 DEF BmAt
<1>6. BmAt(a) \in Nat /\ BmAt(0) = 0 /\ BmAt(a + 1) = BmAt(a) + BmBlock /\ BmAt(a + b) = BmAt(a) + BmAt(b) /\ BmAt(b) \in Nat
  BY <1>2, <1>3 DEF BmAt
<1>7. a < b => BmAt(a) + BmBlock <= BmAt(b)
  <2> SUFFICES ASSUME a < b PROVE BmAt(a) + BmBlock <= BmAt(b)
    OBVIOUS
  <2>1. b - a \in Nat /\ b - a # 0
    OBVIOUS
  <2>2. BmBlock <= (b - a) * BmBlock /\ (b - a) * BmBlock \in Nat
    BY <1>2, <2>1
  <2> QED  BY <1>1, <1>5, <1>6, <2>2
<1>8. a <= b => BmAt(a) <= BmAt(b)
  BY <1>2, <1>4, <1>5, <1>6
<1> QED  BY <1>1, <1>6, <1>7, <1>8

\* Division by the size of a block.
LEMMA BmDivision ==
  ASSUME NEW n \in Nat
  PROVE  /\ n \div BmBlock \in Nat
         /\ BmAt(n \div BmBlock) <= n /\ n < BmAt(n \div BmBlock) + BmBlock
         /\ n % BmBlock # 0 => BmAt(n \div BmBlock) < n
<1>1. BmBlock \in Nat \ {0}
  BY BmAtFacts
<1>2. n % BmBlock \in 0 .. (BmBlock - 1) /\ n = BmBlock * (n \div BmBlock) + (n % BmBlock) /\ n \div BmBlock \in Int
  BY <1>1
<1>3. n \div BmBlock \in Nat
  <2>1. SUFFICES ASSUME n \div BmBlock <= -1 PROVE FALSE
    BY <1>2
  <2>2. BmBlock * (n \div BmBlock) <= -BmBlock
    BY <1>1, <1>2, <2>1
  <2> QED  BY <1>1, <1>2, <2>2
<1>4. BmAt(n \div BmBlock) = BmBlock * (n \div BmBlock)
  BY <1>1, <1>2 DEF BmAt
<1>5. BmAt(n \div BmBlock) \in Nat
  BY <1>3, BmAtFacts
<1> QED  BY <1>1, <1>2, <1>3, <1>4, <1>5

\* A block is the one its first cell is in.
LEMMA BmBlockOf ==
  ASSUME NEW b \in Nat
  PROVE  BmAt(b) \div BmBlock = b
<1> DEFINE q == BmAt(b) \div BmBlock
<1>1. BmAt(b) \in Nat
  BY BmAtFacts
<1>2. q \in Nat /\ BmAt(q) <= BmAt(b) /\ BmAt(b) < BmAt(q) + BmBlock
  BY <1>1, BmDivision
<1> HIDE DEF q
<1>3. ~ (q < b)
  <2>1. q < b => BmAt(q) + BmBlock <= BmAt(b)
    BY <1>2, BmAtFacts
  <2>2. BmAt(q) \in Nat /\ BmBlock \in Nat
    BY <1>2, BmAtFacts
  <2> QED  BY <1>1, <1>2, <2>1, <2>2
<1>4. ~ (b < q)
  <2>1. b < q => BmAt(b) + BmBlock <= BmAt(q)
    BY <1>2, BmAtFacts
  <2>2. BmAt(q) \in Nat /\ BmBlock \in Nat /\ BmBlock >= 2
    BY <1>2, BmAtFacts
  <2> QED  BY <1>1, <1>2, <2>1, <2>2
<1>5. q = b
  BY <1>2, <1>3, <1>4
<1> QED  BY <1>5 DEF q

\* A description as the driver writes it: it lies in the last cell of its last block, and
\* the data ends before that.
IsDesc(d) ==
  /\ d = [id |-> d.id, name |-> d.name, start |-> d.start, end |-> d.end, size |-> d.size, count |-> 1]
  /\ d.start \in Nat /\ d.end \in Nat /\ d.size \in Nat
  /\ d.start <= d.end /\ d.end <= BmLast
  /\ d.start * BmBlock + d.size <= Address(d)

\* A flash on which every description is that of a file, and no two files share a block.
FlashGood(flash) ==
  /\ \A c \in Cells : flash[c].k = "desc" =>
       flash[c] = DescOf(flash[c].d) /\ IsDesc(flash[c].d) /\ c = Address(flash[c].d)
  /\ \A c, e \in Cells : flash[c].k = "desc" /\ flash[e].k = "desc" /\ c < e =>
       flash[c].d.end < flash[e].d.start

\* A region that waits in memory.
Regions == [off : Nat, size : Nat]

IsFile(f) ==
  /\ f = [id |-> f.id, hw |-> f.hw, addr |-> f.addr, open |-> f.open, name |-> f.name, size |-> f.size,
          pos |-> f.pos, mode |-> f.mode, regs |-> f.regs]
  /\ f.open \in BOOLEAN /\ f.size \in Nat /\ f.pos \in Nat
  /\ f.regs \in Seq(Regions)
  /\ f.open => \A k \in 1 .. Len(f.regs) : f.regs[k].off + f.regs[k].size <= f.size
  /\ \/ f.hw = NoDesc /\ f.addr = 0
     \/ IsDesc(f.hw) /\ f.hw.id = f.id /\ f.addr = Address(f.hw)

ListGood(fs, flash) ==
  /\ \A i \in DOMAIN fs : OnFlash(fs[i]) => flash[Address(fs[i].hw)] = DescOf(fs[i].hw)
  /\ \A c \in Cells : flash[c].k = "desc" => \E i \in DOMAIN fs : OnFlash(fs[i]) /\ fs[i].hw = flash[c].d
  /\ InDiskOrder(fs) /\ ~Unplaced(fs)

\* A list that mirrors the flash.
BmMirror(fs, flash) ==
  /\ FlashGood(flash) /\ ListGood(fs, flash)
  /\ fs \in Seq(ToSet(fs)) /\ \A i \in DOMAIN fs : IsFile(fs[i])

\* The inductive invariant.
BmInv ==
  bmHits = {} =>
    /\ FlashGood(bmFlash)
    /\ bmUp # "scanned" => bmFiles = <<>>
    /\ bmUp = "scanned" => BmMirror(bmFiles, bmFlash)
\* Where a file and its description lie.
LEMMA BmDescPlace ==
  ASSUME NEW d, IsDesc(d)
  PROVE  /\ BmAt(d.start) \in Nat /\ Address(d) \in Nat /\ Address(d) \in Cells /\ Address(d) # 0
         /\ Address(d) = BmAt(d.end + 1) - 1
         /\ Extent(d) = BmAt(d.start) .. Address(d)
         /\ BmAt(d.start) < Address(d)
         /\ BmAt(d.start) + d.size <= Address(d)
         /\ Extent(d) \subseteq Cells
<1>1. d.start \in Nat /\ d.end \in Nat /\ d.size \in Nat /\ d.start <= d.end /\ d.end <= BmLast
  BY DEF IsDesc
<1>2. Address(d) = BmAt(d.end + 1) - 1 /\ Extent(d) = BmAt(d.start) .. Address(d)
  BY DEF Address, BmAt, Extent
<1>3. d.end + 1 \in Nat /\ d.start < d.end + 1 /\ d.end + 1 <= BmLast + 1 /\ BmLast + 1 \in Nat
  <2>1. BmLast \in Nat
    BY BmAtFacts
  <2> QED  BY <1>1, <2>1
<1>4. BmAt(d.start) + BmBlock <= BmAt(d.end + 1) /\ BmBlock \in Nat /\ BmBlock >= 2
  BY <1>1, <1>3, BmAtFacts
<1>5. BmAt(d.end + 1) <= BmAt(BmLast + 1)
  BY <1>3, BmAtFacts
<1>6. BmAt(d.start) \in Nat /\ BmAt(d.end + 1) \in Nat /\ BmAt(BmLast + 1) \in Nat
  BY <1>1, <1>3, BmAtFacts
<1>7. Cells = 0 .. (BmAt(BmLast + 1) - 1)
  BY DEF Cells, BmAt
<1>8. BmAt(d.start) + d.size <= Address(d)
  BY DEF IsDesc, BmAt
<1> HIDE DEF BmAt
<1> QED  BY <1>2, <1>4, <1>5, <1>6, <1>7, <1>8

\* The order of descriptions is that of their blocks.
LEMMA BmDescOrder ==
  ASSUME NEW d, IsDesc(d), NEW e, IsDesc(e)
  PROVE  /\ d.end < e.start => Address(d) < BmAt(e.start)
         /\ d.end < e.start => Extent(d) \cap Extent(e) = {}
         /\ d.end <= e.end => Address(d) <= Address(e)
         /\ d.end < e.end => Address(d) < Address(e)
         /\ d.end < e.start => d.end < e.end
         /\ Address(d) = Address(e) => d.end = e.end
<1>1. d.start \in Nat /\ d.end \in Nat /\ e.start \in Nat /\ e.end \in Nat /\ d.start <= d.end /\ e.start <= e.end
  BY DEF IsDesc
<1>2. Address(d) = BmAt(d.end + 1) - 1 /\ Address(e) = BmAt(e.end + 1) - 1
  BY BmDescPlace
<1>3. Extent(d) = BmAt(d.start) .. Address(d) /\ Extent(e) = BmAt(e.start) .. Address(e)
  BY BmDescPlace
<1>4. d.end + 1 \in Nat /\ e.end + 1 \in Nat
  BY <1>1
<1>5. /\ BmAt(d.end + 1) \in Nat /\ BmAt(e.end + 1) \in Nat /\ BmAt(d.start) \in Nat /\ BmAt(e.start) \in Nat
      /\ BmBlock \in Nat /\ BmBlock >= 2
  BY <1>1, <1>4, BmAtFacts
<1>6. d.end < e.start => BmAt(d.end + 1) <= BmAt(e.start)
  <2>1. d.end < e.start => d.end + 1 <= e.start
    BY <1>1
  <2> QED  BY <1>1, <1>4, <2>1, BmAtFacts
<1>7. d.end < e.end => BmAt(d.end + 1) + BmBlock <= BmAt(e.end + 1)
  <2>1. d.end < e.end => d.end + 1 < e.end + 1
    BY <1>1
  <2> QED  BY <1>4, <2>1, BmAtFacts
<1>8. e.end < d.end => BmAt(e.end + 1) + BmBlock <= BmAt(d.end + 1)
  <2>1. e.end < d.end => e.end + 1 < d.end + 1
    BY <1>1
  <2> QED  BY <1>4, <2>1, BmAtFacts
<1> HIDE DEF Address, Extent
<1>9. d.end < e.start => Address(d) < BmAt(e.start)
  BY <1>2, <1>5, <1>6
<1>10. d.end < e.start => Extent(d) \cap Extent(e) = {}
  BY <1>2, <1>3, <1>5, <1>9
<1>11. d.end < e.end => Address(d) < Address(e)
  BY <1>2, <1>5, <1>7
<1>12. e.end < d.end => Address(e) < Address(d)
  BY <1>2, <1>5, <1>8
<1>13. Address(d) \in Nat /\ Address(e) \in Nat
  BY BmDescPlace
<1>14. d.end <= e.end => Address(d) <= Address(e)
  <2>1. d.end = e.end => Address(d) = Address(e)
    BY <1>2
  <2> QED  BY <1>1, <1>11, <1>13, <2>1
<1>15. Address(d) = Address(e) => d.end = e.end
  BY <1>1, <1>11, <1>12, <1>13
<1>16. d.end < e.start => d.end < e.end
  BY <1>1
<1> QED  BY <1>9, <1>10, <1>11, <1>14, <1>15, <1>16

-------------------------------------------------------------------------------
\* There is a last among the first n numbers.
LEMMA BmLastOf ==
  ASSUME NEW n \in Nat, NEW F \in SUBSET (1 .. n), F # {}
  PROVE  Max(F) \in F /\ \A j \in F : j <= Max(F)
<1> DEFINE G == {k \in 0 .. n : n - k \in F}
<1>1. G \in SUBSET Nat /\ G # {}
  <2>1. PICK j \in F : TRUE
    OBVIOUS
  <2>2. n - j \in 0 .. n /\ n - (n - j) = j
    BY <2>1
  <2>3. n - j \in G
    BY <2>1, <2>2
  <2>4. G \subseteq Nat
    OBVIOUS
  <2> HIDE DEF G
  <2> QED  BY <2>3, <2>4
<1>2. PICK k \in G : \A l \in G : k <= l
  BY <1>1, FirstOf
<1>3. n - k \in F
  BY <1>2
<1>4. ASSUME NEW j \in F
      PROVE  n - k >= j
  <2>1. j \in 1 .. n /\ n - j \in 0 .. n /\ n - (n - j) = j
    BY <1>4
  <2>2. n - j \in G
    BY <2>1
  <2>3. k <= n - j /\ k \in Nat
    BY <1>2, <2>2
  <2> QED  BY <2>1, <2>3
<1>5. Max(F) \in F /\ \A j \in F : Max(F) >= j
  BY <1>3, <1>4, Zenon DEF Max
<1> QED  BY <1>5

\* The smallest of a set of numbers.
LEMMA BmFirstOf ==
  ASSUME NEW F \in SUBSET Nat, F # {}
  PROVE  Min(F) \in F /\ \A j \in F : Min(F) <= j
<1>1. PICK i \in F : \A j \in F : i <= j
  BY FirstOf
<1>2. Min(F) \in F /\ \A j \in F : Min(F) <= j
  BY <1>1, Zenon DEF Min
<1> QED  BY <1>2

\* Before the first write the flash is as it was.
LEMMA BmWrittenNone ==
  ASSUME NEW ws, NEW c \in Cells
  PROVE  Written(ws, 0)[c] = bmFlash[c]
<1>1. 1 .. 0 = {}
  OBVIOUS
<1>2. {j \in 1 .. 0 : c \in Covers(ws[j])} = {}
  BY <1>1
<1> QED  BY <1>2, Zenon DEF Written

\* What one more write does.
LEMMA BmWrittenNext ==
  ASSUME NEW ws, NEW k \in Nat, NEW c \in Cells
  PROVE  Written(ws, k + 1)[c] = IF c \in Covers(ws[k + 1]) THEN ws[k + 1].c ELSE Written(ws, k)[c]
<1> DEFINE js(n) == {j \in 1 .. n : c \in Covers(ws[j])}
<1>1. \A n : Written(ws, n)[c] = IF js(n) = {} THEN bmFlash[c] ELSE ws[Max(js(n))].c
  BY Zenon DEF Written
<1>2. k + 1 \in Nat /\ k + 1 \in 1 .. k + 1 /\ 1 .. k \subseteq 1 .. k + 1 /\ \A j \in 1 .. k + 1 : j = k + 1 \/ j \in 1 .. k
  OBVIOUS
<1>3. CASE c \in Covers(ws[k + 1])
  <2>1. k + 1 \in js(k + 1) /\ js(k + 1) \in SUBSET (1 .. k + 1) /\ js(k + 1) # {}
    BY <1>2, <1>3
  <2>2. Max(js(k + 1)) \in js(k + 1) /\ \A j \in js(k + 1) : j <= Max(js(k + 1))
    <3> HIDE DEF js
    <3> QED  BY <1>2, <2>1, BmLastOf
  <2>3. Max(js(k + 1)) \in 1 .. k + 1 /\ k + 1 <= Max(js(k + 1))
    BY <2>1, <2>2
  <2>4. Max(js(k + 1)) = k + 1
    <3> HIDE DEF js
    <3> QED  BY <2>3
  <2> HIDE DEF js
  <2> QED  BY <1>1, <1>3, <2>1, <2>4, Zenon
<1>4. CASE c \notin Covers(ws[k + 1])
  <2>1. js(k + 1) = js(k)
    BY <1>2, <1>4
  <2> HIDE DEF js
  <2> QED  BY <1>1, <1>4, <2>1
<1> QED  BY <1>3, <1>4

\* The flash depends on the writes done only.
LEMMA BmWrittenSame ==
  ASSUME NEW ws, NEW vs, NEW k \in Nat, \A j \in 1 .. k : ws[j] = vs[j]
  PROVE  Written(ws, k) = Written(vs, k)
<1>1. ASSUME NEW c \in Cells
      PROVE  (IF {j \in 1 .. k : c \in Covers(ws[j])} = {} THEN bmFlash[c]
              ELSE ws[Max({j \in 1 .. k : c \in Covers(ws[j])})].c)
             = (IF {j \in 1 .. k : c \in Covers(vs[j])} = {} THEN bmFlash[c]
                ELSE vs[Max({j \in 1 .. k : c \in Covers(vs[j])})].c)
  <2> DEFINE F == {j \in 1 .. k : c \in Covers(ws[j])}
  <2>1. F = {j \in 1 .. k : c \in Covers(vs[j])}
    OBVIOUS
  <2>2. F \in SUBSET (1 .. k)
    OBVIOUS
  <2> SUFFICES (IF F = {} THEN bmFlash[c] ELSE ws[Max(F)].c) = (IF F = {} THEN bmFlash[c] ELSE vs[Max(F)].c)
    BY <2>1, Zenon
  <2> HIDE DEF F
  <2>3. F # {} => Max(F) \in 1 .. k
    BY <2>2, BmLastOf
  <2> QED  BY <2>3
<1> QED  BY <1>1, Zenon DEF Written

-------------------------------------------------------------------------------
\* The cells of the blocks from lo up to hi.
BmArea(lo, hi) == BmAt(lo) .. BmAt(hi) - 1

\* The blocks from lo up to hi are free, but for those of the file f.
BmRoom(lo, hi, f) ==
  /\ lo \in Nat /\ hi \in Nat /\ hi <= BmLast + 1
  /\ IsFile(f)
  /\ OnFlash(f) => f.hw.start = lo /\ f.hw.end < hi /\ bmFlash[Address(f.hw)] = DescOf(f.hw)
  /\ \A c \in Cells : bmFlash[c].k = "desc" =>
       bmFlash[c].d.end < lo \/ bmFlash[c].d.start >= hi \/ (OnFlash(f) /\ bmFlash[c].d = f.hw)

\* The flash g in the middle of a flush of the file f into these blocks: elsewhere it is
\* what it was, and the only description there is cur, of the same file.  Where the file
\* was before nothing has been written but its data.
BmMid(g, lo, hi, f, cur) ==
  /\ \A c \in Cells : c \notin BmArea(lo, hi) => g[c] = bmFlash[c]
  /\ \A c \in Cells : c \in BmArea(lo, hi) /\ g[c].k = "desc" => cur.count > 0 /\ c = Address(cur) /\ g[c] = DescOf(cur)
  /\ cur.count > 0 => IsDesc(cur) /\ cur.start = lo /\ cur.end < hi /\ cur.id = f.id /\ g[Address(cur)] = DescOf(cur)
  /\ OnFlash(f) => \A c \in Cells :
       c \in BmAt(lo) .. Address(f.hw) - 1 /\ g[c] # bmFlash[c] => g[c].id = f.id

\* A file on the flash has a description.
LEMMA BmOnFlash ==
  ASSUME NEW f, IsFile(f)
  PROVE  /\ OnFlash(f) => IsDesc(f.hw) /\ f.hw.id = f.id /\ f.addr = Address(f.hw) /\ f.hw.count = 1
         /\ ~OnFlash(f) => f.hw = NoDesc /\ f.addr = 0 /\ f.hw.count = 0 /\ f.hw.size = 0
<1>1. NoDesc.count = 0 /\ NoDesc.size = 0
  BY Zenon DEF NoDesc
<1>2. \A d : IsDesc(d) => d.count = 1
  <2> TAKE d
  <2>1. IsDesc(d) => d = [id |-> d.id, name |-> d.name, start |-> d.start, end |-> d.end, size |-> d.size, count |-> 1]
    BY Zenon DEF IsDesc
  <2> QED  BY <2>1
<1>3. (f.hw = NoDesc /\ f.addr = 0) \/ (IsDesc(f.hw) /\ f.hw.id = f.id /\ f.addr = Address(f.hw))
  BY Zenon DEF IsFile
<1> QED  BY <1>1, <1>2, <1>3 DEF OnFlash

\* Before the first write.
LEMMA BmMidInit ==
  ASSUME NEW lo, NEW hi, NEW f, BmRoom(lo, hi, f), FlashGood(bmFlash), NEW g, \A c \in Cells : g[c] = bmFlash[c]
  PROVE  BmMid(g, lo, hi, f, f.hw)
<1>1. lo \in Nat /\ hi \in Nat
  BY DEF BmRoom
<1>2. BmAt(lo) \in Nat /\ BmAt(hi) \in Nat
  BY <1>1, BmAtFacts
<1>3. ASSUME NEW c \in Cells, c \in BmArea(lo, hi), g[c].k = "desc"
      PROVE  OnFlash(f) /\ c = Address(f.hw) /\ g[c] = DescOf(f.hw)
  <2> DEFINE d == bmFlash[c].d
  <2>1. bmFlash[c].k = "desc" /\ bmFlash[c] = DescOf(d) /\ IsDesc(d) /\ c = Address(d)
    BY <1>3 DEF FlashGood
  <2>2. d.end < lo \/ d.start >= hi \/ (OnFlash(f) /\ d = f.hw)
    BY <2>1 DEF BmRoom
  <2>3. d.start \in Nat /\ d.end \in Nat
    BY <2>1 DEF IsDesc
  <2> HIDE DEF d
  <2>4. c = BmAt(d.end + 1) - 1 /\ BmAt(d.start) < c /\ BmAt(d.start) \in Nat /\ c \in Nat
    BY <2>1, BmDescPlace
  <2>5. BmAt(lo) <= c /\ c <= BmAt(hi) - 1
    BY <1>2, <1>3, <2>4 DEF BmArea
  <2>6. ~ (d.end < lo)
    <3>1. d.end < lo => d.end + 1 <= lo /\ d.end + 1 \in Nat
      BY <1>1, <2>3
    <3>2. d.end < lo => BmAt(d.end + 1) <= BmAt(lo) /\ BmAt(d.end + 1) \in Nat
      BY <1>1, <3>1, BmAtFacts
    <3> QED  BY <1>2, <2>4, <2>5, <3>2
  <2>7. ~ (d.start >= hi)
    <3>1. hi <= d.start => BmAt(hi) <= BmAt(d.start)
      BY <1>1, <2>3, BmAtFacts
    <3> QED  BY <1>1, <1>2, <2>3, <2>4, <2>5, <3>1
  <2> QED  BY <1>3, <2>1, <2>2, <2>6, <2>7
<1>4. ASSUME OnFlash(f)
      PROVE  IsDesc(f.hw) /\ f.hw.start = lo /\ f.hw.end < hi /\ f.hw.id = f.id /\ g[Address(f.hw)] = DescOf(f.hw)
  <2>1. IsDesc(f.hw) /\ f.hw.id = f.id
    BY <1>4, BmOnFlash DEF BmRoom
  <2>2. Address(f.hw) \in Cells
    BY <2>1, BmDescPlace
  <2> QED  BY <1>4, <2>1, <2>2 DEF BmRoom
<1> QED  BY <1>3, <1>4, Zenon DEF BmMid, OnFlash

\* What the cells hold.
LEMMA BmContents ==
  /\ Blank.k = "none"
  /\ \A id : DataOf(id).k = "data" /\ DataOf(id).id = id
  /\ \A d : DescOf(d).k = "desc" /\ DescOf(d).id = d.id /\ DescOf(d).d = d
  /\ "none" # "desc" /\ "data" # "desc"
<1>1. Blank.k = "none"
  BY Zenon DEF Blank
<1>2. \A id : DataOf(id).k = "data" /\ DataOf(id).id = id
  BY Zenon DEF DataOf
<1>3. \A d : DescOf(d).k = "desc" /\ DescOf(d).id = d.id /\ DescOf(d).d = d
  BY Zenon DEF DescOf
<1>4. "none" # "desc" /\ "data" # "desc"
  OBVIOUS
<1> QED  BY <1>1, <1>2, <1>3, <1>4

\* Data that is written below the file's description.
LEMMA BmMidData ==
  ASSUME NEW lo \in Nat, NEW hi \in Nat, NEW f, NEW cur, NEW g, BmMid(g, lo, hi, f, cur),
         NEW at \in Nat, NEW n \in Nat, BmAt(lo) <= at, at + n <= BmAt(hi), cur.count > 0 => at + n <= Address(cur),
         NEW h, \A c \in Cells : h[c] = IF c \in Covers(Put(at, n, DataOf(f.id))) THEN DataOf(f.id) ELSE g[c]
  PROVE  BmMid(h, lo, hi, f, cur)
<1>1. Covers(Put(at, n, DataOf(f.id))) = at .. at + n - 1
  BY Zenon DEF Covers, Put
<1>2. BmAt(lo) \in Nat /\ BmAt(hi) \in Nat
  BY BmAtFacts
<1>3. \A c \in Cells : c \in at .. at + n - 1 => c \in BmArea(lo, hi) /\ (cur.count > 0 => c # Address(cur))
  <2>1. cur.count > 0 => IsDesc(cur)
    BY DEF BmMid
  <2>2. cur.count > 0 => Address(cur) \in Nat
    BY <2>1, BmDescPlace
  <2> QED  BY <1>2, <2>2 DEF BmArea
<1> DEFINE D == DataOf(f.id)
<1>4. D.k # "desc" /\ D.id = f.id
  BY BmContents
<1>5. \A c \in Cells : (h[c] = D /\ c \in at .. at + n - 1) \/ (h[c] = g[c] /\ c \notin at .. at + n - 1)
  BY <1>1
<1> HIDE DEF D
<1>6. \A c \in Cells : c \notin BmArea(lo, hi) => h[c] = bmFlash[c]
  BY <1>3, <1>5, Zenon DEF BmMid
<1>7. \A c \in Cells : c \in BmArea(lo, hi) /\ h[c].k = "desc" => cur.count > 0 /\ c = Address(cur) /\ h[c] = DescOf(cur)
  BY <1>3, <1>4, <1>5, Zenon DEF BmMid
<1>8. cur.count > 0 => IsDesc(cur) /\ cur.start = lo /\ cur.end < hi /\ cur.id = f.id /\ h[Address(cur)] = DescOf(cur)
  <2> SUFFICES ASSUME cur.count > 0
               PROVE  IsDesc(cur) /\ cur.start = lo /\ cur.end < hi /\ cur.id = f.id /\ h[Address(cur)] = DescOf(cur)
    OBVIOUS
  <2>1. IsDesc(cur) /\ cur.start = lo /\ cur.end < hi /\ cur.id = f.id /\ g[Address(cur)] = DescOf(cur)
    BY Zenon DEF BmMid
  <2>2. Address(cur) \in Cells
    BY <2>1, BmDescPlace
  <2> QED  BY <1>3, <1>5, <2>1, <2>2
<1>9. OnFlash(f) => \A c \in Cells :
        c \in BmAt(lo) .. Address(f.hw) - 1 /\ h[c] # bmFlash[c] => h[c].id = f.id
  BY <1>4, <1>5, Zenon DEF BmMid
<1> QED  BY <1>6, <1>7, <1>8, <1>9, Zenon DEF BmMid

\* The file's description is taken away.
LEMMA BmMidClear ==
  ASSUME NEW lo \in Nat, NEW hi \in Nat, NEW f, NEW cur, NEW g, BmMid(g, lo, hi, f, cur), hi <= BmLast + 1,
         cur.count > 0, OnFlash(f) => IsDesc(f.hw) /\ f.hw.end <= cur.end,
         NEW h, \A c \in Cells : h[c] = IF c \in Covers(InvalidateImageDescription(Address(cur))) THEN Blank ELSE g[c]
  PROVE  BmMid(h, lo, hi, f, NoDesc)
<1>1. IsDesc(cur) /\ cur.start = lo /\ cur.end < hi
  BY Zenon DEF BmMid
<1>2. Address(cur) \in Nat /\ BmAt(lo) \in Nat /\ BmAt(lo) < Address(cur) /\ Address(cur) = BmAt(cur.end + 1) - 1
  BY <1>1, BmDescPlace
<1>3. Address(cur) <= BmAt(hi) - 1
  <2>1. cur.end \in Nat /\ cur.end + 1 \in Nat /\ cur.end + 1 <= hi
    BY <1>1 DEF IsDesc
  <2>2. BmAt(cur.end + 1) <= BmAt(hi) /\ BmAt(hi) \in Nat /\ BmAt(cur.end + 1) \in Nat
    BY <2>1, BmAtFacts
  <2> QED  BY <1>2, <2>2
<1>4. Covers(InvalidateImageDescription(Address(cur))) = {Address(cur)}
  <2>1. Covers(InvalidateImageDescription(Address(cur))) = Address(cur) .. Address(cur) + 1 - 1
    BY Zenon DEF Covers, Put, InvalidateImageDescription
  <2>2. Address(cur) .. Address(cur) + 1 - 1 = {Address(cur)}
    BY <1>2
  <2> QED  BY <2>1, <2>2
<1>5. \A c \in Cells : (h[c] = Blank /\ c = Address(cur)) \/ (h[c] = g[c] /\ c # Address(cur))
  BY <1>4
<1>6. Address(cur) \in BmArea(lo, hi)
  <2>1. BmAt(hi) \in Nat
    BY BmAtFacts
  <2> QED  BY <1>2, <1>3, <2>1 DEF BmArea
<1>7. OnFlash(f) => Address(f.hw) \in Nat /\ Address(f.hw) <= Address(cur)
  BY <1>1, BmDescOrder, BmDescPlace
<1>8. NoDesc.count = 0
  BY Zenon DEF NoDesc
<1>9. \A c \in Cells : c \notin BmArea(lo, hi) => h[c] = bmFlash[c]
  BY <1>5, <1>6, Zenon DEF BmMid
<1>10. \A c \in Cells : c \in BmArea(lo, hi) => h[c].k # "desc"
  BY <1>5, BmContents, Zenon DEF BmMid
<1>11. OnFlash(f) => \A c \in Cells :
         c \in BmAt(lo) .. Address(f.hw) - 1 /\ h[c] # bmFlash[c] => h[c].id = f.id
  <2> SUFFICES ASSUME OnFlash(f), NEW c \in Cells, c \in BmAt(lo) .. Address(f.hw) - 1, h[c] # bmFlash[c]
               PROVE  h[c].id = f.id
    OBVIOUS
  <2>1. c # Address(cur)
    BY <1>2, <1>7
  <2>2. h[c] = g[c]
    BY <1>5, <2>1
  <2> QED  BY <2>2 DEF BmMid
<1>12. ~ (NoDesc.count > 0)
  BY <1>8
<1> QED  BY <1>9, <1>10, <1>11, <1>12, Zenon DEF BmMid

\* The file is described anew.
LEMMA BmMidDesc ==
  ASSUME NEW lo \in Nat, NEW hi \in Nat, NEW f, NEW cur, NEW g, BmMid(g, lo, hi, f, cur), hi <= BmLast + 1,
         NEW new, IsDesc(new), new.start = lo, new.end < hi, new.id = f.id,
         OnFlash(f) => IsDesc(f.hw) /\ f.hw.end <= new.end,
         cur.count > 0 => Address(cur) = Address(new),
         NEW h, \A c \in Cells : h[c] = IF c \in Covers(WriteFileDescription(new)) THEN DescOf(new) ELSE g[c]
  PROVE  BmMid(h, lo, hi, f, new)
<1>1. /\ Address(new) \in Nat /\ BmAt(lo) \in Nat /\ BmAt(lo) < Address(new) /\ Address(new) = BmAt(new.end + 1) - 1
      /\ Address(new) \in Cells
  BY BmDescPlace
<1>2. Address(new) <= BmAt(hi) - 1
  <2>1. new.end \in Nat /\ new.end + 1 \in Nat /\ new.end + 1 <= hi
    BY DEF IsDesc
  <2>2. BmAt(new.end + 1) <= BmAt(hi) /\ BmAt(hi) \in Nat /\ BmAt(new.end + 1) \in Nat
    BY <2>1, BmAtFacts
  <2> QED  BY <1>1, <2>2
<1>3. Covers(WriteFileDescription(new)) = {Address(new)}
  <2>1. Covers(WriteFileDescription(new)) = Address(new) .. Address(new) + 1 - 1
    BY Zenon DEF Covers, Put, WriteFileDescription
  <2>2. Address(new) .. Address(new) + 1 - 1 = {Address(new)}
    BY <1>1
  <2> QED  BY <2>1, <2>2
<1>4. \A c \in Cells : (h[c] = DescOf(new) /\ c = Address(new)) \/ (h[c] = g[c] /\ c # Address(new))
  BY <1>3
<1>5. Address(new) \in BmArea(lo, hi)
  <2>1. BmAt(hi) \in Nat
    BY BmAtFacts
  <2> QED  BY <1>1, <1>2, <2>1 DEF BmArea
<1>6. OnFlash(f) => Address(f.hw) \in Nat /\ Address(f.hw) <= Address(new)
  BY BmDescOrder, BmDescPlace
<1>7. new.count > 0
  <2>1. new = [id |-> new.id, name |-> new.name, start |-> new.start, end |-> new.end, size |-> new.size, count |-> 1]
    BY Zenon DEF IsDesc
  <2> QED  BY <2>1
<1>8. \A c \in Cells : c \notin BmArea(lo, hi) => h[c] = bmFlash[c]
  BY <1>4, <1>5, Zenon DEF BmMid
<1>9. \A c \in Cells : c \in BmArea(lo, hi) /\ h[c].k = "desc" => c = Address(new) /\ h[c] = DescOf(new)
  <2> SUFFICES ASSUME NEW c \in Cells, c \in BmArea(lo, hi), h[c].k = "desc"
               PROVE  c = Address(new) /\ h[c] = DescOf(new)
    OBVIOUS
  <2>1. c = Address(new)
    BY <1>4, Zenon DEF BmMid
  <2> QED  BY <1>4, <2>1
<1>10. OnFlash(f) => \A c \in Cells :
         c \in BmAt(lo) .. Address(f.hw) - 1 /\ h[c] # bmFlash[c] => h[c].id = f.id
  <2> SUFFICES ASSUME OnFlash(f), NEW c \in Cells, c \in BmAt(lo) .. Address(f.hw) - 1, h[c] # bmFlash[c]
               PROVE  h[c].id = f.id
    OBVIOUS
  <2>1. c # Address(new)
    BY <1>1, <1>6
  <2>2. h[c] = g[c]
    BY <1>4, <2>1
  <2> QED  BY <2>2 DEF BmMid
<1>11. h[Address(new)] = DescOf(new)
  BY <1>1, <1>4
<1> QED  BY <1>7, <1>8, <1>9, <1>10, <1>11, Zenon DEF BmMid

-------------------------------------------------------------------------------
\* The description of a file that begins with block lo.
LEMMA BmDescribed ==
  ASSUME NEW lo \in Nat, NEW size \in Nat, NEW f, NEW d, d = Described(f, size, BmAt(lo))
  PROVE  /\ d = [id |-> f.id, name |-> f.name, start |-> lo, end |-> lo + (size + 1) \div BmBlock, size |-> size, count |-> 1]
         /\ d.end <= BmLast => IsDesc(d)
         /\ \A hi \in Nat : (size + 1) % BmBlock # 0 /\ BmAt(lo) + size + 1 <= BmAt(hi) => d.end < hi
<1> DEFINE q == (size + 1) \div BmBlock
<1>1. q \in Nat /\ size + 1 < BmAt(q) + BmBlock /\ ((size + 1) % BmBlock # 0 => BmAt(q) < size + 1)
  BY BmDivision
<1>2. d = [id |-> f.id, name |-> f.name, start |-> lo, end |-> lo + q, size |-> size, count |-> 1]
  BY BmBlockOf, Zenon DEF Described
<1> HIDE DEF q
<1>3. d.id = f.id /\ d.name = f.name /\ d.start = lo /\ d.end = lo + q /\ d.size = size /\ d.count = 1
  BY <1>2
<1>4. lo + q \in Nat /\ lo + q + 1 \in Nat /\ BmAt(lo + q) = BmAt(lo) + BmAt(q) /\ BmAt(lo + q + 1) = BmAt(lo + q) + BmBlock
  BY <1>1, BmAtFacts
<1>5. BmAt(lo) \in Nat /\ BmAt(q) \in Nat /\ BmBlock \in Nat
  BY <1>1, BmAtFacts
<1>6. ASSUME d.end <= BmLast
      PROVE  IsDesc(d)
  <2>1. d.start * BmBlock + d.size <= Address(d)
    <3>1. Address(d) = BmAt(lo + q + 1) - 1 /\ d.start * BmBlock = BmAt(lo)
      BY <1>3, Zenon DEF Address, BmAt
    <3> QED  BY <1>1, <1>3, <1>4, <1>5, <3>1
  <2>2. d = [id |-> d.id, name |-> d.name, start |-> d.start, end |-> d.end, size |-> d.size, count |-> 1]
    BY <1>2, <1>3
  <2>3. d.start \in Nat /\ d.end \in Nat /\ d.size \in Nat /\ d.start <= d.end
    BY <1>1, <1>3
  <2> QED  BY <1>6, <2>1, <2>2, <2>3, Zenon DEF IsDesc
<1>7. ASSUME NEW hi \in Nat, (size + 1) % BmBlock # 0, BmAt(lo) + size + 1 <= BmAt(hi)
      PROVE  d.end < hi
  <2>1. hi <= lo + q => BmAt(hi) <= BmAt(lo + q)
    BY <1>4, BmAtFacts
  <2>2. BmAt(hi) \in Nat
    BY BmAtFacts
  <2> QED  BY <1>1, <1>3, <1>4, <1>5, <1>7, <2>1, <2>2
<1> QED  BY <1>2, <1>6, <1>7 DEF q

\* The writes ws leave nothing but files on the flash, whenever they end, and in the end
\* the file f is described by cur.
BmPath(ws, lo, hi, f, cur) ==
  /\ \E S : ws \in Seq(S)
  /\ \A k \in 0 .. Len(ws) : \E x : BmMid(Written(ws, k), lo, hi, f, x)
  /\ BmMid(Written(ws, Len(ws)), lo, hi, f, cur)

\* No write at all.
LEMMA BmPathInit ==
  ASSUME NEW lo, NEW hi, NEW f, BmRoom(lo, hi, f), FlashGood(bmFlash)
  PROVE  BmPath(<<>>, lo, hi, f, f.hw)
<1>1. <<>> \in Seq({}) /\ Len(<<>>) = 0 /\ 0 .. 0 = {0}
  OBVIOUS
<1>2. \A c \in Cells : Written(<<>>, 0)[c] = bmFlash[c]
  BY BmWrittenNone
<1>3. BmMid(Written(<<>>, 0), lo, hi, f, f.hw)
  BY <1>2, BmMidInit
<1>4. \A k \in 0 .. Len(<<>>) : \E x : BmMid(Written(<<>>, k), lo, hi, f, x)
  BY <1>1, <1>3
<1> QED  BY <1>1, <1>3, <1>4, Zenon DEF BmPath

\* One more write.
LEMMA BmPathNext ==
  ASSUME NEW lo, NEW hi, NEW f, NEW cur, NEW ws, BmPath(ws, lo, hi, f, cur), NEW p, NEW new,
         \A g, h : BmMid(g, lo, hi, f, cur) /\ (\A c \in Cells : h[c] = IF c \in Covers(p) THEN p.c ELSE g[c])
                     => BmMid(h, lo, hi, f, new)
  PROVE  BmPath(Append(ws, p), lo, hi, f, new)
<1>1. PICK S : ws \in Seq(S)
  BY Zenon DEF BmPath
<1> DEFINE T == S \cup {p}
           vs == Append(ws, p)
           n == Len(ws)
<1>2. vs \in Seq(T) /\ Len(vs) = n + 1 /\ n \in Nat /\ vs[n + 1] = p /\ \A j \in 1 .. n : vs[j] = ws[j]
  <2>1. ws \in Seq(T)
    BY <1>1
  <2>2. p \in T
    OBVIOUS
  <2> HIDE DEF T
  <2> QED  BY <2>1, <2>2, AppendProperties
<1> HIDE DEF vs, n
<1>3. \A k \in 0 .. n : Written(vs, k) = Written(ws, k)
  <2> TAKE k \in 0 .. n
  <2>1. k \in Nat /\ \A j \in 1 .. k : vs[j] = ws[j]
    BY <1>2
  <2> QED  BY <2>1, BmWrittenSame
<1>4. n \in 0 .. n /\ \A k \in 0 .. n + 1 : k \in 0 .. n \/ k = n + 1
  BY <1>2
<1>5. BmMid(Written(vs, n), lo, hi, f, cur)
  BY <1>3, <1>4, Zenon DEF BmPath, n
<1>6. \A c \in Cells : Written(vs, n + 1)[c] = IF c \in Covers(p) THEN p.c ELSE Written(vs, n)[c]
  BY <1>2, BmWrittenNext
<1>7. BmMid(Written(vs, n + 1), lo, hi, f, new)
  BY <1>5, <1>6
<1>8. \A k \in 0 .. n : \E x : BmMid(Written(vs, k), lo, hi, f, x)
  BY <1>3, Zenon DEF BmPath, n
<1>9. \A k \in 0 .. Len(vs) : \E x : BmMid(Written(vs, k), lo, hi, f, x)
  BY <1>2, <1>4, <1>7, <1>8
<1>10. BmPath(vs, lo, hi, f, new)
  BY <1>2, <1>7, <1>9, Zenon DEF BmPath
<1> QED  BY <1>10 DEF vs

\* Data, an invalidation and a description as the next write.
LEMMA BmPathWrites ==
  ASSUME NEW lo, NEW hi, NEW f, BmRoom(lo, hi, f), NEW cur, NEW ws, BmPath(ws, lo, hi, f, cur),
         OnFlash(f) /\ cur.count > 0 => f.hw.end <= cur.end
  PROVE  /\ \A at, n \in Nat :
              BmAt(lo) <= at /\ at + n <= BmAt(hi) /\ (cur.count > 0 => at + n <= Address(cur))
                => BmPath(Append(ws, Put(at, n, DataOf(f.id))), lo, hi, f, cur)
         /\ cur.count > 0 => BmPath(Append(ws, InvalidateImageDescription(Address(cur))), lo, hi, f, NoDesc)
         /\ \A new : IsDesc(new) /\ new.start = lo /\ new.end < hi /\ new.id = f.id
                       /\ (OnFlash(f) => f.hw.end <= new.end) /\ (cur.count > 0 => Address(cur) = Address(new))
                     => BmPath(Append(ws, WriteFileDescription(new)), lo, hi, f, new)
<1>1. lo \in Nat /\ hi \in Nat /\ hi <= BmLast + 1 /\ (OnFlash(f) => IsDesc(f.hw))
  BY BmOnFlash DEF BmRoom
<1>2. ASSUME NEW at \in Nat, NEW n \in Nat, BmAt(lo) <= at, at + n <= BmAt(hi), cur.count > 0 => at + n <= Address(cur)
      PROVE  BmPath(Append(ws, Put(at, n, DataOf(f.id))), lo, hi, f, cur)
  <2> DEFINE p == Put(at, n, DataOf(f.id))
  <2>1. p.c = DataOf(f.id)
    BY Zenon DEF Put
  <2>2. ASSUME NEW g, NEW h, BmMid(g, lo, hi, f, cur), \A c \in Cells : h[c] = IF c \in Covers(p) THEN p.c ELSE g[c]
        PROVE  BmMid(h, lo, hi, f, cur)
    <3>1. \A c \in Cells : h[c] = IF c \in Covers(p) THEN DataOf(f.id) ELSE g[c]
      BY <2>1, <2>2, Zenon
    <3> QED  BY <1>1, <1>2, <2>2, <3>1, BmMidData
  <2> HIDE DEF p
  <2>3. BmPath(Append(ws, p), lo, hi, f, cur)
    BY <2>2, BmPathNext
  <2> QED  BY <2>3 DEF p
<1>3. ASSUME cur.count > 0
      PROVE  BmPath(Append(ws, InvalidateImageDescription(Address(cur))), lo, hi, f, NoDesc)
  <2> DEFINE p == InvalidateImageDescription(Address(cur))
  <2>1. p.c = Blank
    BY Zenon DEF Put, InvalidateImageDescription
  <2>2. ASSUME NEW g, NEW h, BmMid(g, lo, hi, f, cur), \A c \in Cells : h[c] = IF c \in Covers(p) THEN p.c ELSE g[c]
        PROVE  BmMid(h, lo, hi, f, NoDesc)
    <3>1. \A c \in Cells : h[c] = IF c \in Covers(p) THEN Blank ELSE g[c]
      BY <2>1, <2>2, Zenon
    <3> QED  BY <1>1, <1>3, <2>2, <3>1, BmMidClear
  <2> HIDE DEF p
  <2>3. BmPath(Append(ws, p), lo, hi, f, NoDesc)
    BY <2>2, BmPathNext
  <2> QED  BY <2>3 DEF p
<1>4. ASSUME NEW new, IsDesc(new), new.start = lo, new.end < hi, new.id = f.id,
             OnFlash(f) => f.hw.end <= new.end, cur.count > 0 => Address(cur) = Address(new)
      PROVE  BmPath(Append(ws, WriteFileDescription(new)), lo, hi, f, new)
  <2> DEFINE p == WriteFileDescription(new)
  <2>1. p.c = DescOf(new)
    BY Zenon DEF Put, WriteFileDescription
  <2>2. ASSUME NEW g, NEW h, BmMid(g, lo, hi, f, cur), \A c \in Cells : h[c] = IF c \in Covers(p) THEN p.c ELSE g[c]
        PROVE  BmMid(h, lo, hi, f, new)
    <3>1. \A c \in Cells : h[c] = IF c \in Covers(p) THEN DescOf(new) ELSE g[c]
      BY <2>1, <2>2, Zenon
    <3> QED  BY <1>1, <1>4, <2>2, <3>1, BmMidDesc
  <2> HIDE DEF p
  <2>3. BmPath(Append(ws, p), lo, hi, f, new)
    BY <2>2, BmPathNext
  <2> QED  BY <2>3 DEF p
<1> QED  BY <1>2, <1>3, <1>4, Zenon

\* Writes that follow others.
LEMMA BmAppend ==
  ASSUME NEW ws, \E S : ws \in Seq(S)
  PROVE  ws \o <<>> = ws /\ (\A p : ws \o <<p>> = Append(ws, p)) /\ (\A p, q : ws \o <<p, q>> = Append(Append(ws, p), q))
<1>1. PICK S : ws \in Seq(S)
  OBVIOUS
<1>2. ws \o <<>> = ws
  BY <1>1
<1>3. ASSUME NEW p PROVE ws \o <<p>> = Append(ws, p)
  <2>1. ws \in Seq(S \cup {p}) /\ <<p>> \in Seq(S \cup {p})
    BY <1>1
  <2> QED  BY <2>1
<1>4. ASSUME NEW p, NEW q PROVE ws \o <<p, q>> = Append(Append(ws, p), q)
  <2>1. ws \in Seq(S \cup {p, q}) /\ <<p, q>> \in Seq(S \cup {p, q}) /\ p \in S \cup {p, q} /\ q \in S \cup {p, q}
    BY <1>1
  <2> QED  BY <2>1
<1> QED  BY <1>2, <1>3, <1>4

-------------------------------------------------------------------------------
\* The file g is f but for its description.
BmSame(g, f) == g = [f EXCEPT !.hw = g.hw, !.addr = g.addr]

\* What FlushRegions knows after some of the regions, unless a hazard was met.
BmFlushed(s, lo, hi, f) ==
  /\ s = [f |-> s.f, ws |-> s.ws, hits |-> s.hits, full |-> s.full]
  /\ s.hits = {} =>
       /\ IsFile(s.f) /\ BmSame(s.f, f)
       /\ BmPath(s.ws, lo, hi, f, s.f.hw)
       /\ OnFlash(f) => OnFlash(s.f) /\ f.hw.end <= s.f.hw.end

\* The fields of a file.
LEMMA BmFileFields ==
  ASSUME NEW a1, NEW a2, NEW a3, NEW a4, NEW a5, NEW a6, NEW a7, NEW a8, NEW a9, NEW h,
         h = [id |-> a1, hw |-> a2, addr |-> a3, open |-> a4, name |-> a5, size |-> a6, pos |-> a7,
              mode |-> a8, regs |-> a9]
  PROVE  /\ h.id = a1 /\ h.hw = a2 /\ h.addr = a3 /\ h.open = a4 /\ h.name = a5 /\ h.size = a6 /\ h.pos = a7
         /\ h.mode = a8 /\ h.regs = a9
OBVIOUS

\* ... and with another description.
LEMMA BmFileExcept ==
  ASSUME NEW a1, NEW a2, NEW a3, NEW a4, NEW a5, NEW a6, NEW a7, NEW a8, NEW a9, NEW h,
         h = [id |-> a1, hw |-> a2, addr |-> a3, open |-> a4, name |-> a5, size |-> a6, pos |-> a7,
              mode |-> a8, regs |-> a9],
         NEW x, NEW y, NEW g, g = [h EXCEPT !.hw = x, !.addr = y]
  PROVE  g = [id |-> a1, hw |-> x, addr |-> y, open |-> a4, name |-> a5, size |-> a6, pos |-> a7,
              mode |-> a8, regs |-> a9]
OBVIOUS

\* The fields of a file that is another but for its description.
LEMMA BmSameFields ==
  ASSUME NEW f, IsFile(f), NEW g, BmSame(g, f)
  PROVE  /\ g.id = f.id /\ g.open = f.open /\ g.name = f.name /\ g.size = f.size /\ g.pos = f.pos
         /\ g.mode = f.mode /\ g.regs = f.regs
         /\ g = [id |-> f.id, hw |-> g.hw, addr |-> g.addr, open |-> f.open, name |-> f.name, size |-> f.size,
                 pos |-> f.pos, mode |-> f.mode, regs |-> f.regs]
<1>1. f = [id |-> f.id, hw |-> f.hw, addr |-> f.addr, open |-> f.open, name |-> f.name, size |-> f.size,
           pos |-> f.pos, mode |-> f.mode, regs |-> f.regs]
  BY Zenon DEF IsFile
<1>2. g = [f EXCEPT !.hw = g.hw, !.addr = g.addr]
  BY DEF BmSame
<1> QED  BY <1>1, <1>2

\* The file g with the description d.
BmAnew(g, d) == [g EXCEPT !.hw = d, !.addr = Address(d)]

\* A file is one with another description too.
LEMMA BmNewDesc ==
  ASSUME NEW f, IsFile(f), NEW g, BmSame(g, f), NEW d, IsDesc(d), d.id = f.id,
         NEW h, h = BmAnew(g, d)
  PROVE  IsFile(h) /\ BmSame(h, f) /\ OnFlash(h) /\ h.hw = d /\ h.addr = Address(d)
<1>1. PICK a1, a2, a3, a4, a5, a6, a7, a8, a9, b2, b3, n :
        /\ a1 = f.id /\ a2 = f.hw /\ a3 = f.addr /\ a4 = f.open /\ a5 = f.name /\ a6 = f.size /\ a7 = f.pos
        /\ a8 = f.mode /\ a9 = f.regs /\ b2 = g.hw /\ b3 = g.addr /\ n = Address(d)
  OBVIOUS
<1>2. f = [id |-> a1, hw |-> a2, addr |-> a3, open |-> a4, name |-> a5, size |-> a6, pos |-> a7, mode |-> a8, regs |-> a9]
  BY <1>1, Zenon DEF IsFile
<1>3. g = [id |-> a1, hw |-> b2, addr |-> b3, open |-> a4, name |-> a5, size |-> a6, pos |-> a7, mode |-> a8, regs |-> a9]
  BY <1>1, BmSameFields, Zenon
<1>4. h = [id |-> a1, hw |-> d, addr |-> n, open |-> a4, name |-> a5, size |-> a6, pos |-> a7, mode |-> a8, regs |-> a9]
  <2>1. h = [g EXCEPT !.hw = d, !.addr = n]
    BY <1>1, Zenon DEF BmAnew
  <2> QED  BY <1>3, <2>1, BmFileExcept, Zenon
<1>5. /\ h.id = a1 /\ h.hw = d /\ h.addr = n /\ h.open = a4 /\ h.name = a5 /\ h.size = a6 /\ h.pos = a7
      /\ h.mode = a8 /\ h.regs = a9
  <2>1. PICK e : e = [id |-> a1, hw |-> d, addr |-> n, open |-> a4, name |-> a5, size |-> a6, pos |-> a7, mode |-> a8, regs |-> a9]
    OBVIOUS
  <2>2. e.id = a1 /\ e.hw = d /\ e.addr = n /\ e.open = a4 /\ e.name = a5 /\ e.size = a6 /\ e.pos = a7
        /\ e.mode = a8 /\ e.regs = a9
    BY <2>1
  <2>3. e = h
    BY <1>4, <2>1, Zenon
  <2> QED  BY <2>2, <2>3, Zenon
<1>6. d.count = 1
  <2>1. d = [id |-> d.id, name |-> d.name, start |-> d.start, end |-> d.end, size |-> d.size, count |-> 1]
    BY Zenon DEF IsDesc
  <2> QED  BY <2>1
<1>7. IsFile(h)
  <2>1. a4 \in BOOLEAN /\ a6 \in Nat /\ a7 \in Nat /\ a9 \in Seq(Regions)
        /\ (a4 => \A k \in 1 .. Len(a9) : a9[k].off + a9[k].size <= a6)
    BY <1>1, Zenon DEF IsFile
  <2>2. h = [id |-> h.id, hw |-> h.hw, addr |-> h.addr, open |-> h.open, name |-> h.name, size |-> h.size,
             pos |-> h.pos, mode |-> h.mode, regs |-> h.regs]
    BY <1>4, <1>5, Zenon
  <2>3. IsDesc(h.hw) /\ h.hw.id = h.id /\ h.addr = Address(h.hw)
    BY <1>1, <1>5, Zenon
  <2> QED  BY <1>5, <2>1, <2>2, <2>3, Zenon DEF IsFile
<1>8. BmSame(h, f)
  <2>1. PICK e : e = [f EXCEPT !.hw = d, !.addr = n]
    OBVIOUS
  <2>2. e = h
    <3>1. e = [id |-> a1, hw |-> d, addr |-> n, open |-> a4, name |-> a5, size |-> a6, pos |-> a7, mode |-> a8, regs |-> a9]
      BY <1>2, <2>1, BmFileExcept, Zenon
    <3> QED  BY <1>4, <3>1, Zenon
  <2> QED  BY <1>5, <2>1, <2>2, Zenon DEF BmSame
<1>9. OnFlash(h)
  BY <1>5, <1>6 DEF OnFlash
<1> QED  BY <1>1, <1>5, <1>7, <1>8, <1>9, Zenon

\* FlushRegion: one region more.
LEMMA BmRegionStep ==
  ASSUME NEW fs, NEW i, NEW lo, NEW hi, NEW f, f = fs[i], BmRoom(lo, hi, f),
         NEW s, BmFlushed(s, lo, hi, f), NEW r \in Regions,
         s.hits = {} /\ HasSpace(fs, i, s.f, BmAt(lo), r.off + r.size + 1) => BmAt(lo) + (r.off + r.size) + 1 <= BmAt(hi),
         NEW t, t = FlushRegion(fs, i, BmAt(lo), BmAt(lo) + f.hw.size, s, r)
  PROVE  BmFlushed(t, lo, hi, f) /\ (t.hits = {} => s.hits = {})
<1> DEFINE z == r.off + r.size
           new == Described(s.f, z, BmAt(lo))
           data == Put(BmAt(lo) + r.off, r.size, DataOf(s.f.id))
           old == IF s.f.addr # 0 THEN <<InvalidateImageDescription(s.f.addr)>> ELSE <<>>
           moved == [s EXCEPT !.ws = @ \o old \o <<data, WriteFileDescription(new)>>, !.f.hw = new, !.f.addr = Address(new),
                              !.hits = @ \cup Hazards(s.f.hw, new)]
<1>1. r.off \in Nat /\ r.size \in Nat /\ z \in Nat
  BY DEF Regions
<1>2. lo \in Nat /\ hi \in Nat /\ hi <= BmLast + 1 /\ IsFile(f) /\ BmAt(lo) \in Nat /\ BmAt(hi) \in Nat
  BY BmAtFacts DEF BmRoom
<1>3. s = [f |-> s.f, ws |-> s.ws, hits |-> s.hits, full |-> s.full]
  BY Zenon DEF BmFlushed
<1>4. t = IF s.full \/ r.size = 0 THEN s
          ELSE IF BmAt(lo) + r.off + r.size < BmAt(lo) + f.hw.size THEN [s EXCEPT !.ws = Append(@, data)]
          ELSE IF ~HasSpace(fs, i, s.f, BmAt(lo), z + 1) THEN [s EXCEPT !.full = TRUE]
          ELSE moved
  BY Zenon DEF FlushRegion
<1> HIDE DEF moved
<1>5. CASE t = s
  BY <1>5
<1>6. CASE t = [s EXCEPT !.full = TRUE]
  <2>1. t = [f |-> s.f, ws |-> s.ws, hits |-> s.hits, full |-> TRUE]
    BY <1>3, <1>6
  <2>2. t.f = s.f /\ t.ws = s.ws /\ t.hits = s.hits /\ t.full = TRUE
    BY <2>1
  <2> QED  BY <2>1, <2>2, Zenon DEF BmFlushed
<1>7. CASE t = [s EXCEPT !.ws = Append(@, data)] /\ BmAt(lo) + r.off + r.size < BmAt(lo) + f.hw.size
  <2>1. t = [f |-> s.f, ws |-> Append(s.ws, data), hits |-> s.hits, full |-> s.full]
    BY <1>3, <1>7
  <2>2. t.f = s.f /\ t.ws = Append(s.ws, data) /\ t.hits = s.hits /\ t.full = s.full
    BY <2>1
  <2>3. ASSUME s.hits = {}
        PROVE  BmPath(Append(s.ws, data), lo, hi, f, s.f.hw)
    <3>1. BmSame(s.f, f) /\ IsFile(s.f) /\ BmPath(s.ws, lo, hi, f, s.f.hw) /\ (OnFlash(f) => OnFlash(s.f) /\ f.hw.end <= s.f.hw.end)
      BY <2>3, Zenon DEF BmFlushed
    <3>2. OnFlash(f)
      <4>1. ~OnFlash(f) => f.hw.size = 0
        BY <1>2, BmOnFlash
      <4>2. f.hw.size # 0
        BY <1>1, <1>2, <1>7
      <4> QED  BY <4>1, <4>2, Zenon
    <3>3. IsDesc(f.hw) /\ IsDesc(s.f.hw) /\ f.hw.start = lo
      BY <1>2, <3>1, <3>2, BmOnFlash DEF BmRoom
    <3>4. Address(f.hw) <= Address(s.f.hw) /\ BmAt(lo) + f.hw.size <= Address(f.hw) /\ f.hw.size \in Nat
          /\ Address(f.hw) \in Nat /\ Address(s.f.hw) \in Nat
      BY <3>1, <3>2, <3>3, BmDescOrder, BmDescPlace DEF IsDesc
    <3>5. Address(s.f.hw) <= BmAt(hi) - 1
      <4>1. BmMid(Written(s.ws, Len(s.ws)), lo, hi, f, s.f.hw)
        BY <3>1, Zenon DEF BmPath
      <4>2. s.f.hw.end < hi
        BY <3>1, <3>2, <4>1 DEF BmMid, OnFlash
      <4>3. s.f.hw.end + 1 \in Nat /\ s.f.hw.end + 1 <= hi
        BY <1>2, <3>3, <4>2 DEF IsDesc
      <4>4. BmAt(s.f.hw.end + 1) <= BmAt(hi) /\ BmAt(s.f.hw.end + 1) \in Nat
        BY <1>2, <4>3, BmAtFacts
      <4>5. Address(s.f.hw) = BmAt(s.f.hw.end + 1) - 1
        BY <3>3, BmDescPlace
      <4> QED  BY <1>2, <4>4, <4>5
    <3>6. s.f.id = f.id
      BY <1>2, <3>1, BmSameFields
    <3> HIDE DEF z, new, old, data
    <3>7. BmAt(lo) + r.off \in Nat /\ BmAt(lo) <= BmAt(lo) + r.off /\ (BmAt(lo) + r.off) + r.size <= BmAt(hi)
          /\ (BmAt(lo) + r.off) + r.size <= Address(s.f.hw)
      <4>1. BmAt(lo) + r.off + r.size < BmAt(lo) + f.hw.size
        BY <1>7, Zenon
      <4>2. f.hw.size \in Nat /\ BmAt(lo) + f.hw.size <= Address(s.f.hw) /\ Address(s.f.hw) <= BmAt(hi) - 1
        BY <1>2, <3>4, <3>5
      <4>3. Address(s.f.hw) \in Nat
        BY <3>4
      <4> QED  BY <1>1, <1>2, <4>1, <4>2, <4>3
    <3>8. data = Put(BmAt(lo) + r.off, r.size, DataOf(f.id))
      BY <3>6, Zenon DEF data
    <3>9. OnFlash(f) /\ s.f.hw.count > 0 => f.hw.end <= s.f.hw.end
      BY <3>1
    <3> QED  BY <1>1, <3>1, <3>7, <3>8, <3>9, BmPathWrites
  <2> HIDE DEF data
  <2> QED  BY <2>1, <2>2, <2>3, Zenon DEF BmFlushed
<1>8. CASE t = moved /\ HasSpace(fs, i, s.f, BmAt(lo), z + 1)
  <2> DEFINE g == [s.f EXCEPT !.hw = new, !.addr = Address(new)]
             vs == s.ws \o old \o <<data, WriteFileDescription(new)>>
  <2>1. t = [f |-> g, ws |-> vs, hits |-> s.hits \cup Hazards(s.f.hw, new), full |-> s.full]
    <3> DEFINE dd == WriteFileDescription(new)
               aa == Address(new)
               hh == Hazards(s.f.hw, new)
    <3>1. t = [s EXCEPT !.ws = @ \o old \o <<data, dd>>, !.f.hw = new, !.f.addr = aa, !.hits = @ \cup hh]
      BY <1>8 DEF moved
    <3> HIDE DEF dd, aa, hh, old, data, new
    <3>2. t = [f |-> [s.f EXCEPT !.hw = new, !.addr = aa], ws |-> s.ws \o old \o <<data, dd>>, hits |-> s.hits \cup hh, full |-> s.full]
      BY <1>3, <3>1
    <3> QED  BY <3>2 DEF dd, aa, hh
  <2> HIDE DEF g, vs
  <2>2. t.f = g /\ t.ws = vs /\ t.hits = s.hits \cup Hazards(s.f.hw, new)
    BY <2>1
  <2>3. ASSUME t.hits = {}
        PROVE  /\ IsFile(g) /\ BmSame(g, f) /\ BmPath(vs, lo, hi, f, g.hw) /\ s.hits = {}
               /\ OnFlash(f) => OnFlash(g) /\ f.hw.end <= g.hw.end
    <3>1. s.hits = {} /\ Hazards(s.f.hw, new) = {}
      BY <2>2, <2>3
    <3>2. BmSame(s.f, f) /\ IsFile(s.f) /\ BmPath(s.ws, lo, hi, f, s.f.hw) /\ (OnFlash(f) => OnFlash(s.f) /\ f.hw.end <= s.f.hw.end)
      BY <3>1, Zenon DEF BmFlushed
    <3>3. BmAt(lo) + z + 1 <= BmAt(hi)
      BY <1>8, <3>1
    <3>4. new.size = z /\ new.id = s.f.id /\ new.start = lo /\ (new.end <= BmLast => IsDesc(new))
          /\ ((z + 1) % BmBlock # 0 => new.end < hi) /\ new.end = lo + (z + 1) \div BmBlock
      <4> HIDE DEF z, data, old
      <4>1. /\ new = [id |-> s.f.id, name |-> s.f.name, start |-> lo, end |-> lo + (z + 1) \div BmBlock, size |-> z, count |-> 1]
            /\ new.end <= BmLast => IsDesc(new)
            /\ \A h \in Nat : (z + 1) % BmBlock # 0 /\ BmAt(lo) + z + 1 <= BmAt(h) => new.end < h
        BY <1>1, <1>2, BmDescribed
      <4> HIDE DEF new
      <4> QED  BY <1>2, <3>3, <4>1
    <3> HIDE DEF new
    <3>5. (z + 1) % BmBlock # 0 /\ (s.f.hw.count > 0 => ~ (new.end < s.f.hw.end))
      <4>1. (new.size + 1) % BmBlock # 0 /\ (s.f.hw.count > 0 => ~ (new.end < s.f.hw.end))
        BY <3>1, Zenon DEF Hazards
      <4> QED  BY <3>4, <4>1
    <3>6. new.end \in Nat /\ new.end < hi /\ new.end <= BmLast /\ IsDesc(new)
      <4>1. (z + 1) \div BmBlock \in Nat
        BY <1>1, BmDivision
      <4>2. BmLast \in Nat
        BY BmAtFacts
      <4> QED  BY <1>2, <3>4, <3>5, <4>1, <4>2
    <3>7. s.f.id = f.id
      BY <1>2, <3>2, BmSameFields
    <3>8. IsFile(g) /\ BmSame(g, f) /\ OnFlash(g) /\ g.hw = new
      <4>1. g = [s.f EXCEPT !.hw = new, !.addr = Address(new)]
        BY DEF g
      <4>2. new.id = f.id
        BY <3>4, <3>7
      <4> HIDE DEF z
      <4>3. PICK b, dd, gg : b = s.f /\ dd = new /\ gg = g
        OBVIOUS
      <4>4. IsFile(f) /\ BmSame(b, f) /\ IsDesc(dd) /\ dd.id = f.id /\ gg = BmAnew(b, dd)
        BY <1>2, <3>2, <3>6, <4>1, <4>2, <4>3, Zenon DEF BmAnew
      <4>5. IsFile(gg) /\ BmSame(gg, f) /\ OnFlash(gg) /\ gg.hw = dd
        BY <4>4, BmNewDesc
      <4> QED  BY <4>3, <4>5, Zenon
    <3>9. OnFlash(f) => OnFlash(s.f) /\ f.hw.end <= new.end
      <4> SUFFICES ASSUME OnFlash(f) PROVE OnFlash(s.f) /\ f.hw.end <= new.end
        OBVIOUS
      <4>1. IsDesc(f.hw) /\ IsDesc(s.f.hw) /\ f.hw.end <= s.f.hw.end /\ s.f.hw.count > 0 /\ OnFlash(s.f)
        BY <1>2, <3>2, BmOnFlash DEF OnFlash
      <4>2. f.hw.end \in Nat /\ s.f.hw.end \in Nat
        BY <4>1 DEF IsDesc
      <4> QED  BY <3>5, <3>6, <4>1, <4>2
    <3>10. PICK x, us : /\ us = s.ws \o old /\ BmPath(us, lo, hi, f, x) /\ x = NoDesc
      <4>1. CASE OnFlash(s.f)
        <5>1. s.f.addr = Address(s.f.hw) /\ s.f.addr # 0 /\ s.f.hw.count > 0
          <6>1. IsDesc(s.f.hw) /\ s.f.addr = Address(s.f.hw) /\ s.f.hw.count = 1
            BY <3>2, <4>1, BmOnFlash
          <6> QED  BY <6>1, BmDescPlace
        <5>2. old = <<InvalidateImageDescription(Address(s.f.hw))>>
          BY <5>1, Zenon
        <5>3. OnFlash(f) /\ s.f.hw.count > 0 => f.hw.end <= s.f.hw.end
          BY <3>2
        <5>4. BmPath(Append(s.ws, InvalidateImageDescription(Address(s.f.hw))), lo, hi, f, NoDesc)
          BY <3>2, <5>1, <5>3, BmPathWrites
        <5>5. \E S : s.ws \in Seq(S)
          BY <3>2, Zenon DEF BmPath
        <5>6. \A p : s.ws \o <<p>> = Append(s.ws, p)
          BY <5>5, BmAppend
        <5> QED  BY <5>2, <5>4, <5>6, Zenon
      <4>2. CASE ~OnFlash(s.f)
        <5>1. s.f.addr = 0 /\ s.f.hw = NoDesc
          BY <3>2, <4>2, BmOnFlash
        <5>2. old = <<>>
          BY <5>1, Zenon
        <5>3. s.ws \o <<>> = s.ws
          BY <3>2, BmAppend, Zenon DEF BmPath
        <5> QED  BY <3>2, <5>1, <5>2, <5>3, Zenon
      <4> QED  BY <4>1, <4>2
    <3>11. x.count = 0 /\ ~ (x.count > 0)
      <4>1. NoDesc.count = 0
        BY Zenon DEF NoDesc
      <4> QED  BY <3>10, <4>1
    <3>12. BmPath(Append(us, data), lo, hi, f, x)
      <4>1. BmAt(lo) + r.off \in Nat /\ BmAt(lo) <= BmAt(lo) + r.off /\ (BmAt(lo) + r.off) + r.size <= BmAt(hi)
        BY <1>1, <1>2, <3>3
      <4>2. data = Put(BmAt(lo) + r.off, r.size, DataOf(f.id))
        BY <3>7
      <4> HIDE DEF data, old, z
      <4> QED  BY <1>1, <3>10, <3>11, <4>1, <4>2, BmPathWrites
    <3>13. BmPath(Append(Append(us, data), WriteFileDescription(new)), lo, hi, f, new)
      <4> HIDE DEF data, old, z
      <4>1. new.id = f.id /\ new.start = lo
        BY <3>4, <3>7
      <4> QED  BY <3>6, <3>9, <3>11, <3>12, <4>1, BmPathWrites
    <3>14. vs = Append(Append(us, data), WriteFileDescription(new))
      <4>1. \E S : us \in Seq(S)
        BY <3>10, Zenon DEF BmPath
      <4>2. \A p, q : us \o <<p, q>> = Append(Append(us, p), q)
        BY <4>1, BmAppend
      <4> QED  BY <3>10, <4>2 DEF vs
    <3> QED  BY <3>1, <3>8, <3>9, <3>13, <3>14, Zenon
  <2>4. t = [f |-> t.f, ws |-> t.ws, hits |-> t.hits, full |-> t.full]
    BY <2>1
  <2> HIDE DEF new, old, data, z
  <2> QED  BY <2>2, <2>3, <2>4, Zenon DEF BmFlushed
<1> HIDE DEF z, new, data, old
<1> QED  BY <1>4, <1>5, <1>6, <1>7, <1>8, Zenon

\* k is the function that FlushRegions is defined by, on the first n regions.
BmLoop(fs, i, start, n, k) ==
  k = [j \in 0 .. n |->
         IF j = 0 THEN [f |-> fs[i], ws |-> <<>>, hits |-> {}, full |-> FALSE]
         ELSE FlushRegion(fs, i, start, start + fs[i].hw.size, k[j - 1], fs[i].regs[j])]

\* It is there.
LEMMA BmLoopExists ==
  ASSUME NEW fs, NEW i, NEW start, NEW n \in Nat
  PROVE  \E k : BmLoop(fs, i, start, n, k)
<1> DEFINE N == {m \in Nat : \E k : BmLoop(fs, i, start, m, k)}
           first == [f |-> fs[i], ws |-> <<>>, hits |-> {}, full |-> FALSE]
           next(v, j) == FlushRegion(fs, i, start, start + fs[i].hw.size, v, fs[i].regs[j])
<1>1. 0 \in N
  <2> DEFINE k == [j \in 0 .. 0 |-> first]
  <2>1. k = [j \in 0 .. 0 |-> IF j = 0 THEN first ELSE next(k[j - 1], j)]
    <3> HIDE DEF first, next
    <3> QED  OBVIOUS
  <2> HIDE DEF k
  <2> QED  BY <2>1 DEF BmLoop
<1>2. ASSUME NEW m \in N
      PROVE  m + 1 \in N
  <2>1. PICK k : BmLoop(fs, i, start, m, k)
    OBVIOUS
  <2>2. k = [j \in 0 .. m |-> IF j = 0 THEN first ELSE next(k[j - 1], j)]
    BY <2>1, Zenon DEF BmLoop
  <2> HIDE DEF first, next
  <2> DEFINE v == next(k[m], m + 1)
             g == [j \in 0 .. m + 1 |-> IF j = m + 1 THEN v ELSE k[j]]
             e(j) == IF j = 0 THEN first ELSE next(g[j - 1], j)
  <2>3. m \in Nat /\ m + 1 \in Nat
    OBVIOUS
  <2>4. ASSUME NEW j \in 0 .. m + 1
        PROVE  g[j] = e(j)
    <3>1. CASE j = m + 1
      <4>1. j # 0 /\ j - 1 = m /\ m \in 0 .. m + 1 /\ m # m + 1
        BY <2>3, <3>1
      <4>2. g[j] = v /\ g[j - 1] = k[m]
        BY <3>1, <4>1
      <4> HIDE DEF g
      <4> QED  BY <3>1, <4>1, <4>2, Zenon
    <3>2. CASE j = 0
      <4>1. 0 # m + 1 /\ 0 \in 0 .. m /\ 0 \in 0 .. m + 1
        BY <2>3
      <4>2. g[0] = k[0]
        BY <4>1
      <4>3. k[0] = first
        BY <2>2, <4>1
      <4> HIDE DEF g
      <4> QED  BY <3>2, <4>2, <4>3
    <3>3. CASE j # 0 /\ j # m + 1
      <4>1. j \in 0 .. m /\ j - 1 \in 0 .. m + 1 /\ j - 1 # m + 1
        BY <2>3, <3>3
      <4>2. g[j] = k[j] /\ g[j - 1] = k[j - 1]
        BY <3>3, <4>1
      <4>3. k[j] = IF j = 0 THEN first ELSE next(k[j - 1], j)
        BY <2>2, <4>1, Zenon
      <4> HIDE DEF g
      <4> QED  BY <4>2, <4>3
    <3> QED  BY <3>1, <3>2, <3>3
  <2>5. g = [j \in 0 .. m + 1 |-> e(j)]
    <3>1. g = [j \in 0 .. m + 1 |-> g[j]]
      OBVIOUS
    <3> HIDE DEF g
    <3> QED  BY <2>4, <3>1, Zenon
  <2> HIDE DEF g
  <2>6. BmLoop(fs, i, start, m + 1, g)
    BY <2>5, Zenon DEF BmLoop, first, next
  <2> QED  BY <2>3, <2>6
<1>3. N = Nat
  <2> HIDE DEF N
  <2>1. N \in SUBSET Nat
    BY DEF N
  <2> QED  BY <1>1, <1>2, <2>1, Counting
<1> QED  BY <1>3

\* The blocks are enough for every region that FlushRegion finds space for: those of a
\* file on the flash end where the next file begins, those of a new one were looked for
\* with its size.
BmSpace(fs, i, lo, hi, f) ==
  \/ OnFlash(f) /\ AppendEnd(fs, i) = BmAt(hi)
  \/ ~OnFlash(f) /\ BmAt(lo) + f.size + 1 <= BmAt(hi)

\* Numbers in a row.
LEMMA BmSums ==
  ASSUME NEW a \in Nat, NEW b \in Nat, NEW n \in Nat, NEW m \in Nat
  PROVE  /\ a + m + 1 <= b /\ n <= m => a + n + 1 <= b
         /\ b - a >= n + 1 => a + n + 1 <= b
         /\ n + 1 <= m /\ a + m <= b => a + n + 1 <= b
OBVIOUS

\* Space that is found is there.
LEMMA BmSpaceIs ==
  ASSUME NEW fs, NEW i, NEW lo, NEW hi, NEW f, BmRoom(lo, hi, f), BmSpace(fs, i, lo, hi, f),
         NEW s, BmFlushed(s, lo, hi, f), s.hits = {}, NEW n \in Nat, n <= f.size,
         HasSpace(fs, i, s.f, BmAt(lo), n + 1)
  PROVE  BmAt(lo) + n + 1 <= BmAt(hi)
<1>1. lo \in Nat /\ hi \in Nat /\ IsFile(f) /\ BmAt(lo) \in Nat /\ BmAt(hi) \in Nat
  BY BmAtFacts DEF BmRoom
<1>2. f.size \in Nat
  BY <1>1, Zenon DEF IsFile
<1>3. PICK a \in Nat, b \in Nat, z \in Nat : a = BmAt(lo) /\ b = BmAt(hi) /\ z = f.size
  BY <1>1, <1>2
<1>4. CASE ~OnFlash(f)
  <2>1. BmAt(lo) + f.size + 1 <= BmAt(hi)
    BY <1>4, Zenon DEF BmSpace
  <2>2. a + z + 1 <= b /\ n <= z
    BY <1>3, <2>1
  <2> QED  BY <1>3, <2>2, BmSums
<1>5. CASE OnFlash(f)
  <2>1. AppendEnd(fs, i) = BmAt(hi)
    BY <1>5, Zenon DEF BmSpace
  <2>2. PICK d : d = s.f.hw
    OBVIOUS
  <2>3. IsDesc(d) /\ d.start = lo /\ d.end < hi /\ d.count > 0
    <3>1. OnFlash(s.f) /\ BmPath(s.ws, lo, hi, f, d)
      BY <1>5, <2>2, Zenon DEF BmFlushed
    <3>2. BmMid(Written(s.ws, Len(s.ws)), lo, hi, f, d)
      BY <3>1, Zenon DEF BmPath
    <3> QED  BY <2>2, <3>1, <3>2 DEF BmMid, OnFlash
  <2>4. lo < hi
    BY <1>1, <2>3 DEF IsDesc
  <2>5. BmAt(lo) <= BmAt(hi)
    BY <1>1, <2>4, BmAtFacts
  <2>6. n + 1 <= Physical(s.f) \/ Gap(BmAt(hi), BmAt(lo)) >= n + 1
    BY <2>1, Zenon DEF HasSpace
  <2>7. CASE Gap(BmAt(hi), BmAt(lo)) >= n + 1
    <3>1. Gap(BmAt(hi), BmAt(lo)) = BmAt(hi) - BmAt(lo)
      BY <1>1, <2>5 DEF Gap
    <3>2. b - a >= n + 1
      BY <1>3, <2>7, <3>1
    <3> QED  BY <1>3, <3>2, BmSums
  <2>8. CASE n + 1 <= Physical(s.f)
    <3>1. d.end \in Nat /\ d.start \in Nat /\ d.start <= d.end
      BY <2>3 DEF IsDesc
    <3>2. Physical(s.f) = (d.end - d.start + 1) * BmBlock
      <4>1. d.count # 0
        BY <2>3
      <4> QED  BY <2>2, <4>1, Zenon DEF Physical
    <3>3. PICK u \in Nat : u = d.end - d.start + 1
      BY <3>1
    <3>4. Physical(s.f) = BmAt(u)
      BY <3>2, <3>3, Zenon DEF BmAt
    <3>5. lo + u <= hi /\ lo + u \in Nat
      BY <1>1, <2>3, <3>1, <3>3
    <3>6. BmAt(lo + u) = BmAt(lo) + BmAt(u) /\ BmAt(lo + u) <= BmAt(hi) /\ BmAt(u) \in Nat
      BY <1>1, <3>3, <3>5, BmAtFacts
    <3>7. PICK m \in Nat : m = BmAt(u)
      BY <3>6
    <3>8. n + 1 <= m /\ a + m <= b
      BY <1>3, <2>8, <3>4, <3>6, <3>7
    <3> QED  BY <1>3, <3>8, BmSums
  <2> QED  BY <2>6, <2>7, <2>8
<1> QED  BY <1>4, <1>5

\* A file is itself.
LEMMA BmSameSelf ==
  ASSUME NEW f, IsFile(f)
  PROVE  BmSame(f, f)
<1>1. PICK a1, a2, a3, a4, a5, a6, a7, a8, a9, x, y :
        /\ a1 = f.id /\ a2 = f.hw /\ a3 = f.addr /\ a4 = f.open /\ a5 = f.name /\ a6 = f.size /\ a7 = f.pos
        /\ a8 = f.mode /\ a9 = f.regs /\ x = f.hw /\ y = f.addr
  OBVIOUS
<1>2. f = [id |-> a1, hw |-> a2, addr |-> a3, open |-> a4, name |-> a5, size |-> a6, pos |-> a7, mode |-> a8, regs |-> a9]
  BY <1>1, Zenon DEF IsFile
<1>3. PICK g : g = [f EXCEPT !.hw = x, !.addr = y]
  OBVIOUS
<1>4. g = [id |-> a1, hw |-> x, addr |-> y, open |-> a4, name |-> a5, size |-> a6, pos |-> a7, mode |-> a8, regs |-> a9]
  BY <1>2, <1>3, BmFileExcept, Zenon
<1>5. f = g
  BY <1>1, <1>2, <1>4, Zenon
<1> QED  BY <1>1, <1>3, <1>5, Zenon DEF BmSame

\* FlushRegions.
LEMMA BmRegions ==
  ASSUME NEW fs, NEW i, NEW lo, NEW hi, NEW f, f = fs[i], BmRoom(lo, hi, f), BmSpace(fs, i, lo, hi, f), f.open,
         FlashGood(bmFlash)
  PROVE  BmFlushed(FlushRegions(fs, i, BmAt(lo)), lo, hi, f)
<1> DEFINE n == Len(f.regs)
           k == CHOOSE k : BmLoop(fs, i, BmAt(lo), n, k)
           N == {m \in Nat : m <= n => BmFlushed(k[m], lo, hi, f)}
<1>1. IsFile(f) /\ f.regs \in Seq(Regions) /\ n \in Nat
  <2>1. IsFile(f)
    BY Zenon DEF BmRoom
  <2>2. f.regs \in Seq(Regions)
    BY <2>1, Zenon DEF IsFile
  <2> QED  BY <2>1, <2>2
<1> HIDE DEF n
<1>2. BmLoop(fs, i, BmAt(lo), n, k)
  BY <1>1, BmLoopExists
<1>3. FlushRegions(fs, i, BmAt(lo)) = k[n]
  BY Zenon DEF FlushRegions, BmLoop, n
<1> HIDE DEF k
<1>4. \A j \in 0 .. n : k[j] = IF j = 0 THEN [f |-> f, ws |-> <<>>, hits |-> {}, full |-> FALSE]
                               ELSE FlushRegion(fs, i, BmAt(lo), BmAt(lo) + f.hw.size, k[j - 1], f.regs[j])
  BY <1>2, Zenon DEF BmLoop
<1>5. 0 \in N
  <2>1. k[0] = [f |-> f, ws |-> <<>>, hits |-> {}, full |-> FALSE]
    <3>1. 0 \in 0 .. n
      BY <1>1
    <3> QED  BY <1>4, <3>1, Zenon
  <2>2. PICK s : s = [f |-> f, ws |-> <<>>, hits |-> {}, full |-> FALSE]
    OBVIOUS
  <2>3. s.f = f /\ s.ws = <<>> /\ s.hits = {} /\ s.full = FALSE
    BY <2>2
  <2>4. BmPath(<<>>, lo, hi, f, f.hw)
    BY BmPathInit
  <2>5. BmSame(f, f)
    BY <1>1, BmSameSelf
  <2>6. OnFlash(f) => f.hw.end <= f.hw.end
    <3>1. OnFlash(f) => f.hw.end \in Nat
      BY <1>1, BmOnFlash DEF IsDesc
    <3> QED  BY <3>1
  <2>7. BmFlushed(s, lo, hi, f)
    BY <1>1, <2>2, <2>3, <2>4, <2>5, <2>6, Zenon DEF BmFlushed
  <2> QED  BY <2>1, <2>2, <2>7
<1>6. ASSUME NEW m \in N
      PROVE  m + 1 \in N
  <2> SUFFICES ASSUME m + 1 <= n
               PROVE  BmFlushed(k[m + 1], lo, hi, f)
    OBVIOUS
  <2>1. m \in Nat /\ m <= n /\ m < n
    BY <1>1
  <2>2. PICK s, t, r : s = k[m] /\ t = k[m + 1] /\ r = f.regs[m + 1]
    OBVIOUS
  <2>3. BmFlushed(s, lo, hi, f)
    BY <2>1, <2>2
  <2>4. m + 1 \in 1 .. n /\ m + 1 \in 0 .. n /\ m + 1 # 0 /\ (m + 1) - 1 = m
    BY <1>1, <2>1
  <2>5. t = FlushRegion(fs, i, BmAt(lo), BmAt(lo) + f.hw.size, s, r)
    BY <1>4, <2>2, <2>4
  <2>6. r \in Regions
    BY <1>1, <2>2, <2>4 DEF n
  <2>7. ASSUME s.hits = {}, HasSpace(fs, i, s.f, BmAt(lo), r.off + r.size + 1)
        PROVE  BmAt(lo) + (r.off + r.size) + 1 <= BmAt(hi)
    <3>1. \A j \in 1 .. Len(f.regs) : f.regs[j].off + f.regs[j].size <= f.size
      BY <1>1, Zenon DEF IsFile
    <3>2. r.off + r.size <= f.size
      BY <2>2, <2>4, <3>1, Zenon DEF n
    <3>3. PICK z : z = r.off + r.size
      OBVIOUS
    <3>4. z \in Nat
      BY <2>6, <3>3 DEF Regions
    <3>5. BmAt(lo) + z + 1 <= BmAt(hi)
      BY <2>3, <2>7, <3>2, <3>3, <3>4, BmSpaceIs
    <3> QED  BY <3>3, <3>5
  <2>8. s.hits = {} /\ HasSpace(fs, i, s.f, BmAt(lo), r.off + r.size + 1) => BmAt(lo) + (r.off + r.size) + 1 <= BmAt(hi)
    BY <2>7, Zenon
  <2>9. BmFlushed(t, lo, hi, f)
    BY <2>3, <2>5, <2>6, <2>8, BmRegionStep
  <2> QED  BY <2>2, <2>9
<1>7. N = Nat
  <2> HIDE DEF N
  <2>1. N \in SUBSET Nat
    BY DEF N
  <2> QED  BY <1>5, <1>6, <2>1, Counting
<1> QED  BY <1>1, <1>3, <1>7

-------------------------------------------------------------------------------
\* The file g with nothing pending.
BmNone(g) == [g EXCEPT !.regs = <<>>]

\* ... is a file.
LEMMA BmNoneFile ==
  ASSUME NEW f, IsFile(f), NEW h, h = BmNone(f)
  PROVE  /\ IsFile(h) /\ h.hw = f.hw /\ h.addr = f.addr /\ h.id = f.id /\ h.open = f.open /\ h.name = f.name
         /\ h.size = f.size /\ h.pos = f.pos /\ h.mode = f.mode /\ h.regs = <<>>
<1>1. PICK a1, a2, a3, a4, a5, a6, a7, a8, a9 :
        /\ a1 = f.id /\ a2 = f.hw /\ a3 = f.addr /\ a4 = f.open /\ a5 = f.name /\ a6 = f.size /\ a7 = f.pos
        /\ a8 = f.mode /\ a9 = f.regs
  OBVIOUS
<1>2. f = [id |-> a1, hw |-> a2, addr |-> a3, open |-> a4, name |-> a5, size |-> a6, pos |-> a7, mode |-> a8, regs |-> a9]
  BY <1>1, Zenon DEF IsFile
<1>3. PICK g : g = [f EXCEPT !.regs = <<>>]
  OBVIOUS
<1>4. g = [id |-> a1, hw |-> a2, addr |-> a3, open |-> a4, name |-> a5, size |-> a6, pos |-> a7, mode |-> a8, regs |-> <<>>]
  BY <1>2, <1>3
<1>5. g = h
  BY <1>3, Zenon DEF BmNone
<1>6. /\ h.id = a1 /\ h.hw = a2 /\ h.addr = a3 /\ h.open = a4 /\ h.name = a5 /\ h.size = a6 /\ h.pos = a7
      /\ h.mode = a8 /\ h.regs = <<>>
  <2>1. /\ g.id = a1 /\ g.hw = a2 /\ g.addr = a3 /\ g.open = a4 /\ g.name = a5 /\ g.size = a6 /\ g.pos = a7
        /\ g.mode = a8 /\ g.regs = <<>>
    BY <1>4
  <2> QED  BY <1>5, <2>1, Zenon
<1>7. IsFile(h)
  <2>1. h = [id |-> h.id, hw |-> h.hw, addr |-> h.addr, open |-> h.open, name |-> h.name, size |-> h.size,
             pos |-> h.pos, mode |-> h.mode, regs |-> h.regs]
    BY <1>4, <1>5, <1>6, Zenon
  <2>2. a4 \in BOOLEAN /\ a6 \in Nat /\ a7 \in Nat /\ ((a2 = NoDesc /\ a3 = 0) \/ (IsDesc(a2) /\ a2.id = a1 /\ a3 = Address(a2)))
    BY <1>1, Zenon DEF IsFile
  <2>3. h.regs \in Seq(Regions) /\ 1 .. Len(h.regs) = {}
    BY <1>6
  <2>4. \A k \in 1 .. Len(h.regs) : h.regs[k].off + h.regs[k].size <= h.size
    BY <2>3, Zenon
  <2> QED  BY <1>6, <2>1, <2>2, <2>3, <2>4, Zenon DEF IsFile
<1> QED  BY <1>1, <1>6, <1>7, Zenon

\* What a flush of f leaves behind in a room from lo to hi, unless a hazard was met.
BmFlushedAll(r, lo, hi, f) ==
  /\ IsFile(r.f) /\ r.f.id = f.id /\ (OnFlash(f) => OnFlash(r.f))
  /\ BmPath(r.ws, lo, hi, f, r.f.hw)

\* r is the end of the flush of f, the file at i, after its regions.
BmEnding(fs, i, lo, f, s, d, r) ==
  /\ f = fs[i] /\ d = Described(f, f.size, BmAt(lo))
  /\ r = FlushEnd(fs, i, d, s) /\ r.hits = {}

\* FlushEnd: the description if name or size differ from it.
LEMMA BmEnd ==
  ASSUME NEW fs, NEW i, NEW lo, NEW hi, NEW f, BmRoom(lo, hi, f), BmSpace(fs, i, lo, hi, f),
         NEW s, BmFlushed(s, lo, hi, f), NEW d, NEW r, BmEnding(fs, i, lo, f, s, d, r)
  PROVE  BmFlushedAll(r, lo, hi, f) /\ r.files = fs /\ r.at = i
<1>1. f = fs[i] /\ d = Described(f, f.size, BmAt(lo)) /\ r = FlushEnd(fs, i, d, s) /\ r.hits = {}
  BY Zenon DEF BmEnding
<1>2. ASSUME s.hits = {}
      PROVE  IsFile(s.f) /\ BmSame(s.f, f) /\ BmPath(s.ws, lo, hi, f, s.f.hw) /\ (OnFlash(f) => OnFlash(s.f) /\ f.hw.end <= s.f.hw.end)
  BY <1>2, Zenon DEF BmFlushed
<1>3. lo \in Nat /\ hi \in Nat /\ IsFile(f)
  BY Zenon DEF BmRoom
<1>4. CASE s.full
  <2>1. r = [s |-> "VolumeFull", files |-> fs, at |-> i, f |-> s.f, ws |-> s.ws, kept |-> Len(s.ws), hits |-> s.hits]
    BY <1>1, <1>4, Zenon DEF FlushEnd
  <2>2. r.f = s.f /\ r.ws = s.ws /\ r.hits = s.hits /\ r.files = fs /\ r.at = i
    BY <2>1
  <2>3. s.f.id = f.id
    BY <1>1, <1>2, <1>3, <2>2, BmSameFields
  <2> QED  BY <1>1, <1>2, <2>2, <2>3, Zenon DEF BmFlushedAll
<1>5. CASE ~s.full /\ ~Late(fs[i], s)
  <2>1. r = [s |-> "OK", files |-> fs, at |-> i, f |-> BmNone(s.f), ws |-> s.ws, kept |-> Len(s.ws), hits |-> s.hits]
    BY <1>1, <1>5, Zenon DEF FlushEnd, BmNone
  <2>2. r.f = BmNone(s.f) /\ r.ws = s.ws /\ r.hits = s.hits /\ r.files = fs /\ r.at = i
    BY <2>1
  <2>3. s.f.id = f.id
    BY <1>1, <1>2, <1>3, <2>2, BmSameFields
  <2>4. IsFile(r.f) /\ r.f.hw = s.f.hw /\ r.f.id = s.f.id
    BY <1>1, <1>2, <2>2, BmNoneFile
  <2> QED  BY <1>1, <1>2, <2>2, <2>3, <2>4, Zenon DEF BmFlushedAll, OnFlash
<1>6. CASE ~s.full /\ Late(fs[i], s)
  <2> DEFINE g == [s.f EXCEPT !.regs = <<>>, !.hw = d, !.addr = Address(d)]
             moved == IF s.f.hw.count > 0 /\ d.end # s.f.hw.end THEN {"moved"} ELSE {}
  <2>1. r = [s |-> "OK", files |-> fs, at |-> i, f |-> g, ws |-> Append(s.ws, WriteFileDescription(d)),
             kept |-> Len(s.ws), hits |-> s.hits \cup Hazards(NoDesc, d) \cup moved]
    BY <1>1, <1>6, Zenon DEF FlushEnd
  <2>2. PICK m, z : m = moved /\ z = Hazards(NoDesc, d)
    OBVIOUS
  <2>3. /\ r.f = g /\ r.ws = Append(s.ws, WriteFileDescription(d)) /\ r.hits = s.hits \cup z \cup m
        /\ r.files = fs /\ r.at = i
    <3> HIDE DEF g, moved
    <3>1. PICK x, y : x = g /\ y = Append(s.ws, WriteFileDescription(d))
      OBVIOUS
    <3>2. r = [s |-> "OK", files |-> fs, at |-> i, f |-> x, ws |-> y, kept |-> Len(s.ws), hits |-> s.hits \cup z \cup m]
      BY <2>1, <2>2, <3>1, Zenon
    <3>3. r.f = x /\ r.ws = y /\ r.hits = s.hits \cup z \cup m /\ r.files = fs /\ r.at = i
      BY <3>2
    <3> QED  BY <3>1, <3>3, Zenon
  <2>4. s.hits = {} /\ z = {} /\ m = {}
    BY <1>1, <2>3
  <2>5. (d.size + 1) % BmBlock # 0
    <3>1. ~ ("exact" \in z)
      BY <2>4
    <3> QED  BY <2>2, <3>1, Zenon DEF Hazards
  <2>6. s.f.hw.count > 0 => d.end = s.f.hw.end
    <3>1. ~ ("moved" \in m)
      BY <2>4
    <3> QED  BY <2>2, <3>1, Zenon
  <2>7. f.size \in Nat
    BY <1>3, Zenon DEF IsFile
  <2>8. /\ d = [id |-> f.id, name |-> f.name, start |-> lo, end |-> lo + (f.size + 1) \div BmBlock, size |-> f.size, count |-> 1]
        /\ d.end <= BmLast => IsDesc(d)
        /\ \A h \in Nat : (f.size + 1) % BmBlock # 0 /\ BmAt(lo) + f.size + 1 <= BmAt(h) => d.end < h
    <3>1. PICK n \in Nat : n = f.size
      BY <2>7
    <3>2. d = Described(f, n, BmAt(lo))
      BY <1>1, <3>1, Zenon
    <3>3. /\ d = [id |-> f.id, name |-> f.name, start |-> lo, end |-> lo + (n + 1) \div BmBlock, size |-> n, count |-> 1]
          /\ d.end <= BmLast => IsDesc(d)
          /\ \A h \in Nat : (n + 1) % BmBlock # 0 /\ BmAt(lo) + n + 1 <= BmAt(h) => d.end < h
      BY <1>3, <3>2, BmDescribed
    <3> QED  BY <3>1, <3>3, Zenon
  <2>9. d.start = lo /\ d.size = f.size /\ d.id = f.id
    BY <2>8
  <2>10. d.end < hi /\ (OnFlash(f) => f.hw.end <= d.end)
    <3>1. CASE s.f.hw.count > 0
      <4>1. BmMid(Written(s.ws, Len(s.ws)), lo, hi, f, s.f.hw)
        BY <1>2, <2>4, Zenon DEF BmPath
      <4>2. s.f.hw.end < hi
        BY <3>1, <4>1, Zenon DEF BmMid
      <4> QED  BY <1>2, <2>4, <2>6, <3>1, <4>2
    <3>2. CASE ~ (s.f.hw.count > 0)
      <4>1. ~OnFlash(f)
        BY <1>2, <2>4, <3>2, Zenon DEF OnFlash
      <4>2. BmAt(lo) + f.size + 1 <= BmAt(hi)
        BY <4>1, Zenon DEF BmSpace
      <4>3. d.end < hi
        BY <1>3, <2>5, <2>8, <2>9, <4>2, Zenon
      <4> QED  BY <4>1, <4>3
    <3> QED  BY <3>1, <3>2
  <2>11. IsDesc(d)
    <3>1. d.end \in Int
      <4>1. PICK q \in Nat : q = (f.size + 1) \div BmBlock
        BY <2>7, BmDivision
      <4>2. d.end = lo + q
        BY <2>8, <4>1
      <4> QED  BY <1>3, <4>1, <4>2
    <3>2. hi <= BmLast + 1 /\ BmLast \in Nat
      BY BmAtFacts, <1>3 DEF BmRoom
    <3>3. d.end <= BmLast
      BY <1>3, <2>10, <3>1, <3>2
    <3> QED  BY <2>8, <3>3
  <2>12. s.f.hw.count > 0 => Address(s.f.hw) = Address(d)
    BY <2>6, Zenon DEF Address
  <2>13. BmPath(r.ws, lo, hi, f, d)
    <3>1. BmPath(Append(s.ws, WriteFileDescription(d)), lo, hi, f, d)
      <4>1. PICK c, w : c = s.f.hw /\ w = s.ws
        OBVIOUS
      <4>2. BmPath(w, lo, hi, f, c) /\ (OnFlash(f) /\ c.count > 0 => f.hw.end <= c.end) /\ (c.count > 0 => Address(c) = Address(d))
        BY <1>2, <2>4, <2>12, <4>1, Zenon
      <4>3. BmPath(Append(w, WriteFileDescription(d)), lo, hi, f, d)
        BY <2>9, <2>10, <2>11, <4>2, BmPathWrites
      <4> QED  BY <4>1, <4>3, Zenon
    <3> QED  BY <2>3, <3>1, Zenon
  <2>14. IsFile(r.f) /\ OnFlash(r.f) /\ r.f.hw = d /\ r.f.id = f.id
    <3>1. PICK h, e : h = BmAnew(s.f, d) /\ e = BmNone(h)
      OBVIOUS
    <3>2. IsFile(h) /\ BmSame(h, f) /\ OnFlash(h) /\ h.hw = d /\ h.addr = Address(d)
      BY <1>2, <1>3, <2>4, <2>9, <2>11, <3>1, BmNewDesc
    <3>3. h.id = f.id
      BY <1>3, <3>2, BmSameFields
    <3>4. IsFile(e) /\ e.hw = h.hw /\ e.id = h.id
      BY <3>1, <3>2, BmNoneFile
    <3>5. g = e
      <4>1. PICK b, n : b = s.f /\ n = Address(d)
        OBVIOUS
      <4>2. h = [b EXCEPT !.hw = d, !.addr = n] /\ e = [h EXCEPT !.regs = <<>>]
        BY <3>1, <4>1, Zenon DEF BmAnew, BmNone
      <4>3. IsFile(b)
        BY <1>2, <2>4, <4>1
      <4>4. PICK a1, a2, a3, a4, a5, a6, a7, a8, a9 :
              b = [id |-> a1, hw |-> a2, addr |-> a3, open |-> a4, name |-> a5, size |-> a6, pos |-> a7, mode |-> a8, regs |-> a9]
        BY <4>3, Zenon DEF IsFile
      <4>5. PICK j : j = [b EXCEPT !.regs = <<>>, !.hw = d, !.addr = n]
        OBVIOUS
      <4>6. h = [id |-> a1, hw |-> d, addr |-> n, open |-> a4, name |-> a5, size |-> a6, pos |-> a7, mode |-> a8, regs |-> a9]
        BY <4>2, <4>4, BmFileExcept, Zenon
      <4>7. e = [id |-> a1, hw |-> d, addr |-> n, open |-> a4, name |-> a5, size |-> a6, pos |-> a7, mode |-> a8, regs |-> <<>>]
        <5>1. e = [h EXCEPT !.regs = <<>>]
          BY <4>2, Zenon
        <5> QED  BY <4>6, <5>1
      <4>8. j = [id |-> a1, hw |-> d, addr |-> n, open |-> a4, name |-> a5, size |-> a6, pos |-> a7, mode |-> a8, regs |-> <<>>]
        BY <4>4, <4>5
      <4>9. j = e
        BY <4>7, <4>8, Zenon
      <4> QED  BY <4>1, <4>5, <4>9, Zenon
    <3>6. r.f = e
      BY <2>3, <3>5, Zenon
    <3> QED  BY <3>2, <3>3, <3>4, <3>6, Zenon DEF OnFlash
  <2> QED  BY <2>3, <2>13, <2>14, Zenon DEF BmFlushedAll
<1> QED  BY <1>4, <1>5, <1>6, Zenon

\* r is the flush of f, the file at i, which begins with block lo.
BmBeginning(fs, i, lo, f, r) == f = fs[i] /\ r = FlushFrom(fs, i, BmAt(lo)) /\ r.hits = {}

\* FlushFrom.
LEMMA BmFrom ==
  ASSUME NEW fs, NEW i, NEW lo, NEW hi, NEW f, BmRoom(lo, hi, f), BmSpace(fs, i, lo, hi, f), f.open,
         FlashGood(bmFlash), NEW r, BmBeginning(fs, i, lo, f, r)
  PROVE  BmFlushedAll(r, lo, hi, f) /\ r.files = fs /\ r.at = i
<1>1. PICK s, d : s = FlushRegions(fs, i, BmAt(lo)) /\ d = Described(f, f.size, BmAt(lo))
  OBVIOUS
<1>2. f = fs[i] /\ r = FlushFrom(fs, i, BmAt(lo)) /\ r.hits = {}
  BY Zenon DEF BmBeginning
<1>3. BmFlushed(s, lo, hi, f)
  BY <1>1, <1>2, BmRegions
<1>4. r = FlushEnd(fs, i, d, s)
  BY <1>1, <1>2, Zenon DEF FlushFrom
<1>5. BmEnding(fs, i, lo, f, s, d, r)
  BY <1>1, <1>2, <1>4, Zenon DEF BmEnding
<1> QED  BY <1>3, <1>5, BmEnd

-------------------------------------------------------------------------------
\* Lists that are put together, hidden from the backends.
BmIsPart(t, s, m, n) == t = SubSeq(s, m, n)
BmIsJoin(e, a, b) == e = a \o b
BmIsRemoved(e, s, i) == e = RemoveAt(s, i)
BmIsInserted(e, s, i, x) == e = InsertAt(s, i, x)

\* A part of a list.
LEMMA BmPart ==
  ASSUME NEW S, NEW s \in Seq(S), NEW m \in Nat, NEW n \in Nat, 1 <= m, m <= n + 1, n <= Len(s),
         NEW t, BmIsPart(t, s, m, n)
  PROVE  t \in Seq(S) /\ Len(t) = n - m + 1 /\ \A q \in 1 .. n - m + 1 : t[q] = s[q + m - 1]
<1>1. (IF m <= n THEN n - m + 1 ELSE 0) = n - m + 1 /\ (\A q \in 1 .. n - m + 1 : m + q - 1 = q + m - 1)
  OBVIOUS
<1>2. \A q \in m .. n : s[q] \in S
  <2>1. Len(s) \in Nat /\ \A q \in 1 .. Len(s) : s[q] \in S
    OBVIOUS
  <2>2. \A q \in m .. n : q \in 1 .. Len(s)
    BY <2>1
  <2> QED  BY <2>1, <2>2, Zenon
<1>3. m \in Int /\ n \in Int
  OBVIOUS
<1>4. /\ SubSeq(s, m, n) \in Seq(S)
      /\ Len(SubSeq(s, m, n)) = IF m <= n THEN n - m + 1 ELSE 0
      /\ \A q \in 1 .. n - m + 1 : SubSeq(s, m, n)[q] = s[m + q - 1]
  BY ONLY <1>2, <1>3, SubSeqProperties
<1>5. /\ t \in Seq(S)
      /\ Len(t) = IF m <= n THEN n - m + 1 ELSE 0
      /\ \A q \in 1 .. n - m + 1 : t[q] = s[m + q - 1]
  BY <1>4, Zenon DEF BmIsPart
<1> QED  BY <1>1, <1>5, Zenon

\* Two lists in a row.
LEMMA BmJoin ==
  ASSUME NEW S, NEW a \in Seq(S), NEW b \in Seq(S), NEW e, BmIsJoin(e, a, b)
  PROVE  /\ e \in Seq(S) /\ Len(e) = Len(a) + Len(b)
         /\ \A q \in 1 .. Len(a) + Len(b) : e[q] = IF q <= Len(a) THEN a[q] ELSE b[q - Len(a)]
<1>1. /\ a \o b \in Seq(S) /\ Len(a \o b) = Len(a) + Len(b)
      /\ \A q \in 1 .. Len(a) + Len(b) : (a \o b)[q] = IF q <= Len(a) THEN a[q] ELSE b[q - Len(a)]
  BY ConcatProperties, Zenon
<1> QED  BY <1>1, Zenon DEF BmIsJoin

\* A list without its element i.
LEMMA BmRemoved ==
  ASSUME NEW S, NEW s \in Seq(S), NEW i \in 1 .. Len(s), NEW e, BmIsRemoved(e, s, i)
  PROVE  /\ e \in Seq(S) /\ Len(e) = Len(s) - 1
         /\ \A q \in 1 .. Len(e) : e[q] = IF q < i THEN s[q] ELSE s[q + 1]
<1>1. PICK n \in Nat, j \in Nat, k \in Nat : n = Len(s) /\ j = i - 1 /\ k = i + 1
  <2>1. Len(s) \in Nat /\ i - 1 \in Nat /\ i + 1 \in Nat
    OBVIOUS
  <2> QED  BY <2>1
<1>2. PICK a, b : BmIsPart(a, s, 1, j) /\ BmIsPart(b, s, k, n)
  BY Zenon DEF BmIsPart
<1>3. BmIsJoin(e, a, b)
  BY <1>1, <1>2, Zenon DEF RemoveAt, BmIsRemoved, BmIsPart, BmIsJoin
<1>4. /\ 1 <= 1 /\ 1 <= j + 1 /\ j <= Len(s) /\ 1 <= k /\ k <= n + 1 /\ n <= Len(s) /\ 1 \in Nat
      /\ j - 1 + 1 = i - 1 /\ n - k + 1 = n - i
      /\ (\A q \in 1 .. i - 1 : q + 1 - 1 = q) /\ (\A q \in 1 .. n - i : q + k - 1 = q + i)
  BY <1>1
<1>5. a \in Seq(S) /\ Len(a) = j - 1 + 1 /\ \A q \in 1 .. j - 1 + 1 : a[q] = s[q + 1 - 1]
  BY <1>1, <1>2, <1>4, BmPart
<1>6. b \in Seq(S) /\ Len(b) = n - k + 1 /\ \A q \in 1 .. n - k + 1 : b[q] = s[q + k - 1]
  <2>1. BmIsPart(b, s, k, n) /\ 1 <= k /\ k <= n + 1 /\ n <= Len(s) /\ s \in Seq(S) /\ k \in Nat /\ n \in Nat
    BY <1>2, <1>4
  <2> QED  BY ONLY <2>1, BmPart
<1>7. Len(a) = i - 1 /\ (\A q \in 1 .. i - 1 : a[q] = s[q]) /\ Len(b) = n - i /\ \A q \in 1 .. n - i : b[q] = s[q + i]
  BY <1>4, <1>5, <1>6
<1>8. /\ e \in Seq(S) /\ Len(e) = Len(a) + Len(b)
      /\ \A q \in 1 .. Len(a) + Len(b) : e[q] = IF q <= Len(a) THEN a[q] ELSE b[q - Len(a)]
  <2>1. a \in Seq(S) /\ b \in Seq(S)
    BY <1>5, <1>6, Zenon
  <2> QED  BY ONLY <1>3, <2>1, BmJoin
<1>9. n \in Nat /\ i \in Nat /\ 1 <= i /\ i <= n
  BY <1>1
<1>10. Len(e) = n - 1
  BY <1>7, <1>8, <1>9
<1>11. ASSUME NEW q \in 1 .. Len(e)
       PROVE  e[q] = IF q < i THEN s[q] ELSE s[q + 1]
  <2>1. q \in 1 .. Len(a) + Len(b) /\ q \in 1 .. n - 1
    BY <1>8, <1>10
  <2>2. CASE q < i
    <3>1. q <= Len(a) /\ q \in 1 .. i - 1
      BY <1>7, <1>9, <2>1, <2>2
    <3> QED  BY <1>7, <1>8, <2>1, <2>2, <3>1
  <2>3. CASE ~ (q < i)
    <3>1. ~ (q <= Len(a)) /\ q - Len(a) \in 1 .. n - i /\ (q - Len(a)) + i = q + 1
      BY <1>7, <1>9, <2>1, <2>3
    <3> QED  BY <1>7, <1>8, <2>1, <2>3, <3>1
  <2> QED  BY <2>2, <2>3
<1> QED  BY <1>1, <1>8, <1>10, <1>11

\* A list with x put in at i.
LEMMA BmInserted ==
  ASSUME NEW S, NEW s \in Seq(S), NEW x \in S, NEW i \in 1 .. Len(s) + 1, NEW e, BmIsInserted(e, s, i, x)
  PROVE  /\ e \in Seq(S) /\ Len(e) = Len(s) + 1
         /\ \A q \in 1 .. Len(e) : e[q] = IF q < i THEN s[q] ELSE IF q = i THEN x ELSE s[q - 1]
<1>1. PICK n \in Nat, j \in Nat : n = Len(s) /\ j = i - 1
  <2>1. Len(s) \in Nat /\ i - 1 \in Nat
    OBVIOUS
  <2> QED  BY <2>1
<1>2. PICK a, b, c : BmIsPart(a, s, 1, j) /\ BmIsPart(b, s, i, n) /\ c = <<x>>
  BY Zenon DEF BmIsPart
<1>3. PICK d : BmIsJoin(d, a, c)
  BY Zenon DEF BmIsJoin
<1>4. BmIsJoin(e, d, b)
  BY <1>1, <1>2, <1>3, Zenon DEF InsertAt, BmIsInserted, BmIsPart, BmIsJoin
<1>5. /\ 1 <= 1 /\ 1 <= j + 1 /\ j <= Len(s) /\ 1 <= i /\ i <= n + 1 /\ n <= Len(s) /\ 1 \in Nat /\ i \in Nat
      /\ j - 1 + 1 = i - 1
      /\ (\A q \in 1 .. i - 1 : q + 1 - 1 = q)
  BY <1>1
<1>6. a \in Seq(S) /\ Len(a) = j - 1 + 1 /\ \A q \in 1 .. j - 1 + 1 : a[q] = s[q + 1 - 1]
  BY <1>1, <1>2, <1>5, BmPart
<1>7. b \in Seq(S) /\ Len(b) = n - i + 1 /\ \A q \in 1 .. n - i + 1 : b[q] = s[q + i - 1]
  BY <1>1, <1>2, <1>5, BmPart
<1>8. Len(a) = i - 1 /\ (\A q \in 1 .. i - 1 : a[q] = s[q])
  BY <1>5, <1>6
<1>9. c \in Seq(S) /\ Len(c) = 1 /\ c[1] = x
  BY <1>2
<1>10. /\ d \in Seq(S) /\ Len(d) = Len(a) + Len(c)
       /\ \A q \in 1 .. Len(a) + Len(c) : d[q] = IF q <= Len(a) THEN a[q] ELSE c[q - Len(a)]
  <2>1. a \in Seq(S) /\ c \in Seq(S)
    BY <1>6, <1>9, Zenon
  <2> QED  BY ONLY <1>3, <2>1, BmJoin
<1>11. /\ e \in Seq(S) /\ Len(e) = Len(d) + Len(b)
       /\ \A q \in 1 .. Len(d) + Len(b) : e[q] = IF q <= Len(d) THEN d[q] ELSE b[q - Len(d)]
  <2>1. d \in Seq(S) /\ b \in Seq(S)
    BY <1>7, <1>10, Zenon
  <2> QED  BY ONLY <1>4, <2>1, BmJoin
<1>12. n \in Nat /\ i \in Nat /\ 1 <= i /\ i <= n + 1
  BY <1>1
<1>13. Len(d) = i /\ Len(e) = n + 1
  BY <1>7, <1>8, <1>9, <1>10, <1>11, <1>12
<1>14. ASSUME NEW q \in 1 .. Len(e)
       PROVE  e[q] = IF q < i THEN s[q] ELSE IF q = i THEN x ELSE s[q - 1]
  <2>1. q \in 1 .. Len(d) + Len(b) /\ q \in 1 .. n + 1 /\ q \in Nat
    BY <1>11, <1>12, <1>13
  <2>2. CASE q < i
    <3>1. q <= Len(d) /\ q <= Len(a) /\ q \in 1 .. i - 1 /\ q \in 1 .. Len(a) + Len(c)
      BY <1>8, <1>9, <1>12, <1>13, <2>1, <2>2
    <3> QED  BY <1>8, <1>10, <1>11, <2>1, <2>2, <3>1
  <2>3. CASE q = i
    <3>1. q <= Len(d) /\ ~ (q <= Len(a)) /\ q - Len(a) = 1 /\ q \in 1 .. Len(a) + Len(c)
      BY <1>8, <1>9, <1>12, <1>13, <2>1, <2>3
    <3>2. e[q] = d[q] /\ d[q] = c[q - Len(a)]
      BY <1>10, <1>11, <2>1, <3>1
    <3> QED  BY <1>9, <1>12, <2>3, <3>1, <3>2
  <2>4. CASE ~ (q < i) /\ q # i
    <3>1. ~ (q <= Len(d)) /\ q - Len(d) \in 1 .. n - i + 1 /\ (q - Len(d)) + i - 1 = q - 1
      BY <1>12, <1>13, <2>1, <2>4
    <3> QED  BY <1>7, <1>11, <2>1, <2>4, <3>1
  <2> QED  BY <2>2, <2>3, <2>4
<1> QED  BY <1>1, <1>11, <1>13, <1>14

-------------------------------------------------------------------------------
\* A description is inside or outside of an area.
LEMMA BmElse ==
  ASSUME NEW lo \in Nat, NEW hi \in Nat, NEW d, IsDesc(d)
  PROVE  /\ d.end < lo \/ d.start >= hi => Extent(d) \cap BmArea(lo, hi) = {} /\ Address(d) \notin BmArea(lo, hi)
         /\ d.start >= lo /\ d.end < hi => Extent(d) \subseteq BmArea(lo, hi) /\ Address(d) \in BmArea(lo, hi)
         /\ Address(d) \in Extent(d)
<1>1. d.start \in Nat /\ d.end \in Nat /\ d.start <= d.end
  BY DEF IsDesc
<1>2. PICK a \in Nat, u \in Nat, l \in Nat, h \in Nat : a = Address(d) /\ u = BmAt(d.start) /\ l = BmAt(lo) /\ h = BmAt(hi)
  <2>1. Address(d) \in Nat /\ BmAt(d.start) \in Nat
    BY BmDescPlace
  <2>2. BmAt(lo) \in Nat /\ BmAt(hi) \in Nat
    BY BmAtFacts
  <2> QED  BY <2>1, <2>2
<1>3. PICK e \in Nat : e = BmAt(d.end + 1)
  <2>1. d.end + 1 \in Nat
    BY <1>1
  <2> QED  BY <2>1, BmAtFacts
<1>4. a = e - 1 /\ u < a /\ Extent(d) = u .. a
  BY <1>2, <1>3, BmDescPlace
<1>5. BmArea(lo, hi) = l .. h - 1
  BY <1>2 DEF BmArea
<1>6. d.end < lo => e <= l
  <2>1. d.end < lo => d.end + 1 <= lo /\ d.end + 1 \in Nat
    BY <1>1
  <2>2. d.end < lo => BmAt(d.end + 1) <= BmAt(lo)
    BY <2>1, BmAtFacts
  <2> QED  BY <1>2, <1>3, <2>2
<1>7. d.start >= hi => h <= u
  <2>1. hi <= d.start => BmAt(hi) <= BmAt(d.start)
    BY <1>1, BmAtFacts
  <2> QED  BY <1>1, <1>2, <2>1
<1>8. d.start >= lo => l <= u
  <2>1. lo <= d.start => BmAt(lo) <= BmAt(d.start)
    BY <1>1, BmAtFacts
  <2> QED  BY <1>1, <1>2, <2>1
<1>9. d.end < hi => e <= h
  <2>1. d.end < hi => d.end + 1 <= hi /\ d.end + 1 \in Nat
    BY <1>1
  <2>2. d.end < hi => BmAt(d.end + 1) <= BmAt(hi)
    BY <2>1, BmAtFacts
  <2> QED  BY <1>2, <1>3, <2>2
<1>10. d.end < lo => \A c \in u .. a : c \notin l .. h - 1
  BY <1>4, <1>6
<1>11. d.start >= hi => \A c \in u .. a : c \notin l .. h - 1
  BY <1>4, <1>7
<1>12. d.start >= lo /\ d.end < hi => \A c \in u .. a : c \in l .. h - 1
  BY <1>4, <1>8, <1>9
<1>13. a \in u .. a
  BY <1>4
<1> QED  BY <1>2, <1>4, <1>5, <1>10, <1>11, <1>12, <1>13

\* Which descriptions are in the room of a file.
LEMMA BmInRoom ==
  ASSUME NEW lo, NEW hi, NEW f, BmRoom(lo, hi, f), FlashGood(bmFlash), NEW c \in Cells, bmFlash[c].k = "desc"
  PROVE  LET d == bmFlash[c].d
         IN /\ IsDesc(d) /\ c = Address(d) /\ bmFlash[c] = DescOf(d)
            /\ c \in BmArea(lo, hi) => OnFlash(f) /\ d = f.hw
            /\ c \notin BmArea(lo, hi) => (d.end < lo \/ d.start >= hi) /\ (OnFlash(f) => d # f.hw)
<1>1. PICK d : d = bmFlash[c].d
  OBVIOUS
<1>2. lo \in Nat /\ hi \in Nat /\ IsFile(f)
  BY DEF BmRoom
<1>3. IsDesc(d) /\ c = Address(d) /\ bmFlash[c] = DescOf(d)
  BY <1>1, Zenon DEF FlashGood
<1>4. d.end < lo \/ d.start >= hi \/ (OnFlash(f) /\ d = f.hw)
  BY <1>1, Zenon DEF BmRoom
<1>5. c \in BmArea(lo, hi) => OnFlash(f) /\ d = f.hw
  BY <1>2, <1>3, <1>4, BmElse
<1>6. OnFlash(f) /\ d = f.hw => c \in BmArea(lo, hi)
  <2> SUFFICES ASSUME OnFlash(f), d = f.hw PROVE c \in BmArea(lo, hi)
    OBVIOUS
  <2>1. d.start = lo /\ d.end < hi
    BY Zenon DEF BmRoom
  <2>2. d.start >= lo
    BY <1>2, <2>1
  <2> QED  BY <1>2, <1>3, <2>1, <2>2, BmElse
<1> QED  BY <1>1, <1>3, <1>4, <1>5, <1>6, Zenon

\* In the middle of a flush the flash is good.
LEMMA BmMidGood ==
  ASSUME NEW lo, NEW hi, NEW f, BmRoom(lo, hi, f), FlashGood(bmFlash), NEW g, NEW cur, BmMid(g, lo, hi, f, cur)
  PROVE  FlashGood(g)
<1>1. lo \in Nat /\ hi \in Nat
  BY DEF BmRoom
<1>2. ASSUME NEW c \in Cells, g[c].k = "desc", c \in BmArea(lo, hi)
      PROVE  cur.count > 0 /\ g[c] = DescOf(cur) /\ g[c].d = cur /\ IsDesc(cur) /\ c = Address(cur) /\ cur.start = lo /\ cur.end < hi
  <2>1. cur.count > 0 /\ c = Address(cur) /\ g[c] = DescOf(cur)
    BY <1>2, Zenon DEF BmMid
  <2>2. IsDesc(cur) /\ cur.start = lo /\ cur.end < hi
    BY <2>1, Zenon DEF BmMid
  <2>3. g[c].d = cur
    BY <2>1, BmContents, Zenon
  <2> QED  BY <2>1, <2>2, <2>3
<1>3. ASSUME NEW c \in Cells, g[c].k = "desc", c \notin BmArea(lo, hi)
      PROVE  /\ g[c] = bmFlash[c] /\ bmFlash[c].k = "desc" /\ g[c] = DescOf(g[c].d) /\ IsDesc(g[c].d) /\ c = Address(g[c].d)
             /\ g[c].d.end < lo \/ g[c].d.start >= hi
  <2>1. g[c] = bmFlash[c]
    BY <1>3, Zenon DEF BmMid
  <2>2. bmFlash[c].k = "desc"
    BY <1>3, <2>1
  <2>3. PICK d : d = bmFlash[c].d
    OBVIOUS
  <2>4. IsDesc(d) /\ c = Address(d) /\ bmFlash[c] = DescOf(d) /\ (d.end < lo \/ d.start >= hi)
    BY <1>3, <2>2, <2>3, BmInRoom
  <2> QED  BY <2>1, <2>2, <2>3, <2>4, Zenon
<1>4. ASSUME NEW c \in Cells, g[c].k = "desc"
      PROVE  g[c] = DescOf(g[c].d) /\ IsDesc(g[c].d) /\ c = Address(g[c].d)
  BY <1>2, <1>3, <1>4, Zenon
<1>5. ASSUME NEW c \in Cells, NEW e \in Cells, g[c].k = "desc", g[e].k = "desc", c < e
      PROVE  g[c].d.end < g[e].d.start
  <2>1. PICK d, b : d = g[c].d /\ b = g[e].d
    OBVIOUS
  <2>2. IsDesc(d) /\ IsDesc(b) /\ c = Address(d) /\ e = Address(b)
    BY <1>4, <1>5, <2>1
  <2>3. d.start \in Nat /\ d.end \in Nat /\ b.start \in Nat /\ b.end \in Nat /\ d.start <= d.end /\ b.start <= b.end
    BY <2>2 DEF IsDesc
  <2>4. c \in Nat /\ e \in Nat
    BY <2>2, BmDescPlace
  <2>5. ~ (b.end <= d.end)
    <3>1. b.end <= d.end => e <= c
      BY <2>2, BmDescOrder
    <3> QED  BY <1>5, <2>4, <3>1
  <2>6. CASE c \in BmArea(lo, hi) /\ e \in BmArea(lo, hi)
    <3>1. c = Address(cur) /\ e = Address(cur)
      BY <1>2, <1>5, <2>6
    <3> QED  BY <1>5, <2>4, <3>1
  <2>7. CASE c \in BmArea(lo, hi) /\ e \notin BmArea(lo, hi)
    <3>1. d.start = lo /\ d.end < hi /\ (b.end < lo \/ b.start >= hi)
      BY <1>2, <1>3, <1>5, <2>1, <2>7, Zenon
    <3> QED  BY <1>1, <2>1, <2>3, <2>5, <3>1
  <2>8. CASE c \notin BmArea(lo, hi) /\ e \in BmArea(lo, hi)
    <3>1. b.start = lo /\ b.end < hi /\ (d.end < lo \/ d.start >= hi)
      BY <1>2, <1>3, <1>5, <2>1, <2>8, Zenon
    <3> QED  BY <1>1, <2>1, <2>3, <2>5, <3>1
  <2>9. CASE c \notin BmArea(lo, hi) /\ e \notin BmArea(lo, hi)
    <3>1. g[c] = bmFlash[c] /\ g[e] = bmFlash[e]
      BY <1>3, <1>5, <2>9, Zenon
    <3>2. bmFlash[c].d.end < bmFlash[e].d.start
      BY <1>5, <3>1, Zenon DEF FlashGood
    <3> QED  BY <3>1, <3>2, Zenon
  <2> QED  BY <2>6, <2>7, <2>8, <2>9, Zenon
<1> QED  BY <1>4, <1>5, Zenon DEF FlashGood

\* In the middle of a flush, the files whose descriptions are there before and after it
\* have changed in their own data only.
LEMMA BmMidKeeps ==
  ASSUME NEW lo, NEW hi, NEW f, BmRoom(lo, hi, f), FlashGood(bmFlash), NEW g, NEW cur, BmMid(g, lo, hi, f, cur),
         NEW d, IsDesc(d), bmFlash[Address(d)] = DescOf(d), g[Address(d)] = DescOf(d),
         NEW c \in Extent(d), g[c] # bmFlash[c]
  PROVE  g[c].id = d.id
<1>1. lo \in Nat /\ hi \in Nat /\ IsFile(f)
  BY DEF BmRoom
<1>2. PICK a : a = Address(d)
  OBVIOUS
<1>3. a \in Cells /\ c \in Cells
  BY <1>2, BmDescPlace
<1>4. bmFlash[a].k = "desc" /\ bmFlash[a].d = d
  BY <1>2, BmContents, Zenon
<1>5. c \in BmArea(lo, hi)
  BY <1>3, Zenon DEF BmMid
<1>6. a \in BmArea(lo, hi)
  <2>1. CASE a \notin BmArea(lo, hi)
    <3>1. d.end < lo \/ d.start >= hi
      BY <1>3, <1>4, <2>1, BmInRoom
    <3>2. Extent(d) \cap BmArea(lo, hi) = {}
      BY <1>1, <3>1, BmElse
    <3> QED  BY <1>5, <3>2
  <2> QED  BY <2>1
<1>7. OnFlash(f) /\ d = f.hw
  BY <1>3, <1>4, <1>6, BmInRoom
<1>8. d.start = lo /\ f.hw.id = f.id
  BY <1>1, <1>7, BmOnFlash, Zenon DEF BmRoom
<1>9. c # a
  BY <1>2, Zenon
<1>10. c \in BmAt(lo) .. Address(f.hw) - 1
  <2>1. BmAt(d.start) \in Nat /\ Address(d) \in Nat /\ Extent(d) = BmAt(d.start) .. Address(d)
    BY BmDescPlace
  <2>2. PICK u \in Nat, v \in Nat : u = BmAt(d.start) /\ v = Address(d)
    BY <2>1
  <2>3. c \in u .. v /\ c # v
    BY <1>2, <1>9, <2>1, <2>2
  <2>4. c \in u .. v - 1
    BY <2>3
  <2> QED  BY <1>7, <1>8, <2>2, <2>4
<1>11. g[c].id = f.id
  BY <1>3, <1>7, <1>10, Zenon DEF BmMid
<1> QED  BY <1>7, <1>8, <1>11

-------------------------------------------------------------------------------
\* A list that mirrors the flash.
BmMirrors(fs) ==
  /\ FlashGood(bmFlash) /\ ListGood(fs, bmFlash)
  /\ fs \in Seq(ToSet(fs)) /\ \A i \in DOMAIN fs : IsFile(fs[i])

\* The places in the list.
LEMMA BmPlaces ==
  ASSUME NEW fs, BmMirrors(fs)
  PROVE  Len(fs) \in Nat /\ DOMAIN fs = 1 .. Len(fs) /\ \A k \in 1 .. Len(fs) : IsFile(fs[k])
<1>1. fs \in Seq(ToSet(fs)) /\ \A i \in DOMAIN fs : IsFile(fs[i])
  BY DEF BmMirrors
<1>2. Len(fs) \in Nat /\ DOMAIN fs = 1 .. Len(fs)
  BY <1>1, LenProperties
<1> QED  BY <1>1, <1>2, Zenon

\* A file on the list is described on the flash.
LEMMA BmListed ==
  ASSUME NEW fs, BmMirrors(fs), NEW k \in DOMAIN fs, OnFlash(fs[k])
  PROVE  LET d == fs[k].hw
         IN IsDesc(d) /\ Address(d) \in Cells /\ bmFlash[Address(d)] = DescOf(d) /\ bmFlash[Address(d)].k = "desc"
            /\ bmFlash[Address(d)].d = d
<1>1. PICK d : d = fs[k].hw
  OBVIOUS
<1>2. IsFile(fs[k]) /\ ListGood(fs, bmFlash)
  BY Zenon DEF BmMirrors
<1>3. IsDesc(d)
  BY <1>1, <1>2, BmOnFlash
<1>4. bmFlash[Address(d)] = DescOf(d)
  BY <1>1, <1>2, Zenon DEF ListGood
<1>5. Address(d) \in Cells
  BY <1>3, BmDescPlace
<1>6. DescOf(d).k = "desc" /\ DescOf(d).d = d
  BY BmContents, Zenon
<1> QED  BY <1>1, <1>3, <1>4, <1>5, <1>6, Zenon

\* The files on the list are apart, in the order of the list.
LEMMA BmListOrder ==
  ASSUME NEW fs, BmMirrors(fs), NEW j \in DOMAIN fs, NEW k \in DOMAIN fs, j < k, OnFlash(fs[j]), OnFlash(fs[k])
  PROVE  fs[j].hw.end < fs[k].hw.start
<1>1. PICK d, e : d = fs[j].hw /\ e = fs[k].hw
  OBVIOUS
<1>2. IsDesc(d) /\ Address(d) \in Cells /\ bmFlash[Address(d)] = DescOf(d) /\ bmFlash[Address(d)].k = "desc" /\ bmFlash[Address(d)].d = d
  BY <1>1, BmListed
<1>3. IsDesc(e) /\ Address(e) \in Cells /\ bmFlash[Address(e)] = DescOf(e) /\ bmFlash[Address(e)].k = "desc" /\ bmFlash[Address(e)].d = e
  BY <1>1, BmListed
<1>4. d.start < e.start
  <2>1. InDiskOrder(fs)
    BY Zenon DEF BmMirrors, ListGood
  <2> QED  BY <1>1, <2>1, Zenon DEF InDiskOrder
<1>5. d.start \in Nat /\ d.end \in Nat /\ e.start \in Nat /\ e.end \in Nat /\ d.start <= d.end /\ e.start <= e.end
  BY <1>2, <1>3 DEF IsDesc
<1>6. PICK a \in Nat, b \in Nat : a = Address(d) /\ b = Address(e)
  BY <1>2, <1>3, BmDescPlace
<1>7. CASE a < b
  <2>1. bmFlash[a].d.end < bmFlash[b].d.start
    BY <1>2, <1>3, <1>6, <1>7, Zenon DEF BmMirrors, FlashGood
  <2> QED  BY <1>1, <1>2, <1>3, <1>6, <2>1, Zenon
<1>8. CASE b < a
  <2>1. bmFlash[b].d.end < bmFlash[a].d.start
    BY <1>2, <1>3, <1>6, <1>8, Zenon DEF BmMirrors, FlashGood
  <2>2. e.end < d.start
    BY <1>2, <1>3, <1>6, <2>1, Zenon
  <2> QED  BY <1>4, <1>5, <2>2
<1>9. CASE a = b
  <2>1. d = e
    BY <1>2, <1>3, <1>6, <1>9, Zenon
  <2> QED  BY <1>4, <1>5, <2>1
<1> QED  BY <1>6, <1>7, <1>8, <1>9

\* Every description on the flash is that of a file on the list.
LEMMA BmDescListed ==
  ASSUME NEW fs, BmMirrors(fs), NEW c \in Cells, bmFlash[c].k = "desc"
  PROVE  \E k \in DOMAIN fs : OnFlash(fs[k]) /\ fs[k].hw = bmFlash[c].d
BY Zenon DEF BmMirrors, ListGood

\* The room of a file that is on the flash: up to where the next one begins.
LEMMA BmRoomPlaced ==
  ASSUME NEW fs, BmMirrors(fs), NEW i \in DOMAIN fs, NEW f, f = fs[i], OnFlash(f)
  PROVE  \E lo, hi : lo = f.hw.start /\ BmRoom(lo, hi, f) /\ BmSpace(fs, i, lo, hi, f)
<1>1. PICK n \in Nat : n = Len(fs) /\ DOMAIN fs = 1 .. n
  BY BmPlaces
<1>2. i \in 1 .. n /\ IsFile(f)
  BY <1>1, BmPlaces
<1>3. IsDesc(f.hw) /\ bmFlash[Address(f.hw)] = DescOf(f.hw)
  BY BmListed
<1>4. PICK lo \in Nat : lo = f.hw.start
  BY <1>3 DEF IsDesc
<1>5. f.hw.end \in Nat /\ f.hw.end <= BmLast /\ BmLast \in Nat
  BY <1>3, BmAtFacts DEF IsDesc
<1>6. PICK hi \in Nat :
        /\ hi <= BmLast + 1 /\ f.hw.end < hi /\ AppendEnd(fs, i) = BmAt(hi)
        /\ \A k \in 1 .. n : k > i /\ OnFlash(fs[k]) => fs[k].hw.start >= hi
  <2>1. CASE i < n
    <3>1. i + 1 \in 1 .. n /\ i < i + 1
      BY <1>2, <2>1
    <3>2. OnFlash(fs[i + 1])
      <4>1. ~Unplaced(fs)
        BY Zenon DEF BmMirrors, ListGood
      <4> QED  BY <1>1, <1>2, <3>1, <4>1 DEF Unplaced
    <3>3. PICK e : e = fs[i + 1].hw
      OBVIOUS
    <3>4. IsDesc(e)
      BY <1>1, <3>1, <3>2, <3>3, BmListed
    <3>5. e.start \in Nat /\ e.end \in Nat /\ e.start <= e.end /\ e.end <= BmLast
      BY <3>4 DEF IsDesc
    <3>6. f.hw.end < e.start
      BY <1>1, <1>2, <3>1, <3>2, <3>3, BmListOrder
    <3>7. AppendEnd(fs, i) = BmAt(e.start)
      <4>1. i < Len(fs)
        BY <1>1, <2>1
      <4> QED  BY <3>3, <4>1, Zenon DEF AppendEnd, BmAt
    <3>8. ASSUME NEW k \in 1 .. n, k > i, OnFlash(fs[k])
          PROVE  fs[k].hw.start >= e.start
      <4>1. CASE k = i + 1
        BY <3>3, <3>5, <4>1
      <4>2. CASE k # i + 1
        <5>1. i + 1 < k
          BY <1>2, <3>8, <4>2
        <5>2. e.end < fs[k].hw.start
          BY <1>1, <3>1, <3>2, <3>3, <3>8, <5>1, BmListOrder
        <5>3. IsDesc(fs[k].hw)
          BY <1>1, <3>8, BmListed
        <5>4. fs[k].hw.start \in Nat
          BY <5>3 DEF IsDesc
        <5> QED  BY <3>5, <5>2, <5>4
      <4> QED  BY <4>1, <4>2
    <3> QED  BY <1>5, <3>5, <3>6, <3>7, <3>8
  <2>2. CASE ~ (i < n)
    <3>1. PICK h \in Nat : h = BmLast + 1
      BY <1>5
    <3>2. AppendEnd(fs, i) = BmAt(h)
      BY <1>1, <2>2, <3>1, Zenon DEF AppendEnd, BmAt
    <3>3. h <= BmLast + 1 /\ f.hw.end < h /\ \A k \in 1 .. n : ~ (k > i)
      BY <1>2, <1>5, <2>2, <3>1
    <3> QED  BY <3>2, <3>3
  <2> QED  BY <2>1, <2>2
<1>7. ASSUME NEW c \in Cells, bmFlash[c].k = "desc"
      PROVE  bmFlash[c].d.end < lo \/ bmFlash[c].d.start >= hi \/ (OnFlash(f) /\ bmFlash[c].d = f.hw)
  <2>1. PICK k \in DOMAIN fs : OnFlash(fs[k]) /\ fs[k].hw = bmFlash[c].d
    BY <1>7, BmDescListed
  <2>2. CASE k < i
    <3>1. fs[k].hw.end < fs[i].hw.start
      BY <2>1, <2>2, BmListOrder
    <3> QED  BY <1>4, <2>1, <3>1
  <2>3. CASE k > i
    BY <1>1, <1>6, <2>1, <2>3
  <2>4. CASE k = i
    BY <2>1, <2>4
  <2> QED  BY <1>1, <1>2, <2>2, <2>3, <2>4
<1>8. BmRoom(lo, hi, f)
  BY <1>2, <1>3, <1>4, <1>6, <1>7, Zenon DEF BmRoom
<1>9. BmSpace(fs, i, lo, hi, f)
  BY <1>6, Zenon DEF BmSpace
<1> QED  BY <1>4, <1>8, <1>9

-------------------------------------------------------------------------------
\* Where the file list leaves off before the file at j.
LEMMA BmBehind ==
  ASSUME NEW fs, BmMirrors(fs), NEW j \in 1 .. Len(fs) + 1
  PROVE  \E lo \in Nat :
           /\ Behind(fs, j) = BmAt(lo) /\ lo <= BmLast + 1
           /\ \A k \in DOMAIN fs : k < j /\ OnFlash(fs[k]) => fs[k].hw.end < lo
           /\ lo = 0 \/ \E k \in DOMAIN fs : k < j /\ OnFlash(fs[k]) /\ lo = fs[k].hw.end + 1
<1> DEFINE before == {k \in 1 .. (j - 1) : OnFlash(fs[k])}
<1>1. PICK n \in Nat : n = Len(fs) /\ DOMAIN fs = 1 .. n
  BY BmPlaces
<1>2. j \in Nat /\ j - 1 \in Nat /\ j - 1 <= n
  BY <1>1
<1>3. \A k \in before : k \in 1 .. j - 1 /\ k \in DOMAIN fs /\ k < j /\ OnFlash(fs[k])
  BY <1>1, <1>2
<1>4. \A k \in DOMAIN fs : k < j /\ OnFlash(fs[k]) => k \in before
  BY <1>1, <1>2
<1>5. BmLast \in Nat
  BY BmAtFacts
<1>6. CASE before = {}
  <2>1. Behind(fs, j) = 0
    BY <1>6, Zenon DEF Behind
  <2>2. Behind(fs, j) = BmAt(0) /\ 0 \in Nat /\ 0 <= BmLast + 1
    BY <1>5, <2>1, BmAtFacts
  <2>3. \A k \in DOMAIN fs : k < j /\ OnFlash(fs[k]) => fs[k].hw.end < 0
    BY <1>4, <1>6
  <2> QED  BY <2>2, <2>3
<1>7. CASE before # {}
  <2>1. PICK m : m = Max(before)
    OBVIOUS
  <2>2. m \in before /\ \A k \in before : k <= m
    <3>1. before \in SUBSET (1 .. (j - 1))
      OBVIOUS
    <3> HIDE DEF before
    <3> QED  BY <1>2, <1>7, <2>1, <3>1, BmLastOf
  <2>3. Behind(fs, j) = (fs[m].hw.end + 1) * BmBlock
    BY <1>7, <2>1, Zenon DEF Behind
  <2>4. m \in DOMAIN fs /\ m < j /\ OnFlash(fs[m])
    BY <1>3, <2>2
  <2> HIDE DEF before
  <2>5. IsDesc(fs[m].hw)
    BY <2>4, BmListed
  <2>6. PICK e \in Nat : e = fs[m].hw.end /\ e <= BmLast
    BY <2>5 DEF IsDesc
  <2>7. PICK lo \in Nat : lo = e + 1 /\ lo <= BmLast + 1
    <3>1. e + 1 \in Nat /\ e + 1 <= BmLast + 1
      <4>1. e <= BmLast
        BY <2>6
      <4> QED  BY ONLY <1>5, <4>1, e \in Nat
    <3> QED  BY <3>1
  <2>8. Behind(fs, j) = BmAt(lo)
    BY <2>3, <2>6, <2>7, Zenon DEF BmAt
  <2>9. ASSUME NEW k \in DOMAIN fs, k < j, OnFlash(fs[k])
        PROVE  fs[k].hw.end < lo
    <3>1. k <= m
      BY <1>4, <2>2, <2>9
    <3>2. CASE k = m
      BY <2>6, <2>7, <3>2
    <3>3. CASE k < m
      <4>1. fs[k].hw.end < fs[m].hw.start
        BY <2>4, <2>9, <3>3, BmListOrder
      <4>2. IsDesc(fs[k].hw)
        BY <2>9, BmListed
      <4>3. PICK x \in Nat, y \in Nat : x = fs[k].hw.end /\ y = fs[m].hw.start /\ y <= e
        BY <2>5, <2>6, <4>2 DEF IsDesc
      <4>4. x < y
        BY <4>1, <4>3
      <4>5. x < lo
        <5>1. y <= e /\ lo = e + 1
          BY <2>7, <4>3
        <5> QED  BY ONLY <4>4, <5>1, e \in Nat, x \in Nat, y \in Nat
      <4> QED  BY <4>3, <4>5
    <3> QED  BY <1>1, <2>4, <3>1, <3>2, <3>3
  <2> QED  BY <2>4, <2>6, <2>7, <2>8, <2>9
<1> QED  BY <1>6, <1>7

\* es is the list fs with the file at i moved to e.
BmMoved(es, e, fs, i) ==
  /\ es \in Seq(ToSet(fs)) /\ Len(es) = Len(fs)
  /\ e \in DOMAIN es /\ es[e] = fs[i]
  /\ \A q \in DOMAIN es : q # e => \E k \in DOMAIN fs : k # i /\ es[q] = fs[k]
  /\ \A k \in DOMAIN fs : k # i => \E q \in DOMAIN es : q # e /\ es[q] = fs[k]

\* A list that stays as it is.
LEMMA BmNotMoved ==
  ASSUME NEW fs, BmMirrors(fs), NEW i \in DOMAIN fs
  PROVE  BmMoved(fs, i, fs, i)
<1>1. fs \in Seq(ToSet(fs))
  BY Zenon DEF BmMirrors
<1> QED  BY <1>1, Zenon DEF BmMoved

\* The file at i goes in front of the one at j, further down.
LEMMA BmMovedDown ==
  ASSUME NEW fs, BmMirrors(fs), NEW i \in DOMAIN fs, NEW j \in DOMAIN fs, i < j,
         NEW es, es = InsertAt(RemoveAt(fs, i), j - 1, fs[i])
  PROVE  BmMoved(es, j - 1, fs, i)
<1>1. PICK n \in Nat : n = Len(fs) /\ DOMAIN fs = 1 .. n
  BY BmPlaces
<1>2. fs \in Seq(ToSet(fs)) /\ fs[i] \in ToSet(fs)
  <2>1. fs \in Seq(ToSet(fs))
    BY Zenon DEF BmMirrors
  <2> QED  BY <2>1 DEF ToSet
<1>3. i \in Nat /\ j \in Nat /\ 1 <= i /\ i < j /\ j <= n
  BY <1>1
<1>4. PICK S, x, e, t : S = ToSet(fs) /\ x = fs[i] /\ e = j - 1 /\ t = RemoveAt(fs, i)
  OBVIOUS
<1>5. t \in Seq(S) /\ Len(t) = n - 1 /\ \A q \in 1 .. n - 1 : t[q] = IF q < i THEN fs[q] ELSE fs[q + 1]
  <2>1. fs \in Seq(S) /\ i \in 1 .. Len(fs)
    BY <1>1, <1>2, <1>4, Zenon
  <2>2. t \in Seq(S) /\ Len(t) = Len(fs) - 1 /\ \A q \in 1 .. Len(t) : t[q] = IF q < i THEN fs[q] ELSE fs[q + 1]
    <3>1. BmIsRemoved(t, fs, i)
      BY <1>4, Zenon DEF BmIsRemoved
    <3> QED  BY <2>1, <3>1, BmRemoved
  <2> QED  BY <1>1, <2>2
<1>6. es \in Seq(S) /\ Len(es) = n /\ \A q \in 1 .. n : es[q] = IF q < e THEN t[q] ELSE IF q = e THEN x ELSE t[q - 1]
  <2>1. e \in 1 .. Len(t) + 1 /\ x \in S
    <3>1. x \in S /\ e = j - 1
      BY <1>2, <1>4, Zenon
    <3> QED  BY <1>3, <1>5, <3>1
  <2>2. BmIsInserted(es, t, e, x)
    BY <1>4, Zenon DEF BmIsInserted
  <2>3. es \in Seq(S) /\ Len(es) = Len(t) + 1 /\ \A q \in 1 .. Len(es) : es[q] = IF q < e THEN t[q] ELSE IF q = e THEN x ELSE t[q - 1]
    BY <1>5, <2>1, <2>2, BmInserted
  <2>4. Len(es) = n
    BY <1>3, <1>5, <2>3
  <2> QED  BY <2>3, <2>4
<1>7. DOMAIN es = 1 .. n /\ e \in 1 .. n /\ e \in Nat /\ i <= e /\ e + 1 = j
  BY <1>3, <1>4, <1>6
<1>8. es[e] = x
  BY <1>6, <1>7
<1>9. ASSUME NEW q \in 1 .. n, q # e
      PROVE  \E k \in 1 .. n : k # i /\ es[q] = fs[k]
  <2>1. CASE q < i
    <3>1. q < e /\ q \in 1 .. n - 1
      BY <1>3, <1>7, <2>1
    <3>2. es[q] = fs[q] /\ q # i
      BY <1>3, <1>5, <1>6, <2>1, <3>1
    <3> QED  BY <3>2
  <2>2. CASE ~ (q < i) /\ q < e
    <3>1. q \in 1 .. n - 1 /\ q + 1 \in 1 .. n /\ q + 1 # i
      BY <1>3, <1>7, <2>2
    <3>2. es[q] = fs[q + 1]
      BY <1>5, <1>6, <2>2, <3>1
    <3> QED  BY <3>1, <3>2
  <2>3. CASE ~ (q < e)
    <3>1. q - 1 \in 1 .. n - 1 /\ ~ (q - 1 < i) /\ (q - 1) + 1 = q /\ q # i
      BY <1>3, <1>7, <1>9, <2>3
    <3>2. es[q] = t[q - 1] /\ t[q - 1] = fs[(q - 1) + 1]
      BY <1>5, <1>6, <1>9, <2>3, <3>1
    <3> QED  BY <3>1, <3>2
  <2> QED  BY <2>1, <2>2, <2>3
<1>10. ASSUME NEW k \in 1 .. n, k # i
       PROVE  \E q \in 1 .. n : q # e /\ es[q] = fs[k]
  <2>1. CASE k < i
    <3>1. k < e /\ k \in 1 .. n - 1 /\ k # e
      BY <1>3, <1>7, <2>1
    <3>2. es[k] = fs[k]
      BY <1>5, <1>6, <2>1, <3>1
    <3> QED  BY <3>1, <3>2
  <2>2. CASE k > i /\ k < j
    <3>1. k - 1 \in 1 .. n - 1 /\ k - 1 \in 1 .. n /\ ~ (k - 1 < i) /\ k - 1 < e /\ (k - 1) + 1 = k /\ k - 1 # e
      BY <1>3, <1>7, <2>2
    <3>2. es[k - 1] = t[k - 1] /\ t[k - 1] = fs[(k - 1) + 1]
      BY <1>5, <1>6, <3>1
    <3> QED  BY <3>1, <3>2
  <2>3. CASE ~ (k < j)
    <3>1. ~ (k < e) /\ k # e /\ k - 1 \in 1 .. n - 1 /\ ~ (k - 1 < i) /\ (k - 1) + 1 = k
      BY <1>3, <1>7, <2>3
    <3>2. es[k] = t[k - 1] /\ t[k - 1] = fs[(k - 1) + 1]
      BY <1>5, <1>6, <3>1
    <3> QED  BY <3>1, <3>2
  <2> QED  BY <1>3, <1>10, <2>1, <2>2, <2>3
<1>11. es \in Seq(ToSet(fs)) /\ Len(es) = Len(fs)
  BY <1>1, <1>4, <1>6
<1>12. ASSUME NEW q \in DOMAIN es, q # e
       PROVE  \E k \in DOMAIN fs : k # i /\ es[q] = fs[k]
  <2>1. q \in 1 .. n
    BY <1>7
  <2>2. PICK k \in 1 .. n : k # i /\ es[q] = fs[k]
    BY <1>9, <1>12, <2>1
  <2> QED  BY <1>1, <2>2
<1>13. \A k \in DOMAIN fs : k # i => \E q \in DOMAIN es : q # e /\ es[q] = fs[k]
  BY <1>1, <1>7, <1>10, Zenon
<1>14. BmMoved(es, e, fs, i)
  BY <1>4, <1>7, <1>8, <1>11, <1>12, <1>13, Zenon DEF BmMoved
<1> QED  BY <1>4, <1>14, Zenon

\* The blocks in front of the file at j, or behind the last file, are free.
LEMMA BmFree ==
  ASSUME NEW fs, BmMirrors(fs), NEW f, IsFile(f), ~OnFlash(f), NEW j \in 1 .. Len(fs) + 1, NEW lo \in Nat, NEW hi \in Nat,
         lo <= BmLast + 1,
         \A k \in DOMAIN fs : k < j /\ OnFlash(fs[k]) => fs[k].hw.end < lo,
         lo = 0 \/ \E k \in DOMAIN fs : k < j /\ OnFlash(fs[k]) /\ lo = fs[k].hw.end + 1,
         \/ j = Len(fs) + 1 /\ hi = BmLast + 1
         \/ j \in DOMAIN fs /\ OnFlash(fs[j]) /\ hi = fs[j].hw.start
  PROVE  BmRoom(lo, hi, f) /\ lo <= hi
<1>1. PICK n \in Nat : n = Len(fs) /\ DOMAIN fs = 1 .. n
  BY BmPlaces
<1>2. j \in Nat /\ BmLast \in Nat
  BY BmAtFacts
<1>3. ASSUME NEW k \in DOMAIN fs, OnFlash(fs[k])
      PROVE  \E s \in Nat, e \in Nat : s = fs[k].hw.start /\ e = fs[k].hw.end /\ s <= e /\ e <= BmLast
  <2>1. IsDesc(fs[k].hw)
    BY <1>3, BmListed
  <2> QED  BY <2>1 DEF IsDesc
<1>4. hi <= BmLast + 1
  <2>1. CASE hi = BmLast + 1
    BY <1>2, <2>1
  <2>2. CASE j \in DOMAIN fs /\ OnFlash(fs[j]) /\ hi = fs[j].hw.start
    <3>1. PICK s \in Nat, e \in Nat : s = fs[j].hw.start /\ e = fs[j].hw.end /\ s <= e /\ e <= BmLast
      BY <1>3, <2>2
    <3>2. hi <= e /\ e <= BmLast
      BY <2>2, <3>1
    <3> QED  BY ONLY <1>2, <3>2, hi \in Nat, e \in Nat
  <2> QED  BY <2>1, <2>2
<1>5. lo <= hi
  <2>1. CASE lo = 0
    BY <2>1
  <2>2. CASE hi = BmLast + 1
    BY <2>2
  <2>3. ASSUME NEW k \in DOMAIN fs, k < j, OnFlash(fs[k]), lo = fs[k].hw.end + 1, j \in DOMAIN fs, OnFlash(fs[j]), hi = fs[j].hw.start
        PROVE  lo <= hi
    <3>1. fs[k].hw.end < fs[j].hw.start
      BY <2>3, BmListOrder
    <3>2. PICK s \in Nat, e \in Nat : s = fs[k].hw.start /\ e = fs[k].hw.end
      BY <1>3, <2>3
    <3>3. e < hi /\ lo = e + 1
      BY <2>3, <3>1, <3>2
    <3> QED  BY ONLY <3>3, hi \in Nat, e \in Nat
  <2> QED  BY <2>1, <2>2, <2>3, Zenon
<1>6. ASSUME NEW c \in Cells, bmFlash[c].k = "desc"
      PROVE  bmFlash[c].d.end < lo \/ bmFlash[c].d.start >= hi
  <2>1. PICK k \in DOMAIN fs : OnFlash(fs[k]) /\ fs[k].hw = bmFlash[c].d
    BY <1>6, BmDescListed
  <2>2. CASE k < j
    <3>1. fs[k].hw.end < lo
      BY <2>1, <2>2
    <3> QED  BY <2>1, <3>1
  <2>3. CASE ~ (k < j)
    <3>1. j \in DOMAIN fs /\ OnFlash(fs[j]) /\ hi = fs[j].hw.start
      BY <1>1, <2>3
    <3>2. PICK s \in Nat, e \in Nat : s = fs[k].hw.start /\ e = fs[k].hw.end /\ s <= e /\ e <= BmLast
      BY <1>3, <2>1
    <3>3. PICK u \in Nat, v \in Nat : u = fs[j].hw.start /\ v = fs[j].hw.end /\ u <= v /\ v <= BmLast
      BY <1>3, <3>1
    <3>4. k = j \/ v < s
      <4>1. k = j \/ j < k
        BY <1>1, <1>2, <2>3
      <4>2. j < k => v < s
        BY <2>1, <3>1, <3>2, <3>3, BmListOrder
      <4> QED  BY <4>1, <4>2
    <3>5. k = j => s = u
      BY <3>2, <3>3
    <3>6. s >= u
      <4>1. u <= v
        BY <3>3
      <4> QED  BY ONLY <3>4, <3>5, <4>1, s \in Nat, u \in Nat, v \in Nat
    <3>7. s >= hi /\ bmFlash[c].d.start = s
      BY <2>1, <3>1, <3>2, <3>3, <3>6
    <3> QED  BY <3>7
  <2> QED  BY <2>2, <2>3
<1>7. BmRoom(lo, hi, f)
  BY <1>4, <1>6, Zenon DEF BmRoom
<1> QED  BY <1>5, <1>7

\* Place: where a new file of that size goes is free.
LEMMA BmRoomNew ==
  ASSUME NEW fs, BmMirrors(fs), NEW i \in DOMAIN fs, NEW f, f = fs[i], ~OnFlash(f), NEW z \in Nat, z = f.size,
         NEW p, p = Place(fs, i, z + 1), p.ok
  PROVE  \E lo, hi : p.start = BmAt(lo) /\ BmRoom(lo, hi, f) /\ BmSpace(p.files, p.at, lo, hi, f) /\ BmMoved(p.files, p.at, fs, i)
<1> DEFINE fit == {j \in DOMAIN fs : Fits(fs, j, z + 1)}
<1>1. PICK n \in Nat : n = Len(fs) /\ DOMAIN fs = 1 .. n
  BY BmPlaces
<1>2. i \in 1 .. n /\ IsFile(f)
  BY <1>1, BmPlaces
<1>3. BmLast \in Nat
  BY BmAtFacts
<1>4. PICK j : j = Min(fit)
  OBVIOUS
<1>5. CASE fit # {}
  <2>1. j \in fit
    <3>1. fit \in SUBSET Nat
      BY <1>1
    <3> HIDE DEF fit
    <3> QED  BY <1>4, <1>5, <3>1, BmFirstOf
  <2>2. j \in 1 .. n /\ Fits(fs, j, z + 1)
    BY <1>1, <2>1
  <2>3. PICK pos : pos = IF j > i THEN j - 1 ELSE j
    OBVIOUS
  <2>4. p = [ok |-> TRUE, start |-> Behind(fs, j), files |-> InsertAt(RemoveAt(fs, i), pos, fs[i]), at |-> pos]
    BY <1>4, <1>5, <2>3, Zenon DEF Place
  <2>5. p.start = Behind(fs, j) /\ p.files = InsertAt(RemoveAt(fs, i), pos, fs[i]) /\ p.at = pos
    <3>1. PICK x, y : x = Behind(fs, j) /\ y = InsertAt(RemoveAt(fs, i), pos, fs[i])
      OBVIOUS
    <3>2. p = [ok |-> TRUE, start |-> x, files |-> y, at |-> pos]
      BY <2>4, <3>1, Zenon
    <3>3. p.start = x /\ p.files = y /\ p.at = pos
      BY ONLY <3>2
    <3> QED  BY <3>1, <3>3
  <2>6. OnFlash(fs[j]) /\ Gap(fs[j].hw.start * BmBlock, Behind(fs, j)) >= z + 1
    BY <2>2, Zenon DEF Fits
  <2>7. i < j
    <3>1. i # j
      BY <2>6, Zenon
    <3>2. ~ (j < i)
      <4>1. ~Unplaced(fs)
        BY Zenon DEF BmMirrors, ListGood
      <4>2. i \in DOMAIN fs /\ j \in DOMAIN fs
        BY <1>1, <2>2
      <4> QED  BY <2>6, <4>1, <4>2, Zenon DEF Unplaced
    <3>3. i \in Nat /\ j \in Nat
      BY <1>2, <2>2
    <3> QED  BY ONLY <3>1, <3>2, <3>3
  <2>8. pos = j - 1
    <3>1. j > i
      BY <1>2, <2>2, <2>7
    <3> QED  BY <2>3, <3>1, Zenon
  <2>9. BmMoved(p.files, p.at, fs, i)
    <3>1. PICK y : y = InsertAt(RemoveAt(fs, i), j - 1, fs[i])
      OBVIOUS
    <3>2. i \in DOMAIN fs /\ j \in DOMAIN fs
      BY <1>1, <2>2
    <3>3. BmMoved(y, j - 1, fs, i)
      BY <2>7, <3>1, <3>2, BmMovedDown
    <3> QED  BY <2>5, <2>8, <3>1, <3>3, Zenon
  <2>10. PICK lo \in Nat :
           /\ Behind(fs, j) = BmAt(lo) /\ lo <= BmLast + 1
           /\ \A k \in DOMAIN fs : k < j /\ OnFlash(fs[k]) => fs[k].hw.end < lo
           /\ lo = 0 \/ \E k \in DOMAIN fs : k < j /\ OnFlash(fs[k]) /\ lo = fs[k].hw.end + 1
    <3>1. j \in 1 .. Len(fs) + 1
      BY <1>1, <2>2
    <3> QED  BY <3>1, BmBehind
  <2>11. PICK hi \in Nat : hi = fs[j].hw.start
    <3>1. IsDesc(fs[j].hw)
      BY <1>1, <2>2, <2>6, BmListed
    <3> QED  BY <3>1 DEF IsDesc
  <2>12. BmRoom(lo, hi, f) /\ lo <= hi
    <3>1. j \in 1 .. Len(fs) + 1 /\ j \in DOMAIN fs
      BY <1>1, <2>2
    <3> QED  BY <1>2, <2>6, <2>10, <2>11, <3>1, BmFree
  <2>13. BmSpace(p.files, p.at, lo, hi, f)
    <3>1. PICK a \in Nat, b \in Nat : a = BmAt(lo) /\ b = BmAt(hi) /\ a <= b
      BY <2>12, BmAtFacts
    <3>2. Gap(b, a) >= z + 1
      BY <2>6, <2>10, <2>11, <3>1, Zenon DEF BmAt
    <3>3. Gap(b, a) = b - a
      BY <3>1 DEF Gap
    <3>4. a + z + 1 <= b
      BY ONLY <3>2, <3>3, a \in Nat, b \in Nat, z \in Nat
    <3> QED  BY <3>1, <3>4, Zenon DEF BmSpace
  <2> QED  BY <2>5, <2>9, <2>10, <2>12, <2>13, Zenon
<1>6. CASE fit = {}
  <2>1. PICK end : end = Behind(fs, Len(fs) + 1)
    OBVIOUS
  <2>2. PICK ok : ok = (Gap((BmLast + 1) * BmBlock, end) >= z + 1)
    OBVIOUS
  <2>3. p = [ok |-> ok, start |-> end, files |-> fs, at |-> i]
    BY <1>4, <1>6, <2>1, <2>2, Zenon DEF Place
  <2>4. p.ok = ok /\ p.start = end /\ p.files = fs /\ p.at = i
    BY ONLY <2>3
  <2>5. PICK last \in 1 .. Len(fs) + 1 : last = Len(fs) + 1
    BY <1>1
  <2>6. PICK lo \in Nat :
          /\ Behind(fs, last) = BmAt(lo) /\ lo <= BmLast + 1
          /\ \A k \in DOMAIN fs : k < last /\ OnFlash(fs[k]) => fs[k].hw.end < lo
          /\ lo = 0 \/ \E k \in DOMAIN fs : k < last /\ OnFlash(fs[k]) /\ lo = fs[k].hw.end + 1
    BY BmBehind
  <2>7. PICK hi \in Nat : hi = BmLast + 1
    BY <1>3
  <2>8. BmRoom(lo, hi, f) /\ lo <= hi
    BY <1>2, <2>5, <2>6, <2>7, BmFree
  <2>9. BmSpace(p.files, p.at, lo, hi, f)
    <3>1. PICK a \in Nat, b \in Nat : a = BmAt(lo) /\ b = BmAt(hi) /\ a <= b
      BY <2>8, BmAtFacts
    <3>2. Gap(b, a) >= z + 1
      BY <2>1, <2>2, <2>4, <2>5, <2>6, <2>7, <3>1, Zenon DEF BmAt
    <3>3. Gap(b, a) = b - a
      BY <3>1 DEF Gap
    <3>4. a + z + 1 <= b
      BY ONLY <3>2, <3>3, a \in Nat, b \in Nat, z \in Nat
    <3> QED  BY <3>1, <3>4, Zenon DEF BmSpace
  <2>10. BmMoved(p.files, p.at, fs, i)
    BY <2>4, BmNotMoved
  <2>11. p.start = BmAt(lo)
    BY <2>1, <2>4, <2>5, <2>6, Zenon
  <2> QED  BY <2>8, <2>9, <2>10, <2>11, Zenon
<1> QED  BY <1>5, <1>6

-------------------------------------------------------------------------------
\* FlushOf: there is room for the file, and it is flushed there, from a list that is the
\* old one but for the place of the file.
LEMMA BmFlushIs ==
  ASSUME NEW fs, BmMirrors(fs), NEW i \in DOMAIN fs, NEW f, f = fs[i], f.open, NEW r, r = FlushOf(fs, i), r.hits = {}
  PROVE  \E lo, hi : BmRoom(lo, hi, f) /\ BmFlushedAll(r, lo, hi, f) /\ BmMoved(r.files, r.at, fs, i)
<1>1. IsFile(f) /\ FlashGood(bmFlash)
  BY Zenon DEF BmMirrors
<1>2. CASE OnFlash(f)
  <2>1. PICK lo, hi : lo = f.hw.start /\ BmRoom(lo, hi, f) /\ BmSpace(fs, i, lo, hi, f)
    BY <1>2, BmRoomPlaced
  <2>2. BmBeginning(fs, i, lo, f, r)
    BY <1>2, <2>1, Zenon DEF BmBeginning, FlushOf, BmAt
  <2>3. BmFlushedAll(r, lo, hi, f) /\ r.files = fs /\ r.at = i
    BY <1>1, <2>1, <2>2, BmFrom
  <2> QED  BY <2>1, <2>3, BmNotMoved
<1>3. CASE ~OnFlash(f)
  <2>1. PICK z \in Nat : z = f.size
    <3>1. f.size \in Nat
      BY <1>1, Zenon DEF IsFile
    <3> QED  BY <3>1
  <2>2. PICK p : p = Place(fs, i, z + 1)
    OBVIOUS
  <2>3. r = FlushNew(fs, i, p)
    BY <1>3, <2>1, <2>2, Zenon DEF FlushOf
  <2>4. CASE p.ok
    <3>1. PICK lo, hi : p.start = BmAt(lo) /\ BmRoom(lo, hi, f) /\ BmSpace(p.files, p.at, lo, hi, f) /\ BmMoved(p.files, p.at, fs, i)
      BY <1>3, <2>1, <2>2, <2>4, BmRoomNew
    <3>2. p.files[p.at] = f
      BY <3>1, Zenon DEF BmMoved
    <3>3. r = FlushFrom(p.files, p.at, p.start)
      BY <2>3, <2>4, Zenon DEF FlushNew
    <3>4. PICK es, e : es = p.files /\ e = p.at
      OBVIOUS
    <3>5. BmBeginning(es, e, lo, f, r) /\ BmSpace(es, e, lo, hi, f) /\ BmMoved(es, e, fs, i)
      BY <3>1, <3>2, <3>3, <3>4, Zenon DEF BmBeginning
    <3>6. BmFlushedAll(r, lo, hi, f) /\ r.files = es /\ r.at = e
      BY <1>1, <3>1, <3>5, BmFrom
    <3> QED  BY <3>1, <3>5, <3>6, Zenon
  <2>5. CASE ~p.ok
    <3>1. r = [s |-> "VolumeFull", files |-> fs, at |-> i, f |-> fs[i], ws |-> <<>>, kept |-> 0, hits |-> {}]
      BY <2>3, <2>5, Zenon DEF FlushNew
    <3>2. r.f = f /\ r.ws = <<>> /\ r.files = fs /\ r.at = i
      BY <3>1
    <3>3. BmRoom(0, 0, f)
      <4>1. ASSUME NEW c \in Cells, bmFlash[c].k = "desc"
            PROVE  bmFlash[c].d.start >= 0
        <5>1. IsDesc(bmFlash[c].d)
          BY <1>1, <4>1, Zenon DEF FlashGood
        <5> QED  BY <5>1 DEF IsDesc
      <4>2. 0 \in Nat /\ 0 <= BmLast + 1
        BY BmAtFacts
      <4> QED  BY <1>1, <1>3, <4>1, <4>2, Zenon DEF BmRoom
    <3>4. BmPath(<<>>, 0, 0, f, f.hw)
      BY <1>1, <3>3, BmPathInit
    <3>5. BmFlushedAll(r, 0, 0, f)
      BY <1>1, <1>3, <3>2, <3>4, Zenon DEF BmFlushedAll
    <3> QED  BY <3>2, <3>3, <3>5, BmNotMoved
  <2> QED  BY <2>4, <2>5
<1> QED  BY <1>2, <1>3

\* The order of the list depends on the descriptions only.
LEMMA BmOrderSame ==
  ASSUME NEW s, NEW t, DOMAIN s = DOMAIN t, \A q \in DOMAIN s : s[q].hw = t[q].hw
  PROVE  InDiskOrder(s) /\ ~Unplaced(s) => InDiskOrder(t) /\ ~Unplaced(t)
<1>1. \A q \in DOMAIN s : OnFlash(s[q]) <=> OnFlash(t[q])
  BY Zenon DEF OnFlash
<1>2. InDiskOrder(s) => InDiskOrder(t)
  <2> SUFFICES ASSUME InDiskOrder(s), NEW a \in DOMAIN t, NEW b \in DOMAIN t, a < b /\ OnFlash(t[a]) /\ OnFlash(t[b])
               PROVE  t[a].hw.start < t[b].hw.start
    BY Zenon DEF InDiskOrder
  <2>1. s[a].hw.start < s[b].hw.start
    BY <1>1, Zenon DEF InDiskOrder
  <2>2. s[a].hw = t[a].hw /\ s[b].hw = t[b].hw
    OBVIOUS
  <2> QED  BY <2>1, <2>2
<1>3. Unplaced(t) => Unplaced(s)
  BY <1>1, Zenon DEF Unplaced
<1> QED  BY <1>2, <1>3

\* A list is one of its own elements.
LEMMA BmOwnSet ==
  ASSUME NEW S, NEW s \in Seq(S)
  PROVE  s \in Seq(ToSet(s))
<1>1. PICK n \in Nat : n = Len(s)
  BY LenProperties
<1>2. s \in [1 .. n -> S] /\ DOMAIN s = 1 .. n
  BY <1>1, LenProperties
<1>3. \A k \in 1 .. n : s[k] \in ToSet(s)
  BY <1>2 DEF ToSet
<1>4. s \in [1 .. n -> ToSet(s)]
  BY <1>2, <1>3
<1>5. [1 .. n -> ToSet(s)] \in {[1 .. k -> ToSet(s)] : k \in Nat}
  OBVIOUS
<1>6. Seq(ToSet(s)) = UNION {[1 .. k -> ToSet(s)] : k \in Nat}
  BY SeqDef, Zenon
<1> QED  BY <1>4, <1>5, <1>6, Zenon

\* The list ls in which the file f at i has moved to e and become h, with description cur.
BmAfterwards(fs, i, f, es, e, h, cur, ls) ==
  /\ f = fs[i] /\ BmMoved(es, e, fs, i) /\ IsFile(h) /\ h.hw = cur
  /\ ls = [es EXCEPT ![e] = h] /\ InDiskOrder(ls) /\ ~Unplaced(ls)

\* A flush that is over leaves a list that mirrors the flash, if that is in disk order.
LEMMA BmAfterFlush ==
  ASSUME NEW fs, BmMirrors(fs), NEW i \in DOMAIN fs, NEW f, NEW lo, NEW hi, BmRoom(lo, hi, f),
         NEW g, NEW cur, BmMid(g, lo, hi, f, cur), OnFlash(f) => cur.count > 0,
         NEW es, NEW e, NEW h, NEW ls, BmAfterwards(fs, i, f, es, e, h, cur, ls)
  PROVE  ListGood(ls, g) /\ ls \in Seq(ToSet(ls)) /\ \A q \in DOMAIN ls : IsFile(ls[q])
<1>1. /\ f = fs[i] /\ BmMoved(es, e, fs, i) /\ IsFile(h) /\ h.hw = cur
      /\ ls = [es EXCEPT ![e] = h] /\ InDiskOrder(ls) /\ ~Unplaced(ls)
  BY Zenon DEF BmAfterwards
<1>2. PICK S : S = ToSet(fs) \cup {h}
  OBVIOUS
<1>3. es \in Seq(S) /\ h \in S
  <2>1. es \in Seq(ToSet(fs)) /\ ToSet(fs) \subseteq S
    BY <1>1, <1>2, Zenon DEF BmMoved
  <2> QED  BY <1>1, <1>2, <2>1, SeqMonotonic
<1>4. DOMAIN ls = DOMAIN es /\ e \in DOMAIN es /\ (\A q \in DOMAIN ls : ls[q] = IF q = e THEN h ELSE es[q])
  <2>1. e \in DOMAIN es
    BY <1>1, Zenon DEF BmMoved
  <2> QED  BY <1>1, <2>1
<1>5. ls \in Seq(S)
  BY <1>1, <1>3, <1>4
<1>6. ls \in Seq(ToSet(ls))
  BY <1>1, <1>5, BmOwnSet
<1>7. \A k \in DOMAIN fs : IsFile(fs[k])
  BY Zenon DEF BmMirrors
<1>8. ASSUME NEW q \in DOMAIN ls
      PROVE  IsFile(ls[q])
  <2>1. CASE q = e
    BY <1>1, <1>4, <2>1
  <2>2. CASE q # e
    <3>1. PICK k \in DOMAIN fs : es[q] = fs[k]
      BY <1>1, <1>4, <2>2, Zenon DEF BmMoved
    <3> QED  BY <1>1, <1>4, <1>7, <2>2, <3>1, Zenon
  <2> QED  BY <1>1, <2>1, <2>2
<1>9. FlashGood(bmFlash)
  BY Zenon DEF BmMirrors
<1>10. OnFlash(h) <=> cur.count > 0
  BY <1>1, Zenon DEF OnFlash
<1>11. ASSUME NEW k \in DOMAIN fs, k # i, OnFlash(fs[k])
       PROVE  Address(fs[k].hw) \in Cells /\ Address(fs[k].hw) \notin BmArea(lo, hi) /\ bmFlash[Address(fs[k].hw)] = DescOf(fs[k].hw)
  <2>1. PICK d, c : d = fs[k].hw /\ c = Address(d)
    OBVIOUS
  <2>2. IsDesc(d) /\ c \in Cells /\ bmFlash[c] = DescOf(d) /\ bmFlash[c].k = "desc" /\ bmFlash[c].d = d
    BY <1>1, <1>11, <2>1, BmListed
  <2>3. CASE c \in BmArea(lo, hi)
    <3>1. OnFlash(f) /\ d = f.hw
      BY <1>1, <1>9, <2>2, <2>3, BmInRoom
    <3>2. k \in Nat /\ i \in Nat
      BY BmPlaces
    <3>3. d.end < d.start
      <4>1. k < i \/ i < k
        BY <1>1, <1>11, <3>2
      <4>2. k < i => fs[k].hw.end < fs[i].hw.start
        BY <1>1, <1>11, <3>1, BmListOrder
      <4>3. i < k => fs[i].hw.end < fs[k].hw.start
        BY <1>1, <1>11, <3>1, BmListOrder
      <4>4. fs[i].hw = d /\ fs[k].hw = d
        BY <1>1, <2>1, <3>1
      <4> QED  BY <4>1, <4>2, <4>3, <4>4, Zenon
    <3> QED  BY <1>1, <2>2, <3>3 DEF IsDesc
  <2> QED  BY <1>1, <2>1, <2>2, <2>3
<1>12. ASSUME NEW q \in DOMAIN ls, OnFlash(ls[q])
       PROVE  g[Address(ls[q].hw)] = DescOf(ls[q].hw)
  <2>1. CASE q = e
    <3>1. ls[q] = h /\ cur.count > 0
      BY <1>1, <1>4, <1>10, <1>12, <2>1
    <3>2. g[Address(cur)] = DescOf(cur)
      BY <3>1, Zenon DEF BmMid
    <3> QED  BY <1>1, <3>1, <3>2, Zenon
  <2>2. CASE q # e
    <3>1. PICK k \in DOMAIN fs : k # i /\ es[q] = fs[k]
      BY <1>1, <1>4, <2>2, Zenon DEF BmMoved
    <3>2. ls[q] = fs[k]
      BY <1>1, <1>4, <2>2, <3>1, Zenon
    <3>3. PICK c : c = Address(fs[k].hw)
      OBVIOUS
    <3>4. c \in Cells /\ c \notin BmArea(lo, hi) /\ bmFlash[c] = DescOf(fs[k].hw)
      BY <1>1, <1>11, <1>12, <3>1, <3>2, <3>3
    <3>5. g[c] = bmFlash[c]
      BY <3>4, Zenon DEF BmMid
    <3> QED  BY <3>2, <3>3, <3>4, <3>5, Zenon
  <2> QED  BY <1>1, <2>1, <2>2
<1>13. ASSUME NEW c \in Cells, g[c].k = "desc"
       PROVE  \E q \in DOMAIN ls : OnFlash(ls[q]) /\ ls[q].hw = g[c].d
  <2>1. CASE c \in BmArea(lo, hi)
    <3>1. cur.count > 0 /\ g[c] = DescOf(cur)
      BY <1>1, <1>13, <2>1, Zenon DEF BmMid
    <3>2. g[c].d = cur
      BY <3>1, BmContents, Zenon
    <3>3. ls[e] = h /\ e \in DOMAIN ls
      BY <1>1, <1>4
    <3> QED  BY <1>1, <1>10, <3>1, <3>2, <3>3, Zenon
  <2>2. CASE c \notin BmArea(lo, hi)
    <3>1. g[c] = bmFlash[c]
      BY <1>1, <2>2, Zenon DEF BmMid
    <3>2. bmFlash[c].k = "desc"
      BY <1>1, <1>13, <3>1
    <3>3. PICK k \in DOMAIN fs : OnFlash(fs[k]) /\ fs[k].hw = bmFlash[c].d
      BY <3>2, BmDescListed
    <3>4. k # i
      <4>1. OnFlash(f) => bmFlash[c].d # f.hw
        BY <1>1, <1>9, <2>2, <3>2, BmInRoom
      <4> QED  BY <1>1, <3>3, <4>1
    <3>5. PICK q \in DOMAIN es : q # e /\ es[q] = fs[k]
      BY <1>1, <3>4, Zenon DEF BmMoved
    <3>6. ls[q] = fs[k] /\ q \in DOMAIN ls
      BY <1>1, <1>4, <3>5, Zenon
    <3> QED  BY <3>1, <3>3, <3>6, Zenon
  <2> QED  BY <1>1, <2>1, <2>2
<1>14. ListGood(ls, g)
  BY <1>1, <1>12, <1>13, Zenon DEF ListGood
<1> QED  BY <1>1, <1>6, <1>8, <1>14

\* Files that are described before and after a step have changed in their own data only.
BmKept(h) ==
  \A d : IsDesc(d) /\ bmFlash[Address(d)] = DescOf(d) /\ h[Address(d)] = DescOf(d)
           => \A c \in Extent(d) : h[c] # bmFlash[c] => h[c].id = d.id

\* What a flush leaves at any time, and what it leaves in the end.
LEMMA BmFlushLeaves ==
  ASSUME BmMirrors(bmFiles), NEW i \in DOMAIN bmFiles, bmFiles[i].open, NEW r, r = FlushOf(bmFiles, i), r.hits = {}
  PROVE  /\ IsFile(r.f) /\ r.f.id = bmFiles[i].id /\ Len(r.ws) \in Nat /\ DOMAIN r.ws = 1 .. Len(r.ws) /\ r.at \in Nat
         /\ \A k \in 0 .. Len(r.ws) : FlashGood(Written(r.ws, k)) /\ BmKept(Written(r.ws, k))
         /\ \A h : IsFile(h) /\ h.hw = r.f.hw /\ OrderHit([r.files EXCEPT ![r.at] = r.f]) = {} =>
              LET ls == [r.files EXCEPT ![r.at] = h]
              IN ListGood(ls, Written(r.ws, Len(r.ws))) /\ ls \in Seq(ToSet(ls)) /\ \A q \in DOMAIN ls : IsFile(ls[q])
<1>1. PICK f : f = bmFiles[i]
  OBVIOUS
<1>2. PICK lo, hi : BmRoom(lo, hi, f) /\ BmFlushedAll(r, lo, hi, f) /\ BmMoved(r.files, r.at, bmFiles, i)
  <2>1. PICK fs : fs = bmFiles
    OBVIOUS
  <2>2. BmMirrors(fs) /\ i \in DOMAIN fs /\ f = fs[i] /\ f.open /\ r = FlushOf(fs, i)
    BY <1>1, <2>1
  <2>3. \E lo, hi : BmRoom(lo, hi, f) /\ BmFlushedAll(r, lo, hi, f) /\ BmMoved(r.files, r.at, fs, i)
    BY <2>2, BmFlushIs
  <2> QED  BY <2>1, <2>3
<1>3. IsFile(r.f) /\ r.f.id = f.id /\ (OnFlash(f) => OnFlash(r.f)) /\ BmPath(r.ws, lo, hi, f, r.f.hw)
  BY <1>2, Zenon DEF BmFlushedAll
<1>4. Len(r.ws) \in Nat /\ DOMAIN r.ws = 1 .. Len(r.ws)
  <2>1. PICK S : r.ws \in Seq(S)
    BY <1>3, Zenon DEF BmPath
  <2> QED  BY <2>1, LenProperties
<1>5. FlashGood(bmFlash)
  BY Zenon DEF BmMirrors
<1>6. r.at \in Nat
  <2>1. PICK es, e : es = r.files /\ e = r.at
    OBVIOUS
  <2>2. es \in Seq(ToSet(bmFiles)) /\ e \in DOMAIN es
    BY <1>2, <2>1, Zenon DEF BmMoved
  <2>3. DOMAIN es = 1 .. Len(es) /\ Len(es) \in Nat
    BY <2>2, LenProperties
  <2> QED  BY <2>1, <2>2, <2>3
<1>7. ASSUME NEW k \in 0 .. Len(r.ws)
      PROVE  FlashGood(Written(r.ws, k)) /\ BmKept(Written(r.ws, k))
  <2>1. PICK g : g = Written(r.ws, k)
    OBVIOUS
  <2>2. PICK x : BmMid(g, lo, hi, f, x)
    BY <1>3, <2>1, Zenon DEF BmPath
  <2>3. FlashGood(g)
    BY <1>2, <1>5, <2>2, BmMidGood
  <2>4. BmKept(g)
    <3> SUFFICES ASSUME NEW d, IsDesc(d), bmFlash[Address(d)] = DescOf(d), g[Address(d)] = DescOf(d), NEW c \in Extent(d), g[c] # bmFlash[c]
                 PROVE  g[c].id = d.id
      BY Zenon DEF BmKept
    <3> QED  BY <1>2, <1>5, <2>2, BmMidKeeps
  <2> QED  BY <2>1, <2>3, <2>4
<1>8. ASSUME NEW h, IsFile(h), h.hw = r.f.hw, OrderHit([r.files EXCEPT ![r.at] = r.f]) = {},
             NEW ls, ls = [r.files EXCEPT ![r.at] = h]
      PROVE  ListGood(ls, Written(r.ws, Len(r.ws))) /\ ls \in Seq(ToSet(ls)) /\ \A q \in DOMAIN ls : IsFile(ls[q])
  <2>1. PICK g, cur, es, e, x : g = Written(r.ws, Len(r.ws)) /\ cur = r.f.hw /\ es = r.files /\ e = r.at /\ x = r.f
    OBVIOUS
  <2>2. BmMid(g, lo, hi, f, cur) /\ (OnFlash(f) => cur.count > 0)
    BY <1>3, <2>1, Zenon DEF BmPath, OnFlash
  <2>3. PICK ks : ks = [es EXCEPT ![e] = x]
    OBVIOUS
  <2>4. InDiskOrder(ks) /\ ~Unplaced(ks)
    <3>1. OrderHit(ks) = {}
      BY <1>8, <2>1, <2>3, Zenon
    <3>2. {"order"} # {}
      OBVIOUS
    <3> QED  BY <3>1, <3>2, Zenon DEF OrderHit
  <2>5. ls = [es EXCEPT ![e] = h] /\ x.hw = h.hw /\ BmMoved(es, e, bmFiles, i) /\ h.hw = cur
    BY <1>2, <1>8, <2>1, Zenon
  <2>6. DOMAIN ks = DOMAIN ls /\ \A q \in DOMAIN ks : ks[q].hw = ls[q].hw
    <3>1. DOMAIN ks = DOMAIN es /\ DOMAIN ls = DOMAIN es
      BY <2>3, <2>5
    <3>2. \A q \in DOMAIN es : ks[q] = (IF q = e THEN x ELSE es[q]) /\ ls[q] = (IF q = e THEN h ELSE es[q])
      BY <2>3, <2>5
    <3> QED  BY <2>5, <3>1, <3>2, Zenon
  <2>7. InDiskOrder(ls) /\ ~Unplaced(ls)
    BY <2>4, <2>6, BmOrderSame
  <2>8. PICK fs : fs = bmFiles
    OBVIOUS
  <2>9. BmAfterwards(fs, i, f, es, e, h, cur, ls)
    BY <1>1, <1>8, <2>5, <2>7, <2>8, Zenon DEF BmAfterwards
  <2>10. BmMirrors(fs) /\ i \in DOMAIN fs
    BY <2>8
  <2>11. ListGood(ls, g) /\ ls \in Seq(ToSet(ls)) /\ \A q \in DOMAIN ls : IsFile(ls[q])
    BY <1>2, <2>2, <2>9, <2>10, BmAfterFlush
  <2> QED  BY <2>1, <2>11, Zenon
<1> QED  BY <1>1, <1>3, <1>4, <1>6, <1>7, <1>8, Zenon

-------------------------------------------------------------------------------
\* The file f with everything but its description set anew.
BmEdit(f, o, n, z, p, m, rs) ==
  [id |-> f.id, hw |-> f.hw, addr |-> f.addr, open |-> o, name |-> n, size |-> z, pos |-> p, mode |-> m, regs |-> rs]

\* The file f has become h, and its description is what it was.
BmStill(h, f) == IsFile(h) /\ h.hw = f.hw

\* A file that is set anew is one, if its regions are within its size.
LEMMA BmEdited ==
  ASSUME NEW f, IsFile(f), NEW o \in BOOLEAN, NEW n, NEW z \in Nat, NEW p \in Nat, NEW m, NEW rs \in Seq(Regions),
         o => \A k \in 1 .. Len(rs) : rs[k].off + rs[k].size <= z
  PROVE  BmStill(BmEdit(f, o, n, z, p, m, rs), f)
<1>1. PICK h : h = BmEdit(f, o, n, z, p, m, rs)
  OBVIOUS
<1>2. PICK a1, a2, a3 : a1 = f.id /\ a2 = f.hw /\ a3 = f.addr
  OBVIOUS
<1>3. h = [id |-> a1, hw |-> a2, addr |-> a3, open |-> o, name |-> n, size |-> z, pos |-> p, mode |-> m, regs |-> rs]
  BY <1>1, <1>2, Zenon DEF BmEdit
<1>4. /\ h.id = a1 /\ h.hw = a2 /\ h.addr = a3 /\ h.open = o /\ h.name = n /\ h.size = z /\ h.pos = p
      /\ h.mode = m /\ h.regs = rs
  BY <1>3, BmFileFields
<1>5. h = [id |-> h.id, hw |-> h.hw, addr |-> h.addr, open |-> h.open, name |-> h.name, size |-> h.size,
           pos |-> h.pos, mode |-> h.mode, regs |-> h.regs]
  BY <1>3, <1>4, Zenon
<1>6. (a2 = NoDesc /\ a3 = 0) \/ (IsDesc(a2) /\ a2.id = a1 /\ a3 = Address(a2))
  BY <1>2, Zenon DEF IsFile
<1> QED  BY <1>1, <1>2, <1>4, <1>5, <1>6, Zenon DEF IsFile, BmStill

\* A file with another size and other regions.
LEMMA BmFileResize ==
  ASSUME NEW a1, NEW a2, NEW a3, NEW a4, NEW a5, NEW a6, NEW a7, NEW a8, NEW a9, NEW h,
         h = [id |-> a1, hw |-> a2, addr |-> a3, open |-> a4, name |-> a5, size |-> a6, pos |-> a7,
              mode |-> a8, regs |-> a9],
         NEW x, NEW y, NEW g, g = [h EXCEPT !.size = x, !.regs = y]
  PROVE  g = [id |-> a1, hw |-> a2, addr |-> a3, open |-> a4, name |-> a5, size |-> x, pos |-> a7,
              mode |-> a8, regs |-> y]
OBVIOUS

\* A file that is opened or closed.
LEMMA BmFileReopen ==
  ASSUME NEW a1, NEW a2, NEW a3, NEW a4, NEW a5, NEW a6, NEW a7, NEW a8, NEW a9, NEW h,
         h = [id |-> a1, hw |-> a2, addr |-> a3, open |-> a4, name |-> a5, size |-> a6, pos |-> a7,
              mode |-> a8, regs |-> a9],
         NEW x, NEW y, NEW z, NEW u, NEW v, NEW g, g = [h EXCEPT !.open = x, !.name = y, !.size = z, !.pos = u, !.mode = v]
  PROVE  g = [id |-> a1, hw |-> a2, addr |-> a3, open |-> x, name |-> y, size |-> z, pos |-> u,
              mode |-> v, regs |-> a9]
OBVIOUS

\* A file that is written to.
LEMMA BmFileRewrite ==
  ASSUME NEW a1, NEW a2, NEW a3, NEW a4, NEW a5, NEW a6, NEW a7, NEW a8, NEW a9, NEW h,
         h = [id |-> a1, hw |-> a2, addr |-> a3, open |-> a4, name |-> a5, size |-> a6, pos |-> a7,
              mode |-> a8, regs |-> a9],
         NEW x, NEW y, NEW z, NEW g, g = [h EXCEPT !.regs = x, !.pos = y, !.size = z]
  PROVE  g = [id |-> a1, hw |-> a2, addr |-> a3, open |-> a4, name |-> a5, size |-> z, pos |-> y,
              mode |-> a8, regs |-> x]
OBVIOUS

\* A file that is opened, written to or made smaller or longer.
BmOpenedAs(f, n, z, m) == [f EXCEPT !.open = TRUE, !.name = n, !.size = z, !.pos = 0, !.mode = m]
BmRewritten(f, rs, p, z) == [f EXCEPT !.regs = rs, !.pos = p, !.size = z]
BmMovedTo(f, p) == [f EXCEPT !.pos = p]
BmRenamed(f, n) == [f EXCEPT !.name = n]
BmResized(f, z, rs) == [f EXCEPT !.size = z, !.regs = rs]

\* BootMonFsOpenFile sets name, size, position and mode.
LEMMA BmReopenEdit ==
  ASSUME NEW f, IsFile(f), NEW n, NEW z, NEW m
  PROVE  BmOpenedAs(f, n, z, m) = BmEdit(f, TRUE, n, z, 0, m, f.regs)
<1>1. PICK a1, a2, a3, a4, a5, a6, a7, a8, a9 :
        /\ a1 = f.id /\ a2 = f.hw /\ a3 = f.addr /\ a4 = f.open /\ a5 = f.name /\ a6 = f.size /\ a7 = f.pos
        /\ a8 = f.mode /\ a9 = f.regs
  OBVIOUS
<1>2. PICK g : g = [id |-> a1, hw |-> a2, addr |-> a3, open |-> a4, name |-> a5, size |-> a6, pos |-> a7, mode |-> a8, regs |-> a9]
  OBVIOUS
<1>3. f = g
  BY <1>1, <1>2, Zenon DEF IsFile
<1>4. PICK yes, nil : yes = TRUE /\ nil = 0
  BY Zenon
<1>5. PICK h : h = [g EXCEPT !.open = yes, !.name = n, !.size = z, !.pos = nil, !.mode = m]
  OBVIOUS
<1>6. h = [id |-> a1, hw |-> a2, addr |-> a3, open |-> yes, name |-> n, size |-> z, pos |-> nil, mode |-> m, regs |-> a9]
  BY ONLY <1>2, <1>5, BmFileReopen, Zenon
<1> QED  BY <1>1, <1>3, <1>4, <1>5, <1>6, Zenon DEF BmEdit, BmOpenedAs

\* BootMonFsReadFile and BootMonFsSetPosition set the position.
LEMMA BmMoveEdit ==
  ASSUME NEW f, IsFile(f), NEW p
  PROVE  BmMovedTo(f, p) = BmEdit(f, f.open, f.name, f.size, p, f.mode, f.regs)
<1>1. PICK a1, a2, a3, a4, a5, a6, a7, a8, a9 :
        /\ a1 = f.id /\ a2 = f.hw /\ a3 = f.addr /\ a4 = f.open /\ a5 = f.name /\ a6 = f.size /\ a7 = f.pos
        /\ a8 = f.mode /\ a9 = f.regs
  OBVIOUS
<1>2. PICK g : g = [id |-> a1, hw |-> a2, addr |-> a3, open |-> a4, name |-> a5, size |-> a6, pos |-> a7, mode |-> a8, regs |-> a9]
  OBVIOUS
<1>3. f = g
  BY <1>1, <1>2, Zenon DEF IsFile
<1>4. PICK h : h = [g EXCEPT !.pos = p]
  OBVIOUS
<1>5. h = [id |-> a1, hw |-> a2, addr |-> a3, open |-> a4, name |-> a5, size |-> a6, pos |-> p, mode |-> a8, regs |-> a9]
  BY ONLY <1>2, <1>4
<1> QED  BY <1>1, <1>3, <1>4, <1>5, Zenon DEF BmEdit, BmMovedTo

\* BootMonFsWriteFile sets regions, position and size.
LEMMA BmRewriteEdit ==
  ASSUME NEW f, IsFile(f), NEW rs, NEW p, NEW z
  PROVE  BmRewritten(f, rs, p, z) = BmEdit(f, f.open, f.name, z, p, f.mode, rs)
<1>1. PICK a1, a2, a3, a4, a5, a6, a7, a8, a9 :
        /\ a1 = f.id /\ a2 = f.hw /\ a3 = f.addr /\ a4 = f.open /\ a5 = f.name /\ a6 = f.size /\ a7 = f.pos
        /\ a8 = f.mode /\ a9 = f.regs
  OBVIOUS
<1>2. PICK g : g = [id |-> a1, hw |-> a2, addr |-> a3, open |-> a4, name |-> a5, size |-> a6, pos |-> a7, mode |-> a8, regs |-> a9]
  OBVIOUS
<1>3. f = g
  BY <1>1, <1>2, Zenon DEF IsFile
<1>4. PICK h : h = [g EXCEPT !.regs = rs, !.pos = p, !.size = z]
  OBVIOUS
<1>5. h = [id |-> a1, hw |-> a2, addr |-> a3, open |-> a4, name |-> a5, size |-> z, pos |-> p, mode |-> a8, regs |-> rs]
  BY ONLY <1>2, <1>4, BmFileRewrite, Zenon
<1> QED  BY <1>1, <1>3, <1>4, <1>5, Zenon DEF BmEdit, BmRewritten

\* SetFileSize sets size and regions.
LEMMA BmResizeEdit ==
  ASSUME NEW f, IsFile(f), NEW z, NEW rs
  PROVE  BmResized(f, z, rs) = BmEdit(f, f.open, f.name, z, f.pos, f.mode, rs)
<1>1. PICK a1, a2, a3, a4, a5, a6, a7, a8, a9 :
        /\ a1 = f.id /\ a2 = f.hw /\ a3 = f.addr /\ a4 = f.open /\ a5 = f.name /\ a6 = f.size /\ a7 = f.pos
        /\ a8 = f.mode /\ a9 = f.regs
  OBVIOUS
<1>2. PICK g : g = [id |-> a1, hw |-> a2, addr |-> a3, open |-> a4, name |-> a5, size |-> a6, pos |-> a7, mode |-> a8, regs |-> a9]
  OBVIOUS
<1>3. f = g
  BY <1>1, <1>2, Zenon DEF IsFile
<1>4. PICK h : h = [g EXCEPT !.size = z, !.regs = rs]
  OBVIOUS
<1>5. h = [id |-> a1, hw |-> a2, addr |-> a3, open |-> a4, name |-> a5, size |-> z, pos |-> a7, mode |-> a8, regs |-> rs]
  BY ONLY <1>2, <1>4, BmFileResize, Zenon
<1> QED  BY <1>1, <1>3, <1>4, <1>5, Zenon DEF BmEdit, BmResized

\* SetFileInfo sets the name.
LEMMA BmRenameEdit ==
  ASSUME NEW f, IsFile(f), NEW n
  PROVE  BmRenamed(f, n) = BmEdit(f, f.open, n, f.size, f.pos, f.mode, f.regs)
<1>1. PICK a1, a2, a3, a4, a5, a6, a7, a8, a9 :
        /\ a1 = f.id /\ a2 = f.hw /\ a3 = f.addr /\ a4 = f.open /\ a5 = f.name /\ a6 = f.size /\ a7 = f.pos
        /\ a8 = f.mode /\ a9 = f.regs
  OBVIOUS
<1>2. PICK g : g = [id |-> a1, hw |-> a2, addr |-> a3, open |-> a4, name |-> a5, size |-> a6, pos |-> a7, mode |-> a8, regs |-> a9]
  OBVIOUS
<1>3. f = g
  BY <1>1, <1>2, Zenon DEF IsFile
<1>4. PICK h : h = [g EXCEPT !.name = n]
  OBVIOUS
<1>5. h = [id |-> a1, hw |-> a2, addr |-> a3, open |-> a4, name |-> n, size |-> a6, pos |-> a7, mode |-> a8, regs |-> a9]
  BY ONLY <1>2, <1>4
<1> QED  BY <1>1, <1>3, <1>4, <1>5, Zenon DEF BmEdit, BmRenamed

\* BootMonFsCloseFile forgets all of it but the regions.
LEMMA BmCloseEdit ==
  ASSUME NEW f, IsFile(f)
  PROVE  Closed(f) = BmEdit(f, FALSE, "", 0, 0, "read", f.regs)
<1>1. PICK a1, a2, a3, a4, a5, a6, a7, a8, a9 :
        /\ a1 = f.id /\ a2 = f.hw /\ a3 = f.addr /\ a4 = f.open /\ a5 = f.name /\ a6 = f.size /\ a7 = f.pos
        /\ a8 = f.mode /\ a9 = f.regs
  OBVIOUS
<1>2. PICK g : g = [id |-> a1, hw |-> a2, addr |-> a3, open |-> a4, name |-> a5, size |-> a6, pos |-> a7, mode |-> a8, regs |-> a9]
  OBVIOUS
<1>3. f = g
  BY <1>1, <1>2, Zenon DEF IsFile
<1>4. PICK e, r, no, nil : e = "" /\ r = "read" /\ no = FALSE /\ nil = 0
  BY Zenon
<1>5. PICK h : h = [g EXCEPT !.open = no, !.name = e, !.size = nil, !.pos = nil, !.mode = r]
  OBVIOUS
<1>6. h = [id |-> a1, hw |-> a2, addr |-> a3, open |-> no, name |-> e, size |-> nil, pos |-> nil, mode |-> r, regs |-> a9]
  BY ONLY <1>2, <1>5, BmFileReopen, Zenon
<1> QED  BY <1>1, <1>3, <1>4, <1>5, <1>6, Zenon DEF BmEdit, Closed

-------------------------------------------------------------------------------
\* k is the function that ImageLength is defined by, on the first n regions.
BmLengths(f, n, k) ==
  k = [j \in 0 .. n |->
         IF j = 0 THEN f.hw.size
         ELSE LET top == f.regs[j].off + f.regs[j].size
              IN IF top > k[j - 1] THEN k[j - 1] + top ELSE k[j - 1]]

\* It is there.
LEMMA BmLengthsExist ==
  ASSUME NEW f, NEW n \in Nat
  PROVE  \E k : BmLengths(f, n, k)
<1> DEFINE N == {m \in Nat : \E k : BmLengths(f, m, k)}
           first == f.hw.size
           top(j) == f.regs[j].off + f.regs[j].size
           next(v, j) == IF top(j) > v THEN v + top(j) ELSE v
<1>1. 0 \in N
  <2> DEFINE k == [j \in 0 .. 0 |-> first]
  <2>1. k = [j \in 0 .. 0 |-> IF j = 0 THEN first ELSE next(k[j - 1], j)]
    <3> HIDE DEF first, next
    <3> QED  OBVIOUS
  <2> HIDE DEF k
  <2> QED  BY <2>1 DEF BmLengths
<1>2. ASSUME NEW m \in N
      PROVE  m + 1 \in N
  <2>1. PICK k : BmLengths(f, m, k)
    OBVIOUS
  <2>2. k = [j \in 0 .. m |-> IF j = 0 THEN first ELSE next(k[j - 1], j)]
    BY <2>1, Zenon DEF BmLengths
  <2> HIDE DEF first, next
  <2> DEFINE v == next(k[m], m + 1)
             g == [j \in 0 .. m + 1 |-> IF j = m + 1 THEN v ELSE k[j]]
             e(j) == IF j = 0 THEN first ELSE next(g[j - 1], j)
  <2>3. m \in Nat /\ m + 1 \in Nat
    OBVIOUS
  <2>4. ASSUME NEW j \in 0 .. m + 1
        PROVE  g[j] = e(j)
    <3>1. CASE j = m + 1
      <4>1. j # 0 /\ j - 1 = m /\ m \in 0 .. m + 1 /\ m # m + 1
        BY <2>3, <3>1
      <4>2. g[j] = v /\ g[j - 1] = k[m]
        BY <3>1, <4>1
      <4> HIDE DEF g
      <4> QED  BY <3>1, <4>1, <4>2, Zenon
    <3>2. CASE j = 0
      <4>1. 0 # m + 1 /\ 0 \in 0 .. m /\ 0 \in 0 .. m + 1
        BY <2>3
      <4>2. g[0] = k[0]
        BY <4>1
      <4>3. k[0] = first
        BY <2>2, <4>1
      <4> HIDE DEF g
      <4> QED  BY <3>2, <4>2, <4>3
    <3>3. CASE j # 0 /\ j # m + 1
      <4>1. j \in 0 .. m /\ j - 1 \in 0 .. m + 1 /\ j - 1 # m + 1
        BY <2>3, <3>3
      <4>2. g[j] = k[j] /\ g[j - 1] = k[j - 1]
        BY <3>3, <4>1
      <4>3. k[j] = IF j = 0 THEN first ELSE next(k[j - 1], j)
        BY <2>2, <4>1, Zenon
      <4> HIDE DEF g
      <4> QED  BY <4>2, <4>3
    <3> QED  BY <3>1, <3>2, <3>3
  <2>5. g = [j \in 0 .. m + 1 |-> e(j)]
    <3>1. g = [j \in 0 .. m + 1 |-> g[j]]
      OBVIOUS
    <3> HIDE DEF g
    <3> QED  BY <2>4, <3>1, Zenon
  <2> HIDE DEF g
  <2>6. BmLengths(f, m + 1, g)
    BY <2>5, Zenon DEF BmLengths, first, next, top
  <2> QED  BY <2>3, <2>6
<1>3. N = Nat
  <2> HIDE DEF N
  <2>1. N \in SUBSET Nat
    BY DEF N
  <2> QED  BY <1>1, <1>2, <2>1, Counting
<1> QED  BY <1>3

\* ImageLength: no region ends behind it.
LEMMA BmLength ==
  ASSUME NEW f, IsFile(f)
  PROVE  ImageLength(f) \in Nat /\ \A j \in 1 .. Len(f.regs) : f.regs[j].off + f.regs[j].size <= ImageLength(f)
<1>1. PICK n \in Nat : n = Len(f.regs)
  BY DEF IsFile
<1> DEFINE k == CHOOSE k : BmLengths(f, n, k)
           top(j) == f.regs[j].off + f.regs[j].size
           N == {m \in Nat : m <= n => k[m] \in Nat /\ \A j \in 1 .. m : top(j) <= k[m]}
<1>2. BmLengths(f, n, k)
  BY BmLengthsExist
<1>3. ImageLength(f) = k[n]
  BY <1>1, Zenon DEF ImageLength, BmLengths
<1> HIDE DEF k
<1>4. \A j \in 0 .. n : k[j] = IF j = 0 THEN f.hw.size ELSE IF top(j) > k[j - 1] THEN k[j - 1] + top(j) ELSE k[j - 1]
  BY <1>2, Zenon DEF BmLengths
<1>5. \A j \in 1 .. n : top(j) \in Nat
  <2>1. \A j \in 1 .. n : f.regs[j] \in Regions
    BY <1>1 DEF IsFile
  <2> QED  BY <2>1 DEF Regions
<1>6. f.hw.size \in Nat
  <2>1. OnFlash(f) => IsDesc(f.hw)
    BY BmOnFlash
  <2>2. ~OnFlash(f) => f.hw.size = 0
    BY BmOnFlash
  <2> QED  BY <2>1, <2>2 DEF IsDesc
<1> HIDE DEF top
<1>7. 0 \in N
  <2>1. k[0] = f.hw.size /\ 1 .. 0 = {}
    BY <1>4
  <2> QED  BY <1>6, <2>1
<1>8. ASSUME NEW m \in N
      PROVE  m + 1 \in N
  <2> SUFFICES ASSUME m + 1 <= n
               PROVE  k[m + 1] \in Nat /\ \A j \in 1 .. m + 1 : top(j) <= k[m + 1]
    OBVIOUS
  <2>1. m \in Nat /\ m <= n /\ m + 1 \in 0 .. n /\ m + 1 # 0 /\ (m + 1) - 1 = m /\ m + 1 \in 1 .. n
    BY <1>1
  <2>2. k[m] \in Nat /\ \A j \in 1 .. m : top(j) <= k[m]
    BY <2>1
  <2>3. k[m + 1] = IF top(m + 1) > k[m] THEN k[m] + top(m + 1) ELSE k[m]
    BY <1>4, <2>1, Zenon
  <2>4. k[m + 1] \in Nat /\ k[m] <= k[m + 1] /\ top(m + 1) <= k[m + 1]
    BY <1>5, <2>1, <2>2, <2>3
  <2>5. ASSUME NEW j \in 1 .. m + 1
        PROVE  top(j) <= k[m + 1]
    <3>1. CASE j = m + 1
      BY <2>4, <3>1
    <3>2. CASE j # m + 1
      <4>1. j \in 1 .. m /\ j \in 1 .. n
        BY <2>1, <3>2
      <4>2. top(j) <= k[m] /\ top(j) \in Nat
        BY <1>5, <2>2, <4>1
      <4> QED  BY <2>2, <2>4, <4>2
    <3> QED  BY <3>1, <3>2
  <2> QED  BY <2>4, <2>5
<1>9. N = Nat
  <2> HIDE DEF N
  <2>1. N \in SUBSET Nat
    BY DEF N
  <2> QED  BY <1>7, <1>8, <2>1, Counting
<1>10. k[n] \in Nat /\ \A j \in 1 .. n : top(j) <= k[n]
  BY <1>9
<1> QED  BY <1>1, <1>3, <1>10, Zenon DEF top
-------------------------------------------------------------------------------
\* On a good flash the files are apart.
LEMMA BmApart ==
  ASSUME NEW flash, FlashGood(flash), NEW a \in Cells, NEW b \in Cells, flash[a].k = "desc", flash[b].k = "desc", a # b
  PROVE  Extent(flash[a].d) \cap Extent(flash[b].d) = {} /\ flash[a].d # flash[b].d
<1>1. PICK d, e : d = flash[a].d /\ e = flash[b].d
  OBVIOUS
<1>2. IsDesc(d) /\ IsDesc(e) /\ a = Address(d) /\ b = Address(e)
  BY <1>1, Zenon DEF FlashGood
<1>3. a \in Nat /\ b \in Nat
  BY <1>2, BmDescPlace
<1>4. CASE a < b
  <2>1. d.end < e.start
    BY <1>1, <1>4, Zenon DEF FlashGood
  <2> QED  BY <1>1, <1>2, <2>1, BmDescOrder
<1>5. CASE b < a
  <2>1. e.end < d.start
    BY <1>1, <1>5, Zenon DEF FlashGood
  <2>2. Extent(e) \cap Extent(d) = {}
    BY <1>2, <2>1, BmDescOrder
  <2> QED  BY <1>1, <1>2, <2>2
<1> QED  BY <1>3, <1>4, <1>5

\* A file that is changed, but not its description.
LEMMA BmUpdated ==
  ASSUME NEW fs, BmMirrors(fs), NEW i \in DOMAIN fs, NEW h, IsFile(h), h.hw = fs[i].hw, NEW ls, ls = [fs EXCEPT ![i] = h]
  PROVE  BmMirrors(ls)
<1>1. PICK S : S = ToSet(fs) \cup {h}
  OBVIOUS
<1>2. fs \in Seq(S) /\ h \in S
  <2>1. fs \in Seq(ToSet(fs)) /\ ToSet(fs) \subseteq S
    BY <1>1, Zenon DEF BmMirrors
  <2> QED  BY <1>1, <2>1, SeqMonotonic
<1>3. DOMAIN ls = DOMAIN fs /\ \A q \in DOMAIN ls : ls[q] = IF q = i THEN h ELSE fs[q]
  OBVIOUS
<1>4. ls \in Seq(S)
  BY <1>2, <1>3
<1>5. ls \in Seq(ToSet(ls))
  BY <1>4, BmOwnSet
<1>6. \A q \in DOMAIN ls : IsFile(ls[q])
  BY <1>3, Zenon DEF BmMirrors
<1>7. \A q \in DOMAIN ls : ls[q].hw = fs[q].hw
  BY <1>3, Zenon
<1>8. \A q \in DOMAIN ls : OnFlash(ls[q]) <=> OnFlash(fs[q])
  BY <1>7, Zenon DEF OnFlash
<1>9. InDiskOrder(ls) /\ ~Unplaced(ls)
  <2>1. InDiskOrder(fs) /\ ~Unplaced(fs)
    BY Zenon DEF BmMirrors, ListGood
  <2> QED  BY <1>3, <1>7, <2>1, BmOrderSame
<1>10. \A q \in DOMAIN ls : OnFlash(ls[q]) => bmFlash[Address(ls[q].hw)] = DescOf(ls[q].hw)
  BY <1>3, <1>7, <1>8, Zenon DEF BmMirrors, ListGood
<1>11. \A c \in Cells : bmFlash[c].k = "desc" => \E q \in DOMAIN ls : OnFlash(ls[q]) /\ ls[q].hw = bmFlash[c].d
  BY <1>3, <1>7, <1>8, Zenon DEF BmMirrors, ListGood
<1>12. ListGood(ls, bmFlash)
  BY <1>9, <1>10, <1>11, Zenon DEF ListGood
<1> QED  BY <1>5, <1>6, <1>12, Zenon DEF BmMirrors

\* A file that is not on the flash yet is put at the head of the list.
LEMMA BmHeaded ==
  ASSUME NEW fs, BmMirrors(fs), NEW x, IsFile(x), ~OnFlash(x), NEW ls, BmIsJoin(ls, <<x>>, fs)
  PROVE  BmMirrors(ls)
<1>1. PICK S : S = ToSet(fs) \cup {x}
  OBVIOUS
<1>2. fs \in Seq(S) /\ x \in S
  <2>1. fs \in Seq(ToSet(fs)) /\ ToSet(fs) \subseteq S
    BY <1>1, Zenon DEF BmMirrors
  <2> QED  BY <1>1, <2>1, SeqMonotonic
<1>3. PICK n \in Nat : n = Len(fs) /\ DOMAIN fs = 1 .. n
  BY BmPlaces
<1>4. PICK t : t = <<x>> /\ t \in Seq(S) /\ Len(t) = 1 /\ t[1] = x
  <2>1. x \in S
    BY <1>2
  <2>2. <<x>> \in Seq(S) /\ Len(<<x>>) = 1 /\ <<x>>[1] = x
    BY ONLY <2>1
  <2> QED  BY <2>2
<1>5. ls \in Seq(S) /\ Len(ls) = Len(t) + Len(fs)
      /\ \A q \in 1 .. Len(t) + Len(fs) : ls[q] = IF q <= Len(t) THEN t[q] ELSE fs[q - Len(t)]
  <2>1. BmIsJoin(ls, t, fs)
    BY <1>4
  <2>2. t \in Seq(S) /\ fs \in Seq(S)
    BY <1>2, <1>4
  <2> QED  BY ONLY <2>1, <2>2, BmJoin
<1>6. DOMAIN ls = 1 .. n + 1
  <2>1. DOMAIN ls = 1 .. Len(ls)
    BY <1>5, LenProperties
  <2> QED  BY <1>3, <1>4, <1>5, <2>1
<1>7. ls[1] = x /\ \A q \in 1 .. n : ls[q + 1] = fs[q]
  <2>1. 1 \in 1 .. 1 + n /\ 1 <= 1 /\ \A q \in 1 .. n : q + 1 \in 1 .. 1 + n /\ ~ (q + 1 <= 1) /\ q + 1 - 1 = q
    OBVIOUS
  <2>2. \A q \in 1 .. 1 + n : ls[q] = IF q <= 1 THEN t[q] ELSE fs[q - 1]
    BY <1>3, <1>4, <1>5, Zenon
  <2>3. ls[1] = x
    BY <1>4, <2>1, <2>2, Zenon
  <2>4. ASSUME NEW q \in 1 .. n
        PROVE  ls[q + 1] = fs[q]
    <3>1. PICK w, v : w = q + 1 /\ v = w - 1
      OBVIOUS
    <3>2. w \in 1 .. 1 + n /\ ~ (w <= 1) /\ v = q
      BY <3>1
    <3>3. ls[w] = IF w <= 1 THEN t[w] ELSE fs[w - 1]
      BY <2>2, <3>2, Zenon
    <3>4. ls[w] = fs[v]
      BY <3>1, <3>2, <3>3, Zenon
    <3> QED  BY <3>1, <3>2, <3>4
  <2> QED  BY <2>3, <2>4
<1>8. ls \in Seq(ToSet(ls))
  BY <1>5, BmOwnSet
<1>9. \A q \in 1 .. n + 1 : q = 1 \/ (q - 1 \in 1 .. n /\ (q - 1) + 1 = q)
  OBVIOUS
<1>10. \A q \in DOMAIN ls : q = 1 \/ \E k \in DOMAIN fs : q = k + 1 /\ ls[q] = fs[k]
  BY <1>3, <1>6, <1>7, <1>9, Zenon
<1>11. \A k \in DOMAIN fs : k + 1 \in DOMAIN ls /\ ls[k + 1] = fs[k] /\ k \in Nat
  BY <1>3, <1>6, <1>7
<1>12. \A q \in DOMAIN ls : IsFile(ls[q])
  BY <1>7, <1>10, Zenon DEF BmMirrors
<1>13. \A q \in DOMAIN ls : OnFlash(ls[q]) => \E k \in DOMAIN fs : q = k + 1 /\ ls[q] = fs[k]
  BY <1>7, <1>10, Zenon
<1>14. InDiskOrder(ls)
  <2> SUFFICES ASSUME NEW a \in DOMAIN ls, NEW b \in DOMAIN ls, a < b, OnFlash(ls[a]), OnFlash(ls[b])
               PROVE  ls[a].hw.start < ls[b].hw.start
    BY Zenon DEF InDiskOrder
  <2>1. PICK u \in DOMAIN fs : a = u + 1 /\ ls[a] = fs[u]
    BY <1>13
  <2>2. PICK v \in DOMAIN fs : b = v + 1 /\ ls[b] = fs[v]
    BY <1>13
  <2>3. u < v
    BY <1>11, <2>1, <2>2
  <2> QED  BY <2>1, <2>2, <2>3, Zenon DEF BmMirrors, ListGood, InDiskOrder
<1>15. ~Unplaced(ls)
  <2> SUFFICES ASSUME NEW a \in DOMAIN ls, NEW b \in DOMAIN ls, a < b, OnFlash(ls[a]), ~OnFlash(ls[b])
               PROVE  FALSE
    BY Zenon DEF Unplaced
  <2>1. PICK u \in DOMAIN fs : a = u + 1 /\ ls[a] = fs[u]
    BY <1>13
  <2>2. u \in Nat /\ u >= 1 /\ b \in Nat
    BY <1>3, <1>6
  <2>3. b # 1
    BY <2>1, <2>2
  <2>4. PICK v \in DOMAIN fs : b = v + 1 /\ ls[b] = fs[v]
    BY <1>10, <2>3
  <2>5. u < v
    BY <1>11, <2>1, <2>4
  <2> QED  BY <2>1, <2>4, <2>5, Zenon DEF BmMirrors, ListGood, Unplaced
<1>16. \A q \in DOMAIN ls : OnFlash(ls[q]) => bmFlash[Address(ls[q].hw)] = DescOf(ls[q].hw)
  BY <1>13, Zenon DEF BmMirrors, ListGood
<1>17. \A c \in Cells : bmFlash[c].k = "desc" => \E q \in DOMAIN ls : OnFlash(ls[q]) /\ ls[q].hw = bmFlash[c].d
  <2> SUFFICES ASSUME NEW c \in Cells, bmFlash[c].k = "desc"
               PROVE  \E q \in DOMAIN ls : OnFlash(ls[q]) /\ ls[q].hw = bmFlash[c].d
    OBVIOUS
  <2>1. PICK k \in DOMAIN fs : OnFlash(fs[k]) /\ fs[k].hw = bmFlash[c].d
    BY BmDescListed
  <2>2. k + 1 \in DOMAIN ls /\ ls[k + 1] = fs[k]
    BY <1>11
  <2> QED  BY <2>1, <2>2, Zenon
<1>18. ListGood(ls, bmFlash)
  BY <1>14, <1>15, <1>16, <1>17, Zenon DEF ListGood
<1> QED  BY <1>8, <1>12, <1>18, Zenon DEF BmMirrors

\* A list without one of its files, on a flash from which its description is gone.
LEMMA BmDropped ==
  ASSUME NEW fs, BmMirrors(fs), NEW i \in DOMAIN fs, NEW ls, BmIsRemoved(ls, fs, i), NEW g,
         \A c \in Cells : g[c] = IF OnFlash(fs[i]) /\ c = Address(fs[i].hw) THEN Blank ELSE bmFlash[c]
  PROVE  BmMirror(ls, g) /\ BmKept(g)
<1>1. PICK n \in Nat : n = Len(fs) /\ DOMAIN fs = 1 .. n
  BY BmPlaces
<1>2. i \in 1 .. n /\ IsFile(fs[i]) /\ fs \in Seq(ToSet(fs))
  BY <1>1, BmPlaces DEF BmMirrors
<1>3. /\ ls \in Seq(ToSet(fs)) /\ Len(ls) = Len(fs) - 1
      /\ \A q \in 1 .. Len(ls) : ls[q] = IF q < i THEN fs[q] ELSE fs[q + 1]
  <2>1. i \in 1 .. Len(fs) /\ fs \in Seq(ToSet(fs))
    BY <1>1, <1>2
  <2> QED  BY ONLY <2>1, BmIsRemoved(ls, fs, i), BmRemoved
<1>4. PICK m \in Nat : m = n - 1 /\ Len(ls) = m /\ DOMAIN ls = 1 .. m
  <2>1. DOMAIN ls = 1 .. Len(ls) /\ Len(ls) \in Nat
    BY <1>3, LenProperties
  <2> QED  BY <1>1, <1>3, <2>1
<1> DEFINE at(q) == IF q < i THEN q ELSE q + 1
<1>5. \A q \in DOMAIN ls : at(q) \in DOMAIN fs /\ at(q) # i /\ ls[q] = fs[at(q)]
  <2>1. ASSUME NEW q \in 1 .. m
        PROVE  at(q) \in 1 .. n /\ at(q) # i
    BY <1>2, <1>4
  <2>2. ASSUME NEW q \in 1 .. m
        PROVE  ls[q] = fs[at(q)]
    BY <1>3, <1>4, Zenon
  <2> HIDE DEF at
  <2> QED  BY <1>1, <1>4, <2>1, <2>2
<1>6. \A p, q \in DOMAIN ls : p < q => at(p) < at(q)
  BY <1>2, <1>4
<1>7. \A k \in DOMAIN fs : k # i => \E q \in DOMAIN ls : at(q) = k
  <2> SUFFICES ASSUME NEW k \in 1 .. n, k # i
               PROVE  \E q \in 1 .. m : at(q) = k
    BY <1>1, <1>4
  <2>1. CASE k < i
    <3>1. k \in 1 .. m /\ at(k) = k
      BY <1>2, <1>4, <2>1
    <3> QED  BY <3>1
  <2>2. CASE i < k
    <3>1. k - 1 \in 1 .. m /\ at(k - 1) = k
      BY <1>2, <1>4, <2>2
    <3> QED  BY <3>1
  <2> QED  BY <1>2, <2>1, <2>2
<1> HIDE DEF at
<1>8. ls \in Seq(ToSet(ls))
  BY <1>3, BmOwnSet
<1>9. \A q \in DOMAIN ls : IsFile(ls[q])
  BY <1>5, Zenon DEF BmMirrors
<1>10. FlashGood(bmFlash)
  BY Zenon DEF BmMirrors
<1>11. Blank.k # "desc"
  BY BmContents, Zenon
<1>12. \A c \in Cells : g[c].k = "desc" => g[c] = bmFlash[c] /\ bmFlash[c].k = "desc" /\ ~ (OnFlash(fs[i]) /\ c = Address(fs[i].hw))
  BY <1>11, Zenon
<1>13. FlashGood(g)
  <2>1. \A c \in Cells : g[c].k = "desc" => g[c] = DescOf(g[c].d) /\ IsDesc(g[c].d) /\ c = Address(g[c].d)
    BY <1>10, <1>12, Zenon DEF FlashGood
  <2>2. \A c, e \in Cells : g[c].k = "desc" /\ g[e].k = "desc" /\ c < e => g[c].d.end < g[e].d.start
    BY <1>10, <1>12, Zenon DEF FlashGood
  <2> QED  BY <2>1, <2>2, Zenon DEF FlashGood
<1>14. ASSUME NEW q \in DOMAIN ls, OnFlash(ls[q])
       PROVE  g[Address(ls[q].hw)] = DescOf(ls[q].hw)
  <2>1. PICK k \in DOMAIN fs : k = at(q) /\ k # i /\ ls[q] = fs[k]
    BY <1>5
  <2>2. PICK d, c : d = fs[k].hw /\ c = Address(d)
    OBVIOUS
  <2>3. IsDesc(d) /\ c \in Cells /\ bmFlash[c] = DescOf(d) /\ bmFlash[c].d = d
    BY <1>14, <2>1, <2>2, BmListed
  <2>4. ~ (OnFlash(fs[i]) /\ c = Address(fs[i].hw))
    <3> SUFFICES ASSUME OnFlash(fs[i]), c = Address(fs[i].hw)
                 PROVE  FALSE
      OBVIOUS
    <3>1. PICK e : e = fs[i].hw
      OBVIOUS
    <3>2. IsDesc(e) /\ bmFlash[Address(e)].d = e
      BY <3>1, BmListed
    <3>3. e = d
      BY <2>3, <3>1, <3>2
    <3>4. k \in Nat /\ i \in Nat
      BY <1>1, <1>2
    <3>5. d.end < d.start
      <4>1. k < i => fs[k].hw.end < fs[i].hw.start
        BY <1>14, <2>1, BmListOrder
      <4>2. i < k => fs[i].hw.end < fs[k].hw.start
        BY <1>14, <2>1, BmListOrder
      <4>3. k < i \/ i < k
        BY <2>1, <3>4
      <4> QED  BY <2>2, <3>1, <3>3, <4>1, <4>2, <4>3, Zenon
    <3> QED  BY <2>3, <3>5 DEF IsDesc
  <2>5. g[c] = bmFlash[c]
    BY <2>3, <2>4, Zenon
  <2> QED  BY <2>1, <2>2, <2>3, <2>5, Zenon
<1>15. ASSUME NEW c \in Cells, g[c].k = "desc"
       PROVE  \E q \in DOMAIN ls : OnFlash(ls[q]) /\ ls[q].hw = g[c].d
  <2>1. g[c] = bmFlash[c] /\ bmFlash[c].k = "desc" /\ ~ (OnFlash(fs[i]) /\ c = Address(fs[i].hw))
    BY <1>12, <1>15
  <2>2. PICK k \in DOMAIN fs : OnFlash(fs[k]) /\ fs[k].hw = bmFlash[c].d
    BY <2>1, BmDescListed
  <2>3. c = Address(fs[k].hw)
    BY <1>10, <2>1, <2>2, Zenon DEF FlashGood
  <2>4. k # i
    BY <2>1, <2>2, <2>3
  <2>5. PICK q \in DOMAIN ls : at(q) = k
    BY <1>7, <2>4
  <2>6. ls[q] = fs[k]
    BY <1>5, <2>5
  <2> QED  BY <2>1, <2>2, <2>6, Zenon
<1>16. InDiskOrder(ls)
  <2> SUFFICES ASSUME NEW a \in DOMAIN ls, NEW b \in DOMAIN ls, a < b, OnFlash(ls[a]), OnFlash(ls[b])
               PROVE  ls[a].hw.start < ls[b].hw.start
    BY Zenon DEF InDiskOrder
  <2>1. PICK u, v : u = at(a) /\ v = at(b)
    OBVIOUS
  <2>2. u \in DOMAIN fs /\ v \in DOMAIN fs /\ u < v /\ ls[a] = fs[u] /\ ls[b] = fs[v]
    BY <1>5, <1>6, <2>1
  <2> QED  BY <2>2, Zenon DEF BmMirrors, ListGood, InDiskOrder
<1>17. ~Unplaced(ls)
  <2> SUFFICES ASSUME NEW a \in DOMAIN ls, NEW b \in DOMAIN ls, a < b, OnFlash(ls[a]), ~OnFlash(ls[b])
               PROVE  FALSE
    BY Zenon DEF Unplaced
  <2>1. PICK u, v : u = at(a) /\ v = at(b)
    OBVIOUS
  <2>2. u \in DOMAIN fs /\ v \in DOMAIN fs /\ u < v /\ ls[a] = fs[u] /\ ls[b] = fs[v]
    BY <1>5, <1>6, <2>1
  <2> QED  BY <2>2, Zenon DEF BmMirrors, ListGood, Unplaced
<1>18. ListGood(ls, g)
  BY <1>14, <1>15, <1>16, <1>17, Zenon DEF ListGood
<1>19. BmKept(g)
  <2> SUFFICES ASSUME NEW d, IsDesc(d), bmFlash[Address(d)] = DescOf(d), g[Address(d)] = DescOf(d),
                      NEW c \in Extent(d), g[c] # bmFlash[c]
               PROVE  FALSE
    BY Zenon DEF BmKept
  <2>1. PICK a : a = Address(d)
    OBVIOUS
  <2>2. a \in Cells /\ c \in Cells
    BY <2>1, BmDescPlace
  <2>3. bmFlash[a].k = "desc" /\ bmFlash[a].d = d /\ g[a] = bmFlash[a] /\ g[a].k = "desc"
    BY <2>1, BmContents, Zenon
  <2>4. OnFlash(fs[i]) /\ c = Address(fs[i].hw)
    BY <2>2, Zenon
  <2>5. PICK e : e = fs[i].hw
    OBVIOUS
  <2>6. IsDesc(e) /\ c = Address(e) /\ bmFlash[c].k = "desc" /\ bmFlash[c].d = e
    BY <2>4, <2>5, BmListed
  <2>7. a # c
    BY <1>12, <2>2, <2>3, <2>4
  <2>8. Extent(d) \cap Extent(e) = {}
    BY <1>10, <2>2, <2>3, <2>6, <2>7, BmApart
  <2>9. Address(e) \in Extent(e)
    <3>1. 0 \in Nat
      OBVIOUS
    <3> QED  BY <2>6, <3>1, BmElse
  <2> QED  BY <2>6, <2>8, <2>9
<1> QED  BY <1>8, <1>9, <1>13, <1>18, <1>19, Zenon DEF BmMirror

-------------------------------------------------------------------------------
\* The file that Found makes of a description.
BmAsFound(d) ==
  [id |-> d.id, hw |-> d, addr |-> Address(d), open |-> FALSE, name |-> "", size |-> 0, pos |-> 0, mode |-> "read",
   regs |-> <<>>]

\* ... is one.
LEMMA BmAsFoundIsFile ==
  ASSUME NEW d, IsDesc(d)
  PROVE  IsFile(BmAsFound(d)) /\ BmAsFound(d).hw = d /\ OnFlash(BmAsFound(d))
<1>1. PICK nil, no, rs : nil = 0 /\ no = FALSE /\ rs = <<>>
  OBVIOUS
<1>2. PICK h, i, a, e, r : h = BmAsFound(d) /\ i = d.id /\ a = Address(d) /\ e = "" /\ r = "read"
  BY Zenon
<1>3. h = [id |-> i, hw |-> d, addr |-> a, open |-> no, name |-> e, size |-> nil, pos |-> nil, mode |-> r, regs |-> rs]
  BY <1>1, <1>2, Zenon DEF BmAsFound
<1>4. /\ h.id = i /\ h.hw = d /\ h.addr = a /\ h.open = no /\ h.name = e /\ h.size = nil /\ h.pos = nil
      /\ h.mode = r /\ h.regs = rs
  BY ONLY <1>3, BmFileFields
<1>5. h = [id |-> h.id, hw |-> h.hw, addr |-> h.addr, open |-> h.open, name |-> h.name, size |-> h.size,
           pos |-> h.pos, mode |-> h.mode, regs |-> h.regs]
  BY <1>3, <1>4, Zenon
<1>6. rs \in Seq(Regions) /\ nil \in Nat /\ no \in BOOLEAN /\ ~no
  <2>1. rs \in Seq(Regions) /\ nil \in Nat
    BY ONLY <1>1
  <2>2. no \in BOOLEAN /\ ~no
    BY ONLY <1>1, Zenon
  <2> QED  BY ONLY <2>1, <2>2, Zenon
<1>7. IsFile(h)
  BY <1>1, <1>2, <1>4, <1>5, <1>6, Zenon DEF IsFile
<1>8. d.count = 1 /\ 1 > 0
  <2>1. d = [id |-> d.id, name |-> d.name, start |-> d.start, end |-> d.end, size |-> d.size, count |-> 1]
    BY Zenon DEF IsDesc
  <2> QED  BY <2>1
<1> QED  BY <1>2, <1>4, <1>7, <1>8, Zenon DEF OnFlash

\* The fields of a file that is found.
LEMMA BmFileFound ==
  ASSUME NEW a1, NEW a2, NEW a3, NEW a4, NEW a5, NEW a6, NEW a7, NEW a8, NEW a9, NEW h,
         h = [id |-> a1, hw |-> a2, addr |-> a3, open |-> a4, name |-> a5, size |-> a6, pos |-> a7,
              mode |-> a8, regs |-> a9],
         NEW x, NEW y, NEW z, NEW g, g = [h EXCEPT !.id = x, !.hw = y, !.addr = z]
  PROVE  g = [id |-> x, hw |-> y, addr |-> z, open |-> a4, name |-> a5, size |-> a6, pos |-> a7,
              mode |-> a8, regs |-> a9]
OBVIOUS

\* Where the description of a file that ends in block b is.
LEMMA BmValid ==
  ASSUME FlashGood(bmFlash), NEW b \in 0 .. BmLast
  PROVE  /\ BmAt(b + 1) - 1 \in Cells
         /\ IsImageValid(b) <=> bmFlash[BmAt(b + 1) - 1].k = "desc"
         /\ IsImageValid(b) => LET d == bmFlash[BmAt(b + 1) - 1].d
                               IN IsDesc(d) /\ d.end = b /\ Address(d) = BmAt(b + 1) - 1 /\ Found(b) = BmAsFound(d)
<1>1. PICK a : a = BmAt(b + 1) - 1
  OBVIOUS
<1>2. PICK d, x : x = bmFlash[a] /\ d = x.d
  OBVIOUS
<1>3. b \in Nat /\ b + 1 \in Nat /\ BmLast \in Nat /\ b + 1 <= BmLast + 1 /\ BmLast + 1 \in Nat
  <2>1. BmLast \in Nat
    BY BmAtFacts
  <2> QED  BY <2>1
<1>4. a \in Cells
  <2>1. BmAt(b + 1) <= BmAt(BmLast + 1) /\ BmAt(b + 1) \in Nat /\ BmAt(BmLast + 1) \in Nat
    BY <1>3, BmAtFacts
  <2>2. BmAt(b + 1) = BmAt(b) + BmBlock /\ BmAt(b) \in Nat /\ BmBlock \in Nat /\ BmBlock >= 2
    BY <1>3, BmAtFacts
  <2>3. PICK u \in Nat, v \in Nat : u = BmAt(b + 1) /\ v = BmAt(BmLast + 1) /\ u <= v /\ u >= 2
    BY <2>1, <2>2
  <2>4. u - 1 \in 0 .. v - 1
    BY ONLY <2>3, u \in Nat, v \in Nat
  <2>5. Cells = 0 .. v - 1
    BY <2>3, Zenon DEF Cells, BmAt
  <2> QED  BY <1>1, <2>3, <2>4, <2>5
<1>5. IsImageValid(b) <=> x.k = "desc" /\ d.end = b /\ d.start <= d.end
  BY <1>1, <1>2, Zenon DEF IsImageValid, BmAt
<1>6. x.k = "desc" => x = DescOf(d) /\ IsDesc(d) /\ a = Address(d)
  BY <1>2, <1>4, Zenon DEF FlashGood
<1>7. ASSUME x.k = "desc"
      PROVE  d.end = b /\ d.start <= d.end
  <2>1. d.end \in Nat /\ d.start <= d.end
    BY <1>6, <1>7 DEF IsDesc
  <2>2. Address(d) = BmAt(d.end + 1) - 1 /\ d.end + 1 \in Nat
    BY <1>6, <1>7, <2>1, BmDescPlace
  <2>3. BmAt(d.end + 1) = BmAt(b + 1)
    <3>1. BmAt(d.end + 1) \in Nat /\ BmAt(b + 1) \in Nat
      BY <1>3, <2>2, BmAtFacts
    <3> QED  BY <1>1, <1>6, <1>7, <2>2, <3>1
  <2>4. d.end + 1 = b + 1
    <3>1. BmAt(d.end + 1) \div BmBlock = d.end + 1
      BY <2>2, BmBlockOf
    <3>2. BmAt(b + 1) \div BmBlock = b + 1
      BY <1>3, BmBlockOf
    <3> QED  BY <2>3, <3>1, <3>2
  <2> QED  BY <1>3, <2>1, <2>4
<1>8. IsImageValid(b) => Found(b) = BmAsFound(d)
  <2> SUFFICES ASSUME IsImageValid(b)
               PROVE  Found(b) = BmAsFound(d)
    OBVIOUS
  <2>1. x = DescOf(d) /\ a = Address(d)
    BY <1>5, <1>6
  <2>2. x.id = d.id
    BY <2>1, BmContents, Zenon
  <2>3. Found(b) = [NewFile EXCEPT !.id = x.id, !.hw = d, !.addr = a]
    BY <1>1, <1>2, Zenon DEF Found, BmAt
  <2>4. PICK e, r, nil, no, rs, nd : e = "" /\ r = "read" /\ nil = 0 /\ no = FALSE /\ rs = <<>> /\ nd = NoDesc
    BY Zenon
  <2>5. PICK nf, i : nf = NewFile /\ i = d.id
    OBVIOUS
  <2>6. nf = [id |-> nil, hw |-> nd, addr |-> nil, open |-> no, name |-> e, size |-> nil, pos |-> nil, mode |-> r, regs |-> rs]
    BY <2>4, <2>5, Zenon DEF NewFile
  <2>7. [nf EXCEPT !.id = i, !.hw = d, !.addr = a]
        = [id |-> i, hw |-> d, addr |-> a, open |-> no, name |-> e, size |-> nil, pos |-> nil, mode |-> r, regs |-> rs]
    <3>1. PICK h : h = [nf EXCEPT !.id = i, !.hw = d, !.addr = a]
      OBVIOUS
    <3>2. h = [id |-> i, hw |-> d, addr |-> a, open |-> no, name |-> e, size |-> nil, pos |-> nil, mode |-> r, regs |-> rs]
      BY ONLY <2>6, <3>1, BmFileFound, Zenon
    <3> QED  BY ONLY <3>1, <3>2, Zenon
  <2> QED  BY <2>1, <2>2, <2>3, <2>4, <2>5, <2>7, Zenon DEF BmAsFound
<1> QED  BY <1>1, <1>2, <1>4, <1>5, <1>6, <1>7, <1>8, Zenon

\* A scan of a good flash gives a list that mirrors it.
LEMMA BmScanMirrors ==
  ASSUME FlashGood(bmFlash)
  PROVE  BmMirrors(Scan)
<1> DEFINE T == 0 .. BmLast
           s == [i \in 1 .. (BmLast + 1) |-> i - 1]
           V == {lba \in 0 .. BmLast : IsImageValid(lba)}
<1>1. BmLast \in Nat /\ BmLast + 1 \in Nat
  BY BmAtFacts
<1>2. s \in Seq(T) /\ Len(s) = BmLast + 1 /\ \A b \in T : b + 1 \in 1 .. BmLast + 1 /\ s[b + 1] = b
  <2>1. s \in [1 .. BmLast + 1 -> T]
    BY <1>1
  <2>2. s \in Seq(T)
    <3> HIDE DEF s, T
    <3>1. [1 .. BmLast + 1 -> T] \in {[1 .. k -> T] : k \in Nat}
      BY <1>1, Zenon
    <3>2. Seq(T) = UNION {[1 .. k -> T] : k \in Nat}
      BY SeqDef, Zenon
    <3> QED  BY <2>1, <3>1, <3>2, Zenon
  <2>3. DOMAIN s = 1 .. BmLast + 1
    OBVIOUS
  <2>4. Len(s) = BmLast + 1
    <3>1. Len(s) \in Nat /\ DOMAIN s = 1 .. Len(s)
      BY <2>2, LenProperties
    <3> HIDE DEF s
    <3> QED  BY <1>1, <2>3, <3>1
  <2> QED  BY <1>1, <2>2, <2>4
<1> HIDE DEF s, V
<1>3. PICK r : r = Sublist(s, V)
  OBVIOUS
<1>4. PICK f : r \in Seq(T) /\ SublistOf(r, s, V, BmLast + 1, f)
  BY <1>2, <1>3, SublistFacts, Zenon
<1>5. PICK n \in Nat : n = Len(r) /\ DOMAIN r = 1 .. n
  BY <1>4, LenProperties
<1>6. /\ \A i \in 1 .. n : f[i] \in 1 .. BmLast + 1 /\ r[i] = s[f[i]] /\ r[i] \in V
      /\ \A i, j \in 1 .. n : i < j => f[i] < f[j]
      /\ \A k \in 1 .. BmLast + 1 : s[k] \in V => \E i \in 1 .. n : f[i] = k
  BY <1>4, <1>5, Zenon DEF SublistOf
<1>7. \A i \in 1 .. n : r[i] = f[i] - 1 /\ r[i] \in T
  <2>1. \A k \in 1 .. BmLast + 1 : s[k] = k - 1 /\ k - 1 \in T
    BY <1>1 DEF s
  <2> QED  BY <1>6, <2>1
<1>8. \A i, j \in 1 .. n : i < j => r[i] < r[j]
  <2>1. ASSUME NEW i \in 1 .. n, NEW j \in 1 .. n, i < j
        PROVE  r[i] < r[j]
    <3>1. f[i] < f[j] /\ f[i] \in 1 .. BmLast + 1 /\ f[j] \in 1 .. BmLast + 1
      BY <1>6, <2>1
    <3>2. PICK x \in Int, y \in Int : x = f[i] /\ y = f[j] /\ x < y
      BY <1>1, <3>1
    <3>3. r[i] = x - 1 /\ r[j] = y - 1
      BY <1>7, <3>2
    <3> QED  BY <3>2, <3>3
  <2> QED  BY <2>1
<1>9. \A b \in T : IsImageValid(b) => \E i \in 1 .. n : r[i] = b
  <2> SUFFICES ASSUME NEW b \in T, IsImageValid(b)
               PROVE  \E i \in 1 .. n : r[i] = b
    OBVIOUS
  <2>1. b \in V
    BY DEF V
  <2>2. PICK k \in 1 .. BmLast + 1 : s[k] = b
    BY <1>2
  <2>3. PICK i \in 1 .. n : f[i] = k
    BY <1>6, <2>1, <2>2
  <2> QED  BY <1>6, <2>2, <2>3
<1>10. \A i \in 1 .. n : IsImageValid(r[i])
  BY <1>6 DEF V
<1>11. PICK fs : fs = Scan
  OBVIOUS
<1>12. fs = [i \in 1 .. n |-> Found(r[i])]
  BY <1>3, <1>5, <1>11, Zenon DEF Scan, s, V
<1> DEFINE d(i) == bmFlash[BmAt(r[i] + 1) - 1].d
<1>13. \A i \in 1 .. n : /\ IsDesc(d(i)) /\ d(i).end = r[i] /\ Address(d(i)) = BmAt(r[i] + 1) - 1 /\ fs[i] = BmAsFound(d(i))
                         /\ BmAt(r[i] + 1) - 1 \in Cells /\ bmFlash[BmAt(r[i] + 1) - 1].k = "desc"
  <2> SUFFICES ASSUME NEW i \in 1 .. n
               PROVE  /\ IsDesc(d(i)) /\ d(i).end = r[i] /\ Address(d(i)) = BmAt(r[i] + 1) - 1 /\ fs[i] = BmAsFound(d(i))
                      /\ BmAt(r[i] + 1) - 1 \in Cells /\ bmFlash[BmAt(r[i] + 1) - 1].k = "desc"
    OBVIOUS
  <2>1. PICK b \in T : b = r[i]
    BY <1>7
  <2>2. IsImageValid(b)
    BY <1>10, <2>1
  <2>3. /\ BmAt(b + 1) - 1 \in Cells /\ bmFlash[BmAt(b + 1) - 1].k = "desc"
        /\ LET e == bmFlash[BmAt(b + 1) - 1].d
           IN IsDesc(e) /\ e.end = b /\ Address(e) = BmAt(b + 1) - 1 /\ Found(b) = BmAsFound(e)
    BY <2>2, BmValid, Zenon
  <2>4. fs[i] = Found(b)
    BY <1>12, <2>1
  <2> QED  BY <2>1, <2>3, <2>4, Zenon
<1>14. \A i \in 1 .. n : IsFile(fs[i]) /\ fs[i].hw = d(i) /\ OnFlash(fs[i])
  BY <1>13, BmAsFoundIsFile, Zenon
<1>15. DOMAIN fs = 1 .. n
  BY <1>12
<1>16. fs \in Seq(ToSet(fs))
  <2>1. \A i \in 1 .. n : fs[i] \in ToSet(fs)
    BY <1>15 DEF ToSet
  <2>2. fs \in [1 .. n -> ToSet(fs)]
    BY <1>12, <2>1
  <2> QED  BY <2>2, SeqDef, Zenon
<1>17. \A i \in 1 .. n : bmFlash[Address(fs[i].hw)] = DescOf(fs[i].hw)
  <2> SUFFICES ASSUME NEW i \in 1 .. n
               PROVE  bmFlash[Address(fs[i].hw)] = DescOf(fs[i].hw)
    OBVIOUS
  <2>1. PICK a : a = BmAt(r[i] + 1) - 1
    OBVIOUS
  <2>2. a \in Cells /\ bmFlash[a].k = "desc" /\ fs[i].hw = bmFlash[a].d /\ a = Address(bmFlash[a].d)
    BY <1>13, <1>14, <2>1, Zenon
  <2>3. bmFlash[a] = DescOf(bmFlash[a].d)
    BY <2>2, Zenon DEF FlashGood
  <2> QED  BY <2>2, <2>3, Zenon
<1>18. \A c \in Cells : bmFlash[c].k = "desc" => \E i \in 1 .. n : fs[i].hw = bmFlash[c].d
  <2> SUFFICES ASSUME NEW c \in Cells, bmFlash[c].k = "desc"
               PROVE  \E i \in 1 .. n : fs[i].hw = bmFlash[c].d
    OBVIOUS
  <2>1. PICK e : e = bmFlash[c].d
    OBVIOUS
  <2>2. IsDesc(e) /\ c = Address(e)
    BY <2>1, Zenon DEF FlashGood
  <2>3. PICK b \in T : b = e.end
    BY <1>1, <2>2 DEF IsDesc
  <2>4. c = BmAt(b + 1) - 1
    BY <2>2, <2>3, BmDescPlace
  <2>5. IsImageValid(b)
    BY <2>4, BmValid, Zenon
  <2>6. PICK i \in 1 .. n : r[i] = b
    BY <1>9, <2>5
  <2> QED  BY <1>14, <2>4, <2>6, Zenon
<1>19. InDiskOrder(fs)
  <2> SUFFICES ASSUME NEW i \in 1 .. n, NEW j \in 1 .. n, i < j
               PROVE  fs[i].hw.start < fs[j].hw.start
    BY <1>15, Zenon DEF InDiskOrder
  <2>1. PICK p, q, a, b : p = d(i) /\ q = d(j) /\ a = BmAt(r[i] + 1) - 1 /\ b = BmAt(r[j] + 1) - 1
    OBVIOUS
  <2>2. IsDesc(p) /\ IsDesc(q) /\ p.end = r[i] /\ q.end = r[j] /\ a = Address(p) /\ b = Address(q)
    BY <1>13, <2>1, Zenon
  <2>3. p.end < q.end
    BY <1>8, <2>2
  <2>4. a < b
    BY <2>2, <2>3, BmDescOrder
  <2>5. a \in Cells /\ b \in Cells /\ bmFlash[a].k = "desc" /\ bmFlash[b].k = "desc" /\ bmFlash[a].d = p /\ bmFlash[b].d = q
    BY <1>13, <2>1, Zenon
  <2>6. p.end < q.start
    BY <2>4, <2>5, Zenon DEF FlashGood
  <2>7. p.start <= p.end /\ p.start \in Nat /\ p.end \in Nat /\ q.start \in Nat
    BY <2>2 DEF IsDesc
  <2>8. fs[i].hw = p /\ fs[j].hw = q
    BY <1>14, <2>1, Zenon
  <2> QED  BY <2>6, <2>7, <2>8
<1>20. ~Unplaced(fs)
  BY <1>14, <1>15, Zenon DEF Unplaced
<1>21. ListGood(fs, bmFlash)
  BY <1>14, <1>15, <1>17, <1>18, <1>19, <1>20, Zenon DEF ListGood
<1>22. BmMirrors(fs)
  BY <1>14, <1>15, <1>16, <1>21, Zenon DEF BmMirrors
<1> QED  BY <1>11, <1>22, Zenon

-------------------------------------------------------------------------------
\* The types of the fields of a file.
LEMMA BmFileTypes ==
  ASSUME NEW f, IsFile(f)
  PROVE  /\ f.open \in BOOLEAN /\ f.size \in Nat /\ f.pos \in Nat /\ f.regs \in Seq(Regions) /\ Len(f.regs) \in Nat
         /\ f.open => \A k \in 1 .. Len(f.regs) : f.regs[k].off + f.regs[k].size <= f.size
<1>1. f.open \in BOOLEAN /\ f.size \in Nat /\ f.pos \in Nat /\ f.regs \in Seq(Regions)
  BY Zenon DEF IsFile
<1>2. f.open => \A k \in 1 .. Len(f.regs) : f.regs[k].off + f.regs[k].size <= f.size
  BY Zenon DEF IsFile
<1> QED  BY <1>1, <1>2, LenProperties

\* BootMonFsOpenFile.
LEMMA BmOpenAsIs ==
  ASSUME NEW f, IsFile(f), NEW n, NEW m
  PROVE  BmStill(OpenAs(f, n, m), f)
<1>1. PICK z \in Nat : z = ImageLength(f)
  BY BmLength
<1>2. \A k \in 1 .. Len(f.regs) : f.regs[k].off + f.regs[k].size <= z
  BY <1>1, BmLength
<1>3. PICK h : h = OpenAs(f, n, m)
  OBVIOUS
<1>4. BmOpenedAs(f, n, z, m) = BmEdit(f, TRUE, n, z, 0, m, f.regs)
  BY BmReopenEdit
<1>5. h = BmEdit(f, TRUE, n, z, 0, m, f.regs)
  BY <1>1, <1>3, <1>4, Zenon DEF OpenAs, BmOpenedAs
<1>6. f.regs \in Seq(Regions) /\ TRUE \in BOOLEAN /\ 0 \in Nat
  BY BmFileTypes
<1>7. BmStill(BmEdit(f, TRUE, n, z, 0, m, f.regs), f)
  BY <1>2, <1>6, BmEdited
<1> QED  BY <1>3, <1>5, <1>7, Zenon

\* BootMonFsReadFile and BootMonFsSetPosition.
LEMMA BmMoveIs ==
  ASSUME NEW f, IsFile(f), NEW p \in Nat
  PROVE  BmStill(BmMovedTo(f, p), f)
<1>1. PICK h : h = BmMovedTo(f, p)
  OBVIOUS
<1>2. h = BmEdit(f, f.open, f.name, f.size, p, f.mode, f.regs)
  BY <1>1, BmMoveEdit
<1>3. BmStill(BmEdit(f, f.open, f.name, f.size, p, f.mode, f.regs), f)
  BY BmFileTypes, BmEdited
<1> QED  BY <1>1, <1>2, <1>3, Zenon

\* BootMonFsReadFile.
LEMMA BmAdvancedIs ==
  ASSUME NEW f, IsFile(f), NEW n \in Nat
  PROVE  BmStill(Advanced(f, n), f)
<1>1. f.pos \in Nat /\ f.size \in Nat
  BY BmFileTypes
<1>2. CASE AtEnd(f)
  BY <1>2, Zenon DEF Advanced, BmStill
<1>3. CASE ~AtEnd(f)
  <2>1. PICK p : p = f.pos + (IF n > f.size - f.pos THEN f.size - f.pos ELSE n)
    OBVIOUS
  <2>2. p \in Nat
    BY <1>1, <1>3, <2>1 DEF AtEnd
  <2>3. Advanced(f, n) = BmMovedTo(f, p)
    BY <1>3, <2>1, Zenon DEF Advanced, BmMovedTo
  <2> QED  BY <2>2, <2>3, BmMoveIs
<1> QED  BY <1>2, <1>3

\* BootMonFsCloseFile.
LEMMA BmClosedIs ==
  ASSUME NEW f, IsFile(f)
  PROVE  BmStill(Closed(f), f)
<1>1. PICK h : h = Closed(f)
  OBVIOUS
<1>2. h = BmEdit(f, FALSE, "", 0, 0, "read", f.regs)
  BY <1>1, BmCloseEdit, Zenon
<1>3. f.regs \in Seq(Regions) /\ 0 \in Nat
  BY BmFileTypes
<1>4. FALSE \in BOOLEAN
  OBVIOUS
<1>5. BmStill(BmEdit(f, FALSE, "", 0, 0, "read", f.regs), f)
  <2>1. PICK e, r : e = "" /\ r = "read"
    BY Zenon
  <2>2. BmStill(BmEdit(f, FALSE, e, 0, 0, r, f.regs), f)
    BY ONLY IsFile(f), <1>3, <1>4, BmEdited
  <2> QED  BY <2>1, <2>2, Zenon
<1> QED  BY <1>1, <1>2, <1>5, Zenon

\* The regions and one more are within the size.
LEMMA BmOneMore ==
  ASSUME NEW f, IsFile(f), f.open, NEW off \in Nat, NEW size \in Nat, NEW z \in Nat, f.size <= z, off + size <= z,
         NEW rs, rs = Append(f.regs, [off |-> off, size |-> size])
  PROVE  rs \in Seq(Regions) /\ \A k \in 1 .. Len(rs) : rs[k].off + rs[k].size <= z
<1>1. PICK n \in Nat, s \in Seq(Regions) : s = f.regs /\ n = Len(s)
  BY BmFileTypes
<1>2. PICK r \in Regions : r = [off |-> off, size |-> size] /\ r.off = off /\ r.size = size
  BY DEF Regions
<1>3. rs = Append(s, r)
  BY <1>1, <1>2
<1>4. rs \in Seq(Regions) /\ Len(rs) = n + 1 /\ rs[n + 1] = r /\ \A k \in 1 .. n : rs[k] = s[k]
  BY <1>1, <1>3, AppendProperties
<1>5. ASSUME NEW k \in 1 .. n + 1
      PROVE  rs[k].off + rs[k].size <= z
  <2>1. CASE k = n + 1
    BY <1>2, <1>4, <2>1
  <2>2. CASE k # n + 1
    <3>1. k \in 1 .. n
      BY <2>2
    <3>2. s[k].off + s[k].size <= f.size /\ f.size \in Nat
      BY <1>1, <3>1, BmFileTypes
    <3>3. s[k].off \in Nat /\ s[k].size \in Nat
      <4>1. s[k] \in Regions
        BY <1>1, <3>1
      <4> QED  BY <4>1 DEF Regions
    <3>4. PICK a \in Nat, b \in Nat, c \in Nat : a = s[k].off /\ b = s[k].size /\ c = f.size
      BY <3>2, <3>3
    <3>5. a + b <= c /\ c <= z
      BY <3>2, <3>4
    <3>6. a + b <= z
      BY ONLY <3>5, a \in Nat, b \in Nat, c \in Nat, z \in Nat
    <3>7. rs[k] = s[k]
      BY <1>4, <3>1
    <3> QED  BY <3>4, <3>6, <3>7
  <2> QED  BY <2>1, <2>2
<1> QED  BY <1>4, <1>5

\* BootMonFsWriteFile.
LEMMA BmPendingIs ==
  ASSUME NEW f, IsFile(f), f.open, NEW n \in Nat
  PROVE  BmStill(Pending(f, n), f)
<1>1. f.pos \in Nat /\ f.size \in Nat /\ f.open \in BOOLEAN
  BY BmFileTypes
<1>2. PICK rs, p, z : rs = Append(f.regs, [off |-> f.pos, size |-> n]) /\ p = f.pos + n
                      /\ z = IF f.pos + n > f.size THEN f.pos + n ELSE f.size
  OBVIOUS
<1>3. p \in Nat /\ z \in Nat /\ f.size <= z /\ f.pos + n <= z
  BY <1>1, <1>2
<1>4. PICK h : h = BmRewritten(f, rs, p, z)
  OBVIOUS
<1>5. h = BmEdit(f, f.open, f.name, z, p, f.mode, rs)
  BY <1>4, BmRewriteEdit
<1>6. rs \in Seq(Regions) /\ \A k \in 1 .. Len(rs) : rs[k].off + rs[k].size <= z
  BY <1>1, <1>2, <1>3, BmOneMore
<1>7. Pending(f, n) = h
  BY <1>2, <1>4, Zenon DEF Pending, BmRewritten
<1>8. BmStill(BmEdit(f, f.open, f.name, z, p, f.mode, rs), f)
  BY <1>1, <1>3, <1>6, BmEdited
<1> QED  BY <1>5, <1>7, <1>8, Zenon

\* SetFileSize: no region is left behind the new end.
LEMMA BmCutIs ==
  ASSUME NEW rs \in Seq(Regions), NEW z \in Nat
  PROVE  Cut(rs, z) \in Seq(Regions) /\ \A k \in 1 .. Len(Cut(rs, z)) : Cut(rs, z)[k].off + Cut(rs, z)[k].size <= z
<1>1. PICK S : S = {r \in ToSet(rs) : r.off <= z}
  OBVIOUS
<1>2. PICK kept : kept = Sublist(rs, S)
  OBVIOUS
<1>3. PICK f : kept \in Seq(Regions) /\ SublistOf(kept, rs, S, Len(rs), f)
  BY <1>2, SublistFacts, Zenon
<1>4. PICK n \in Nat : n = Len(kept) /\ DOMAIN kept = 1 .. n
  BY <1>3, LenProperties
<1>5. \A k \in 1 .. n : kept[k] \in S /\ kept[k] \in Regions
  <2>1. \A k \in 1 .. n : kept[k] \in S
    BY <1>3, <1>4, Zenon DEF SublistOf
  <2> QED  BY <1>3, <1>4, <2>1
<1> DEFINE cut(r) == [r EXCEPT !.size = IF @ > z - r.off THEN z - r.off ELSE @]
<1>6. ASSUME NEW k \in 1 .. n
      PROVE  cut(kept[k]) \in Regions /\ cut(kept[k]).off + cut(kept[k]).size <= z
  <2>1. PICK r \in Regions : r = kept[k]
    BY <1>5
  <2>2. r.off \in Nat /\ r.size \in Nat /\ r = [off |-> r.off, size |-> r.size]
    BY DEF Regions
  <2>3. r.off <= z
    BY <1>1, <1>5, <2>1
  <2>4. PICK x, y, o : x = (IF r.size > z - r.off THEN z - r.off ELSE r.size) /\ y = r.size /\ o = r.off
    OBVIOUS
  <2>5. x \in Nat /\ o \in Nat /\ o + x <= z
    BY <2>2, <2>3, <2>4
  <2>6. cut(r) = [r EXCEPT !.size = x]
    BY <2>4, Zenon
  <2>7. [r EXCEPT !.size = x] = [off |-> o, size |-> x]
    BY <2>2, <2>4
  <2>8. cut(r) = [off |-> o, size |-> x]
    BY <2>6, <2>7, Zenon
  <2> HIDE DEF cut
  <2>9. cut(r) \in Regions /\ cut(r).off + cut(r).size <= z
    BY <2>5, <2>8 DEF Regions
  <2> QED  BY <2>1, <2>9
<1>7. PICK c : c = Cut(rs, z)
  OBVIOUS
<1>8. c = [k \in 1 .. n |-> cut(kept[k])]
  BY <1>1, <1>2, <1>4, <1>7, Zenon DEF Cut
<1> HIDE DEF cut
<1>9. c \in [1 .. n -> Regions]
  BY <1>6, <1>8
<1>10. c \in Seq(Regions) /\ Len(c) = n
  <2>1. c \in Seq(Regions)
    BY <1>4, <1>9, SeqDef, Zenon
  <2>2. DOMAIN c = 1 .. n
    BY <1>9
  <2>3. Len(c) \in Nat /\ DOMAIN c = 1 .. Len(c)
    BY <2>1, LenProperties
  <2> QED  BY <2>1, <2>2, <2>3
<1>11. \A k \in 1 .. n : c[k].off + c[k].size <= z
  BY <1>6, <1>8
<1> QED  BY <1>7, <1>10, <1>11, Zenon

\* SetFileSize.
LEMMA BmResizedIs ==
  ASSUME NEW f, IsFile(f), f.open, NEW z \in Nat
  PROVE  BmStill(SetFileSize(f, z), f) /\ SetFileSize(f, z).open
<1>1. f.pos \in Nat /\ f.size \in Nat /\ f.open \in BOOLEAN /\ f.regs \in Seq(Regions)
  BY BmFileTypes
<1>2. ASSUME NEW rs \in Seq(Regions), \A k \in 1 .. Len(rs) : rs[k].off + rs[k].size <= z,
             NEW h, h = BmResized(f, z, rs)
      PROVE  BmStill(h, f) /\ h.open
  <2>1. h = BmEdit(f, f.open, f.name, z, f.pos, f.mode, rs)
    BY <1>2, BmResizeEdit
  <2>2. BmStill(BmEdit(f, f.open, f.name, z, f.pos, f.mode, rs), f)
    BY <1>1, <1>2, BmEdited
  <2>3. BmEdit(f, f.open, f.name, z, f.pos, f.mode, rs).open = f.open
    BY DEF BmEdit
  <2> QED  BY <2>1, <2>2, <2>3, Zenon
<1>3. CASE z < f.size
  <2>1. PICK rs \in Seq(Regions) : rs = Cut(f.regs, z) /\ \A k \in 1 .. Len(rs) : rs[k].off + rs[k].size <= z
    BY <1>1, BmCutIs
  <2>2. PICK h : h = BmResized(f, z, rs)
    OBVIOUS
  <2>3. SetFileSize(f, z) = h
    BY <1>3, <2>1, <2>2, Zenon DEF SetFileSize, BmResized
  <2>4. BmStill(h, f) /\ h.open
    BY <1>2, <2>1, <2>2, Zenon
  <2> QED  BY <2>3, <2>4, Zenon
<1>4. CASE z > f.size
  <2>1. PICK o \in Nat, s \in Nat : o = f.size /\ s = z - f.size /\ o + s <= z /\ f.size <= z
    BY <1>1, <1>4
  <2>2. PICK rs : rs = Append(f.regs, [off |-> o, size |-> s])
    OBVIOUS
  <2>3. rs \in Seq(Regions) /\ \A k \in 1 .. Len(rs) : rs[k].off + rs[k].size <= z
    BY <2>1, <2>2, BmOneMore
  <2>4. PICK h : h = BmResized(f, z, rs)
    OBVIOUS
  <2>5. ~ (z < f.size)
    BY <1>1, <1>4
  <2>6. SetFileSize(f, z) = h
    BY <1>4, <2>1, <2>2, <2>4, <2>5, Zenon DEF SetFileSize, BmResized
  <2>7. BmStill(h, f) /\ h.open
    BY <1>2, <2>3, <2>4, Zenon
  <2> QED  BY <2>6, <2>7, Zenon
<1>5. CASE ~ (z < f.size) /\ ~ (z > f.size)
  BY <1>5, Zenon DEF SetFileSize, BmStill
<1> QED  BY <1>3, <1>4, <1>5

\* SetFileInfo.
LEMMA BmRenamedIs ==
  ASSUME NEW f, IsFile(f), NEW n
  PROVE  BmStill(BmRenamed(f, n), f)
<1>1. PICK h : h = BmRenamed(f, n)
  OBVIOUS
<1>2. h = BmEdit(f, f.open, n, f.size, f.pos, f.mode, f.regs)
  BY <1>1, BmRenameEdit
<1>3. BmStill(BmEdit(f, f.open, n, f.size, f.pos, f.mode, f.regs), f)
  BY BmFileTypes, BmEdited
<1> QED  BY <1>1, <1>2, <1>3, Zenon

-------------------------------------------------------------------------------
\* What a step leaves behind, as long as no hazard is met.
BmGoodStep ==
  /\ FlashGood(bmFlash') /\ BmKept(bmFlash')
  /\ bmUp' # "scanned" => bmFiles' = <<>>
  /\ bmUp' = "scanned" => BmMirror(bmFiles', bmFlash')

\* The step of an operation that leaves the flash alone and the list as fs.
BmLeaves(fs) == bmFlash' = bmFlash /\ bmFiles' = fs /\ bmUp' = "scanned"

\* The invariant, as long as no hazard has been met.
LEMMA BmNow ==
  ASSUME BmInv, bmHits = {}
  PROVE  /\ FlashGood(bmFlash)
         /\ bmUp # "scanned" => bmFiles = <<>>
         /\ bmUp = "scanned" => BmMirrors(bmFiles)
BY Zenon DEF BmInv, BmMirror, BmMirrors

\* A list with a file on it is in use.
LEMMA BmInUse ==
  ASSUME BmInv, bmHits = {}, NEW i \in DOMAIN bmFiles
  PROVE  bmUp = "scanned" /\ BmMirrors(bmFiles) /\ IsFile(bmFiles[i])
<1>1. bmUp = "scanned"
  <2>1. DOMAIN <<>> = {}
    OBVIOUS
  <2> QED  BY <2>1, BmNow
<1>2. BmMirrors(bmFiles)
  BY <1>1, BmNow
<1> QED  BY <1>1, <1>2, Zenon DEF BmMirrors

\* Nothing changes on the flash.
LEMMA BmQuiet ==
  ASSUME bmFlash' = bmFlash
  PROVE  BmKept(bmFlash')
BY Zenon DEF BmKept

\* The driver is at work on a list that mirrors the flash.
LEMMA BmLeavesGood ==
  ASSUME NEW fs, BmMirrors(fs), BmLeaves(fs)
  PROVE  BmGoodStep
<1>1. BmKept(bmFlash')
  BY BmQuiet DEF BmLeaves
<1>2. BmMirror(bmFiles', bmFlash')
  BY Zenon DEF BmMirrors, BmMirror, BmLeaves
<1> QED  BY <1>1, <1>2, Zenon DEF BmGoodStep, BmLeaves, BmMirror

\* Nothing changes.
LEMMA BmUnchanged ==
  ASSUME BmInv, bmHits = {}, UNCHANGED <<bmFlash, bmUp, bmFiles>>
  PROVE  BmGoodStep
<1>1. bmFlash' = bmFlash /\ bmUp' = bmUp /\ bmFiles' = bmFiles
  OBVIOUS
<1>2. BmKept(bmFlash')
  BY <1>1, BmQuiet
<1>3. FlashGood(bmFlash) /\ (bmUp # "scanned" => bmFiles = <<>>) /\ (bmUp = "scanned" => BmMirror(bmFiles, bmFlash))
  BY Zenon DEF BmInv
<1> QED  BY <1>1, <1>2, <1>3, Zenon DEF BmGoodStep

\* The list goes.
LEMMA BmGone ==
  ASSUME BmInv, bmHits = {}, bmFlash' = bmFlash, bmFiles' = <<>>, bmUp' # "scanned"
  PROVE  BmGoodStep
<1>1. BmKept(bmFlash')
  BY BmQuiet
<1>2. FlashGood(bmFlash)
  BY BmNow
<1> QED  BY <1>1, <1>2, Zenon DEF BmGoodStep

\* One file of the list changes, but not its description.
LEMMA BmUpdate ==
  ASSUME BmInv, bmHits = {}, NEW i \in DOMAIN bmFiles, NEW h, BmStill(h, bmFiles[i]), Update(i, h),
         UNCHANGED <<bmFlash, bmUp>>
  PROVE  BmGoodStep
<1>1. bmUp = "scanned" /\ BmMirrors(bmFiles)
  BY BmInUse
<1>2. PICK fs, ls : fs = bmFiles /\ ls = [fs EXCEPT ![i] = h]
  OBVIOUS
<1>3. BmMirrors(fs) /\ i \in DOMAIN fs /\ IsFile(h) /\ h.hw = fs[i].hw
  BY <1>1, <1>2, Zenon DEF BmStill
<1>4. BmMirrors(ls)
  BY <1>2, <1>3, BmUpdated, Zenon
<1>5. BmLeaves(ls)
  BY <1>1, <1>2, Zenon DEF BmLeaves, Update
<1> QED  BY <1>4, <1>5, BmLeavesGood

\* A list after an empty one, and the whole and none of one.
LEMMA BmWholeOrNone ==
  ASSUME NEW S, NEW s \in Seq(S)
  PROVE  /\ <<>> \o s = s /\ SubSeq(s, 1, Len(s)) = s
         /\ <<>> \o SubSeq(s, 1, 0) = <<>>
OBVIOUS

\* What BootMonFsInitialize leaves when no hazard comes of it: the list or what a scan
\* finds, or, when it fails, no list.
LEMMA BmScanned ==
  ASSUME BmInv, bmHits = {}, NEW r \in BootMonFsInitialize, r.hits = {}
  PROVE  IF r.s = "OK" THEN BmMirrors(r.files) ELSE bmUp # "scanned" /\ r.files = <<>>
<1>1. CASE bmUp = "scanned"
  <2>1. r.s = "OK" /\ r.files = bmFiles
    BY <1>1 DEF BootMonFsInitialize
  <2>2. BmMirrors(bmFiles)
    BY <1>1, BmNow
  <2> QED  BY <2>1, <2>2, Zenon
<1>2. CASE bmUp # "scanned"
  <2>1. PICK sc : sc = Scan
    OBVIOUS
  <2>2. BmMirrors(sc) /\ bmFiles = <<>>
    BY <1>2, <2>1, BmNow, BmScanMirrors
  <2>3. sc \in Seq(ToSet(sc))
    BY <2>2, Zenon DEF BmMirrors
  <2>4. <<>> \o sc = sc /\ SubSeq(sc, 1, Len(sc)) = sc /\ <<>> \o SubSeq(sc, 1, 0) = <<>>
    BY <2>3, BmWholeOrNone
  <2>5. CASE r = [s |-> "OK", files |-> bmFiles \o Scan, fault |-> FALSE, hits |-> {}]
    <3>1. r.s = "OK" /\ r.files = sc
      BY <2>1, <2>2, <2>4, <2>5, Zenon
    <3> QED  BY <2>2, <3>1, Zenon
  <2>6. ASSUME NEW k, NEW s \in {"OK", "OutOfResources"}, r = Scanned(k, s)
        PROVE  IF r.s = "OK" THEN BmMirrors(r.files) ELSE bmUp # "scanned" /\ r.files = <<>>
    <3>1. r.s = s /\ r.files = <<>> \o SubSeq(sc, 1, k)
      BY <2>1, <2>2, <2>6, Zenon DEF Scanned
    <3>2. r.hits = IF k = (IF s = "OK" THEN Len(sc) ELSE 0) THEN {} ELSE {"scan"}
      BY <2>1, <2>6, Zenon DEF Scanned
    <3>3. k = (IF s = "OK" THEN Len(sc) ELSE 0)
      BY <3>2
    <3>4. CASE s = "OK"
      BY <2>2, <2>4, <3>1, <3>3, <3>4, Zenon
    <3>5. CASE s # "OK"
      BY <1>2, <2>4, <3>1, <3>3, <3>5, Zenon
    <3> QED  BY <3>4, <3>5, Zenon
  <2>7. PICK one, some, none : /\ one = {[s |-> "OK", files |-> bmFiles \o Scan, fault |-> FALSE, hits |-> {}]}
                               /\ some = {Scanned(k, "OK") : k \in 0 .. Len(Scan)}
                               /\ none = {Scanned(k, "OutOfResources") : k \in 0 .. Len(Scan)}
    BY Zenon
  <2>8. BootMonFsInitialize = one \cup some \cup none
    BY <1>2, <2>7, Zenon DEF BootMonFsInitialize
  <2>9. r \in one \/ r \in some \/ r \in none
    BY <2>8
  <2>10. CASE r \in one
    <3>1. r = [s |-> "OK", files |-> bmFiles \o Scan, fault |-> FALSE, hits |-> {}]
      BY <2>7, <2>10, Zenon
    <3> QED  BY <2>5, <3>1
  <2>11. CASE r \in some
    <3>1. PICK k : r = Scanned(k, "OK")
      BY <2>7, <2>11, Zenon
    <3> QED  BY <2>6, <3>1
  <2>12. CASE r \in none
    <3>1. PICK k : r = Scanned(k, "OutOfResources")
      BY <2>7, <2>12, Zenon
    <3> QED  BY <2>6, <3>1
  <2> QED  BY <2>9, <2>10, <2>11, <2>12
<1> QED  BY <1>1, <1>2, Zenon

\* What BootMonFsInitialize leaves of the rest, when no hazard is met.
LEMMA BmInitialized ==
  ASSUME NEW r, Initialized(r), bmHits' = {}
  PROVE  /\ bmHits = {} /\ r.hits = {} /\ bmFlash' = bmFlash
         /\ bmUp' = IF r.s = "OK" THEN "scanned" ELSE bmUp
<1>1. \A a, b : a \cup b = {} => a = {} /\ b = {}
  OBVIOUS
<1>2. bmHits' = bmHits \cup r.hits
  BY Zenon DEF Initialized
<1> QED  BY <1>1, <1>2, Zenon DEF Initialized

\* A flush that ends with h in the place of the file.
BmOver(i, r, h) ==
  /\ r = FlushOf(bmFiles, i) /\ (IsFile(r.f) => BmStill(h, r.f))
  /\ bmFlash' = Written(r.ws, Len(r.ws))
  /\ bmFiles' = [r.files EXCEPT ![r.at] = h]
  /\ bmHits' = bmHits \cup r.hits \cup OrderHit([r.files EXCEPT ![r.at] = r.f])

\* ... leaves a list that mirrors the flash.
LEMMA BmOverGood ==
  ASSUME BmInv, bmHits = {}, bmHits' = {}, NEW i \in DOMAIN bmFiles, bmFiles[i].open, UNCHANGED bmUp,
         NEW r, NEW h, BmOver(i, r, h)
  PROVE  BmGoodStep
<1>1. bmUp = "scanned" /\ BmMirrors(bmFiles)
  BY BmInUse
<1>2. r.hits = {} /\ OrderHit([r.files EXCEPT ![r.at] = r.f]) = {}
  <2>1. PICK a, b : a = r.hits /\ b = OrderHit([r.files EXCEPT ![r.at] = r.f])
    OBVIOUS
  <2>2. bmHits' = bmHits \cup a \cup b
    BY <2>1, Zenon DEF BmOver
  <2>3. a = {} /\ b = {}
    BY <2>2
  <2> QED  BY <2>1, <2>3, Zenon
<1>3. r = FlushOf(bmFiles, i) /\ IsFile(h) /\ h.hw = r.f.hw
  <2>1. r = FlushOf(bmFiles, i) /\ (IsFile(r.f) => BmStill(h, r.f))
    BY Zenon DEF BmOver
  <2>2. IsFile(r.f)
    BY <1>1, <1>2, <2>1, BmFlushLeaves, Zenon
  <2> QED  BY <2>1, <2>2, Zenon DEF BmStill
<1>4. PICK g, ls : g = Written(r.ws, Len(r.ws)) /\ ls = [r.files EXCEPT ![r.at] = h]
  OBVIOUS
<1>5. Len(r.ws) \in Nat /\ (\A k \in 0 .. Len(r.ws) : FlashGood(Written(r.ws, k)) /\ BmKept(Written(r.ws, k)))
  BY <1>1, <1>2, <1>3, BmFlushLeaves, Zenon
<1>6. FlashGood(g) /\ BmKept(g)
  <2>1. Len(r.ws) \in 0 .. Len(r.ws)
    BY <1>5
  <2> QED  BY <1>4, <1>5, <2>1, Zenon
<1>7. ListGood(ls, g) /\ ls \in Seq(ToSet(ls)) /\ \A q \in DOMAIN ls : IsFile(ls[q])
  BY <1>1, <1>2, <1>3, <1>4, BmFlushLeaves, Zenon
<1>8. BmMirror(ls, g)
  BY <1>6, <1>7, Zenon DEF BmMirror
<1>9. bmFlash' = g /\ bmFiles' = ls /\ bmUp' = "scanned"
  BY <1>1, <1>4, Zenon DEF BmOver
<1> QED  BY <1>6, <1>8, <1>9, Zenon DEF BmGoodStep

-------------------------------------------------------------------------------
\* A flush that ends with what a caller makes of the file is over.
LEMMA BmOverIs ==
  ASSUME NEW i, NEW r, NEW h, IsFile(r.f) => BmStill(h, r.f),
         r = FlushOf(bmFiles, i), bmFlash' = Written(r.ws, Len(r.ws)), bmFiles' = [r.files EXCEPT ![r.at] = h],
         bmHits' = bmHits \cup r.hits \cup OrderHit([r.files EXCEPT ![r.at] = r.f]), bmHits' = {}
  PROVE  bmHits = {} /\ BmOver(i, r, h)
<1>1. \A a, b, c : a \cup b \cup c = {} => a = {}
  OBVIOUS
<1> QED  BY <1>1, Zenon DEF BmOver

\* Without a hazard there was no device error.
BmNoError == \A a, b : bmHits' # a \cup b \cup {"error"} /\ bmHits' # a \cup {"error"}

\* ... because that is one.
LEMMA BmNoErrorIs ==
  ASSUME bmHits' = {}
  PROVE  BmNoError
<1>1. \A a, b : a \cup b \cup {"error"} # {}
  OBVIOUS
<1>2. \A a : a \cup {"error"} # {}
  OBVIOUS
<1> QED  BY <1>1, <1>2, Zenon DEF BmNoError

\* BootMonFsFlushFile.
LEMMA BmFlushGood ==
  ASSUME BmInv, NEW i, BmFlush(i), bmHits' = {}
  PROVE  bmHits = {} /\ BmGoodStep
<1>1. Opened(i)
  BY Zenon DEF BmFlush
<1>2. CASE NeedsNoFlush(bmFiles[i])
  <2>1. UNCHANGED <<bmFlash, bmUp, bmFiles, bmHits>>
    BY <1>2, Zenon DEF BmFlush, Refuse
  <2> QED  BY <2>1, BmUnchanged
<1>3. CASE ~NeedsNoFlush(bmFiles[i])
  <2>1. PICK r : /\ r = FlushOf(bmFiles, i) /\ bmFlash' = Written(r.ws, Len(r.ws)) /\ bmFiles' = [r.files EXCEPT ![r.at] = r.f]
                 /\ bmHits' = bmHits \cup r.hits \cup OrderHit([r.files EXCEPT ![r.at] = r.f])
    BY <1>3, BmNoErrorIs, Zenon DEF BmFlush, FlushTo, BmNoError
  <2>2. bmHits = {} /\ \E x, h : BmOver(i, x, h)
    <3>1. IsFile(r.f) => BmStill(r.f, r.f)
      BY Zenon DEF BmStill
    <3> QED  BY <2>1, <3>1, BmOverIs, Zenon
  <2>3. i \in DOMAIN bmFiles /\ bmFiles[i].open
    BY <1>1, Zenon DEF Opened
  <2>4. UNCHANGED bmUp
    BY <1>3, Zenon DEF BmFlush
  <2> QED  BY <2>2, <2>3, <2>4, BmOverGood
<1> QED  BY <1>2, <1>3

\* BootMonFsReadFile.
LEMMA BmReadGood ==
  ASSUME BmInv, NEW i, NEW n \in Nat, BmRead(i, n), bmHits' = {}
  PROVE  bmHits = {} /\ BmGoodStep
<1>1. i \in DOMAIN bmFiles /\ bmFiles[i].open /\ UNCHANGED bmUp
  BY Zenon DEF BmRead, Opened
<1>2. CASE NeedsNoFlush(bmFiles[i])
  <2>1. Update(i, Advanced(bmFiles[i], n)) /\ UNCHANGED <<bmFlash, bmHits>>
    BY <1>2, Zenon DEF BmRead, Flash
  <2>2. bmHits = {}
    BY <2>1
  <2>3. IsFile(bmFiles[i])
    BY <1>1, <2>2, BmInUse
  <2>4. BmStill(Advanced(bmFiles[i], n), bmFiles[i])
    BY <2>3, BmAdvancedIs
  <2> QED  BY <1>1, <2>1, <2>2, <2>4, BmUpdate
<1>3. CASE ~NeedsNoFlush(bmFiles[i])
  <2>1. PICK r : /\ r = FlushOf(bmFiles, i) /\ bmFlash' = Written(r.ws, Len(r.ws)) /\ bmFiles' = [r.files EXCEPT ![r.at] = Advanced(r.f, n)]
                 /\ bmHits' = bmHits \cup r.hits \cup OrderHit([r.files EXCEPT ![r.at] = r.f])
    BY <1>3, BmNoErrorIs, Zenon DEF BmRead, FlushTo, BmNoError
  <2>2. bmHits = {} /\ \E x, h : BmOver(i, x, h)
    <3>1. IsFile(r.f) => BmStill(Advanced(r.f, n), r.f)
      BY BmAdvancedIs
    <3> QED  BY <2>1, <3>1, BmOverIs, Zenon
  <2> QED  BY <1>1, <2>2, BmOverGood
<1> QED  BY <1>2, <1>3

\* BootMonFsCloseFile.
LEMMA BmCloseGood ==
  ASSUME BmInv, NEW i, BmClose(i), bmHits' = {}
  PROVE  bmHits = {} /\ BmGoodStep
<1>1. i \in DOMAIN bmFiles /\ bmFiles[i].open /\ UNCHANGED bmUp
  BY Zenon DEF BmClose, Opened
<1>2. CASE NeedsNoFlush(bmFiles[i])
  <2>1. Update(i, Closed(bmFiles[i])) /\ UNCHANGED <<bmFlash, bmHits>>
    BY <1>2, Zenon DEF BmClose, Flash
  <2>2. bmHits = {}
    BY <2>1
  <2>3. IsFile(bmFiles[i])
    BY <1>1, <2>2, BmInUse
  <2>4. BmStill(Closed(bmFiles[i]), bmFiles[i])
    BY <2>3, BmClosedIs
  <2> QED  BY <1>1, <2>1, <2>2, <2>4, BmUpdate
<1>3. CASE ~NeedsNoFlush(bmFiles[i])
  <2>1. PICK r : /\ r = FlushOf(bmFiles, i) /\ bmFlash' = Written(r.ws, Len(r.ws)) /\ bmFiles' = [r.files EXCEPT ![r.at] = Closed(r.f)]
                 /\ bmHits' = bmHits \cup r.hits \cup OrderHit([r.files EXCEPT ![r.at] = r.f])
    BY <1>3, BmNoErrorIs, Zenon DEF BmClose, FlushTo, BmNoError
  <2>2. bmHits = {} /\ \E x, h : BmOver(i, x, h)
    <3>1. IsFile(r.f) => BmStill(Closed(r.f), r.f)
      BY BmClosedIs
    <3> QED  BY <2>1, <3>1, BmOverIs, Zenon
  <2> QED  BY <1>1, <2>2, BmOverGood
<1> QED  BY <1>2, <1>3

\* BootMonFsFlushDirectory is at a file, or past the last one.
LEMMA BmWalkPlace ==
  ASSUME BmInv, bmHits = {}, bmWalk \in Nat, bmWalk > 0, ~ (bmWalk > Len(bmFiles))
  PROVE  bmWalk \in DOMAIN bmFiles
<1>1. CASE bmUp = "scanned"
  <2>1. BmMirrors(bmFiles)
    BY <1>1, BmNow
  <2>2. PICK fs : fs = bmFiles
    OBVIOUS
  <2>3. Len(fs) \in Nat /\ DOMAIN fs = 1 .. Len(fs)
    BY <2>1, <2>2, BmPlaces
  <2> QED  BY <2>2, <2>3
<1>2. CASE bmUp # "scanned"
  <2>1. bmFiles = <<>>
    BY <1>2, BmNow
  <2>2. Len(bmFiles) = 0
    BY <2>1
  <2> QED  BY <2>2
<1> QED  BY <1>1, <1>2

\* BootMonFsFlushDirectory.
LEMMA BmFlushNextGood ==
  ASSUME BmInv, BmFlushNext, bmHits' = {}, bmHits = {} => bmWalk \in Nat
  PROVE  bmHits = {} /\ BmGoodStep
<1>1. UNCHANGED bmUp /\ bmWalk > 0
  BY Zenon DEF BmFlushNext
<1>2. CASE bmWalk > Len(bmFiles) \/ NeedsNoFlush(bmFiles[bmWalk])
  <2>1. UNCHANGED <<bmFlash, bmUp, bmFiles, bmHits>>
    BY <1>1, <1>2, Zenon DEF BmFlushNext
  <2> QED  BY <2>1, BmUnchanged
<1>3. CASE ~ (bmWalk > Len(bmFiles)) /\ ~NeedsNoFlush(bmFiles[bmWalk])
  <2>1. PICK r : /\ r = FlushOf(bmFiles, bmWalk) /\ bmFlash' = Written(r.ws, Len(r.ws)) /\ bmFiles' = [r.files EXCEPT ![r.at] = r.f]
                 /\ bmHits' = bmHits \cup r.hits \cup OrderHit([r.files EXCEPT ![r.at] = r.f])
    BY <1>3, BmNoErrorIs, Zenon DEF BmFlushNext, FlushTo, BmNoError
  <2>2. bmHits = {} /\ \E x, h : BmOver(bmWalk, x, h)
    <3>1. IsFile(r.f) => BmStill(r.f, r.f)
      BY Zenon DEF BmStill
    <3> QED  BY <2>1, <3>1, BmOverIs, Zenon
  <2>3. bmFiles[bmWalk].open
    BY <1>3, Zenon DEF NeedsNoFlush
  <2>4. bmWalk \in DOMAIN bmFiles
    <3>1. bmHits = {} /\ bmWalk \in Nat
      BY <2>2
    <3> QED  BY <1>1, <1>3, <3>1, BmWalkPlace
  <2> QED  BY <1>1, <2>2, <2>3, <2>4, BmOverGood
<1> QED  BY <1>2, <1>3

-------------------------------------------------------------------------------
\* BootMonFsCreateFile.
LEMMA BmNewFileIs ==
  ASSUME NEW v
  PROVE  IsFile([NewFile EXCEPT !.id = v]) /\ [NewFile EXCEPT !.id = v].hw = NoDesc
<1>1. PICK nil, no, rs : nil = 0 /\ no = FALSE /\ rs = <<>>
  OBVIOUS
<1>2. PICK h, g, e, r, nd : h = NewFile /\ g = [h EXCEPT !.id = v] /\ e = "" /\ r = "read" /\ nd = NoDesc
  BY Zenon
<1>3. h = [id |-> nil, hw |-> nd, addr |-> nil, open |-> no, name |-> e, size |-> nil, pos |-> nil, mode |-> r, regs |-> rs]
  BY <1>1, <1>2, Zenon DEF NewFile
<1>4. PICK k : k = [h EXCEPT !.id = v]
  BY Zenon
<1>5. k = [id |-> v, hw |-> nd, addr |-> nil, open |-> no, name |-> e, size |-> nil, pos |-> nil, mode |-> r, regs |-> rs]
  BY ONLY <1>3, <1>4
<1>6. /\ k.id = v /\ k.hw = nd /\ k.addr = nil /\ k.open = no /\ k.name = e /\ k.size = nil /\ k.pos = nil
      /\ k.mode = r /\ k.regs = rs
  BY ONLY <1>5, BmFileFields
<1>7. k = [id |-> k.id, hw |-> k.hw, addr |-> k.addr, open |-> k.open, name |-> k.name, size |-> k.size,
           pos |-> k.pos, mode |-> k.mode, regs |-> k.regs]
  BY <1>5, <1>6, Zenon
<1>8. rs \in Seq(Regions) /\ nil \in Nat
  BY ONLY <1>1
<1>9. no \in BOOLEAN /\ ~no
  BY ONLY <1>1, Zenon
<1>10. IsFile(k)
  BY <1>1, <1>2, <1>6, <1>7, <1>8, <1>9, Zenon DEF IsFile
<1> QED  BY <1>2, <1>4, <1>6, <1>10, Zenon

\* BootMonFsOpenFile, once the list is there.
LEMMA BmOpenInGood ==
  ASSUME BmInv, bmHits = {}, NEW fs, BmMirrors(fs), NEW n, NEW m, OpenIn(fs, n, m), bmFlash' = bmFlash, bmUp' = "scanned"
  PROVE  BmGoodStep
<1>1. CASE bmFiles' = fs
  <2>1. BmLeaves(fs)
    BY <1>1, Zenon DEF BmLeaves
  <2> QED  BY <2>1, BmLeavesGood
<1>2. CASE bmFiles' = <<OpenAs([NewFile EXCEPT !.id = FreshId(fs)], n, m)>> \o fs
  <2>1. PICK nf, x : nf = [NewFile EXCEPT !.id = FreshId(fs)] /\ x = OpenAs(nf, n, m)
    OBVIOUS
  <2>2. IsFile(nf) /\ nf.hw = NoDesc
    BY <2>1, BmNewFileIs, Zenon
  <2>3. BmStill(x, nf)
    BY <2>1, <2>2, BmOpenAsIs
  <2>4. IsFile(x) /\ ~OnFlash(x)
    <3>1. NoDesc.count = 0
      BY Zenon DEF NoDesc
    <3>2. ~ (0 > 0)
      OBVIOUS
    <3> QED  BY <2>2, <2>3, <3>1, <3>2, Zenon DEF BmStill, OnFlash
  <2>5. PICK ls : ls = <<x>> \o fs
    OBVIOUS
  <2>6. BmMirrors(ls)
    <3>1. BmIsJoin(ls, <<x>>, fs)
      BY <2>5, Zenon DEF BmIsJoin
    <3> QED  BY <2>4, <3>1, BmHeaded
  <2>7. BmLeaves(ls)
    BY <1>2, <2>1, <2>5, Zenon DEF BmLeaves
  <2> QED  BY <2>6, <2>7, BmLeavesGood
<1>3. ASSUME NEW i, i = Min(Named(fs, n)), Named(fs, n) # {}, bmFiles' = [fs EXCEPT ![i] = OpenAs(@, n, m)]
      PROVE  BmGoodStep
  <2>1. i \in DOMAIN fs
    <3>1. Named(fs, n) \in SUBSET Nat
      <4>1. DOMAIN fs = 1 .. Len(fs)
        BY BmPlaces
      <4>2. \A k \in 1 .. Len(fs) : k \in Nat
        OBVIOUS
      <4> QED  BY <4>1, <4>2, Zenon DEF Named
    <3>2. i \in Named(fs, n)
      BY <1>3, <3>1, BmFirstOf
    <3> QED  BY <3>2, Zenon DEF Named
  <2>2. PICK h : h = OpenAs(fs[i], n, m)
    OBVIOUS
  <2>3. IsFile(fs[i])
    BY <2>1, Zenon DEF BmMirrors
  <2>4. IsFile(h) /\ h.hw = fs[i].hw
    BY <2>2, <2>3, BmOpenAsIs DEF BmStill
  <2>5. PICK ls : ls = [fs EXCEPT ![i] = h]
    OBVIOUS
  <2>6. BmMirrors(ls)
    BY <2>1, <2>4, <2>5, BmUpdated, Zenon
  <2>7. bmFiles' = ls
    BY <1>3, <2>2, <2>5, Zenon
  <2>8. BmLeaves(ls)
    BY <2>7, Zenon DEF BmLeaves
  <2> QED  BY <2>6, <2>8, BmLeavesGood
<1>4. \/ bmFiles' = fs
      \/ bmFiles' = <<OpenAs([NewFile EXCEPT !.id = FreshId(fs)], n, m)>> \o fs
      \/ Named(fs, n) # {} /\ \E i : i = Min(Named(fs, n)) /\ bmFiles' = [fs EXCEPT ![i] = OpenAs(@, n, m)]
  BY Zenon DEF OpenIn
<1> QED  BY <1>1, <1>2, <1>3, <1>4, Zenon

\* ... which it is after a scan without a hazard.
LEMMA BmOpenGood ==
  ASSUME BmInv, NEW n, NEW m, BmOpen(n, m), bmHits' = {}
  PROVE  bmHits = {} /\ BmGoodStep
<1>1. PICK r \in BootMonFsInitialize :
        /\ Initialized(r)
        /\ (r.s = "OK" /\ OpenIn(r.files, n, m)) \/ (r.s # "OK" /\ bmFiles' = r.files)
  BY Zenon DEF BmOpen
<1>2. bmHits = {} /\ r.hits = {} /\ bmFlash' = bmFlash /\ bmUp' = IF r.s = "OK" THEN "scanned" ELSE bmUp
  BY <1>1, BmInitialized, Zenon
<1>3. CASE r.s # "OK"
  <2>1. bmUp' # "scanned" /\ bmFiles' = <<>>
    BY <1>1, <1>2, <1>3, BmScanned, Zenon
  <2> QED  BY <1>2, <2>1, BmGone
<1>4. CASE r.s = "OK"
  <2>1. BmMirrors(r.files)
    BY <1>2, <1>4, BmScanned, Zenon
  <2>2. OpenIn(r.files, n, m) /\ bmUp' = "scanned"
    BY <1>1, <1>2, <1>4, Zenon
  <2> QED  BY <1>2, <2>1, <2>2, BmOpenInGood
<1> QED  BY <1>3, <1>4

\* BootMonFsGetInfo.
LEMMA BmGetInfoGood ==
  ASSUME BmInv, NEW kind, BmGetInfo(kind), bmHits' = {}
  PROVE  bmHits = {} /\ BmGoodStep
<1>1. PICK r \in BootMonFsInitialize : Initialized(r) /\ bmFiles' = r.files
  BY Zenon DEF BmGetInfo
<1>2. bmHits = {} /\ r.hits = {} /\ bmFlash' = bmFlash /\ bmUp' = IF r.s = "OK" THEN "scanned" ELSE bmUp
  BY <1>1, BmInitialized, Zenon
<1>3. CASE r.s # "OK"
  <2>1. bmUp' # "scanned" /\ bmFiles' = <<>>
    BY <1>1, <1>2, <1>3, BmScanned, Zenon
  <2> QED  BY <1>2, <2>1, BmGone
<1>4. CASE r.s = "OK"
  <2>1. BmMirrors(r.files)
    BY <1>2, <1>4, BmScanned, Zenon
  <2>2. BmLeaves(r.files)
    BY <1>1, <1>2, <1>4, Zenon DEF BmLeaves
  <2> QED  BY <1>2, <2>1, <2>2, BmLeavesGood
<1> QED  BY <1>3, <1>4

\* BootMonFsWriteFile.
LEMMA BmWriteGood ==
  ASSUME BmInv, NEW i, NEW n \in Nat, BmWrite(i, n), bmHits' = {}
  PROVE  bmHits = {} /\ BmGoodStep
<1>1. i \in DOMAIN bmFiles /\ bmFiles[i].open /\ UNCHANGED <<bmUp, bmFlash, bmHits>>
  BY Zenon DEF BmWrite, Opened, Refuse
<1>2. bmHits = {}
  BY <1>1
<1>3. IsFile(bmFiles[i])
  BY <1>1, <1>2, BmInUse
<1>4. CASE bmFiles' = bmFiles
  BY <1>1, <1>2, <1>4, BmUnchanged
<1>5. CASE Update(i, Pending(bmFiles[i], n))
  <2>1. BmStill(Pending(bmFiles[i], n), bmFiles[i])
    BY <1>1, <1>3, BmPendingIs
  <2> QED  BY <1>1, <1>2, <1>5, <2>1, BmUpdate
<1> QED  BY <1>4, <1>5, Zenon DEF BmWrite, Refuse

\* BootMonFsSetPosition.
LEMMA BmSetPositionGood ==
  ASSUME BmInv, NEW i, NEW p, p = -1 \/ p \in Nat, BmSetPosition(i, p), bmHits' = {}
  PROVE  bmHits = {} /\ BmGoodStep
<1>1. i \in DOMAIN bmFiles /\ UNCHANGED <<bmUp, bmFlash, bmHits>>
  BY Zenon DEF BmSetPosition, Opened
<1>2. bmHits = {}
  BY <1>1
<1>3. IsFile(bmFiles[i])
  BY <1>1, <1>2, BmInUse
<1>4. PICK q : q = IF p = -1 THEN bmFiles[i].size ELSE p
  OBVIOUS
<1>5. q \in Nat
  BY <1>3, <1>4, BmFileTypes
<1>6. PICK h : h = BmMovedTo(bmFiles[i], q)
  OBVIOUS
<1>7. BmStill(h, bmFiles[i])
  BY <1>3, <1>5, <1>6, BmMoveIs
<1>8. Update(i, h)
  BY <1>4, <1>6, Zenon DEF BmSetPosition, BmMovedTo
<1> QED  BY <1>1, <1>2, <1>7, <1>8, BmUpdate

\* SetFileInfo.
LEMMA BmSetInfoGood ==
  ASSUME BmInv, NEW i, NEW z, NEW n, bmHits = {} => z \in Nat, BmSetInfo(i, z, n), bmHits' = {}
  PROVE  bmHits = {} /\ BmGoodStep
<1>1. i \in DOMAIN bmFiles /\ bmFiles[i].open /\ UNCHANGED <<bmUp, bmFlash, bmHits>>
  BY Zenon DEF BmSetInfo, Opened
<1>2. bmHits = {} /\ z \in Nat
  BY <1>1
<1>3. IsFile(bmFiles[i])
  BY <1>1, <1>2, BmInUse
<1>4. PICK h : h = SetFileSize(bmFiles[i], z)
  OBVIOUS
<1>5. BmStill(h, bmFiles[i])
  BY <1>1, <1>2, <1>3, <1>4, BmResizedIs
<1>6. CASE bmFiles' = bmFiles
  BY <1>1, <1>2, <1>6, BmUnchanged
<1>7. CASE Update(i, h)
  BY <1>1, <1>2, <1>5, <1>7, BmUpdate
<1>8. CASE Update(i, [h EXCEPT !.name = n])
  <2>1. PICK g : g = BmRenamed(h, n)
    OBVIOUS
  <2>2. BmStill(g, h)
    BY <1>5, <2>1, BmRenamedIs DEF BmStill
  <2>3. BmStill(g, bmFiles[i])
    BY <1>5, <2>2, Zenon DEF BmStill
  <2>4. Update(i, g)
    BY <1>8, <2>1, Zenon DEF BmRenamed
  <2> QED  BY <1>1, <1>2, <2>3, <2>4, BmUpdate
<1> QED  BY <1>4, <1>6, <1>7, <1>8, Zenon DEF BmSetInfo

\* BootMonFsDelete.
LEMMA BmDeleteGood ==
  ASSUME BmInv, NEW i, BmDelete(i), bmHits' = {}
  PROVE  bmHits = {} /\ BmGoodStep
<1>1. i \in DOMAIN bmFiles /\ UNCHANGED bmUp
  BY Zenon DEF BmDelete, Opened
<1>2. /\ UNCHANGED bmHits /\ bmFiles' = RemoveAt(bmFiles, i)
      /\ \/ OnFlash(bmFiles[i]) /\ bmFlash' = Writes(bmFlash, InvalidateImageDescription(bmFiles[i].addr))
         \/ ~OnFlash(bmFiles[i]) /\ bmFlash' = bmFlash
  BY BmNoErrorIs, Zenon DEF BmDelete, BmNoError, Flash
<1>3. bmHits = {}
  BY <1>2
<1>4. bmUp = "scanned" /\ BmMirrors(bmFiles) /\ IsFile(bmFiles[i])
  BY <1>1, <1>3, BmInUse
<1>5. PICK fs, ls, g : fs = bmFiles /\ ls = bmFiles' /\ g = bmFlash'
  OBVIOUS
<1>6. \A c \in Cells : g[c] = IF OnFlash(fs[i]) /\ c = Address(fs[i].hw) THEN Blank ELSE bmFlash[c]
  <2>1. CASE OnFlash(fs[i])
    <3>1. PICK a : a = fs[i].addr
      OBVIOUS
    <3>2. IsDesc(fs[i].hw) /\ a = Address(fs[i].hw)
      BY <1>4, <1>5, <2>1, <3>1, BmOnFlash
    <3>3. a \in Nat
      BY <3>2, BmDescPlace
    <3>4. PICK p : p = InvalidateImageDescription(a) /\ p.c = Blank /\ p.at = a /\ p.n = 1
      <4>1. PICK b : b = Blank
        OBVIOUS
      <4>2. PICK p : p = [at |-> a, n |-> 1, c |-> b]
        OBVIOUS
      <4>3. p.c = b /\ p.at = a /\ p.n = 1
        BY <4>2
      <4> QED  BY <4>1, <4>2, <4>3, Zenon DEF InvalidateImageDescription, Put
    <3>5. Covers(p) = {a}
      BY <3>3, <3>4 DEF Covers
    <3>6. g = Writes(bmFlash, p)
      BY <1>2, <1>5, <2>1, <3>1, <3>4, Zenon
    <3>7. \A c \in Cells : g[c] = IF c \in Covers(p) THEN p.c ELSE bmFlash[c]
      BY <3>6, Zenon DEF Writes
    <3>8. \A c : c \in Covers(p) <=> c = a
      BY <3>5
    <3> QED  BY <2>1, <3>2, <3>4, <3>7, <3>8, Zenon
  <2>2. CASE ~OnFlash(fs[i])
    BY <1>2, <1>5, <2>2, Zenon
  <2> QED  BY <2>1, <2>2
<1>7. BmIsRemoved(ls, fs, i) /\ BmMirrors(fs) /\ i \in DOMAIN fs
  BY <1>1, <1>2, <1>4, <1>5, Zenon DEF BmIsRemoved
<1>8. BmMirror(ls, g) /\ BmKept(g)
  BY <1>6, <1>7, BmDropped
<1>9. FlashGood(g)
  BY <1>8, Zenon DEF BmMirror
<1> QED  BY <1>1, <1>3, <1>4, <1>5, <1>8, <1>9, Zenon DEF BmGoodStep

\* A loss of power in the middle of a flush.
LEMMA BmPowerLossGood ==
  ASSUME BmInv, PowerLoss, bmHits' = {}
  PROVE  bmHits = {} /\ BmGoodStep
<1>1. PICK i, r, k :
        /\ i \in DOMAIN bmFiles /\ r = FlushOf(bmFiles, i) /\ ~NeedsNoFlush(bmFiles[i]) /\ k \in DOMAIN r.ws /\ bmFlash' = Written(r.ws, k)
        /\ bmHits' = bmHits \cup r.hits \cup OrderHit(r.files)
  BY Zenon DEF PowerLoss
<1>2. bmHits = {} /\ r.hits = {}
  <2>1. \A a, b, c : a \cup b \cup c = {} => a = {} /\ b = {}
    OBVIOUS
  <2> QED  BY <1>1, <2>1, Zenon
<1>3. BmMirrors(bmFiles)
  BY <1>1, <1>2, BmInUse
<1>4. bmFiles[i].open
  BY <1>1, Zenon DEF NeedsNoFlush
<1>5. /\ Len(r.ws) \in Nat /\ DOMAIN r.ws = 1 .. Len(r.ws)
      /\ \A j \in 0 .. Len(r.ws) : FlashGood(Written(r.ws, j)) /\ BmKept(Written(r.ws, j))
  BY <1>1, <1>2, <1>3, <1>4, BmFlushLeaves, Zenon
<1>6. k \in 0 .. Len(r.ws)
  BY <1>1, <1>5
<1>7. bmFiles' = <<>> /\ bmUp' # "scanned"
  <2>1. bmFiles' = <<>> /\ bmUp' = "unloaded"
    BY Zenon DEF PowerLoss, Gone
  <2> QED  BY <2>1
<1> QED  BY <1>1, <1>2, <1>5, <1>6, <1>7, Zenon DEF BmGoodStep

-------------------------------------------------------------------------------
\* Reading or rewinding the root directory, and the start of BootMonFsFlushDirectory.
LEMMA BmDirectoryGood ==
  ASSUME BmInv, BmReadDirectory \/ BmSetDirPosition \/ BmFlushDirectory, bmHits' = {}
  PROVE  bmHits = {} /\ BmGoodStep
<1>1. UNCHANGED <<bmFlash, bmUp, bmFiles, bmHits>>
  BY Zenon DEF BmReadDirectory, BmSetDirPosition, BmFlushDirectory
<1> QED  BY <1>1, BmUnchanged

\* The driver comes and goes, and resets in between.
LEMMA BmDriverGood ==
  ASSUME BmInv, BootMonFsEntryPoint \/ BootMonFsDriverStart \/ BootMonFsDriverStop \/ Reset, bmHits' = {}
  PROVE  bmHits = {} /\ BmGoodStep
<1>1. CASE BootMonFsEntryPoint
  <2>1. PICK paths : bmUp' = SupportedDevicePathsInit(paths)
    BY <1>1, Zenon DEF BootMonFsEntryPoint
  <2>2. bmUp = "unloaded" /\ UNCHANGED <<bmFlash, bmFiles, bmHits>>
    BY <1>1, Zenon DEF BootMonFsEntryPoint
  <2>3. bmUp # "scanned" /\ bmUp' # "scanned"
    BY <2>1, <2>2 DEF SupportedDevicePathsInit
  <2>4. bmHits = {} /\ bmFiles = <<>>
    BY <2>2, <2>3, BmNow
  <2> QED  BY <2>2, <2>3, <2>4, BmGone
<1>2. CASE BootMonFsDriverStart
  <2>1. bmUp' \in {"started", "off", "leaked"} /\ bmUp = "off" /\ UNCHANGED <<bmFlash, bmFiles, bmHits>>
    BY <1>2, Zenon DEF BootMonFsDriverStart, BootMonFsDriverSupported
  <2>2. bmUp # "scanned" /\ bmUp' # "scanned"
    BY <2>1
  <2>3. bmHits = {} /\ bmFiles = <<>>
    BY <2>1, <2>2, BmNow
  <2> QED  BY <2>1, <2>2, <2>3, BmGone
<1>3. CASE BootMonFsDriverStop \/ Reset
  <2>1. bmUp' \in {"stopped", "unloaded"} /\ bmFiles' = <<>> /\ UNCHANGED <<bmFlash, bmHits>>
    BY <1>3, Zenon DEF BootMonFsDriverStop, Reset, Gone
  <2>2. bmUp' # "scanned"
    BY <2>1
  <2> QED  BY <2>1, <2>2, BmGone
<1> QED  BY <1>1, <1>2, <1>3

\* Where BootMonFsFlushDirectory is.
BmWalks == bmHits = {} => bmWalk \in Nat

\* ... after any step.
LEMMA BmWalkStep ==
  ASSUME BmInv, BmWalks, [BmNext]_bmVars, bmHits' = {}, bmHits = {}
  PROVE  bmWalk' \in Nat
<1>1. bmWalk \in Nat
  BY Zenon DEF BmWalks
<1>2. CASE UNCHANGED bmWalk \/ bmWalk' = 0 \/ bmWalk' = 1 \/ bmWalk' = bmWalk + 1
  BY <1>1, <1>2
<1>3. CASE BmFlushNext /\ ~ (bmWalk > Len(bmFiles)) /\ ~NeedsNoFlush(bmFiles[bmWalk])
  <2>1. BmGoodStep /\ bmWalk > 0
    BY <1>3, BmFlushNextGood, Zenon DEF BmWalks, BmFlushNext
  <2>2. PICK r : /\ r = FlushOf(bmFiles, bmWalk) /\ bmWalk' = r.at + 1
                 /\ bmHits' = bmHits \cup r.hits \cup OrderHit([r.files EXCEPT ![r.at] = r.f])
    BY <1>3, BmNoErrorIs, Zenon DEF BmFlushNext, FlushTo, BmNoError
  <2>3. r.hits = {}
    <3>1. \A a, b, c : a \cup b \cup c = {} => b = {}
      OBVIOUS
    <3> QED  BY <2>2, <3>1, Zenon
  <2>4. bmFiles[bmWalk].open
    BY <1>3, Zenon DEF NeedsNoFlush
  <2>5. bmWalk \in DOMAIN bmFiles
    BY <1>1, <1>3, <2>1, BmWalkPlace
  <2>6. BmMirrors(bmFiles)
    BY <2>5, BmInUse
  <2>7. r.at \in Nat
    BY <2>2, <2>3, <2>4, <2>5, <2>6, BmFlushLeaves, Zenon
  <2> QED  BY <2>2, <2>7
<1>4. CASE BmFlushNext
  BY <1>2, <1>3, <1>4, Zenon DEF BmFlushNext
<1>5. CASE UNCHANGED bmVars
  BY <1>2, <1>5, Zenon DEF bmVars
<1> QED  BY <1>2, <1>4, <1>5, Zenon DEF BmNext, BmFlush, BmClose, BmDelete, BmWrite, BmRead, BmSetPosition, BmSetInfo,
         BmOpen, BmGetInfo, BmReadDirectory, BmSetDirPosition, BmFlushDirectory, BootMonFsEntryPoint, BootMonFsDriverStart,
         BootMonFsDriverStop, Reset, PowerLoss, BmDone, bmVars, Op
\* Every step, as long as no hazard is met.
LEMMA BmNextGood ==
  ASSUME BmInv, BmWalks, [BmNext]_bmVars, bmHits' = {}
  PROVE  bmHits = {} /\ BmGoodStep
<1>1. \A n \in BmSizes \cup BmSeeks : n \in Nat
  <2>1. BmSizes \subseteq Nat \ {0} /\ BmSeeks \subseteq Nat
    BY BootMonFsAssumption, Zenon
  <2> QED  BY <2>1
<1>2. CASE UNCHANGED bmVars \/ BmDone
  <2>1. UNCHANGED <<bmFlash, bmUp, bmFiles, bmHits>>
    BY <1>2, Zenon DEF bmVars, BmDone
  <2> QED  BY <2>1, BmUnchanged
<1>3. ASSUME NEW n, NEW m, BmOpen(n, m)
      PROVE  bmHits = {} /\ BmGoodStep
  BY <1>3, BmOpenGood
<1>4. ASSUME NEW i \in DOMAIN bmFiles, BmFlush(i) \/ BmClose(i) \/ BmDelete(i)
      PROVE  bmHits = {} /\ BmGoodStep
  BY <1>4, BmFlushGood, BmCloseGood, BmDeleteGood, Zenon
<1>5. ASSUME NEW i \in DOMAIN bmFiles, NEW n \in BmSizes, BmWrite(i, n) \/ BmRead(i, n)
      PROVE  bmHits = {} /\ BmGoodStep
  <2>1. n \in Nat
    BY <1>1
  <2> QED  BY <1>5, <2>1, BmWriteGood, BmReadGood, Zenon
<1>6. ASSUME NEW i \in DOMAIN bmFiles, NEW p \in BmSeeks \cup {-1}, BmSetPosition(i, p)
      PROVE  bmHits = {} /\ BmGoodStep
  <2>1. p = -1 \/ p \in Nat
    BY <1>1
  <2> QED  BY <1>6, <2>1, BmSetPositionGood, Zenon
<1>7. ASSUME NEW i \in DOMAIN bmFiles, NEW z \in BmSizes \cup {bmFiles[i].size}, NEW n, BmSetInfo(i, z, n)
      PROVE  bmHits = {} /\ BmGoodStep
  <2>1. bmHits = {} => z \in Nat
    <3> SUFFICES ASSUME bmHits = {} PROVE z \in Nat
      OBVIOUS
    <3>1. bmFiles[i].size \in Nat
      BY BmInUse, BmFileTypes
    <3> QED  BY <1>1, <3>1
  <2> QED  BY <1>7, <2>1, BmSetInfoGood, Zenon
<1>8. ASSUME NEW kind, BmGetInfo(kind)
      PROVE  bmHits = {} /\ BmGoodStep
  BY <1>8, BmGetInfoGood
<1>9. CASE BmReadDirectory \/ BmSetDirPosition \/ BmFlushDirectory
  BY <1>9, BmDirectoryGood
<1>10. CASE BmFlushNext
  BY <1>10, BmFlushNextGood DEF BmWalks
<1>11. CASE BootMonFsEntryPoint \/ BootMonFsDriverStart \/ BootMonFsDriverStop \/ Reset
  BY <1>11, BmDriverGood
<1>12. CASE PowerLoss
  BY <1>12, BmPowerLossGood
<1>13. CASE \E i \in DOMAIN bmFiles :
              \/ BmFlush(i) \/ BmClose(i) \/ BmDelete(i)
              \/ \E n \in BmSizes : BmWrite(i, n) \/ BmRead(i, n)
              \/ \E p \in BmSeeks \cup {-1} : BmSetPosition(i, p)
              \/ \E z \in BmSizes : BmSetInfo(i, z, bmFiles[i].name)
              \/ \E n \in BmNames : BmSetInfo(i, bmFiles[i].size, n)
  <2>1. \A x, y, S : (x \in S => x \in S \cup {y}) /\ y \in S \cup {y}
    OBVIOUS
  <2> QED  BY <1>4, <1>5, <1>6, <1>7, <1>13, <2>1, Zenon
<1> QED  BY <1>2, <1>3, <1>8, <1>9, <1>10, <1>11, <1>12, <1>13, Zenon DEF BmNext

-------------------------------------------------------------------------------
\* A description on the flash that the driver starts from is the one of a seed.
LEMMA BmSeedGood ==
  ASSUME NEW ds, \A d \in ds : d.start = d.end /\ d.end \in Nat /\ d.size = BmBlock - 2 /\ d.count = 1
                   /\ d = [id |-> d.id, name |-> d.name, start |-> d.start, end |-> d.end, size |-> d.size, count |-> 1],
         \A d, e \in ds : d.end = e.end => d = e
  PROVE  FlashGood(FlashOf(ds))
<1>1. BmBlock \in Nat /\ BmBlock >= 2 /\ BmLast \in Nat
  BY BmAtFacts
<1>2. PICK g : g = FlashOf(ds)
  OBVIOUS
<1>3. ASSUME NEW d \in ds, NEW c \in Cells, c = Address(d)
      PROVE  IsDesc(d)
  <2>1. d.start \in Nat /\ d.end \in Nat /\ d.start = d.end /\ d.size = BmBlock - 2
    BY Zenon
  <2>2. PICK b, z : b = d.end /\ z = d.size
    OBVIOUS
  <2>3. b \in Nat /\ z = BmBlock - 2
    BY <2>1, <2>2
  <2>4. c \in Nat /\ c < BmAt(BmLast + 1) /\ c = BmAt(b + 1) - 1
    <3>1. Cells = 0 .. (BmAt(BmLast + 1) - 1) /\ Address(d) = BmAt(b + 1) - 1
      BY <2>2, Zenon DEF Cells, Address, BmAt
    <3>2. BmAt(BmLast + 1) \in Nat /\ BmAt(b + 1) \in Nat
      <4>1. BmLast + 1 \in Nat /\ b + 1 \in Nat
        BY <1>1, <2>3
      <4> QED  BY <4>1, BmAtFacts
    <3> QED  BY <1>3, <3>1, <3>2
  <2>5. BmAt(b + 1) = BmAt(b) + BmBlock /\ BmAt(b) \in Nat
    BY <2>3, BmAtFacts
  <2>6. b <= BmLast
    <3>1. BmLast + 1 \in Nat /\ b + 1 \in Nat
      BY <1>1, <2>3
    <3>2. BmLast + 1 < b + 1 => BmAt(BmLast + 1) + BmBlock <= BmAt(b + 1)
      BY <3>1, BmAtFacts
    <3>3. BmAt(BmLast + 1) \in Nat /\ BmAt(b + 1) \in Nat
      BY <3>1, BmAtFacts
    <3> QED  BY <1>1, <2>3, <2>4, <3>2, <3>3
  <2>7. BmAt(b) + z <= Address(d)
    <3>1. Address(d) = c
      BY <1>3
    <3> QED  BY <1>1, <2>3, <2>4, <2>5, <3>1
  <2>8. z \in Nat
    BY <1>1, <2>3
  <2>9. b <= b
    BY <2>3
  <2> QED  BY <2>1, <2>2, <2>3, <2>6, <2>7, <2>8, <2>9, Zenon DEF IsDesc, BmAt
<1>4. ASSUME NEW c \in Cells, g[c].k = "desc"
      PROVE  \E d \in ds : c = Address(d) /\ g[c] = DescOf(d) /\ g[c].d = d /\ IsDesc(d)
  <2>1. g[c] = IF \E d \in ds : c = Address(d) THEN DescOf(CHOOSE d \in ds : c = Address(d))
               ELSE IF \E d \in ds : c \in d.start * BmBlock .. d.start * BmBlock + d.size - 1
                    THEN DataOf((CHOOSE d \in ds : c \div BmBlock = d.start).id)
               ELSE Blank
    BY <1>2, Zenon DEF FlashOf
  <2>2. CASE \E d \in ds : c = Address(d)
    <3>1. PICK d : d = CHOOSE e \in ds : c = Address(e)
      OBVIOUS
    <3>2. d \in ds /\ c = Address(d) /\ g[c] = DescOf(d)
      BY <2>1, <2>2, <3>1, Zenon
    <3>3. IsDesc(d)
      BY <1>3, <3>2
    <3> QED  BY <3>2, <3>3, BmContents, Zenon
  <2>3. CASE ~ \E d \in ds : c = Address(d)
    <3>1. g[c] = Blank \/ \E id : g[c] = DataOf(id)
      BY <2>1, <2>3, Zenon
    <3> QED  BY <1>4, <3>1, BmContents, Zenon
  <2> QED  BY <2>2, <2>3
<1>5. ASSUME NEW c \in Cells, NEW e \in Cells, g[c].k = "desc", g[e].k = "desc", c < e
      PROVE  g[c].d.end < g[e].d.start
  <2>1. PICK x \in ds : c = Address(x) /\ g[c].d = x /\ IsDesc(x)
    BY <1>4, <1>5
  <2>2. PICK y \in ds : e = Address(y) /\ g[e].d = y /\ IsDesc(y)
    BY <1>4, <1>5
  <2>3. x.end \in Nat /\ y.end \in Nat /\ y.start = y.end
    BY Zenon DEF IsDesc
  <2>4. y.end <= x.end => Address(y) <= Address(x)
    BY <2>1, <2>2, BmDescOrder
  <2>5. Address(x) \in Nat /\ Address(y) \in Nat /\ Address(x) < Address(y)
    BY <1>5, <2>1, <2>2, BmDescPlace
  <2>6. x.end < y.start
    BY <2>3, <2>4, <2>5
  <2> QED  BY <2>1, <2>2, <2>6
<1>6. FlashGood(g)
  BY <1>4, <1>5, Zenon DEF FlashGood
<1> QED  BY <1>2, <1>6
\* The flash that the driver starts from is good.
LEMMA BmInitGood ==
  ASSUME BmInit
  PROVE  BmInv /\ BmWalks
<1>1. PICK n, m, ds : ds \in Seeds(n, m) /\ bmFlash = FlashOf(ds)
  BY Zenon DEF BmInit
<1>2. PICK x, y, z : x = Seed(1, n, 1) /\ y = Seed(1, n, 0) /\ z = Seed(2, m, 2)
  OBVIOUS
<1>3. ds = {} \/ ds = {x} \/ ds = {y, z}
  BY <1>1, <1>2, Zenon DEF Seeds
<1>4. /\ x.end = 1 /\ y.end = 0 /\ z.end = 2
      /\ \A d \in {x, y, z} : d.start = d.end /\ d.end \in Nat /\ d.size = BmBlock - 2 /\ d.count = 1
           /\ d = [id |-> d.id, name |-> d.name, start |-> d.start, end |-> d.end, size |-> d.size, count |-> 1]
  <2>1. 0 \in Nat /\ 1 \in Nat /\ 2 \in Nat
    OBVIOUS
  <2>2. /\ x.end = 1 /\ x.start = x.end /\ x.size = BmBlock - 2 /\ x.count = 1
        /\ x = [id |-> x.id, name |-> x.name, start |-> x.start, end |-> x.end, size |-> x.size, count |-> 1]
    <3>1. x = [id |-> 1, name |-> n, start |-> 1, end |-> 1, size |-> BmBlock - 2, count |-> 1]
      BY <1>2, Zenon DEF Seed
    <3> QED  BY <3>1
  <2>3. /\ y.end = 0 /\ y.start = y.end /\ y.size = BmBlock - 2 /\ y.count = 1
        /\ y = [id |-> y.id, name |-> y.name, start |-> y.start, end |-> y.end, size |-> y.size, count |-> 1]
    <3>1. y = [id |-> 1, name |-> n, start |-> 0, end |-> 0, size |-> BmBlock - 2, count |-> 1]
      BY <1>2, Zenon DEF Seed
    <3> QED  BY <3>1
  <2>4. /\ z.end = 2 /\ z.start = z.end /\ z.size = BmBlock - 2 /\ z.count = 1
        /\ z = [id |-> z.id, name |-> z.name, start |-> z.start, end |-> z.end, size |-> z.size, count |-> 1]
    <3>1. z = [id |-> 2, name |-> m, start |-> 2, end |-> 2, size |-> BmBlock - 2, count |-> 1]
      BY <1>2, Zenon DEF Seed
    <3> QED  BY <3>1
  <2> QED  BY <2>1, <2>2, <2>3, <2>4, Zenon
<1>5. ds \subseteq {x, y, z} /\ \A d, e \in ds : d.end = e.end => d = e
  BY <1>3, <1>4
<1>6. FlashGood(bmFlash)
  <2>1. \A d \in ds : d.start = d.end /\ d.end \in Nat /\ d.size = BmBlock - 2 /\ d.count = 1
           /\ d = [id |-> d.id, name |-> d.name, start |-> d.start, end |-> d.end, size |-> d.size, count |-> 1]
    BY <1>4, <1>5, Zenon
  <2> QED  BY <1>1, <1>5, <2>1, BmSeedGood, Zenon
<1>7. bmUp # "scanned" /\ bmFiles = <<>>
  <2>1. bmUp = "unloaded" /\ bmFiles = <<>>
    BY Zenon DEF BmInit
  <2> QED  BY <2>1
<1>8. bmWalk \in Nat
  <2>1. bmWalk = 0
    BY Zenon DEF BmInit
  <2> QED  BY <2>1
<1> QED  BY <1>6, <1>7, <1>8, Zenon DEF BmInv, BmWalks

\* The files that a scan of a good flash finds.
LEMMA BmImages ==
  ASSUME FlashGood(bmFlash)
  PROVE  /\ \A d \in Images : IsDesc(d) /\ Address(d) \in Cells /\ bmFlash[Address(d)] = DescOf(d)
         /\ \A c \in Cells : bmFlash[c].k = "desc" => bmFlash[c].d \in Images
<1>1. \A b : (b + 1) * BmBlock - 1 = BmAt(b + 1) - 1
  BY Zenon DEF BmAt
<1>2. ASSUME NEW d \in Images
      PROVE  IsDesc(d) /\ Address(d) \in Cells /\ bmFlash[Address(d)] = DescOf(d)
  <2>1. PICK b : b \in 0 .. BmLast /\ IsImageValid(b) /\ d = bmFlash[BmAt(b + 1) - 1].d
    BY <1>1, Zenon DEF Images
  <2>2. PICK c : c = BmAt(b + 1) - 1
    OBVIOUS
  <2>3. IsDesc(d) /\ Address(d) = c /\ c \in Cells /\ bmFlash[c].k = "desc"
    BY <2>1, <2>2, BmValid, Zenon
  <2>4. bmFlash[c] = DescOf(bmFlash[c].d)
    BY <2>3, Zenon DEF FlashGood
  <2> QED  BY <2>1, <2>2, <2>3, <2>4, Zenon
<1>3. ASSUME NEW c \in Cells, bmFlash[c].k = "desc"
      PROVE  bmFlash[c].d \in Images
  <2>1. PICK d : d = bmFlash[c].d
    OBVIOUS
  <2>2. IsDesc(d) /\ c = Address(d)
    BY <1>3, <2>1, Zenon DEF FlashGood
  <2>3. PICK b : b = d.end
    OBVIOUS
  <2>4. b \in 0 .. BmLast
    <3>1. b \in Nat /\ b <= BmLast
      BY <2>2, <2>3, Zenon DEF IsDesc
    <3>2. BmLast \in Nat
      BY BmAtFacts
    <3> QED  BY <3>1, <3>2
  <2>5. c = BmAt(b + 1) - 1
    BY <2>2, <2>3, BmDescPlace
  <2>6. IsImageValid(b)
    BY <1>3, <2>4, <2>5, BmValid, Zenon
  <2> QED  BY <1>1, <2>1, <2>4, <2>5, <2>6, Zenon DEF Images
<1> QED  BY <1>2, <1>3

\* A scan of a good flash finds files that share no block and hold no stray description.
LEMMA BmInvScan ==
  ASSUME BmInv
  PROVE  BmScanFindsFiles
<1> SUFFICES ASSUME bmHits = {}, NEW d \in Images
             PROVE  /\ \A e \in Images : d # e => Extent(d) \cap Extent(e) = {}
                    /\ \A c \in Extent(d) : bmFlash[c].k = "desc" => bmFlash[c].d = d
  BY Zenon DEF BmScanFindsFiles
<1>1. FlashGood(bmFlash)
  BY BmNow
<1>2. IsDesc(d) /\ Address(d) \in Cells /\ bmFlash[Address(d)] = DescOf(d)
  BY <1>1, BmImages, Zenon
<1>3. ASSUME NEW c \in Cells, bmFlash[c].k = "desc", bmFlash[c].d # d
      PROVE  Extent(d) \cap Extent(bmFlash[c].d) = {} /\ c \in Extent(bmFlash[c].d)
  <2>1. PICK a : a = Address(d)
    OBVIOUS
  <2>2. bmFlash[a].k = "desc" /\ bmFlash[a].d = d /\ a \in Cells
    BY <1>2, <2>1, BmContents, Zenon
  <2>3. a # c
    BY <1>3, <2>2
  <2>4. Extent(bmFlash[a].d) \cap Extent(bmFlash[c].d) = {}
    BY <1>1, <1>3, <2>2, <2>3, BmApart, Zenon
  <2>5. PICK e : e = bmFlash[c].d
    OBVIOUS
  <2>6. IsDesc(e) /\ c = Address(e)
    BY <1>1, <1>3, <2>5, Zenon DEF FlashGood
  <2>7. Extent(e) = BmAt(e.start) .. Address(e) /\ BmAt(e.start) \in Nat /\ Address(e) \in Nat /\ BmAt(e.start) < Address(e)
    BY <2>6, BmDescPlace
  <2>8. PICK l : l = BmAt(e.start)
    OBVIOUS
  <2>9. c \in l .. c
    BY <2>6, <2>7, <2>8
  <2>10. c \in Extent(e)
    BY <2>6, <2>7, <2>8, <2>9, Zenon
  <2> QED  BY <2>2, <2>4, <2>5, <2>10, Zenon
<1>4. ASSUME NEW e \in Images, d # e
      PROVE  Extent(d) \cap Extent(e) = {}
  <2>1. Address(e) \in Cells /\ bmFlash[Address(e)] = DescOf(e)
    BY <1>1, BmImages, Zenon
  <2>2. bmFlash[Address(e)].k = "desc" /\ bmFlash[Address(e)].d = e
    BY <2>1, BmContents, Zenon
  <2>3. Extent(d) \cap Extent(bmFlash[Address(e)].d) = {}
    BY <1>3, <1>4, <2>1, <2>2, Zenon
  <2> QED  BY <2>2, <2>3, Zenon
<1>5. ASSUME NEW c \in Extent(d), bmFlash[c].k = "desc"
      PROVE  bmFlash[c].d = d
  <2>1. c \in Cells
    BY <1>2, BmDescPlace
  <2>2. \A S, T, x : x \in S /\ x \in T => S \cap T # {}
    OBVIOUS
  <2> QED  BY <1>3, <1>5, <2>1, <2>2, Zenon
<1> QED  BY <1>4, <1>5

\* The list mirrors the flash.
LEMMA BmInvList ==
  ASSUME BmInv
  PROVE  BmListIsFlash
<1> SUFFICES ASSUME bmHits = {}, bmUp = "scanned"
             PROVE  {bmFiles[i].hw : i \in {j \in DOMAIN bmFiles : OnFlash(bmFiles[j])}} = Images
  BY Zenon DEF BmListIsFlash
<1>1. FlashGood(bmFlash) /\ BmMirrors(bmFiles)
  BY BmNow
<1>2. PICK fs : fs = bmFiles
  OBVIOUS
<1>3. BmMirrors(fs)
  BY <1>1, <1>2
<1>4. ASSUME NEW i \in DOMAIN fs, OnFlash(fs[i])
      PROVE  fs[i].hw \in Images
  <2>1. PICK d : d = fs[i].hw
    OBVIOUS
  <2>2. Address(d) \in Cells /\ bmFlash[Address(d)].k = "desc" /\ bmFlash[Address(d)].d = d
    BY <1>3, <1>4, <2>1, BmListed, Zenon
  <2> QED  BY <1>1, <2>1, <2>2, BmImages, Zenon
<1>5. ASSUME NEW d \in Images
      PROVE  \E i \in DOMAIN fs : OnFlash(fs[i]) /\ fs[i].hw = d
  <2>1. Address(d) \in Cells /\ bmFlash[Address(d)] = DescOf(d)
    BY <1>1, BmImages, Zenon
  <2>2. bmFlash[Address(d)].k = "desc" /\ bmFlash[Address(d)].d = d
    BY <2>1, BmContents, Zenon
  <2> QED  BY <1>3, <2>1, <2>2, BmDescListed, Zenon
<1>6. \A x : x \in {fs[i].hw : i \in {j \in DOMAIN fs : OnFlash(fs[j])}} <=> x \in Images
  BY <1>4, <1>5, Zenon
<1>7. {fs[i].hw : i \in {j \in DOMAIN fs : OnFlash(fs[j])}} = Images
  BY <1>6, Zenon
<1> QED  BY <1>2, <1>7, Zenon

\* A step changes, of a file that keeps its description, its own data only.
LEMMA BmStepKeeps ==
  ASSUME FlashGood(bmFlash), BmGoodStep, NEW d \in Images \cap Images', NEW c \in Extent(d), bmFlash'[c] # bmFlash[c]
  PROVE  bmFlash'[c].id = d.id
<1>1. IsDesc(d) /\ Address(d) \in Cells /\ bmFlash[Address(d)] = DescOf(d)
  BY BmImages, Zenon
<1>2. PICK b \in 0 .. BmLast : IsImageValid(b)' /\ d = bmFlash'[BmAt(b + 1) - 1].d
  BY Zenon DEF Images, BmAt
<1>3. PICK e : e = BmAt(b + 1) - 1
  OBVIOUS
<1>4. e \in Cells
  BY <1>3, BmValid
<1>5. bmFlash'[e].k = "desc"
  BY <1>2, <1>3, Zenon DEF IsImageValid, BmAt
<1>6. bmFlash'[e] = DescOf(d) /\ e = Address(d)
  BY <1>2, <1>3, <1>4, <1>5, Zenon DEF BmGoodStep, FlashGood
<1> QED  BY <1>1, <1>6, Zenon DEF BmGoodStep, BmKept

-------------------------------------------------------------------------------
\* The invariant holds, and steps of a driver that has met no hazard are good.
LEMMA BmInvHolds == BmSpec => [](BmInv /\ BmWalks)
<1>1. BmInit => BmInv /\ BmWalks
  BY BmInitGood
<1>2. (BmInv /\ BmWalks) /\ [BmNext]_bmVars => (BmInv /\ BmWalks)'
  <2> SUFFICES ASSUME BmInv, BmWalks, [BmNext]_bmVars, bmHits' = {}
               PROVE  BmGoodStep /\ bmWalk' \in Nat
    BY Zenon DEF BmInv, BmWalks, BmGoodStep
  <2> QED  BY BmNextGood, BmWalkStep
<1> QED  BY <1>1, <1>2, PTL DEF BmSpec

\* Before any of the hazards BmScanFindsFiles names: a scan of the flash, after a loss of
\* power in the middle of BootMonFsFlushFile or BootMonFsDelete too, finds files that share
\* no block.
THEOREM BmScanFindsFilesHolds == BmSpec => []BmScanFindsFiles
<1>1. BmInv /\ BmWalks => BmScanFindsFiles
  BY BmInvScan
<1> QED  BY <1>1, BmInvHolds, PTL

\* Before any of these hazards the list BootMonFsInitialize makes, after a scan it had to
\* give up that lost nothing too, and BootMonFsFlushFile and BootMonFsDelete keep, names the
\* files that are on the flash.  A scan that a device error cut short is such a hazard.
THEOREM BmListIsFlashHolds == BmSpec => []BmListIsFlash
<1>1. BmInv /\ BmWalks => BmListIsFlash
  BY BmInvList
<1> QED  BY <1>1, BmInvHolds, PTL

\* A step before any of these hazards changes no file but its own: a cell of a file that
\* keeps its description changes to data of that file, by BootMonFsFlushFile.
THEOREM BmIsolationHolds == BmSpec => BmIsolation
<1>1. (BmInv /\ BmWalks) /\ [BmNext]_bmVars =>
        [bmHits' = {} =>
           \A d \in Images \cap Images' : \A c \in Extent(d) :
             bmFlash'[c] # bmFlash[c] => bmFlash'[c].id = d.id]_bmVars
  <2> SUFFICES ASSUME BmInv, BmWalks, [BmNext]_bmVars, bmHits' = {}, NEW d \in Images \cap Images', NEW c \in Extent(d),
                      bmFlash'[c] # bmFlash[c]
               PROVE  bmFlash'[c].id = d.id
    BY Zenon
  <2>1. bmHits = {} /\ BmGoodStep
    BY BmNextGood
  <2>2. FlashGood(bmFlash)
    BY <2>1, BmNow
  <2> QED  BY <2>1, <2>2, BmStepKeeps
<1> QED  BY <1>1, BmInvHolds, PTL DEF BmSpec, BmIsolation
===============================================================================
