-------------------------- MODULE AppendPathProofs --------------------------
(***************************************************************************)
(* Proofs about AppendPlan and AppendPath, for any code parameters, sizes  *)
(* of units and blocks, clients, nodes and blocks followed, any number of  *)
(* appends of any sizes, and any schedule of the proxies and of the        *)
(* datanodes' threads.                                                     *)
(*                                                                         *)
(* First the plan of an append.  The slices of an append are the places of *)
(* its bytes, each parity slice covers them, proxy and client cut as many  *)
(* bytes as the coordinator counted, and the slices of appends that follow *)
(* one another lie one behind the other in a block.                        *)
(*                                                                         *)
(* Then the system.  What the state has forgotten is which bytes the       *)
(* earlier appends brought and to which stripe.  The invariant therefore   *)
(* says that there is a history H of the appends, in their order, of which *)
(* the tables, the slices under way and the files are the outcome.         *)
(***************************************************************************)
EXTENDS AppendPath, FiniteSetTheorems, WellFoundedInduction, SequenceTheorems, TLAPS

-----------------------------------------------------------------------------
(* Quotients and remainders.                                               *)

\* Multiplying by a positive number keeps the order, and turns a step of one
\* into a step of d.
LEMMA Multiples ==
  ASSUME NEW d \in Nat \ {0}, NEW a \in Int, NEW b \in Int
  PROVE  /\ a * d \in Int
         /\ a < b => a * d + d <= b * d
         /\ a <= b => a * d <= b * d
         /\ a \in Nat => a * d \in Nat
<1>1. a < b => (b - a) * d >= d
  OBVIOUS
<1>2. (b - a) * d = b * d - a * d
  OBVIOUS
<1>. QED
  BY <1>1, <1>2

\* A number is its quotient times the divisor, plus a remainder below it.
LEMMA Divided ==
  ASSUME NEW d \in Nat \ {0}, NEW a \in Nat
  PROVE  /\ a \div d \in Nat /\ a % d \in 0 .. d - 1
         /\ a = (a \div d) * d + (a % d)
<1>1. a \div d \in Int /\ a % d \in 0 .. d - 1 /\ a = d * (a \div d) + (a % d)
  OBVIOUS
<1>2. d * (a \div d) = (a \div d) * d /\ (a \div d) * d \in Int
  BY <1>1, Multiples
<1>3. a \div d < 0 => (a \div d) * d + d <= 0
  <2>1. a \div d < 0 => (a \div d) * d + d <= 0 * d
    BY <1>1, Multiples
  <2>. QED
    BY <2>1
<1>. QED
  BY <1>1, <1>2, <1>3

\* Quotient and remainder are the only way to write a number so.
LEMMA DivUnique ==
  ASSUME NEW d \in Nat \ {0}, NEW q \in Nat, NEW o \in 0 .. d - 1
  PROVE  /\ q * d + o \in Nat
         /\ (q * d + o) \div d = q /\ (q * d + o) % d = o
<1> DEFINE a == q * d + o
<1>1. a \in Nat
  BY Multiples
<1>2. a \div d = q
  BY <1>1
<1>3. a = (a \div d) * d + (a % d)
  BY <1>1, Divided
<1>. QED
  BY <1>1, <1>2, <1>3, Multiples

-----------------------------------------------------------------------------
(* Bytes of a stripe and places of its blocks.                             *)

\* The byte of the stripe that lies at place s of data block b: the inverse of
\* BlockOf and PlaceOf.
ByteAt(b, s) == (s \div UnitSize) * Row + (b * UnitSize + (s % UnitSize))

\* The parameters, the row and the stripe are at least one.
LEMMA Positive ==
  /\ UnitSize \in Nat \ {0} /\ k \in Nat \ {0} /\ BlockSize \in Nat \ {0}
  /\ r \in Nat \ {0} /\ z \in Nat \ {0}
  /\ Row \in Nat \ {0} /\ StripeSize \in Nat \ {0}
<1>1. /\ UnitSize \in Nat \ {0} /\ k \in Nat \ {0} /\ BlockSize \in Nat \ {0}
      /\ r \in Nat \ {0} /\ z \in Nat \ {0}
  BY PlanAssumption
<1>2. \A d \in Nat \ {0} : k * d \in Nat \ {0}
  <2> SUFFICES ASSUME NEW d \in Nat \ {0} PROVE k * d \in Nat \ {0}
    OBVIOUS
  <2>1. 0 * d + d <= k * d
    BY <1>1, Multiples
  <2>. QED
    BY <1>1, <2>1, Multiples
<1>. QED
  BY <1>1, <1>2 DEF Row, StripeSize

\* A byte of a unit lies within its row.
LEMMA InRow ==
  ASSUME NEW b \in DataBlocks, NEW o \in 0 .. UnitSize - 1
  PROVE  b * UnitSize + o \in 0 .. Row - 1
<1>1. b \in Nat /\ b < k
  BY Positive DEF DataBlocks
<1>2. b * UnitSize + UnitSize <= k * UnitSize
  BY <1>1, Positive, Multiples
<1>. QED
  BY <1>1, <1>2, Positive, Multiples DEF Row

\* ByteAt gives a byte of the block, at the place asked for.
LEMMA ByteAtPlace ==
  ASSUME NEW b \in DataBlocks, NEW s \in Nat
  PROVE  /\ ByteAt(b, s) \in Nat
         /\ ByteAt(b, s) \div Row = s \div UnitSize
         /\ BlockOf(ByteAt(b, s)) = b
         /\ PlaceOf(ByteAt(b, s)) = s
<1> DEFINE q == s \div UnitSize
           o == s % UnitSize
           p == ByteAt(b, s)
<1>1. q \in Nat /\ o \in 0 .. UnitSize - 1 /\ s = q * UnitSize + o
  BY Positive, Divided
<1>2. b \in Nat /\ b \in 0 .. k - 1
  BY Positive DEF DataBlocks
<1>3. p = q * Row + (b * UnitSize + o)
  BY DEF ByteAt
<1> HIDE DEF q, o, p
<1>4. p \in Nat /\ p \div Row = q
  BY <1>1, <1>3, InRow, Positive, DivUnique
<1>5. q * k + b \in Nat /\ (q * k + b) % k = b
  BY <1>1, <1>2, Positive, DivUnique
<1>6. p = (q * k + b) * UnitSize + o
  <2>1. q * (k * UnitSize) = (q * k) * UnitSize
    BY <1>1, Positive
  <2>2. (q * k + b) * UnitSize = (q * k) * UnitSize + b * UnitSize
    BY <1>1, <1>2, Positive
  <2>3. q * (k * UnitSize) \in Int /\ b * UnitSize \in Int /\ o \in Int
    BY <1>1, <1>2, Positive
  <2>. QED
    BY <1>3, <2>1, <2>2, <2>3 DEF Row
<1>7. p \div UnitSize = q * k + b /\ p % UnitSize = o
  BY <1>1, <1>5, <1>6, Positive, DivUnique
<1>8. UnitSize * q = q * UnitSize /\ q * UnitSize \in Int
  BY <1>1, Positive
<1>. QED
  BY <1>1, <1>4, <1>5, <1>7, <1>8 DEF p, q, BlockOf, PlaceOf

\* A byte is found again at its own block and place.
LEMMA PlaceByte ==
  ASSUME NEW q \in Nat
  PROVE  /\ BlockOf(q) \in DataBlocks /\ PlaceOf(q) \in Nat
         /\ q = ByteAt(BlockOf(q), PlaceOf(q))
         /\ PlaceOf(q) \div UnitSize = q \div Row /\ PlaceOf(q) % UnitSize = q % UnitSize
<1> DEFINE u == q \div UnitSize
           o == q % UnitSize
           w == u \div k
           b == u % k
<1>1. u \in Nat /\ o \in 0 .. UnitSize - 1 /\ q = u * UnitSize + o
  BY Positive, Divided
<1>2. w \in Nat /\ b \in 0 .. k - 1 /\ u = w * k + b
  BY <1>1, Positive, Divided
<1> HIDE DEF u, o, w, b
<1>3. b \in DataBlocks
  BY <1>2 DEF DataBlocks
<1>4. q = w * Row + (b * UnitSize + o)
  <2>1. w * (k * UnitSize) = (w * k) * UnitSize
    BY <1>2, Positive
  <2>2. (w * k + b) * UnitSize = (w * k) * UnitSize + b * UnitSize
    BY <1>2, Positive
  <2>3. w * (k * UnitSize) \in Int /\ b * UnitSize \in Int /\ o \in Int
    BY <1>1, <1>2, Positive
  <2>. QED
    BY <1>1, <1>2, <2>1, <2>2, <2>3 DEF Row
<1>5. q \div Row = w
  <2>1. b * UnitSize + o \in 0 .. Row - 1
    BY <1>1, <1>3, InRow
  <2>2. (w * Row + (b * UnitSize + o)) \div Row = w
    BY <1>2, <2>1, Positive, DivUnique
  <2>. QED
    BY <1>4, <2>2
<1>6. PlaceOf(q) = w * UnitSize + o
  <2>1. UnitSize * w = w * UnitSize
    BY <1>2, Positive
  <2>. QED
    BY <1>5, <2>1 DEF PlaceOf, o
<1>7. PlaceOf(q) \in Nat /\ PlaceOf(q) \div UnitSize = w /\ PlaceOf(q) % UnitSize = o
  <2>1. /\ w * UnitSize + o \in Nat
        /\ (w * UnitSize + o) \div UnitSize = w /\ (w * UnitSize + o) % UnitSize = o
    BY <1>1, <1>2, Positive, DivUnique
  <2>. QED
    BY <1>6, <2>1
<1>8. BlockOf(q) = b
  BY DEF BlockOf, b, u
<1>. QED
  BY <1>3, <1>4, <1>5, <1>7, <1>8 DEF ByteAt, o

\* Going up in a block goes up in the stripe: the slices that appends make of
\* a block come in the order of the appends.
LEMMA ByteAtRises ==
  ASSUME NEW b \in DataBlocks, NEW s \in Nat, NEW t \in Nat, s < t
  PROVE  ByteAt(b, s) < ByteAt(b, t)
<1> DEFINE q == s \div UnitSize
           o == s % UnitSize
           w == t \div UnitSize
           v == t % UnitSize
           c == b * UnitSize
<1>1. q \in Nat /\ o \in 0 .. UnitSize - 1 /\ s = q * UnitSize + o
  BY Positive, Divided
<1>2. w \in Nat /\ v \in 0 .. UnitSize - 1 /\ t = w * UnitSize + v
  BY Positive, Divided
<1>3. ByteAt(b, s) = q * Row + (c + o) /\ ByteAt(b, t) = w * Row + (c + v)
  BY DEF ByteAt
<1>4. c \in Int
  BY Positive DEF DataBlocks
<1> HIDE DEF q, o, w, v, c
<1>5. ~ (w < q)
  <2>1. w < q => w * UnitSize + UnitSize <= q * UnitSize
    BY <1>1, <1>2, Positive, Multiples
  <2>. QED
    BY <1>1, <1>2, <2>1, Positive, Multiples
<1>6. CASE w = q
  BY <1>1, <1>2, <1>3, <1>4, <1>6, Positive, Multiples
<1>7. CASE q < w
  <2>1. q * Row + Row <= w * Row
    BY <1>1, <1>2, <1>7, Positive, Multiples
  <2>2. c + o \in 0 .. Row - 1 /\ c + v \in 0 .. Row - 1
    BY <1>1, <1>2, InRow DEF c
  <2>3. q * Row \in Int /\ w * Row \in Int
    BY <1>1, <1>2, Positive, Multiples
  <2>. QED
    BY <1>3, <2>1, <2>2, <2>3, Positive
<1>. QED
  BY <1>1, <1>2, <1>5, <1>6, <1>7

\* The bytes of the stripe are those whose place lies within the block, and
\* the row of such a byte ends within the block.
LEMMA InStripe ==
  ASSUME NEW q \in Nat
  PROVE  /\ q < StripeSize <=> PlaceOf(q) < BlockSize
         /\ q < StripeSize => (q \div Row) * UnitSize + UnitSize <= BlockSize
<1> DEFINE M == BlockSize \div UnitSize
           w == q \div Row
           o == q % UnitSize
           y == q % Row
<1>1. M \in Nat /\ BlockSize = M * UnitSize
  BY Positive, Divided, PlanAssumption
<1>2. w \in Nat /\ y \in 0 .. Row - 1 /\ q = w * Row + y
  BY Positive, Divided
<1>3. o \in 0 .. UnitSize - 1
  BY Positive, Divided
<1>4. PlaceOf(q) = w * UnitSize + o
  <2>1. UnitSize * w = w * UnitSize
    BY <1>2, Positive
  <2>. QED
    BY <2>1 DEF PlaceOf
<1> HIDE DEF M, w, o, y
<1>5. StripeSize = M * Row
  <2>1. k * (M * UnitSize) = M * (k * UnitSize)
    BY <1>1, Positive
  <2>. QED
    BY <1>1, <2>1 DEF StripeSize, Row
<1>6. CASE w < M
  <2>1. w * Row + Row <= M * Row /\ w * UnitSize + UnitSize <= M * UnitSize
    BY <1>1, <1>2, <1>6, Positive, Multiples
  <2>. QED
    BY <1>1, <1>2, <1>3, <1>4, <1>5, <2>1, Positive, Multiples DEF w
<1>7. CASE M <= w
  <2>1. M * Row <= w * Row /\ M * UnitSize <= w * UnitSize
    BY <1>1, <1>2, <1>7, Positive, Multiples
  <2>. QED
    BY <1>1, <1>2, <1>3, <1>4, <1>5, <2>1, Positive, Multiples
<1>. QED
  BY <1>1, <1>2, <1>6, <1>7

\* Bytes of one unit follow one another in block and stripe alike.
LEMMA SameUnit ==
  ASSUME NEW q \in Nat, NEW j \in Nat, (q % UnitSize) + j < UnitSize
  PROVE  ByteAt(BlockOf(q), PlaceOf(q) + j) = q + j
<1> DEFINE b == BlockOf(q)
           p == PlaceOf(q)
           w == p \div UnitSize
           o == p % UnitSize
<1>1. b \in DataBlocks /\ p \in Nat /\ q = ByteAt(b, p) /\ o = q % UnitSize
  BY PlaceByte
<1>2. w \in Nat /\ o \in 0 .. UnitSize - 1 /\ p = w * UnitSize + o
  BY <1>1, Positive, Divided
<1>3. q = w * Row + (b * UnitSize + o)
  BY <1>1 DEF ByteAt
<1> HIDE DEF b, p, w, o
<1>4. o + j \in 0 .. UnitSize - 1
  BY <1>1, <1>2, Positive
<1>5. (w * UnitSize + (o + j)) \div UnitSize = w /\ (w * UnitSize + (o + j)) % UnitSize = o + j
  BY <1>2, <1>4, Positive, DivUnique
<1>6. p + j = w * UnitSize + (o + j)
  BY <1>2, Positive, Multiples
<1>7. ByteAt(b, p + j) = w * Row + (b * UnitSize + (o + j))
  BY <1>5, <1>6 DEF ByteAt
<1>8. w * Row \in Int /\ b * UnitSize \in Int
  BY <1>1, <1>2, Positive, Multiples DEF DataBlocks
<1>. QED
  BY <1>2, <1>3, <1>7, <1>8 DEF b, p

-----------------------------------------------------------------------------
(* The loop of generateAppendPlan.                                         *)

\* A turn of the loop takes at least a byte, at most what is left, and ends
\* with its unit or with the append.
LEMMA SubSliceFits ==
  ASSUME NEW off \in Nat, NEW size \in Nat \ {0}, NEW at \in off .. off + size - 1
  PROVE  /\ SubSlice(off, size, at) \in 1 .. off + size - at
         /\ at = off \/ at % UnitSize = 0 =>
              SubSlice(off, size, at) = Least(UnitSize - (at % UnitSize), off + size - at)
<1>1. at \in Nat /\ at % UnitSize \in 0 .. UnitSize - 1 /\ off % UnitSize \in 0 .. UnitSize - 1
  BY Positive, Divided
<1>. QED
  BY <1>1, Positive DEF SubSlice, Least

\* A set of numbers that is not empty has a least one: the form of induction
\* used for the recursive functions of the plan.
LEMMA LeastNumber ==
  ASSUME NEW S, S \subseteq Nat, S # {}
  PROVE  \E x \in S : \A y \in S : x <= y
<1> DEFINE R == {ss \in Nat \X Nat : ss[1] < ss[2]}
<1>1. R = OpToRel(<, Nat)
  BY DEF OpToRel
<1>2. IsWellFoundedOn(R, Nat)
  BY <1>1, NatLessThanWellFounded
<1>3. \A x, y \in Nat : <<y, x>> \in R <=> y < x
  OBVIOUS
<1> HIDE DEF R
<1>4. PICK x \in S : \A y \in S : ~ (<<y, x>> \in R)
  BY <1>2, WFMin
<1>5. ASSUME NEW y \in S PROVE x <= y
  <2>1. ~(y < x)
    BY <1>3, <1>4
  <2>. QED
    BY <2>1
<1>. QED
  BY <1>5

\* One turn of generateAppendPlan's loop, as a function of the later turns.
TurnOf(off, size, from, at) ==
  IF at = off + size THEN [b \in DataBlocks |-> Untouched]
  ELSE [from[at + SubSlice(off, size, at)] EXCEPT ![(at \div UnitSize) % k] =
         [size |-> @.size + SubSlice(off, size, at),
          offset |-> (at % UnitSize) + UnitSize * (at \div Row)]]

\* The loop ends: its recursive function exists.  By the least number of bytes
\* for which it would not.
LEMMA LoopEnds ==
  ASSUME NEW off \in Nat, NEW size \in Nat \ {0}
  PROVE  \E from : /\ from = [at \in off .. off + size |-> TurnOf(off, size, from, at)]
                   /\ DataSlices(off, size) = from[off]
<1> DEFINE E == off + size
           Ok(n) == \E g : g = [at \in E - n .. E |-> TurnOf(off, size, g, at)]
           S == {n \in 0 .. size : ~ Ok(n)}
<1>1. S = {}
  <2>1. SUFFICES ASSUME S # {} PROVE FALSE
    OBVIOUS
  <2>2. PICK n \in S : \A l \in S : n <= l
    <3>1. S \subseteq Nat
      OBVIOUS
    <3>. QED
      BY <2>1, <3>1, LeastNumber
  <2>3. n # 0
    <3> DEFINE g == [at \in E .. E |-> [b \in DataBlocks |-> Untouched]]
    <3>1. g = [at \in E - 0 .. E |-> TurnOf(off, size, g, at)]
      BY DEF TurnOf
    <3>. QED
      BY <3>1, <2>2
  <2>4. PICK g : g = [at \in E - (n - 1) .. E |-> TurnOf(off, size, g, at)]
    BY <2>2, <2>3
  <2> DEFINE h == [at \in E - n .. E |-> IF at = E - n THEN TurnOf(off, size, g, at) ELSE g[at]]
  <2>7. n \in 1 .. size /\ E \in Nat /\ E = off + size
    BY <2>2, <2>3
  <2>8. \A at \in E - n .. E : h[at] = IF at = E - n THEN TurnOf(off, size, g, at) ELSE g[at]
    OBVIOUS
  <2>9. \A at \in E - (n - 1) .. E : g[at] = TurnOf(off, size, g, at)
    BY <2>4
  <2> HIDE DEF h, E
  <2>5. ASSUME NEW at \in E - n .. E PROVE h[at] = TurnOf(off, size, h, at)
    <3>1. at # E => at + SubSlice(off, size, at) \in E - (n - 1) .. E
      <4> SUFFICES ASSUME at # E PROVE at + SubSlice(off, size, at) \in E - (n - 1) .. E
        OBVIOUS
      <4>1. at \in off .. off + size - 1
        BY <2>7
      <4>2. SubSlice(off, size, at) \in 1 .. off + size - at
        BY <4>1, SubSliceFits
      <4>. QED
        BY <2>7, <4>1, <4>2
    <3>2. at # E => h[at + SubSlice(off, size, at)] = g[at + SubSlice(off, size, at)]
      BY <2>7, <2>8, <3>1
    <3>3. TurnOf(off, size, h, at) = TurnOf(off, size, g, at)
      <4>1. CASE at = E
        BY <2>7, <4>1 DEF TurnOf
      <4>2. CASE at # E
        BY <2>7, <3>2, <4>2 DEF TurnOf
      <4>. QED
        BY <4>1, <4>2
    <3>4. at # E - n => g[at] = TurnOf(off, size, g, at)
      BY <2>7, <2>9
    <3>. QED
      BY <2>8, <3>3, <3>4
  <2>6. h = [at \in E - n .. E |-> TurnOf(off, size, h, at)]
    BY <2>5 DEF h
  <2>. QED
    BY <2>2, <2>6 DEF E
<1>2. \E g : g = [at \in off .. E |-> TurnOf(off, size, g, at)]
  <2>1. Ok(size)
    BY <1>1
  <2>. QED
    BY <2>1
<1> DEFINE from[at \in off .. off + size] ==
             IF at = off + size THEN [b \in DataBlocks |-> Untouched]
             ELSE LET step == SubSlice(off, size, at)
                  IN  [from[at + step] EXCEPT ![(at \div UnitSize) % k] =
                         [size |-> @.size + step,
                          offset |-> (at % UnitSize) + UnitSize * (at \div Row)]]
<1>3. from = [at \in off .. off + size |-> TurnOf(off, size, from, at)]
  BY <1>2 DEF TurnOf
<1>4. DataSlices(off, size) = from[off]
  BY DEF DataSlices
<1>. QED
  BY <1>3, <1>4

\* The places of block b that hold bytes lo to hi - 1, and the places of a
\* slice.
Places(b, lo, hi) == {t \in Nat : ByteAt(b, t) \in lo .. hi - 1}
Slice0(s) == IF s.size = 0 THEN {} ELSE Region(s)
Tiles(slices, lo, hi) ==
  /\ slices \in [DataBlocks -> [size : Nat, offset : Int]]
  /\ \A b \in DataBlocks : Slice0(slices[b]) = Places(b, lo, hi)

\* A turn within a unit extends a tiling of the bytes from mid to one from lo:
\* it makes the slice of one block longer at its start, or starts it.
LEMMA Turn ==
  ASSUME NEW lo \in Nat, NEW hi \in Nat, NEW mid \in lo + 1 .. hi,
         (lo % UnitSize) + (mid - 1 - lo) < UnitSize,
         NEW slices, Tiles(slices, mid, hi)
  PROVE  Tiles([slices EXCEPT ![BlockOf(lo)] =
                  [size |-> @.size + (mid - lo), offset |-> PlaceOf(lo)]], lo, hi)
<1> DEFINE b == BlockOf(lo)
           p == PlaceOf(lo)
           s == slices[b]
           n == [size |-> s.size + (mid - lo), offset |-> p]
           new == [slices EXCEPT ![b] = n]
           l == mid - lo
<1>1. b \in DataBlocks /\ p \in Nat /\ lo = ByteAt(b, p) /\ l \in Nat \ {0} /\ mid = lo + l
  BY PlaceByte
<1>2. s \in [size : Nat, offset : Int] /\ Slice0(s) = Places(b, mid, hi)
  BY <1>1 DEF Tiles
<1>3. n \in [size : Nat, offset : Int] /\ n.size = s.size + l /\ n.offset = p
  BY <1>1, <1>2
<1>4. new \in [DataBlocks -> [size : Nat, offset : Int]] /\ new[b] = n
      /\ \A c \in DataBlocks : c # b => new[c] = slices[c]
  BY <1>1, <1>3 DEF Tiles
<1> HIDE DEF b, p, s, n, new, l
<1>5. \A j \in 0 .. l - 1 : ByteAt(b, p + j) = lo + j
  <2> SUFFICES ASSUME NEW j \in 0 .. l - 1 PROVE ByteAt(b, p + j) = lo + j
    OBVIOUS
  <2>1. (lo % UnitSize) + j < UnitSize /\ j \in Nat
    BY <1>1, Positive, Divided DEF l
  <2>. QED
    BY <2>1, SameUnit DEF b, p
<1>6. \A c \in DataBlocks, t \in Nat :
        ByteAt(c, t) \in lo .. mid - 1 <=> c = b /\ t \in p .. p + l - 1
  <2> SUFFICES ASSUME NEW c \in DataBlocks, NEW t \in Nat
               PROVE  ByteAt(c, t) \in lo .. mid - 1 <=> c = b /\ t \in p .. p + l - 1
    OBVIOUS
  <2>1. ASSUME ByteAt(c, t) \in lo .. mid - 1 PROVE c = b /\ t \in p .. p + l - 1
    <3> DEFINE j == ByteAt(c, t) - lo
    <3>1. j \in 0 .. l - 1 /\ ByteAt(c, t) = lo + j
      BY <1>1, <2>1
    <3>2. ByteAt(b, p + j) = ByteAt(c, t) /\ p + j \in Nat
      BY <1>1, <1>5, <3>1
    <3> HIDE DEF j
    <3>3. c = b /\ t = p + j
      BY <1>1, <3>2, ByteAtPlace
    <3>. QED
      BY <1>1, <3>1, <3>3
  <2>2. ASSUME c = b, t \in p .. p + l - 1 PROVE ByteAt(c, t) \in lo .. mid - 1
    <3> DEFINE j == t - p
    <3>1. j \in 0 .. l - 1 /\ t = p + j
      BY <1>1, <2>2
    <3>. QED
      BY <1>1, <1>5, <2>2, <3>1
  <2>. QED
    BY <2>1, <2>2
<1>7. ASSUME NEW c \in DataBlocks
      PROVE  Places(c, lo, hi) =
               (IF c = b THEN p .. p + l - 1 ELSE {}) \union Places(c, mid, hi)
  <2>1. \A t \in Nat : ByteAt(c, t) \in Nat
    BY ByteAtPlace
  <2>2. \A t \in Nat : ByteAt(c, t) \in lo .. hi - 1 <=>
           ByteAt(c, t) \in lo .. mid - 1 \/ ByteAt(c, t) \in mid .. hi - 1
    BY <2>1
  <2>3. p .. p + l - 1 \subseteq Nat
    BY <1>1
  <2>. QED
    BY <1>6, <2>2, <2>3 DEF Places
<1>8. \A t \in Places(b, mid, hi) : t >= p + l
  <2> SUFFICES ASSUME NEW t \in Nat, ByteAt(b, t) \in mid .. hi - 1, t < p + l PROVE FALSE
    BY <1>1 DEF Places
  <2>1. t < p
    BY <1>1, <1>6, <1>5
  <2>2. ByteAt(b, t) < lo /\ ByteAt(b, t) \in Nat
    BY <1>1, <2>1, ByteAtRises, ByteAtPlace
  <2>. QED
    BY <1>1, <2>2
<1>9. Places(b, mid, hi) # {} => p + l \in Places(b, mid, hi)
  <2> SUFFICES ASSUME NEW t \in Places(b, mid, hi) PROVE p + l \in Places(b, mid, hi)
    OBVIOUS
  <2>1. t \in Nat /\ t >= p + l /\ ByteAt(b, t) \in mid .. hi - 1
    BY <1>1, <1>8 DEF Places
  <2>2. p + (l - 1) \in Nat /\ ByteAt(b, p + (l - 1)) = mid - 1
    BY <1>1, <1>5
  <2>3. p + l \in Nat /\ p + (l - 1) < p + l
    BY <1>1
  <2>4. ByteAt(b, p + (l - 1)) < ByteAt(b, p + l) /\ ByteAt(b, p + l) \in Nat
    BY <1>1, <2>2, <2>3, ByteAtRises, ByteAtPlace
  <2>5. ByteAt(b, p + l) <= ByteAt(b, t)
    <3>1. CASE t = p + l
      BY <3>1, <2>4
    <3>2. CASE p + l < t
      BY <1>1, <2>1, <2>3, <2>4, <3>2, ByteAtRises, ByteAtPlace
    <3>. QED
      BY <2>1, <2>3, <3>1, <3>2
  <2>. QED
    BY <1>1, <2>1, <2>2, <2>3, <2>4, <2>5 DEF Places
<1>10. Slice0(n) = Places(b, lo, hi)
  <2>1. Region(n) = p .. p + s.size + l - 1 /\ n.size # 0
    <3>1. n.offset + n.size - 1 = p + s.size + l - 1 /\ n.size # 0
      BY <1>1, <1>2, <1>3
    <3>. QED
      BY <1>3, <3>1 DEF Region
  <2>2. CASE s.size = 0
    <3>1. Places(b, mid, hi) = {}
      BY <1>2, <2>2 DEF Slice0
    <3>2. Places(b, lo, hi) = p .. p + l - 1
      BY <1>1, <1>7, <3>1
    <3>3. Region(n) = p .. p + l - 1
      <4>1. p + s.size + l - 1 = p + l - 1
        BY <1>1, <2>2
      <4>. QED
        BY <2>1, <4>1
    <3>. QED
      BY <2>1, <3>2, <3>3 DEF Slice0
  <2>3. CASE s.size # 0
    <3>1. Places(b, mid, hi) = s.offset .. s.offset + s.size - 1
      BY <1>2, <2>3 DEF Slice0, Region
    <3>2. s.offset = p + l
      <4>1. s.offset \in Places(b, mid, hi)
        BY <1>2, <2>3, <3>1
      <4>2. s.offset >= p + l
        BY <4>1, <1>8
      <4>3. p + l \in s.offset .. s.offset + s.size - 1
        BY <4>1, <1>9, <3>1
      <4>. QED
        BY <1>1, <1>2, <4>2, <4>3
    <3>3. Places(b, lo, hi) = (p .. p + l - 1) \union (p + l .. p + l + s.size - 1)
      BY <1>1, <1>7, <3>1, <3>2
    <3>4. Region(n) = (p .. p + l - 1) \union (p + l .. p + l + s.size - 1)
      <4>1. s.size \in Nat
        BY <1>2
      <4>2. \A c \in Nat :
              p .. p + c + l - 1 = (p .. p + l - 1) \union (p + l .. p + l + c - 1)
        BY <1>1
      <4>3. p .. p + s.size + l - 1 = (p .. p + l - 1) \union (p + l .. p + l + s.size - 1)
        BY <4>1, <4>2
      <4>. QED
        BY <2>1, <4>3
    <3>. QED
      BY <2>1, <3>3, <3>4 DEF Slice0
  <2>. QED
    BY <2>2, <2>3
<1>11. \A c \in DataBlocks : Slice0(new[c]) = Places(c, lo, hi)
  BY <1>4, <1>7, <1>10 DEF Tiles
<1>. QED
  BY <1>4, <1>11 DEF Tiles, new, n, s, b, p, l

\* The slices of the data blocks tile the bytes of the append.  By the least
\* suffix of the append, from the end, for which they would not.
LEMMA SlicesTile ==
  ASSUME NEW off \in Nat, NEW size \in Nat \ {0}
  PROVE  Tiles(DataSlices(off, size), off, off + size)
<1> DEFINE E == off + size
<1>1. PICK from : /\ from = [at \in off .. E |-> TurnOf(off, size, from, at)]
                  /\ DataSlices(off, size) = from[off]
  BY LoopEnds
<1>2. \A at \in off .. E : from[at] = TurnOf(off, size, from, at)
  BY <1>1
<1> DEFINE Aligned(at) == at = off \/ at % UnitSize = 0 \/ at = E
           S == {n \in 0 .. size : Aligned(E - n) /\ ~ Tiles(from[E - n], E - n, E)}
<1> HIDE DEF Aligned
<1>3. S = {}
  <2>1. SUFFICES ASSUME S # {} PROVE FALSE
    OBVIOUS
  <2>2. PICK n \in S : \A l \in S : n <= l
    <3>1. S \subseteq Nat
      OBVIOUS
    <3>. QED
      BY <2>1, <3>1, LeastNumber
  <2> DEFINE at == E - n
  <2>3. n \in 0 .. size /\ Aligned(at) /\ ~ Tiles(from[at], at, E) /\ at \in off .. E /\ at \in Nat
    BY <2>2
  <2>4. at # E
    <3>1. Tiles([b \in DataBlocks |-> Untouched], E, E)
      <4>1. \A b \in DataBlocks : Places(b, E, E) = {}
        BY DEF Places
      <4>. QED
        BY <4>1 DEF Tiles, Slice0, Untouched
    <3>2. from[E] = [b \in DataBlocks |-> Untouched]
      <4>1. E \in off .. E
        OBVIOUS
      <4>2. from[E] = TurnOf(off, size, from, E)
        BY <1>2, <4>1
      <4>. QED
        BY <4>2 DEF TurnOf
    <3>. QED
      BY <2>3, <3>1, <3>2
  <2> DEFINE l == SubSlice(off, size, at)
             mid == at + l
  <2>5. /\ at \in off .. off + size - 1
        /\ l \in 1 .. off + size - at
        /\ l = Least(UnitSize - (at % UnitSize), off + size - at)
    <3>1. at \in off .. off + size - 1 /\ (at = off \/ at % UnitSize = 0)
      BY <2>3, <2>4 DEF Aligned
    <3> HIDE DEF at
    <3>. QED
      BY <3>1, SubSliceFits
  <2>6. at % UnitSize \in 0 .. UnitSize - 1 /\ at = (at \div UnitSize) * UnitSize + (at % UnitSize)
        /\ at \div UnitSize \in Nat
    BY <2>3, Positive, Divided
  <2>7. Aligned(mid)
    <3>1. CASE mid = E
      BY <3>1 DEF Aligned
    <3>2. CASE mid # E
      <4>1. l = UnitSize - (at % UnitSize)
        BY <2>5, <2>6, <3>2, Positive DEF Least
      <4>2. mid = (at \div UnitSize) * UnitSize + UnitSize
        BY <2>6, <4>1, Positive, Multiples
      <4>3. mid = ((at \div UnitSize) + 1) * UnitSize + 0
        BY <2>6, <4>2, Positive
      <4>4. mid % UnitSize = 0
        <5>1. 0 \in 0 .. UnitSize - 1 /\ (at \div UnitSize) + 1 \in Nat
          BY <2>6, Positive
        <5>2. (((at \div UnitSize) + 1) * UnitSize + 0) % UnitSize = 0
          BY <5>1, Positive, DivUnique
        <5>. QED
          BY <4>3, <5>2
      <4>. QED
        BY <4>4 DEF Aligned
    <3>. QED
      BY <3>1, <3>2
  <2>8. mid \in at + 1 .. E /\ (at % UnitSize) + (mid - 1 - at) < UnitSize
    BY <2>5, <2>6, Positive DEF Least
  <2>9. Tiles(from[mid], mid, E)
    <3>1. n - l \in 0 .. size /\ n - l < n /\ E - (n - l) = mid
      BY <2>3, <2>5
    <3>2. n - l \notin S
      BY <2>2, <3>1
    <3>. QED
      BY <2>7, <3>1, <3>2
  <2>10. from[at] = [from[mid] EXCEPT ![BlockOf(at)] =
                       [size |-> @.size + (mid - at), offset |-> PlaceOf(at)]]
    <3>1. PlaceOf(at) = (at % UnitSize) + UnitSize * (at \div Row)
      BY <2>3, Positive, Divided, Multiples DEF PlaceOf
    <3>2. mid - at = l
      BY <2>3, <2>5
    <3>3. from[at] = TurnOf(off, size, from, at)
      BY <1>2, <2>3
    <3> HIDE DEF at, mid
    <3>. QED
      BY <2>4, <3>1, <3>2, <3>3 DEF TurnOf, BlockOf, mid
  <2> HIDE DEF mid, at
  <2>11. Tiles(from[at], at, E)
    <3>1. E \in Nat
      OBVIOUS
    <3> HIDE DEF E
    <3>2. Tiles([from[mid] EXCEPT ![BlockOf(at)] =
                   [size |-> @.size + (mid - at), offset |-> PlaceOf(at)]], at, E)
      BY <2>3, <2>8, <2>9, <3>1, Turn
    <3>. QED
      BY <2>10, <3>2
  <2>. QED
    BY <2>3, <2>11
<1>4. Aligned(E - size) /\ E - size = off /\ size \in 0 .. size
  BY DEF Aligned
<1>. QED
  BY <1>1, <1>3, <1>4

\* Whatever append generateAppendPlan is given, the slice of a data block
\* holds the places of the append's bytes in that block, each once and no
\* other.
THEOREM DataIsTiled ==
  \A off \in 0 .. StripeSize - 1 : \A size \in 1 .. StripeSize - off : TilesData(off, size)
<1> SUFFICES ASSUME NEW off \in 0 .. StripeSize - 1, NEW size \in 1 .. StripeSize - off
             PROVE  TilesData(off, size)
  OBVIOUS
<1>1. off \in Nat /\ size \in Nat \ {0} /\ Tiles(DataSlices(off, size), off, off + size)
  BY Positive, SlicesTile
<1>2. ASSUME NEW b \in DataBlocks
      PROVE  Places(b, off, off + size)
               = {PlaceOf(p) : p \in {q \in off .. off + size - 1 : BlockOf(q) = b}}
  <2>1. ASSUME NEW t \in Places(b, off, off + size)
        PROVE  \E p \in off .. off + size - 1 : BlockOf(p) = b /\ t = PlaceOf(p)
    BY <2>1, ByteAtPlace DEF Places
  <2>2. ASSUME NEW p \in off .. off + size - 1, BlockOf(p) = b
        PROVE  PlaceOf(p) \in Places(b, off, off + size)
    BY <1>1, <2>2, PlaceByte DEF Places
  <2>. QED
    BY <2>1, <2>2
<1>. QED
  BY <1>1, <1>2 DEF TilesData, Tiles, Slice0

-----------------------------------------------------------------------------
(* The slices of the parity blocks.                                        *)

\* The quotients of two numbers are in their order, and equal only if the
\* numbers are as far apart as their remainders.
LEMMA Span ==
  ASSUME NEW d \in Nat \ {0}, NEW a \in Nat, NEW c \in Nat, a <= c
  PROVE  /\ a \div d <= c \div d
         /\ a \div d = c \div d => c % d = (a % d) + (c - a)
<1>1. /\ a \div d \in Nat /\ a % d \in 0 .. d - 1 /\ a = (a \div d) * d + (a % d)
      /\ c \div d \in Nat /\ c % d \in 0 .. d - 1 /\ c = (c \div d) * d + (c % d)
  BY Divided
<1>2. c \div d < a \div d => (c \div d) * d + d <= (a \div d) * d
  BY <1>1, Multiples
<1>3. (a \div d) * d \in Int /\ (c \div d) * d \in Int
  BY <1>1, Multiples
<1>. QED
  BY <1>1, <1>2, <1>3

\* The slice of a parity block is not empty; it covers the places of all bytes
\* of the append and stays within the block, in the two modes that place it.
LEMMA ParityShape ==
  ASSUME NEW m \in Modes, NEW off \in 0 .. StripeSize - 1, NEW size \in 1 .. StripeSize - off
  PROVE  /\ ParitySlice(m, off, size) \in [size : Nat \ {0}, offset : Int]
         /\ m # "REP_MODE" => CoversParity(m, off, size)
<1> DEFINE last == off + size - 1
           A == off \div Row
           B == last \div Row
           o == off % UnitSize
           l == last % Row
           u == units(off, size)
           rows == unit_stripes(off, size)
           s == ParitySlice(m, off, size)
<1>1. /\ off \in Nat /\ last \in Nat /\ off <= last /\ last < StripeSize
      /\ size = last - off + 1 /\ off + size - 1 = last
  BY Positive
<1>2. A \in Nat /\ B \in Nat /\ A <= B /\ rows = B - A + 1 /\ l \in 0 .. Row - 1
  BY <1>1, Positive, Divided, Span DEF unit_stripes
<1>3. o \in 0 .. UnitSize - 1
  BY <1>1, Positive, Divided
<1> HIDE DEF last, A, B, o, l, u, rows, s
<1>4. u = 1 => o + size <= UnitSize /\ A = B
  <2> SUFFICES ASSUME u = 1 PROVE o + size <= UnitSize /\ A = B
    OBVIOUS
  <2>1. off \div UnitSize = last \div UnitSize
    <3>1. off \div UnitSize \in Nat /\ last \div UnitSize \in Nat
      BY <1>1, Positive, Divided
    <3>. QED
      BY <1>1, <3>1 DEF units, u, last
  <2>2. last % UnitSize = o + (last - off) /\ last % UnitSize \in 0 .. UnitSize - 1
    <3>1. last % UnitSize = (off % UnitSize) + (last - off)
      BY ZenonT(30), <1>1, <2>1, Positive, Span
    <3>2. last % UnitSize \in 0 .. UnitSize - 1
      BY <1>1, Positive, Divided
    <3>. QED
      BY <3>1, <3>2 DEF o
  <2>3. A = B
    <3>1. o + (last - off) < UnitSize /\ last - off \in Nat
      BY <1>1, <2>2, Positive
    <3>2. ByteAt(BlockOf(off), PlaceOf(off) + (last - off)) = last
      <4>1. ByteAt(BlockOf(off), PlaceOf(off) + (last - off)) = off + (last - off)
        BY <1>1, <3>1, SameUnit DEF o
      <4>. QED
        BY <1>1, <4>1
    <3>3. PlaceOf(off) + (last - off) \in Nat /\ BlockOf(off) \in DataBlocks
      BY <1>1, PlaceByte
    <3>4. last \div Row = (PlaceOf(off) + (last - off)) \div UnitSize
      BY <3>2, <3>3, ByteAtPlace
    <3>5. /\ PlaceOf(off) \div UnitSize = A /\ PlaceOf(off) % UnitSize = o
          /\ PlaceOf(off) \in Nat
      BY <1>1, PlaceByte DEF A, o
    <3>6. PlaceOf(off) = A * UnitSize + o
      BY <3>5, Positive, Divided
    <3>7. PlaceOf(off) + (last - off) = A * UnitSize + (o + (last - off))
      BY <1>1, <1>2, <1>3, <3>6, Positive, Multiples
    <3>8. (A * UnitSize + (o + (last - off))) \div UnitSize = A
      <4>1. o + (last - off) \in 0 .. UnitSize - 1
        BY <1>3, <3>1, Positive
      <4>. QED
        BY <1>2, <4>1, Positive, DivUnique
    <3>. QED
      BY <3>4, <3>7, <3>8 DEF B
  <2>. QED
    BY <1>1, <1>3, <2>2, <2>3, Positive
<1>5. /\ A * UnitSize \in Nat /\ B * UnitSize \in Nat
      /\ A * UnitSize <= B * UnitSize /\ B * UnitSize + UnitSize <= BlockSize
      /\ A < B => A * UnitSize + UnitSize <= B * UnitSize
      /\ rows * UnitSize = B * UnitSize - A * UnitSize + UnitSize
      /\ (rows - 1) * UnitSize = B * UnitSize - A * UnitSize
  <2>1. B * UnitSize + UnitSize <= BlockSize
    BY <1>1, InStripe DEF B
  <2>2. rows * UnitSize = B * UnitSize - A * UnitSize + UnitSize
        /\ (rows - 1) * UnitSize = B * UnitSize - A * UnitSize
    BY <1>2, Positive
  <2>. QED
    BY <1>2, <2>1, <2>2, Positive, Multiples
<1>6. \A p \in off .. last :
        LET v == p \div Row IN
        /\ v \in A .. B /\ p % UnitSize \in 0 .. UnitSize - 1
        /\ PlaceOf(p) = v * UnitSize + (p % UnitSize)
        /\ v = B => p % Row <= l
        /\ p % Row < UnitSize => p % UnitSize = p % Row
        /\ p \div UnitSize = off \div UnitSize => p % UnitSize = o + (p - off)
  <2> SUFFICES ASSUME NEW p \in off .. last
               PROVE  LET v == p \div Row IN
                      /\ v \in A .. B /\ p % UnitSize \in 0 .. UnitSize - 1
                      /\ PlaceOf(p) = v * UnitSize + (p % UnitSize)
                      /\ v = B => p % Row <= l
                      /\ p % Row < UnitSize => p % UnitSize = p % Row
                      /\ p \div UnitSize = off \div UnitSize => p % UnitSize = o + (p - off)
    OBVIOUS
  <2> DEFINE v == p \div Row
  <2>1. p \in Nat /\ off <= p /\ p <= last
    BY <1>1
  <2>2. v \in Nat /\ A <= v /\ v <= B
    BY <1>1, <2>1, Positive, Divided, Span DEF A, B
  <2>3. p % UnitSize \in 0 .. UnitSize - 1 /\ p = (p \div UnitSize) * UnitSize + (p % UnitSize)
    BY <2>1, Positive, Divided
  <2>4. PlaceOf(p) = v * UnitSize + (p % UnitSize)
    <3>1. UnitSize * v = v * UnitSize
      BY <2>2, Positive
    <3>. QED
      BY <3>1 DEF PlaceOf
  <2>5. v = B => p % Row <= l
    <3>1. v = B => l = (p % Row) + (last - p)
      BY <1>1, <2>1, Positive, Span DEF B, l
    <3>2. p % Row \in Int
      BY <2>1, Positive, Divided
    <3>. QED
      BY <1>1, <1>2, <2>1, <3>1, <3>2
  <2>6. p % Row < UnitSize => p % UnitSize = p % Row
    <3> SUFFICES ASSUME p % Row < UnitSize PROVE p % UnitSize = p % Row
      OBVIOUS
    <3>1. p = v * Row + (p % Row) /\ p % Row \in 0 .. UnitSize - 1
      BY <2>1, Positive, Divided
    <3>3. v * k \in Nat /\ v * Row = (v * k) * UnitSize
      BY <2>2, Positive DEF Row
    <3>4. ((v * k) * UnitSize + (p % Row)) % UnitSize = p % Row
      BY <3>1, <3>3, Positive, DivUnique
    <3>. QED
      BY <3>1, <3>3, <3>4
  <2>7. p \div UnitSize = off \div UnitSize => p % UnitSize = o + (p - off)
    BY ZenonT(30), <1>1, <2>1, Positive, Span DEF o
  <2>. QED
    BY <1>2, <2>2, <2>3, <2>4, <2>5, <2>6, <2>7
<1> DEFINE short == rows > 1 /\ l < UnitSize - 1
<1>7. CASE m = "CACHED_MODE" \/ (m = "UNILRC_MODE" /\ u # 1 /\ ~ short)
  <2>1. s = [size |-> rows * UnitSize, offset |-> A * UnitSize]
    BY <1>7 DEF s, ParitySlice, rows, A, u, l, lastInRow, last
  <2>2. Region(s) = A * UnitSize .. B * UnitSize + UnitSize - 1
    <3>1. A * UnitSize + rows * UnitSize - 1 = B * UnitSize + UnitSize - 1
      BY <1>5, Positive
    <3>. QED
      BY <2>1, <3>1 DEF Region
  <2>3. ASSUME NEW p \in off .. last PROVE PlaceOf(p) \in Region(s)
    <3> DEFINE v == p \div Row
    <3>1. /\ v \in A .. B /\ p % UnitSize \in 0 .. UnitSize - 1
          /\ PlaceOf(p) = v * UnitSize + (p % UnitSize)
      BY <1>6
    <3>2. A * UnitSize <= v * UnitSize /\ v * UnitSize <= B * UnitSize /\ v * UnitSize \in Int
      BY <1>2, <3>1, Positive, Multiples
    <3>. QED
      BY <1>5, <2>2, <3>1, <3>2, Positive
  <2>4. Region(s) \subseteq 0 .. BlockSize - 1
    BY <1>5, <2>2, Positive
  <2>5. s \in [size : Nat \ {0}, offset : Int]
    <3>1. rows * UnitSize \in Nat \ {0}
      BY <1>5, Positive
    <3>. QED
      BY <1>5, <2>1, <3>1
  <2>. QED
    BY <2>3, <2>4, <2>5 DEF CoversParity, s, last
<1>8. CASE m = "UNILRC_MODE" /\ short
  <2>1. u # 1 /\ A < B
    BY <1>2, <1>4, <1>8
  <2>2. s = [size |-> (rows - 1) * UnitSize + l + 1, offset |-> A * UnitSize]
    BY <1>8, <2>1 DEF s, ParitySlice, rows, A, u, l, lastInRow, last
  <2>3. Region(s) = A * UnitSize .. B * UnitSize + l
    <3>1. A * UnitSize + ((rows - 1) * UnitSize + l + 1) - 1 = B * UnitSize + l
      BY <1>2, <1>5, Positive
    <3>. QED
      BY <2>2, <3>1 DEF Region
  <2>4. ASSUME NEW p \in off .. last PROVE PlaceOf(p) \in Region(s)
    <3> DEFINE v == p \div Row
    <3>1. /\ v \in A .. B /\ p % UnitSize \in 0 .. UnitSize - 1
          /\ PlaceOf(p) = v * UnitSize + (p % UnitSize)
          /\ v = B => p % Row <= l
          /\ p % Row < UnitSize => p % UnitSize = p % Row
      BY <1>6
    <3>2. A * UnitSize <= v * UnitSize /\ v * UnitSize <= B * UnitSize /\ v * UnitSize \in Int
          /\ v < B => v * UnitSize + UnitSize <= B * UnitSize
      BY <1>2, <3>1, Positive, Multiples
    <3>3. p % Row \in Int
      BY <1>1, Positive, Divided
    <3>4. v = B => p % UnitSize <= l
      BY <1>2, <1>8, <3>1, <3>3, Positive
    <3>. QED
      BY SMTT(30), <1>2, <1>5, <2>3, <3>1, <3>2, <3>4, Positive
  <2>5. Region(s) \subseteq 0 .. BlockSize - 1
    BY <1>2, <1>5, <1>8, <2>3, Positive
  <2>6. s \in [size : Nat \ {0}, offset : Int]
    <3>1. (rows - 1) * UnitSize + l + 1 \in Nat \ {0}
      BY <1>2, <1>5, Positive
    <3>. QED
      BY <1>5, <2>2, <3>1
  <2>. QED
    BY <2>4, <2>5, <2>6 DEF CoversParity, s, last
<1>9. CASE m = "UNILRC_MODE" /\ u = 1
  <2>1. A = B /\ ~ short /\ o + size <= UnitSize
    BY <1>2, <1>4, <1>9
  <2>2. s = [size |-> size, offset |-> A * UnitSize + o]
    BY <1>9, <2>1 DEF s, ParitySlice, rows, A, u, l, o, lastInRow, last
  <2>3. Region(s) = A * UnitSize + o .. A * UnitSize + o + (last - off)
    <3>1. A * UnitSize + o + size - 1 = A * UnitSize + o + (last - off)
      BY <1>1, <1>3, <1>5, Positive
    <3>. QED
      BY <2>2, <3>1 DEF Region
  <2>4. ASSUME NEW p \in off .. last PROVE PlaceOf(p) \in Region(s)
    <3> DEFINE v == p \div Row
    <3>1. p \in Nat /\ off <= p /\ p <= last
      BY <1>1
    <3>2. v = A /\ PlaceOf(p) = v * UnitSize + (p % UnitSize)
      BY <1>2, <1>6, <2>1
    <3>3. p \div UnitSize = off \div UnitSize
      <4>1. off \div UnitSize <= p \div UnitSize /\ p \div UnitSize <= last \div UnitSize
        BY <1>1, <3>1, Positive, Span
      <4>2. /\ off \div UnitSize \in Nat /\ p \div UnitSize \in Nat
            /\ last \div UnitSize \in Nat
        BY <1>1, <3>1, Positive, Divided
      <4>3. last \div UnitSize = off \div UnitSize
        BY <1>1, <1>9, <4>2 DEF u, units
      <4>. QED
        BY <4>1, <4>2, <4>3
    <3>4. p % UnitSize = o + (p - off)
      BY <1>6, <3>3
    <3>. QED
      <4>1. PlaceOf(p) = A * UnitSize + (o + (p - off))
        BY <3>2, <3>4
      <4>2. A * UnitSize \in Nat /\ o \in Nat
        BY <1>3, <1>5
      <4>. QED
        BY <1>1, <2>3, <3>1, <4>1, <4>2
  <2>5. Region(s) \subseteq 0 .. BlockSize - 1
    BY <1>1, <1>3, <1>5, <2>1, <2>3, Positive
  <2>6. s \in [size : Nat \ {0}, offset : Int]
    BY <1>3, <1>5, <2>2
  <2>. QED
    BY <2>4, <2>5, <2>6 DEF CoversParity, s, last
<1>10. CASE m = "REP_MODE"
  <2>1. s = [size |-> size, offset |-> -1]
    BY <1>10 DEF s, ParitySlice
  <2>. QED
    BY <1>10, <2>1 DEF s
<1>. QED
  BY <1>7, <1>8, <1>9, <1>10 DEF Modes

-----------------------------------------------------------------------------
(* The groups.                                                             *)

\* What z divides is shared evenly among the groups.
LEMMA Shares ==
  ASSUME NEW n \in Nat \ {0}, n % z = 0
  PROVE  /\ n \div z \in Nat \ {0}
         /\ n = (n \div z) * z
         /\ \A i \in Nat : (i * n) \div z = i * (n \div z)
<1> DEFINE q == n \div z
<1>1. q \in Nat /\ n = q * z
  BY Positive, Divided
<1>2. q # 0
  BY <1>1, Positive
<1>3. ASSUME NEW i \in Nat PROVE (i * n) \div z = i * q
  <2>1. i * q \in Nat /\ 0 \in 0 .. z - 1
    BY <1>1, <1>2, <1>3, Positive, Multiples
  <2>2. i * n = (i * q) * z + 0
    <3>1. i * (q * z) = (i * q) * z
      BY <1>1, <1>3, Positive
    <3>2. (i * q) * z \in Int
      BY <2>1, Positive, Multiples
    <3>. QED
      BY <1>1, <3>1, <3>2
  <2>3. ((i * q) * z + 0) \div z = i * q
    BY <2>1, Positive, DivUnique
  <2>. QED
    BY <2>2, <2>3
<1>. QED
  BY <1>1, <1>2, <1>3

\* The shares of the groups are disjoint, in order, and together all.
LEMMA ShareOf ==
  ASSUME NEW n \in Nat \ {0}, n % z = 0
  PROVE  /\ \A i \in 0 .. z - 1 : (i * n) \div z .. ((i + 1) * n) \div z - 1 \subseteq 0 .. n - 1
         /\ \A x \in 0 .. n - 1 : \E i \in 0 .. z - 1 :
              x \in (i * n) \div z .. ((i + 1) * n) \div z - 1
         /\ \A i, j \in 0 .. z - 1 : i < j => ((i + 1) * n) \div z <= (j * n) \div z
         /\ \A i \in 0 .. z : (i * n) \div z \in Int
<1> DEFINE q == n \div z
<1>1. q \in Nat \ {0} /\ n = q * z /\ \A i \in Nat : (i * n) \div z = i * q
  BY Shares
<1> HIDE DEF q
<1>2. \A i \in 0 .. z : i * q \in Nat
  BY <1>1, Positive, Multiples
<1>3. ASSUME NEW i \in 0 .. z - 1, NEW j \in 0 .. z, i < j PROVE (i + 1) * q <= j * q
  BY <1>1, <1>3, Positive, Multiples
<1>4. z * q = n
  BY <1>1, Positive
<1>5. ASSUME NEW i \in 0 .. z - 1 PROVE i * q .. (i + 1) * q - 1 \subseteq 0 .. n - 1
  <2>1. (i + 1) * q <= z * q /\ i * q \in Nat /\ (i + 1) * q \in Nat
    BY <1>2, <1>3, <1>5, Positive
  <2>. QED
    BY <1>4, <2>1
<1>6. ASSUME NEW x \in 0 .. n - 1
      PROVE  \E i \in 0 .. z - 1 : x \in i * q .. (i + 1) * q - 1
  <2> DEFINE i == x \div q
  <2>1. i \in Nat /\ x % q \in 0 .. q - 1 /\ x = i * q + (x % q)
    <3>1. x \in Nat
      OBVIOUS
    <3>. QED
      BY <1>1, <3>1, Divided
  <2> HIDE DEF i
  <2>2. (i + 1) * q = i * q + q /\ i * q \in Nat
    BY <1>1, <2>1, Multiples
  <2>3. i < z
    <3>1. z <= i => z * q <= i * q
      BY <1>1, <2>1, Positive, Multiples
    <3>2. z * q \in Int /\ z \in Int
      BY <1>1, Positive, Multiples
    <3>. QED
      BY <1>1, <1>4, <2>1, <2>2, <3>1, <3>2
  <2>4. i \in 0 .. z - 1
    BY <2>1, <2>3, Positive
  <2>5. x \in i * q .. (i + 1) * q - 1
    BY <1>1, <2>1, <2>2
  <2>. QED
    BY <2>4, <2>5
<1>7. /\ \A i \in 0 .. z : i \in Nat
      /\ \A i \in 0 .. z - 1 : (i + 1) \in Nat /\ i \in 0 .. z
  BY Positive
<1>8. \A i \in 0 .. z - 1 : (i * n) \div z = i * q /\ ((i + 1) * n) \div z = (i + 1) * q
  BY <1>1, <1>7
<1>9. \A i \in 0 .. z : (i * n) \div z \in Int
  BY <1>1, <1>2, <1>7
<1>10. \A i, j \in 0 .. z - 1 : i < j => (i + 1) * q <= j * q
  BY <1>3, <1>7
<1>. QED
  BY <1>5, <1>6, <1>8, <1>9, <1>10

\* Every block is in one group, and the groups hold data blocks and parity
\* blocks as their names say.
LEMMA GroupsOfBlocks ==
  /\ \A i \in 0 .. z - 1 : /\ GroupData(i) \subseteq DataBlocks
                           /\ GroupParity(i) \subseteq Blocks \ DataBlocks
  /\ \A b \in Blocks : \E i \in 0 .. z - 1 : b \in GroupData(i) \union GroupParity(i)
  /\ \A i, j \in 0 .. z - 1 : i # j =>
        (GroupData(i) \union GroupParity(i)) \intersect (GroupData(j) \union GroupParity(j)) = {}
<1>1. k % z = 0 /\ r % z = 0
  BY PlanAssumption
<1> DEFINE d(i) == (i * k) \div z
           p(i) == (i * r) \div z
<1>2. /\ \A i \in 0 .. z - 1 : d(i) .. d(i + 1) - 1 \subseteq 0 .. k - 1
      /\ \A x \in 0 .. k - 1 : \E i \in 0 .. z - 1 : x \in d(i) .. d(i + 1) - 1
      /\ \A i, j \in 0 .. z - 1 : i < j => d(i + 1) <= d(j)
      /\ \A i \in 0 .. z : d(i) \in Int
  BY <1>1, Positive, ShareOf
<1>3. /\ \A i \in 0 .. z - 1 : p(i) .. p(i + 1) - 1 \subseteq 0 .. r - 1
      /\ \A x \in 0 .. r - 1 : \E i \in 0 .. z - 1 : x \in p(i) .. p(i + 1) - 1
      /\ \A i, j \in 0 .. z - 1 : i < j => p(i + 1) <= p(j)
      /\ \A i \in 0 .. z : p(i) \in Int
  BY <1>1, Positive, ShareOf
<1>4. \A i \in 0 .. z - 1 :
        /\ i \in 0 .. z /\ i + 1 \in 0 .. z
        /\ GroupData(i) = d(i) .. d(i + 1) - 1
        /\ GroupParity(i) = (k + p(i) .. k + p(i + 1) - 1) \union {k + r + i}
  BY Positive DEF GroupData, GroupParity
<1> HIDE DEF d, p
<1>5. ASSUME NEW i \in 0 .. z - 1, NEW x \in GroupParity(i)
      PROVE  \/ x \in Int /\ x - k \in p(i) .. p(i + 1) - 1 /\ x - k \in 0 .. r - 1
             \/ x = k + r + i
  <2>1. x \in k + p(i) .. k + p(i + 1) - 1 \/ x = k + r + i
    BY <1>4, <1>5
  <2>2. p(i) \in Int /\ p(i + 1) \in Int
    BY <1>3, <1>4
  <2>3. x \in k + p(i) .. k + p(i + 1) - 1 => x \in Int /\ x - k \in p(i) .. p(i + 1) - 1
    BY <2>2, Positive
  <2>. QED
    BY <1>3, <2>1, <2>3
<1>6. ASSUME NEW i \in 0 .. z - 1
      PROVE  GroupData(i) \subseteq DataBlocks /\ GroupParity(i) \subseteq Blocks \ DataBlocks
  <2>1. GroupData(i) \subseteq DataBlocks
    BY <1>2, <1>4 DEF DataBlocks
  <2>2. ASSUME NEW x \in GroupParity(i) PROVE x \in Blocks \ DataBlocks
    <3>1. \/ x \in Int /\ x - k \in p(i) .. p(i + 1) - 1 /\ x - k \in 0 .. r - 1
          \/ x = k + r + i
      BY <1>5
    <3>2. x \in k .. k + r + z - 1
      BY <3>1, Positive
    <3>. QED
      BY <3>2, Positive DEF DataBlocks, Blocks
  <2>. QED
    BY <2>1, <2>2
<1>7. ASSUME NEW b \in Blocks
      PROVE  \E i \in 0 .. z - 1 : b \in GroupData(i) \union GroupParity(i)
  <2>1. CASE b \in 0 .. k - 1
    BY <1>2, <1>4, <2>1
  <2>2. CASE b - k \in 0 .. r - 1
    <3>1. PICK i \in 0 .. z - 1 : b - k \in p(i) .. p(i + 1) - 1
      BY <1>3, <2>2
    <3>2. p(i) \in Int /\ p(i + 1) \in Int
      BY <1>3, <1>4
    <3>3. b \in k + p(i) .. k + p(i + 1) - 1
      BY <3>1, <3>2, Positive DEF Blocks
    <3>. QED
      BY <1>4, <3>3
  <2>3. CASE b \in k + r .. k + r + z - 1
    <3>1. b - k - r \in 0 .. z - 1 /\ b = k + r + (b - k - r)
      BY <2>3, Positive
    <3>. QED
      BY <1>4, <3>1
  <2>. QED
    BY <2>1, <2>2, <2>3, Positive DEF Blocks
<1>8. ASSUME NEW i \in 0 .. z - 1, NEW j \in 0 .. z - 1, i < j
      PROVE  (GroupData(i) \union GroupParity(i)) \intersect (GroupData(j) \union GroupParity(j)) = {}
  <2>1. GroupData(i) \intersect GroupData(j) = {}
    BY <1>2, <1>4, <1>8
  <2>2. GroupParity(i) \intersect GroupParity(j) = {}
    <3> SUFFICES ASSUME NEW x \in GroupParity(i), x \in GroupParity(j) PROVE FALSE
      OBVIOUS
    <3>1. /\ p(i) \in Int /\ p(i + 1) \in Int /\ p(j) \in Int /\ p(j + 1) \in Int
          /\ p(i + 1) <= p(j)
      BY <1>3, <1>4, <1>8
    <3>2. \/ x \in Int /\ x - k \in p(i) .. p(i + 1) - 1 /\ x - k \in 0 .. r - 1
          \/ x = k + r + i
      BY <1>5
    <3>3. \/ x \in Int /\ x - k \in p(j) .. p(j + 1) - 1 /\ x - k \in 0 .. r - 1
          \/ x = k + r + j
      BY <1>5
    <3>. QED
      BY <1>8, <3>1, <3>2, <3>3, Positive
  <2>. QED
    BY <1>6, <2>1, <2>2
<1>. QED
  <2>1. \A i, j \in 0 .. z - 1 : i # j => i < j \/ j < i
    BY Positive
  <2>. QED
    BY <1>6, <1>7, <1>8, <2>1

-----------------------------------------------------------------------------
(* Slices of several appends in one block.                                 *)

\* The slice of a data block, in terms of the bytes at its places.
LEMMA CutOf ==
  ASSUME NEW off \in 0 .. StripeSize - 1, NEW size \in 1 .. StripeSize - off, NEW b \in DataBlocks
  PROVE  LET s == DataSlices(off, size)[b] IN
         /\ s.size \in Nat /\ s.offset \in Int
         /\ (IF s.size = 0 THEN {} ELSE s.offset .. s.offset + s.size - 1)
              = Places(b, off, off + size)
         /\ s.size > 0 => s.offset \in Nat
<1> DEFINE s == DataSlices(off, size)[b]
<1>1. Tiles(DataSlices(off, size), off, off + size)
  BY Positive, SlicesTile
<1>2. s \in [size : Nat, offset : Int] /\ Slice0(s) = Places(b, off, off + size)
  BY <1>1 DEF Tiles
<1> HIDE DEF s
<1>3. s.size > 0 => s.offset \in Places(b, off, off + size)
  <2>1. s.size > 0 => s.offset \in s.offset .. s.offset + s.size - 1
    BY <1>2
  <2>. QED
    BY <1>2, <2>1 DEF Slice0, Region
<1>. QED
  BY <1>2, <1>3 DEF s, Slice0, Region, Places

\* Of two appends, the later one in the stripe has the later slice in a block.
LEMMA CutsInOrder ==
  ASSUME NEW b \in DataBlocks,
         NEW off \in 0 .. StripeSize - 1, NEW size \in 1 .. StripeSize - off,
         NEW off2 \in 0 .. StripeSize - 1, NEW size2 \in 1 .. StripeSize - off2,
         off + size <= off2,
         DataSlices(off, size)[b].size > 0, DataSlices(off2, size2)[b].size > 0
  PROVE  DataSlices(off, size)[b].offset + DataSlices(off, size)[b].size
           <= DataSlices(off2, size2)[b].offset
<1> DEFINE s == DataSlices(off, size)[b]
           t == DataSlices(off2, size2)[b]
           x == s.offset + s.size - 1
           y == t.offset
<1>1. /\ s.size \in Nat \ {0} /\ s.offset \in Nat
      /\ s.offset .. s.offset + s.size - 1 = Places(b, off, off + size)
  BY CutOf
<1>2. /\ t.size \in Nat \ {0} /\ t.offset \in Nat
      /\ t.offset .. t.offset + t.size - 1 = Places(b, off2, off2 + size2)
  BY CutOf
<1> HIDE DEF s, t
<1>3. x \in Nat /\ x \in Places(b, off, off + size)
  <2>1. x \in Nat /\ x \in s.offset .. s.offset + s.size - 1
    BY <1>1
  <2>. QED
    BY <1>1, <2>1
<1>4. y \in Nat /\ y \in Places(b, off2, off2 + size2)
  <2>1. y \in t.offset .. t.offset + t.size - 1
    BY <1>2
  <2>. QED
    BY <1>2, <2>1
<1>5. /\ ByteAt(b, x) \in Int /\ ByteAt(b, y) \in Int
      /\ ByteAt(b, x) <= off + size - 1 /\ off2 <= ByteAt(b, y)
  BY <1>3, <1>4, Positive DEF Places
<1>6. ByteAt(b, x) < ByteAt(b, y)
  BY <1>5, Positive
<1>7. x < y
  <2>1. y < x => ByteAt(b, y) < ByteAt(b, x)
    BY <1>3, <1>4, ByteAtRises
  <2>2. x # y
    BY <1>5, <1>6
  <2>. QED
    BY <1>3, <1>4, <1>5, <1>6, <2>1, <2>2
<1>8. s.offset + s.size <= t.offset
  BY SMTT(30), <1>1, <1>2, <1>7
<1>. QED
  BY <1>8 DEF s, t

\* A slice starts its block if no byte before the append lies in the block.
LEMMA CutStarts ==
  ASSUME NEW b \in DataBlocks,
         NEW off \in 0 .. StripeSize - 1, NEW size \in 1 .. StripeSize - off,
         DataSlices(off, size)[b].size > 0,
         \A q \in 0 .. off - 1 : BlockOf(q) # b
  PROVE  DataSlices(off, size)[b].offset = 0
<1> DEFINE s == DataSlices(off, size)[b]
           y == s.offset
<1>1. /\ s.size \in Nat \ {0} /\ s.offset \in Nat
      /\ s.offset .. s.offset + s.size - 1 = Places(b, off, off + size)
  BY CutOf
<1> HIDE DEF s
<1>2. y \in Places(b, off, off + size)
  <2>1. y \in s.offset .. s.offset + s.size - 1
    BY <1>1
  <2>. QED
    BY <1>1, <2>1
<1>3. SUFFICES ASSUME 0 < y PROVE FALSE
  BY <1>1 DEF s
<1>4. /\ ByteAt(b, 0) \in Nat /\ BlockOf(ByteAt(b, 0)) = b
      /\ ByteAt(b, 0) < ByteAt(b, y) /\ ByteAt(b, y) \in Nat
  BY <1>1, <1>3, ByteAtPlace, ByteAtRises
<1>5. ByteAt(b, 0) >= off
  BY <1>4, Positive
<1>6. 0 \in Places(b, off, off + size)
  BY <1>2, <1>4, <1>5 DEF Places
<1>7. 0 \notin s.offset .. s.offset + s.size - 1
  BY <1>1, <1>3
<1>. QED
  BY <1>1, <1>6, <1>7

\* Two slices of a block adjoin if no byte between their appends lies in the
\* block.
LEMMA CutAdjoins ==
  ASSUME NEW b \in DataBlocks,
         NEW off \in 0 .. StripeSize - 1, NEW size \in 1 .. StripeSize - off,
         NEW off2 \in 0 .. StripeSize - 1, NEW size2 \in 1 .. StripeSize - off2,
         off + size <= off2,
         DataSlices(off, size)[b].size > 0, DataSlices(off2, size2)[b].size > 0,
         \A q \in off + size .. off2 - 1 : BlockOf(q) # b
  PROVE  DataSlices(off2, size2)[b].offset
           = DataSlices(off, size)[b].offset + DataSlices(off, size)[b].size
<1> DEFINE s == DataSlices(off, size)[b]
           t == DataSlices(off2, size2)[b]
           x == s.offset + s.size
           y == t.offset
<1>. SUFFICES y = x
  OBVIOUS
<1>1. /\ s.size \in Nat \ {0} /\ s.offset \in Nat
      /\ s.offset .. s.offset + s.size - 1 = Places(b, off, off + size)
  BY CutOf
<1>2. /\ t.size \in Nat \ {0} /\ t.offset \in Nat
      /\ t.offset .. t.offset + t.size - 1 = Places(b, off2, off2 + size2)
  BY CutOf
<1>3. x <= y
  BY CutsInOrder
<1> HIDE DEF s, t
<1>4. SUFFICES ASSUME x < y PROVE FALSE
  <2>1. x \in Int /\ y \in Int
    BY SMTT(30), <1>1, <1>2
  <2>. QED
    BY <1>3, <2>1
<1>5. x \in Nat /\ x - 1 \in Nat /\ y \in Nat
  <2>1. s.offset \in Nat /\ s.size \in Nat \ {0} /\ t.offset \in Nat
    BY <1>1, <1>2
  <2>. QED
    BY <2>1
<1>6. x - 1 \in Places(b, off, off + size) /\ y \in Places(b, off2, off2 + size2)
  <2>1. x - 1 \in s.offset .. s.offset + s.size - 1
    BY <1>1
  <2>2. y \in t.offset .. t.offset + t.size - 1
    BY <1>2
  <2>. QED
    BY <1>1, <1>2, <2>1, <2>2
<1>7. x \notin Places(b, off, off + size) /\ x \notin Places(b, off2, off2 + size2)
  <2>1. x \notin s.offset .. s.offset + s.size - 1 /\ x \notin t.offset .. t.offset + t.size - 1
    <3>1. s.offset \in Nat /\ s.size \in Nat /\ t.offset \in Nat /\ s.offset + s.size < t.offset
      BY <1>1, <1>2, <1>4
    <3>. QED
      BY <3>1
  <2>. QED
    BY <1>1, <1>2, <2>1
<1> HIDE DEF x, y
<1>8. /\ ByteAt(b, x - 1) < ByteAt(b, x) /\ ByteAt(b, x) < ByteAt(b, y)
      /\ ByteAt(b, x) \in Nat /\ BlockOf(ByteAt(b, x)) = b
      /\ ByteAt(b, x - 1) \in Nat /\ ByteAt(b, y) \in Nat
  <2>1. x - 1 < x
    BY <1>5
  <2>. QED
    BY <1>4, <1>5, <2>1, ByteAtPlace, ByteAtRises
<1>9. ByteAt(b, x) \in off + size .. off2 - 1
  BY <1>5, <1>6, <1>7, <1>8, Positive DEF Places
<1>. QED
  BY <1>8, <1>9

\* The block of a byte of an append is in the plan of the append.
LEMMA Touched ==
  ASSUME NEW off \in 0 .. StripeSize - 1, NEW size \in 1 .. StripeSize - off,
         NEW q \in off .. off + size - 1
  PROVE  BlockOf(q) \in DataBlocks /\ DataSlices(off, size)[BlockOf(q)].size > 0
<1> DEFINE b == BlockOf(q)
<1>1. q \in Nat
  BY Positive
<1>2. b \in DataBlocks /\ PlaceOf(q) \in Nat /\ q = ByteAt(b, PlaceOf(q))
  BY <1>1, PlaceByte
<1>3. PlaceOf(q) \in Places(b, off, off + size)
  BY <1>2 DEF Places
<1> HIDE DEF b
<1>4. DataSlices(off, size)[b].size \in Nat /\ DataSlices(off, size)[b].size # 0
  BY <1>2, <1>3, CutOf
<1>. QED
  BY <1>2, <1>4 DEF b

\* Every place of a block holds some byte of the stripe.
LEMMA ByteOfPlace ==
  ASSUME NEW t \in 0 .. BlockSize - 1
  PROVE  \E q \in 0 .. StripeSize - 1 : PlaceOf(q) = t
<1> DEFINE q == ByteAt(0, t)
<1>1. 0 \in DataBlocks
  BY Positive DEF DataBlocks
<1>2. q \in Nat /\ PlaceOf(q) = t
  BY <1>1, ByteAtPlace
<1> HIDE DEF q
<1>3. q < StripeSize
  BY <1>2, InStripe, Positive
<1>. QED
  BY <1>2, <1>3, Positive

-----------------------------------------------------------------------------
(* Sums over finite sets.                                                  *)

\* Among finite sets there is one that leaves the family when any element is
\* taken out: induction over finite sets.
LEMMA MinimalSet ==
  ASSUME NEW T, T # {}, \A s \in T : IsFiniteSet(s)
  PROVE  \E s \in T : \A x \in s : s \ {x} \notin T
<1> DEFINE N == {Cardinality(s) : s \in T}
<1>1. N \subseteq Nat /\ N # {}
  BY FS_CardinalityType
<1>2. PICK n \in N : \A l \in N : n <= l
  BY <1>1, LeastNumber
<1>3. PICK s \in T : n = Cardinality(s)
  OBVIOUS
<1>4. ASSUME NEW x \in s, s \ {x} \in T PROVE FALSE
  <2>1. Cardinality(s \ {x}) = Cardinality(s) - 1 /\ Cardinality(s) \in Nat
    BY FS_RemoveElement, FS_CardinalityType
  <2>2. n <= Cardinality(s \ {x})
    BY <1>2, <1>4
  <2>. QED
    BY <1>3, <2>1, <2>2
<1>. QED
  BY <1>4

\* One turn of the sum of e over s, as MapThenSumSet takes it: any element,
\* then the rest.
SumTurn(e, it, s) ==
  IF s = {} THEN 0
  ELSE e[CHOOSE x \in s : TRUE] + it[s \ {CHOOSE x \in s : TRUE}]
Sums(e, it, S) == it = [s \in SUBSET S |-> SumTurn(e, it, s)]

\* The sum of the empty set is 0, and any other is that of an element and the
\* rest.
LEMMA SumTurns ==
  ASSUME NEW S, NEW e, NEW it, Sums(e, it, S), NEW s \in SUBSET S
  PROVE  /\ it[{}] = 0
         /\ s # {} => \E x \in s : it[s] = e[x] + it[s \ {x}] /\ s \ {x} \in SUBSET S
<1> DEFINE G == [t \in SUBSET S |-> SumTurn(e, it, t)]
<1>0. it = G
  BY DEF Sums
<1>1. it[s] = SumTurn(e, it, s) /\ it[{}] = SumTurn(e, it, {})
  <2>1. G[s] = SumTurn(e, it, s) /\ G[{}] = SumTurn(e, it, {})
    OBVIOUS
  <2>. QED
    BY <1>0, <2>1
<1>. QED
  BY <1>1 DEF SumTurn

\* The sum over the subsets of a finite set exists.
LEMMA SumsThere ==
  ASSUME NEW S, IsFiniteSet(S), NEW e
  PROVE  \E it : Sums(e, it, S)
<1> DEFINE U(n) == {s \in SUBSET S : Cardinality(s) <= n}
           Ok(n) == \E it : it = [s \in U(n) |-> SumTurn(e, it, s)]
           N == {n \in Nat : ~ Ok(n)}
<1>0. \A s \in SUBSET S : IsFiniteSet(s) /\ Cardinality(s) \in Nat
  BY FS_Subset, FS_CardinalityType
<1>1. N = {}
  <2>1. SUFFICES ASSUME N # {} PROVE FALSE
    OBVIOUS
  <2>2. PICK n \in N : \A l \in N : n <= l
    BY <2>1, LeastNumber
  <2>3. n # 0
    <3> DEFINE g == [s \in U(0) |-> 0]
    <3>1. \A s \in U(0) : s = {}
      BY <1>0, FS_EmptySet
    <3>2. g = [s \in U(0) |-> SumTurn(e, g, s)]
      BY <3>1 DEF SumTurn
    <3>. QED
      BY ZenonT(30), <2>2, <3>2
  <2>4. PICK g : g = [s \in U(n - 1) |-> SumTurn(e, g, s)]
    <3>1. n - 1 \in Nat /\ n - 1 \notin N
      <4> HIDE DEF N
      <4>1. n \in Nat
        BY <2>2 DEF N
      <4>. QED
        BY <2>2, <2>3, <4>1
    <3>2. Ok(n - 1)
      BY <3>1
    <3>. QED
      BY <3>2
  <2> DEFINE h == [s \in U(n) |-> SumTurn(e, g, s)]
  <2>5. ASSUME NEW s \in U(n) PROVE h[s] = SumTurn(e, h, s)
    <3> DEFINE x == CHOOSE x \in s : TRUE
               t == s \ {x}
    <3>1. CASE s = {}
      BY <3>1 DEF SumTurn
    <3>2. CASE s # {}
      <4>1. x \in s
        BY <3>2
      <4>2. Cardinality(t) = Cardinality(s) - 1
        BY <1>0, <4>1, FS_RemoveElement
      <4>3. t \in U(n - 1) /\ t \in U(n)
        BY <1>0, <2>2, <4>2
      <4>4. h[t] = SumTurn(e, g, t) /\ g[t] = SumTurn(e, g, t)
        <5>1. h[t] = SumTurn(e, g, t)
          BY <4>3
        <5> DEFINE G == [u \in U(n - 1) |-> SumTurn(e, g, u)]
        <5>2. G[t] = SumTurn(e, g, t)
          BY <4>3
        <5>. QED
          BY <2>4, <5>1, <5>2
      <4>5. h[s] = SumTurn(e, g, s)
        OBVIOUS
      <4> HIDE DEF h
      <4>. QED
        BY <3>2, <4>4, <4>5 DEF SumTurn
    <3>. QED
      BY <3>1, <3>2
  <2>6. h = [s \in U(n) |-> SumTurn(e, h, s)]
    BY <2>5
  <2>. QED
    BY <2>2, <2>6
<1>2. Ok(Cardinality(S)) /\ Cardinality(S) \in Nat
  BY <1>0, <1>1
<1>3. U(Cardinality(S)) = SUBSET S
  <2>1. \A s \in SUBSET S : Cardinality(s) <= Cardinality(S)
    BY FS_Subset
  <2>. QED
    BY <2>1
<1>. QED
  BY <1>2, <1>3 DEF Sums

\* The sum over a part does not depend on the set it is a part of.
LEMMA SumsAgree ==
  ASSUME NEW S, IsFiniteSet(S), NEW e, NEW it, Sums(e, it, S),
         NEW R \in SUBSET S, NEW g, Sums(e, g, R)
  PROVE  g[R] = it[R]
<1> DEFINE T == {s \in SUBSET R : g[s] # it[s]}
<1>1. SUFFICES ASSUME T # {} PROVE FALSE
  OBVIOUS
<1>2. PICK s \in T : \A x \in s : s \ {x} \notin T
  <2>1. \A s \in T : IsFiniteSet(s)
    BY FS_Subset
  <2>. QED
    BY <1>1, <2>1, MinimalSet
<1>3. s \in SUBSET S /\ s \in SUBSET R
  OBVIOUS
<1>4. it[s] = SumTurn(e, it, s) /\ g[s] = SumTurn(e, g, s)
  <2> DEFINE G == [t \in SUBSET S |-> SumTurn(e, it, t)]
             F == [t \in SUBSET R |-> SumTurn(e, g, t)]
  <2>1. G[s] = SumTurn(e, it, s) /\ F[s] = SumTurn(e, g, s)
    BY <1>3
  <2>2. it = G /\ g = F
    BY DEF Sums
  <2>. QED
    BY <2>1, <2>2
<1>5. s # {} => g[s \ {CHOOSE x \in s : TRUE}] = it[s \ {CHOOSE x \in s : TRUE}]
  BY <1>2
<1>. QED
  BY <1>4, <1>5 DEF SumTurn

\* The sums over a set's subsets contain those over a part's.
LEMMA SumsWithin ==
  ASSUME NEW S, NEW e, NEW it, Sums(e, it, S), NEW R \in SUBSET S
  PROVE  Sums(e, [s \in SUBSET R |-> it[s]], R)
<1> DEFINE h == [s \in SUBSET R |-> it[s]]
<1>1. ASSUME NEW s \in SUBSET R PROVE h[s] = SumTurn(e, h, s)
  <2> DEFINE G == [t \in SUBSET S |-> SumTurn(e, it, t)]
  <2>1. G[s] = SumTurn(e, it, s) /\ it = G
    BY DEF Sums
  <2>2. h[s] = it[s] /\ h[s \ {CHOOSE x \in s : TRUE}] = it[s \ {CHOOSE x \in s : TRUE}]
    OBVIOUS
  <2> HIDE DEF h, G
  <2>. QED
    BY <2>1, <2>2 DEF SumTurn
<1>. QED
  BY <1>1 DEF Sums

\* it gives the sum of e, natural numbers, over each subset of the finite S.
Summed(e, it, S) ==
  IsFiniteSet(S) /\ Sums(e, it, S) /\ \A x \in S : e[x] \in Nat

\* A sum of natural numbers is one.
LEMMA SumTyped ==
  ASSUME NEW S, NEW e, NEW it, Summed(e, it, S), NEW s \in SUBSET S
  PROVE  it[s] \in Nat
<1> DEFINE T == {t \in SUBSET S : it[t] \notin Nat}
<1>1. SUFFICES ASSUME T # {} PROVE FALSE
  OBVIOUS
<1>2. PICK t \in T : \A x \in t : t \ {x} \notin T
  <2>1. \A u \in T : IsFiniteSet(u)
    BY FS_Subset DEF Summed
  <2> HIDE DEF T
  <2>. QED
    BY <1>1, <2>1, MinimalSet
<1>3. t \in SUBSET S /\ it[{}] = 0
  BY SumTurns DEF Summed
<1>4. t # {}
  <2>. SUFFICES ASSUME t = {} PROVE FALSE
    OBVIOUS
  <2>. QED
    BY <1>2, <1>3
<1>5. PICK c \in t : it[t] = e[c] + it[t \ {c}]
  BY <1>3, <1>4, SumTurns DEF Summed
<1>6. it[t \ {c}] \in Nat /\ e[c] \in Nat
  BY <1>2, <1>3 DEF Summed
<1>. QED
  BY <1>2, <1>5, <1>6

\* The element taken first does not matter.
LEMMA AnyElement ==
  ASSUME NEW S, NEW e, NEW it, Summed(e, it, S), NEW s \in SUBSET S
  PROVE  it[s] \in Nat /\ \A x \in s : it[s] = e[x] + it[s \ {x}]
<1> DEFINE Fine(t) == it[t] \in Nat /\ \A x \in t : it[t] = e[x] + it[t \ {x}]
           T == {t \in SUBSET S : ~ Fine(t)}
<1>1. SUFFICES ASSUME T # {} PROVE FALSE
  OBVIOUS
<1>2. PICK t \in T : \A x \in t : t \ {x} \notin T
  <2>1. \A u \in T : IsFiniteSet(u)
    BY FS_Subset DEF Summed
  <2> HIDE DEF T
  <2>. QED
    BY <1>1, <2>1, MinimalSet
<1>3. /\ t \in SUBSET S /\ ~ Fine(t) /\ it[{}] = 0
      /\ \A x \in t : Fine(t \ {x}) /\ e[x] \in Nat
  <2>1. it[{}] = 0
    BY SumTurns DEF Summed
  <2>2. \A x \in t : t \ {x} \in SUBSET S
    OBVIOUS
  <2>. QED
    BY <1>2, <2>1, <2>2 DEF Summed
<1>4. t # {}
  <2>. SUFFICES ASSUME t = {} PROVE FALSE
    OBVIOUS
  <2>. QED
    BY <1>3
<1>5. PICK c \in t : it[t] = e[c] + it[t \ {c}]
  BY <1>3, <1>4, SumTurns DEF Summed
<1>6. it[t] \in Nat
  BY <1>3, <1>5
<1>7. ASSUME NEW x \in t PROVE it[t] = e[x] + it[t \ {x}]
  <2>1. CASE x = c
    BY <1>5, <2>1
  <2>2. CASE x # c
    <3>1. it[t \ {c}] = e[x] + it[(t \ {c}) \ {x}]
      BY <1>3, <2>2
    <3>2. it[t \ {x}] = e[c] + it[(t \ {x}) \ {c}]
      BY <1>3, <2>2
    <3>3. (t \ {c}) \ {x} = (t \ {x}) \ {c}
      OBVIOUS
    <3>4. it[(t \ {x}) \ {c}] \in Nat /\ e[x] \in Nat /\ e[c] \in Nat
      <4>1. (t \ {x}) \ {c} \in SUBSET S
        BY <1>3
      <4>2. it[t \ {c}] \in Nat /\ it[t \ {x}] \in Nat
        BY <1>3
      <4>3. it[(t \ {x}) \ {c}] \in Nat
        BY <4>1, SumTyped
      <4>. QED
        BY <1>3, <4>3
    <3> PICK y : y = it[(t \ {x}) \ {c}]
      OBVIOUS
    <3>5. it[t \ {c}] = e[x] + y /\ it[t \ {x}] = e[c] + y /\ y \in Nat
      BY <3>1, <3>2, <3>3, <3>4
    <3>. QED
      BY <1>5, <3>4, <3>5
  <2>. QED
    BY <2>1, <2>2
<1>. QED
  BY <1>3, <1>6, <1>7

\* The sum over two disjoint sets is the sum of their sums.
LEMMA SumOfUnion ==
  ASSUME NEW S, NEW e, NEW it, Summed(e, it, S),
         NEW A \in SUBSET S, NEW B \in SUBSET S, A \intersect B = {}
  PROVE  it[A \union B] = it[A] + it[B]
<1> DEFINE T == {s \in SUBSET A : it[s \union B] # it[s] + it[B]}
<1>1. SUFFICES ASSUME T # {} PROVE FALSE
  OBVIOUS
<1>2. PICK s \in T : \A x \in s : s \ {x} \notin T
  <2>1. \A u \in T : IsFiniteSet(u)
    BY FS_Subset DEF Summed
  <2> HIDE DEF T
  <2>. QED
    BY <1>1, <2>1, MinimalSet
<1>3. it[{}] = 0 /\ it[B] \in Nat
  BY SumTurns, AnyElement DEF Summed
<1>4. s # {}
  <2> SUFFICES ASSUME s = {} PROVE FALSE
    OBVIOUS
  <2>1. s \union B = B
    OBVIOUS
  <2>. QED
    BY <1>2, <1>3, <2>1
<1>5. PICK x : x \in s
  BY <1>4
<1>6. s \in SUBSET S /\ s \union B \in SUBSET S /\ s \ {x} \in SUBSET S /\ x \in S
  BY <1>5
<1>7. it[s] = e[x] + it[s \ {x}] /\ it[s \ {x}] \in Nat
  <2>1. it[s] = e[x] + it[s \ {x}]
    BY <1>5, <1>6, AnyElement
  <2>2. it[s \ {x}] \in Nat
    BY <1>6, SumTyped
  <2>. QED
    BY <2>1, <2>2
<1> PICK u : u = s \union B
  OBVIOUS
<1>8. u \in SUBSET S /\ x \in u /\ it[u] = e[x] + it[u \ {x}]
  <2>1. u \in SUBSET S /\ x \in u
    BY <1>5, <1>6
  <2>. QED
    BY <2>1, AnyElement
<1>9. u \ {x} = (s \ {x}) \union B
  BY <1>5
<1>10. it[(s \ {x}) \union B] = it[s \ {x}] + it[B]
  BY <1>2, <1>5
<1>11. e[x] \in Nat
  BY <1>6 DEF Summed
<1>12. it[u] = e[x] + (it[s \ {x}] + it[B])
  BY <1>8, <1>9, <1>10
<1>13. it[u] # it[s] + it[B]
  BY <1>2
<1>. QED
  BY <1>3, <1>7, <1>11, <1>12, <1>13

\* Equal numbers sum up to their product with the number of elements.
LEMMA SumOfEqual ==
  ASSUME NEW S, NEW e, NEW it, Summed(e, it, S),
         NEW A \in SUBSET S, NEW v \in Nat, \A x \in A : e[x] = v
  PROVE  it[A] = v * Cardinality(A)
<1> DEFINE T == {s \in SUBSET A : it[s] # v * Cardinality(s)}
<1>1. SUFFICES ASSUME T # {} PROVE FALSE
  OBVIOUS
<1>0. \A u \in SUBSET A : IsFiniteSet(u) /\ Cardinality(u) \in Nat
  BY FS_Subset, FS_CardinalityType DEF Summed
<1>2. PICK s \in T : \A x \in s : s \ {x} \notin T
  <2>1. \A u \in T : IsFiniteSet(u)
    BY <1>0
  <2> HIDE DEF T
  <2>. QED
    BY <1>1, <2>1, MinimalSet
<1>4. s # {}
  <2> SUFFICES ASSUME s = {} PROVE FALSE
    OBVIOUS
  <2>1. it[{}] = 0 /\ Cardinality({}) = 0
    BY SumTurns, FS_EmptySet DEF Summed
  <2>. QED
    BY <1>2, <2>1
<1>5. PICK x : x \in s
  BY <1>4
<1>6. it[s] = e[x] + it[s \ {x}] /\ e[x] = v
  BY <1>5, AnyElement
<1>7. it[s \ {x}] = v * Cardinality(s \ {x})
  BY <1>2, <1>5
<1>8. Cardinality(s \ {x}) = Cardinality(s) - 1 /\ Cardinality(s) \in Nat
  BY <1>0, <1>5, FS_RemoveElement
<1> PICK c : c = Cardinality(s)
  OBVIOUS
<1>9. c \in Nat /\ v + v * (c - 1) = v * c
  BY <1>8
<1>. QED
  BY <1>2, <1>6, <1>7, <1>8, <1>9

-----------------------------------------------------------------------------
(* What proxy and client cut is what the coordinator counted.              *)

\* The size of the slice of every block, touched or not.
SizeAt(m, off, size) == [b \in Blocks |-> SliceOf(m, off, size, b).size]

\* The sizes are natural numbers: of data blocks their slices', of all parity
\* blocks the same.
LEMMA SizesAtBlocks ==
  ASSUME NEW m \in Modes, NEW off \in 0 .. StripeSize - 1, NEW size \in 1 .. StripeSize - off
  PROVE  /\ SizeAt(m, off, size) \in [Blocks -> Nat]
         /\ \A b \in DataBlocks : b \in Blocks /\ SizeAt(m, off, size)[b] = DataSlices(off, size)[b].size
         /\ \A b \in Blocks \ DataBlocks : SizeAt(m, off, size)[b] = ParitySlice(m, off, size).size
<1>1. \A b \in DataBlocks : b \in Blocks /\ DataSlices(off, size)[b].size \in Nat
  BY CutOf, Positive DEF DataBlocks, Blocks
<1>2. ParitySlice(m, off, size).size \in Nat
  BY ParityShape
<1>. QED
  BY <1>1, <1>2 DEF SizeAt, SliceOf

\* getClusterAppendSize's sum over data blocks is that of SizeAt.
LEMMA SumOfData ==
  ASSUME NEW m \in Modes, NEW off \in 0 .. StripeSize - 1, NEW size \in 1 .. StripeSize - off,
         NEW it, Sums(SizeAt(m, off, size), it, Blocks), IsFiniteSet(Blocks),
         NEW S \in SUBSET DataBlocks
  PROVE  MapThenSumSet(LAMBDA b : DataSlices(off, size)[b].size, S) = it[S]
<1> DEFINE iter[s \in SUBSET S] ==
             IF s = {} THEN 0
             ELSE LET x == CHOOSE x \in s : TRUE
                  IN  DataSlices(off, size)[x].size + iter[s \ {x}]
           e == SizeAt(m, off, size)
           turn(g, s) == IF s = {} THEN 0
                         ELSE LET x == CHOOSE x \in s : TRUE
                              IN  DataSlices(off, size)[x].size + g[s \ {x}]
<1>1. MapThenSumSet(LAMBDA b : DataSlices(off, size)[b].size, S) = iter[S]
  BY DEF MapThenSumSet, MapThenFoldSet
<1>2. S \in SUBSET Blocks /\ \A x \in S : e[x] = DataSlices(off, size)[x].size
  BY SizesAtBlocks
<1>3. \A g : \A s \in SUBSET S : turn(g, s) = SumTurn(e, g, s)
  BY <1>2 DEF SumTurn
<1>4. PICK h : h = [s \in SUBSET S |-> SumTurn(e, h, s)]
  <2> DEFINE w == [s \in SUBSET S |-> it[s]]
  <2>1. Sums(e, w, S)
    <3>1. Sums(e, it, Blocks) /\ S \in SUBSET Blocks
      BY <1>2
    <3>. HIDE DEF e, iter, turn
    <3>. QED
      BY <3>1, SumsWithin
  <2> HIDE DEF w, e
  <2>. QED
    BY <2>1 DEF Sums
<1>5. h = [s \in SUBSET S |-> turn(h, s)]
  BY <1>3, <1>4
<1>6. iter = [s \in SUBSET S |-> turn(iter, s)]
  BY <1>5
<1>7. iter = [s \in SUBSET S |-> SumTurn(e, iter, s)]
  BY <1>3, <1>6
<1> HIDE DEF iter, e
<1>8. Sums(e, iter, S)
  BY <1>7 DEF Sums
<1>9. iter[S] = it[S]
  BY <1>2, <1>8, SumsAgree DEF e
<1>. QED
  BY <1>1, <1>9

\* The sum of the proxy's slices is that of SizeAt.
LEMMA SumOfSlices ==
  ASSUME NEW m \in Modes, NEW off \in 0 .. StripeSize - 1, NEW size \in 1 .. StripeSize - off,
         NEW it, Sums(SizeAt(m, off, size), it, Blocks), IsFiniteSet(Blocks),
         NEW S \in SUBSET Blocks
  PROVE  MapThenSumSet(LAMBDA b : SliceOf(m, off, size, b).size, S) = it[S]
<1> DEFINE iter[s \in SUBSET S] ==
             IF s = {} THEN 0
             ELSE LET x == CHOOSE x \in s : TRUE
                  IN  SliceOf(m, off, size, x).size + iter[s \ {x}]
           e == SizeAt(m, off, size)
           turn(g, s) == IF s = {} THEN 0
                         ELSE LET x == CHOOSE x \in s : TRUE
                              IN  SliceOf(m, off, size, x).size + g[s \ {x}]
<1>1. MapThenSumSet(LAMBDA b : SliceOf(m, off, size, b).size, S) = iter[S]
  BY DEF MapThenSumSet, MapThenFoldSet
<1>2. \A x \in S : e[x] = SliceOf(m, off, size, x).size
  BY DEF SizeAt
<1>3. \A g : \A s \in SUBSET S : turn(g, s) = SumTurn(e, g, s)
  BY <1>2 DEF SumTurn
<1>4. PICK h : h = [s \in SUBSET S |-> SumTurn(e, h, s)]
  <2> DEFINE w == [s \in SUBSET S |-> it[s]]
  <2>1. Sums(e, w, S)
    BY SumsWithin
  <2> HIDE DEF w, e
  <2>. QED
    BY <2>1 DEF Sums
<1>5. h = [s \in SUBSET S |-> turn(h, s)]
  BY <1>3, <1>4
<1>6. iter = [s \in SUBSET S |-> turn(iter, s)]
  BY <1>5
<1>7. iter = [s \in SUBSET S |-> SumTurn(e, iter, s)]
  BY <1>3, <1>6
<1> HIDE DEF iter, e
<1>8. Sums(e, iter, S)
  BY <1>7 DEF Sums
<1>9. iter[S] = it[S]
  BY <1>8, SumsAgree DEF e
<1>. QED
  BY <1>1, <1>9

\* The sum of the client's slices is that of SizeAt, except in REP_MODE.
LEMMA SumOfNodeSizes ==
  ASSUME NEW m \in Modes, NEW off \in 0 .. StripeSize - 1, NEW size \in 1 .. StripeSize - off,
         NEW it, Sums(SizeAt(m, off, size), it, Blocks), IsFiniteSet(Blocks),
         m # "REP_MODE", NEW S \in SUBSET Blocks
  PROVE  MapThenSumSet(LAMBDA b : node_slice_size(m, off, size, b), S) = it[S]
<1> DEFINE iter[s \in SUBSET S] ==
             IF s = {} THEN 0
             ELSE LET x == CHOOSE x \in s : TRUE
                  IN  node_slice_size(m, off, size, x) + iter[s \ {x}]
           e == SizeAt(m, off, size)
           turn(g, s) == IF s = {} THEN 0
                         ELSE LET x == CHOOSE x \in s : TRUE
                              IN  node_slice_size(m, off, size, x) + g[s \ {x}]
<1>1. MapThenSumSet(LAMBDA b : node_slice_size(m, off, size, b), S) = iter[S]
  BY DEF MapThenSumSet, MapThenFoldSet
<1>2. \A x \in S : e[x] = node_slice_size(m, off, size, x)
  BY DEF SizeAt, SliceOf, node_slice_size, clientParitySize, ParitySlice, Modes
<1>3. \A g : \A s \in SUBSET S : turn(g, s) = SumTurn(e, g, s)
  BY <1>2 DEF SumTurn
<1>4. PICK h : h = [s \in SUBSET S |-> SumTurn(e, h, s)]
  <2> DEFINE w == [s \in SUBSET S |-> it[s]]
  <2>1. Sums(e, w, S)
    BY SumsWithin
  <2> HIDE DEF w, e
  <2>. QED
    BY <2>1 DEF Sums
<1>5. h = [s \in SUBSET S |-> turn(h, s)]
  BY <1>3, <1>4
<1>6. iter = [s \in SUBSET S |-> turn(iter, s)]
  BY <1>5
<1>7. iter = [s \in SUBSET S |-> SumTurn(e, iter, s)]
  BY <1>3, <1>6
<1> HIDE DEF iter, e
<1>8. Sums(e, iter, S)
  BY <1>7 DEF Sums
<1>9. iter[S] = it[S]
  BY <1>8, SumsAgree DEF e
<1>. QED
  BY <1>1, <1>9

\* A group's share of (r + z) slices is one for each of its parity blocks: the
\* division of getClusterAppendSize loses nothing.
LEMMA ParitiesOfGroup ==
  ASSUME NEW i \in 0 .. z - 1
  PROVE  /\ IsFiniteSet(GroupParity(i))
         /\ \A v \in Nat : (v * (r + z)) \div z = v * Cardinality(GroupParity(i))
<1> DEFINE q == r \div z
           a == k + (i * r) \div z
           b == k + ((i + 1) * r) \div z - 1
<1>1. /\ q \in Nat \ {0} /\ r = q * z
      /\ \A j \in Nat : (j * r) \div z = j * q
  BY Positive, PlanAssumption, Shares
<1> HIDE DEF q
<1>2. i \in Nat /\ i + 1 \in Nat /\ (i + 1) * q = i * q + q /\ i * q \in Nat
  <2>1. i \in Nat /\ i + 1 \in Nat
    BY Positive
  <2>2. i * q \in Nat
    BY <1>1, <2>1, Multiples
  <2>3. (i + 1) * q = i * q + q
    BY <1>1, <2>1
  <2>. QED
    BY <2>1, <2>2, <2>3
<1>3. a = k + i * q /\ b = k + (i * q + q) - 1
  <2>1. (i * r) \div z = i * q
    BY <1>1, <1>2
  <2>2. ((i + 1) * r) \div z = i * q + q
    <3>1. ((i + 1) * r) \div z = (i + 1) * q
      BY <1>1, <1>2
    <3>. QED
      BY <1>2, <3>1
  <2>. QED
    BY <2>1, <2>2
<1> HIDE DEF a, b
<1>4. a \in Int /\ b \in Int /\ a <= b /\ b - a + 1 = q
  BY <1>1, <1>2, <1>3, Positive
<1>5. IsFiniteSet(a .. b) /\ Cardinality(a .. b) = q
  BY <1>4, FS_Interval
<1>6. GroupParity(i) = (a .. b) \union {k + r + i}
  BY DEF GroupParity, a, b
<1>7. k + r + i \notin a .. b
  <2>1. i * r \in Nat /\ (i + 1) * r \in Nat /\ b < k + r
    <3>1. a .. b \subseteq k .. k + r - 1
      <4>1. r % z = 0 /\ (i * r) \div z .. ((i + 1) * r) \div z - 1 \subseteq 0 .. r - 1
        BY Positive, PlanAssumption, ShareOf
      <4>2. (i * r) \div z = i * q /\ ((i + 1) * r) \div z = i * q + q
        <5>1. ((i + 1) * r) \div z = (i + 1) * q
          BY <1>1, <1>2
        <5>. QED
          BY <1>1, <1>2, <5>1
      <4>3. i * q .. i * q + q - 1 \subseteq 0 .. r - 1
        <5> PICK lo : lo = (i * r) \div z
          OBVIOUS
        <5> PICK hi : hi = ((i + 1) * r) \div z
          OBVIOUS
        <5>1. lo .. hi - 1 \subseteq 0 .. r - 1
          BY <4>1
        <5>2. lo = i * q /\ hi = i * q + q
          BY <4>2
        <5>. QED
          BY <1>1, <1>2, <5>1, <5>2
      <4>4. i * q + q - 1 \in 0 .. r - 1
        <5>1. i * q + q - 1 \in i * q .. i * q + q - 1
          BY <1>1, <1>2
        <5>. QED
          BY <4>3, <5>1
      <4>. QED
        BY <1>1, <1>2, <1>3, <4>4, Positive
    <3>2. b \in a .. b
      BY <1>4
    <3>. QED
      BY <1>2, <3>1, <3>2, Positive, Multiples
  <2>. QED
    BY <1>2, <1>4, <2>1, Positive
<1>8. IsFiniteSet(GroupParity(i)) /\ Cardinality(GroupParity(i)) = q + 1
  <2> DEFINE I == a .. b
  <2>1. IsFiniteSet(I) /\ Cardinality(I) = q /\ k + r + i \notin I
    BY <1>5, <1>7
  <2> HIDE DEF I
  <2>2. IsFiniteSet(I \union {k + r + i}) /\ Cardinality(I \union {k + r + i}) = q + 1
    BY <2>1, FS_AddElement
  <2>. QED
    BY <1>6, <2>2 DEF I
<1>9. ASSUME NEW v \in Nat PROVE (v * (r + z)) \div z = v * (q + 1)
  <2>1. r + z = (q + 1) * z + 0 /\ 0 \in 0 .. z - 1 /\ q + 1 \in Nat
    <3>1. q \in Nat /\ z \in Nat \ {0} /\ r = q * z /\ q * z \in Nat
      BY <1>1, Positive, Multiples
    <3>2. (q + 1) * z = q * z + z
      BY <3>1
    <3>. QED
      BY <3>1, <3>2
  <2>2. (r + z) \div z = q + 1 /\ (r + z) % z = 0
    <3> PICK n : n = q + 1
      OBVIOUS
    <3>1. (n * z + 0) \div z = n /\ (n * z + 0) % z = 0
      BY <2>1, Positive, DivUnique
    <3>. QED
      BY <2>1, <3>1
  <2>3. r + z \in Nat \ {0}
    BY Positive
  <2>. QED
    BY <2>2, <2>3, Shares
<1>. QED
  BY <1>8, <1>9

\* The blocks of the plan hold what those of the group's data do, and a parity
\* slice for each of its parity blocks: the blocks left out hold nothing.
LEMMA PlanAddsUp ==
  ASSUME NEW m \in Modes, NEW off \in 0 .. StripeSize - 1, NEW size \in 1 .. StripeSize - off,
         NEW i \in 0 .. z - 1,
         NEW it, Sums(SizeAt(m, off, size), it, Blocks), IsFiniteSet(Blocks)
  PROVE  it[PlanBlocks(off, size, i)]
           = it[GroupData(i)] + (ParitySlice(m, off, size).size * (r + z)) \div z
<1> DEFINE e == SizeAt(m, off, size)
           v == ParitySlice(m, off, size).size
           D == GroupData(i)
           A == {b \in D : DataSlices(off, size)[b].size > 0}
           Z == {b \in D : e[b] = 0}
           P == GroupParity(i)
<1>1. /\ D \subseteq DataBlocks /\ P \subseteq Blocks \ DataBlocks /\ DataBlocks \subseteq Blocks
  BY GroupsOfBlocks, Positive DEF DataBlocks, Blocks
<1>2. /\ e \in [Blocks -> Nat]
      /\ \A b \in D : e[b] = DataSlices(off, size)[b].size
      /\ \A b \in P : e[b] = v
      /\ v \in Nat
  BY <1>1, SizesAtBlocks, ParityShape
<1>3. Summed(e, it, Blocks)
  BY <1>2 DEF Summed
<1>4. PlanBlocks(off, size, i) = A \union P
  BY DEF PlanBlocks
<1>5. /\ A \in SUBSET Blocks /\ Z \in SUBSET Blocks /\ P \in SUBSET Blocks
      /\ A \intersect P = {} /\ A \intersect Z = {} /\ D = A \union Z
      /\ \A x \in Z : e[x] = 0
  BY <1>1, <1>2
<1> HIDE DEF e, v, A, Z, P, D
<1>6. it[A \union P] = it[A] + it[P] /\ it[A \union Z] = it[A] + it[Z]
  <2>1. it[A \union P] = it[A] + it[P]
    BY <1>3, <1>5, SumOfUnion
  <2>2. it[A \union Z] = it[A] + it[Z]
    BY <1>3, <1>5, SumOfUnion
  <2>. QED
    BY <2>1, <2>2
<1>7. it[A] \in Nat /\ it[Z] \in Nat /\ it[P] \in Nat
  BY <1>3, <1>5, SumTyped
<1>8. it[P] = v * Cardinality(P)
  BY <1>2, <1>3, <1>5, SumOfEqual
<1>9. it[Z] = 0
  <2>1. it[Z] = 0 * Cardinality(Z)
    BY <1>3, <1>5, SumOfEqual
  <2>2. Cardinality(Z) \in Nat
    BY <1>3, <1>5, FS_Subset, FS_CardinalityType DEF Summed
  <2>. QED
    BY <2>1, <2>2
<1>10. (v * (r + z)) \div z = v * Cardinality(P)
  BY <1>2, ParitiesOfGroup DEF P
<1>11. it[A \union P] = it[D] + (v * (r + z)) \div z
  BY <1>5, <1>6, <1>7, <1>8, <1>9, <1>10
<1>. QED
  BY <1>4, <1>11 DEF v, D

\* The slices that a proxy cuts out of what its group was sent, and those that
\* the client cuts, add up to what the coordinator counted: the assertions of
\* splitCharPointer do not fail, for any append.
THEOREM SizesAgree ==
  \A m \in Modes : \A off \in 0 .. StripeSize - 1 : \A size \in 1 .. StripeSize - off :
    \A i \in 0 .. z - 1 :
      /\ SizesAddUp(m, off, size, i)
      /\ m # "REP_MODE" => ClientAgrees(m, off, size, i)
<1> SUFFICES ASSUME NEW m \in Modes, NEW off \in 0 .. StripeSize - 1,
                    NEW size \in 1 .. StripeSize - off, NEW i \in 0 .. z - 1
             PROVE  /\ SizesAddUp(m, off, size, i)
                    /\ m # "REP_MODE" => ClientAgrees(m, off, size, i)
  OBVIOUS
<1>1. IsFiniteSet(Blocks)
  BY Positive, FS_Interval DEF Blocks
<1>2. PICK it : Sums(SizeAt(m, off, size), it, Blocks)
  BY <1>1, SumsThere
<1>3. GroupData(i) \in SUBSET DataBlocks /\ PlanBlocks(off, size, i) \in SUBSET Blocks
  BY GroupsOfBlocks, Positive DEF PlanBlocks, DataBlocks, Blocks
<1>4. getClusterAppendSize(m, off, size, i) = it[PlanBlocks(off, size, i)]
  <2>1. MapThenSumSet(LAMBDA b : DataSlices(off, size)[b].size, GroupData(i)) = it[GroupData(i)]
    BY <1>1, <1>2, <1>3, SumOfData
  <2>. QED
    BY <1>1, <1>2, <2>1, PlanAddsUp DEF getClusterAppendSize
<1>5. SizesAddUp(m, off, size, i)
  <2>1. MapThenSumSet(LAMBDA b : SliceOf(m, off, size, b).size, PlanBlocks(off, size, i))
          = it[PlanBlocks(off, size, i)]
    BY <1>1, <1>2, <1>3, SumOfSlices
  <2>. QED
    BY <1>4, <2>1 DEF SizesAddUp
<1>6. ASSUME m # "REP_MODE" PROVE ClientAgrees(m, off, size, i)
  <2>1. MapThenSumSet(LAMBDA b : node_slice_size(m, off, size, b), PlanBlocks(off, size, i))
          = it[PlanBlocks(off, size, i)]
    BY <1>1, <1>2, <1>3, <1>6, SumOfNodeSizes
  <2>. QED
    BY <1>4, <2>1 DEF ClientAgrees
<1>. QED
  BY <1>5, <1>6

-----------------------------------------------------------------------------
(* Types.                                                                  *)

\* Slices under way, what files hold, and the threads of handleMergeParity.
SliceSet   == [no : 1 .. MaxAppends, file : Files, node : Nodes,
               offset : Int, size : Nat \ {0}, serialized : BOOLEAN]
OwnedSet   == [kind : {"slice", "raw"}, own : SliceSet, from : SliceSet]
MergedSet  == [kind : {"merged"}, slices : SUBSET OwnedSet, late : SUBSET SliceSet]
PieceSet   == OwnedSet \union MergedSet \union [kind : {"garbage"}]
ReadSet    == [slices : SUBSET OwnedSet, late : SUBSET SliceSet]
MergeSet   == [file : Files, node : Nodes, read : ReadSet \union {None}]

\* The entries of m_cur_offset_table: a client in the middle of a stripe.
EntrySet   == [stripe : StripeIds, offset : 1 .. StripeSize - 1]

\* The types, in parts.  A stripe id is taken by at most one append, and a
\* request is of the last append, for a stripe that is placed.
Counters ==
  /\ mode \in AppendModes
  /\ appends \in 0 .. MaxAppends /\ resets \in Nat
  /\ m_cur_stripe_id \in 0 .. appends
Tables ==
  /\ m_cur_offset_table \in [Clients -> {None} \union EntrySet]
  /\ m_stripe_table \in [StripeIds -> Placements \union {None}]
Asked ==
  /\ request # None =>
       /\ request \in Requests /\ request.no = appends
       /\ request.offset + request.size <= StripeSize
       /\ m_stripe_table[request.stripe] \in Placements
  /\ group \in [Groups -> {"none", "sent", "committed"}]
Threads ==
  /\ waiting \subseteq SliceSet /\ backlog \subseteq SliceSet
  /\ merging \subseteq MergeSet
  /\ \A m \in merging : m.file[2] \notin DataBlocks
Disks ==
  /\ file \in [Nodes -> [Files -> Seq(PieceSet)]]
  /\ ended \in [Nodes \union {Coordinator} -> {None} \union Ends]
TypeInv == Counters /\ Tables /\ Asked /\ Threads /\ Disks

\* What is assumed of the bounds, one by one.
LEMMA Bounds ==
  /\ Sizes \subseteq 1 .. StripeSize /\ AppendModes \subseteq Modes /\ Watched \subseteq Blocks
  /\ MaxAppends \in Nat /\ MaxResets \in Nat /\ MaxLate \in Nat
  BY AppendAssumption

\* The slices of an append's plan are not empty, and belong to blocks of the
\* group.
LEMMA CutTyped ==
  ASSUME NEW m \in Modes, NEW off \in 0 .. StripeSize - 1, NEW size \in 1 .. StripeSize - off,
         NEW i \in Groups, NEW b \in PlanBlocks(off, size, i)
  PROVE  /\ b \in Blocks
         /\ SliceOf(m, off, size, b) \in [size : Nat \ {0}, offset : Int]
         /\ b \in DataBlocks => b \in GroupData(i)
         /\ b \notin DataBlocks => b \in GroupParity(i)
<1>1. GroupData(i) \subseteq DataBlocks /\ GroupParity(i) \subseteq Blocks \ DataBlocks
  BY GroupsOfBlocks DEF Groups
<1>2. DataBlocks \subseteq Blocks
  BY Positive DEF DataBlocks, Blocks
<1>3. off \in Nat /\ size \in Nat \ {0}
  BY Positive
<1>4. CASE b \in GroupData(i)
  <2>1. DataSlices(off, size) \in [DataBlocks -> [size : Nat, offset : Int]]
    BY <1>3, SlicesTile DEF Tiles
  <2>2. DataSlices(off, size)[b].size > 0
    BY <1>1, <1>4 DEF PlanBlocks
  <2>. QED
    BY <1>1, <1>2, <1>4, <2>1, <2>2 DEF SliceOf
<1>5. CASE b \in GroupParity(i)
  <2>1. ParitySlice(m, off, size) \in [size : Nat \ {0}, offset : Int]
    BY ParityShape
  <2>. QED
    BY <1>1, <1>5, <2>1 DEF SliceOf
<1>. QED
  BY <1>4, <1>5 DEF PlanBlocks

\* What SendSlices sends are slices, to nodes that run.
LEMMA SlicesTyped ==
  ASSUME TypeInv, request # None, NEW i \in Groups
  PROVE  /\ Slices(i) \subseteq SliceSet
         /\ \A s \in Slices(i) : ended[s.node] = None
  <1> SUFFICES ASSUME NEW b \in Watched \intersect PlanBlocks(request.offset, request.size, i)
               PROVE  Slice(b) \in SliceSet
    BY DEF Slices
  <1>1. /\ request \in Requests /\ request.offset \in 0 .. StripeSize - 1
        /\ request.size \in 1 .. StripeSize - request.offset
        /\ m_stripe_table[request.stripe] \in Placements /\ mode \in Modes
    BY Positive, Bounds DEF TypeInv, Asked, Counters, Requests
  <1>2. SliceOf(mode, request.offset, request.size, b) \in [size : Nat \ {0}, offset : Int]
    BY <1>1, CutTyped
  <1>3. m_stripe_table[request.stripe][b] \in Nodes
    BY <1>1 DEF Placements
  <1>4. <<request.stripe, b>> \in Files
    BY <1>1 DEF Requests, Files
  <1>5. is_serialized(request.offset, request.size) \in BOOLEAN
    BY DEF is_serialized
  <1>. QED
    BY <1>1, <1>2, <1>3, <1>4, <1>5 DEF Slice, SliceSet, Requests

\* The types hold at the start.
LEMMA InitTypeInv == Init => TypeInv
<1> SUFFICES ASSUME Init PROVE TypeInv
  OBVIOUS
<1>1. \A n \in Nodes, f \in Files : file[n][f] = << >>
  BY DEF Init
<1>2. file \in [Nodes -> [Files -> Seq(PieceSet)]]
  BY DEF Init
<1>. QED
  BY <1>2, Bounds DEF Init, TypeInv, Counters, Tables, Asked, Threads, Disks

\* UploadAppendValue keeps the types: an entry stays within its stripe.
LEMMA UploadTyped ==
  ASSUME TypeInv, NEW c \in Clients, NEW size \in Sizes, UploadAppendValue(c, size)
  PROVE  TypeInv'
<1> DEFINE entry == OffsetEntry(c)
<1>1. /\ appends < MaxAppends /\ appends' = appends + 1 /\ appends \in 0 .. MaxAppends
      /\ request = None
  BY DEF UploadAppendValue, TypeInv, Counters
<1>2. size \in 1 .. StripeSize
  BY Bounds
<1>3. entry \in [stripe : StripeIds, offset : 0 .. StripeSize - 1]
  <2>1. m_cur_stripe_id \in StripeIds
    BY <1>1, Bounds DEF TypeInv, Counters, StripeIds
  <2>2. CASE m_cur_offset_table[c] = None
    BY <2>1, <2>2, Positive DEF OffsetEntry
  <2>3. CASE m_cur_offset_table[c] # None
    <3>1. m_cur_offset_table[c] \in EntrySet
      BY <2>3 DEF TypeInv, Tables
    <3>. QED
      BY <2>3, <3>1, Positive DEF OffsetEntry, EntrySet
  <2>. QED
    BY <2>2, <2>3
<1>4. entry.offset + size <= StripeSize
  BY DEF UploadAppendValue
<1>5. Counters'
  <2>1. m_cur_stripe_id' = m_cur_stripe_id + (IF m_cur_offset_table[c] = None THEN 1 ELSE 0)
        /\ mode' = mode /\ resets' = resets
    BY DEF UploadAppendValue
  <2>2. m_cur_stripe_id' \in 0 .. m_cur_stripe_id + 1 /\ m_cur_stripe_id \in 0 .. appends
    BY <2>1 DEF TypeInv, Counters
  <2>3. m_cur_stripe_id' \in 0 .. appends' /\ appends' \in 0 .. MaxAppends
    BY <1>1, <2>2, Bounds
  <2>. QED
    BY <2>1, <2>3 DEF TypeInv, Counters
<1>6. Threads' /\ Disks'
  <2>1. Threads'
    BY DEF UploadAppendValue, TypeInv, Threads
  <2>2. ended' \in [Nodes \union {Coordinator} -> {None} \union Ends]
    <3>1. [why |-> "no stripe"] \in Ends
      BY DEF Ends
    <3>2. ended' = ended \/ ended' = [ended EXCEPT ![Coordinator] = [why |-> "no stripe"]]
      BY DEF UploadAppendValue
    <3>. QED
      BY <3>1, <3>2 DEF TypeInv, Disks
  <2>. QED
    BY <2>1, <2>2 DEF UploadAppendValue, TypeInv, Disks
<1>7. CASE entry.offset > 0 /\ m_stripe_table[entry.stripe] = None
  <2>1. UNCHANGED <<m_cur_offset_table, m_stripe_table, request, group>>
    BY <1>7 DEF UploadAppendValue
  <2>. QED
    BY <1>1, <1>5, <1>6, <2>1 DEF TypeInv, Tables, Asked
<1>8. CASE ~ (entry.offset > 0 /\ m_stripe_table[entry.stripe] = None)
  <2>1. PICK placed \in IF entry.offset = 0 THEN Placements ELSE {m_stripe_table[entry.stripe]} :
          m_stripe_table' = [m_stripe_table EXCEPT ![entry.stripe] = placed]
    BY <1>8 DEF UploadAppendValue
  <2>2. placed \in Placements
    BY <1>3, <1>8, <2>1, Positive DEF TypeInv, Tables
  <2>3. /\ request' = [no |-> appends', stripe |-> entry.stripe,
                       offset |-> entry.offset, size |-> size]
        /\ m_cur_offset_table' = [m_cur_offset_table EXCEPT ![c] = AdvancedEntry(entry, size)]
        /\ group' = group
    BY <1>8 DEF UploadAppendValue
  <2>4. m_stripe_table' \in [StripeIds -> Placements \union {None}]
        /\ m_stripe_table'[entry.stripe] = placed
    BY <1>3, <2>1, <2>2 DEF TypeInv, Tables
  <2>5. AdvancedEntry(entry, size) \in {None} \union EntrySet
    <3> HIDE DEF entry
    <3>1. CASE entry.offset + size = StripeSize
      BY <3>1 DEF AdvancedEntry
    <3>2. CASE entry.offset + size # StripeSize
      <4>1. entry.offset + size \in 1 .. StripeSize - 1
        BY <1>2, <1>3, <1>4, <3>2, Positive
      <4>2. AdvancedEntry(entry, size) = [stripe |-> entry.stripe, offset |-> entry.offset + size]
        BY <1>3, <3>2 DEF AdvancedEntry
      <4>. QED
        BY <1>3, <4>1, <4>2 DEF EntrySet
    <3>. QED
      BY <3>1, <3>2
  <2>6. Tables'
    BY <2>3, <2>4, <2>5 DEF TypeInv, Tables
  <2>7. Asked'
    <3>1. appends' \in 1 .. MaxAppends
      BY <1>1, Bounds
    <3> HIDE DEF entry
    <3>2. request' \in Requests
      BY <1>2, <1>3, <2>3, <3>1 DEF Requests
    <3>. QED
      BY <1>4, <2>2, <2>3, <2>4, <3>2 DEF TypeInv, Asked
  <2>. QED
    BY <1>5, <1>6, <2>6, <2>7 DEF TypeInv
<1>. QED
  BY <1>7, <1>8

\* A file with one piece more.
LEMMA Appended ==
  ASSUME NEW S, NEW seq \in Seq(S), NEW e \in S
  PROVE  /\ Append(seq, e) \in Seq(S)
         /\ DOMAIN Append(seq, e) = 1 .. Len(seq) + 1 /\ DOMAIN seq = 1 .. Len(seq)
         /\ \A j \in DOMAIN seq : Append(seq, e)[j] = seq[j]
         /\ Append(seq, e)[Len(seq) + 1] = e
         /\ Len(seq) \in Nat
<1>1. Append(seq, e) \in Seq(S) /\ Len(Append(seq, e)) = Len(seq) + 1
  BY AppendProperties
<1>2. DOMAIN Append(seq, e) = 1 .. Len(Append(seq, e)) /\ DOMAIN seq = 1 .. Len(seq)
      /\ Len(seq) \in Nat
  BY <1>1, LenProperties
<1>. QED
  BY <1>1, <1>2, AppendProperties

\* The end of a node keeps the types.
LEMMA EndTyped ==
  ASSUME TypeInv, NEW n \in Nodes, NEW why \in Ends, EndNode(n, why)
  PROVE  Threads' /\ Disks'
BY DEF TypeInv, Threads, Disks, EndNode

\* WriteSlice keeps the types.
LEMMA WriteTyped ==
  ASSUME TypeInv, NEW h \in waiting, NEW c \in backlog, WriteSlice(h, c)
  PROVE  TypeInv'
<1>1. h \in SliceSet /\ c \in SliceSet /\ h.node \in Nodes /\ h.file \in Files
  BY DEF TypeInv, Threads, SliceSet
<1>2. Counters' /\ Tables' /\ Asked'
  BY DEF WriteSlice, TypeInv, Counters, Tables, Asked
<1>3. CASE h.file[2] \in DataBlocks /\ h.offset = 0 /\ file[h.node][h.file] # <<>>
  <2>1. EndNode(h.node, [why |-> "file exists", at |-> h.file, no |-> h.no])
    BY <1>3 DEF WriteSlice
  <2>2. [why |-> "file exists", at |-> h.file, no |-> h.no] \in Ends
    BY <1>1 DEF Ends, SliceSet
  <2>. QED
    BY <1>1, <1>2, <2>1, <2>2, EndTyped DEF TypeInv
<1>4. CASE ~ (h.file[2] \in DataBlocks /\ h.offset = 0 /\ file[h.node][h.file] # <<>>)
  <2>1. /\ file' = [file EXCEPT ![h.node][h.file] = Append(@, Piece(h, c))]
        /\ waiting' = waiting \ {h} /\ backlog' = backlog \ {c}
        /\ UNCHANGED <<merging, ended>>
    BY <1>4 DEF WriteSlice
  <2>2. Piece(h, c) \in PieceSet
    BY <1>1 DEF Piece, PieceSet, OwnedSet
  <2>3. file[h.node][h.file] \in Seq(PieceSet)
    BY <1>1 DEF TypeInv, Disks
  <2>4. Append(file[h.node][h.file], Piece(h, c)) \in Seq(PieceSet)
    BY <2>2, <2>3, Appended
  <2>5. file' \in [Nodes -> [Files -> Seq(PieceSet)]]
    BY <1>1, <2>1, <2>4 DEF TypeInv, Disks
  <2>. QED
    BY <1>2, <2>1, <2>5 DEF TypeInv, Threads, Disks
<1>. QED
  BY <1>3, <1>4

\* ReadRecords keeps the types.
LEMMA ReadTyped ==
  ASSUME TypeInv, NEW m \in merging, ReadRecords(m)
  PROVE  TypeInv'
<1> DEFINE pieces == Pieces(m.node, m.file)
<1>1. m \in MergeSet /\ m.node \in Nodes /\ m.file \in Files /\ m.file[2] \notin DataBlocks
  BY DEF TypeInv, Threads, MergeSet
<1>2. Counters' /\ Tables' /\ Asked'
  BY DEF ReadRecords, TypeInv, Counters, Tables, Asked
<1>3. \A p \in pieces : p \in PieceSet
  <2>1. file[m.node][m.file] \in Seq(PieceSet)
    BY <1>1 DEF TypeInv, Disks
  <2>2. \A j \in DOMAIN file[m.node][m.file] : file[m.node][m.file][j] \in PieceSet
    BY <2>1, ElementOfSeq, LenProperties
  <2>. QED
    BY <2>2 DEF Pieces
<1>4. ASSUME NEW why \in Ends, EndNode(m.node, why) PROVE TypeInv'
  BY <1>1, <1>2, <1>4, EndTyped DEF TypeInv
<1>5. ASSUME \A p \in pieces : p.kind = "slice",
             merging' = (merging \ {m}) \union
                          {[m EXCEPT !.read = [slices |-> pieces, late |-> Late(m)]]},
             UNCHANGED <<waiting, backlog, file, ended>>
      PROVE  TypeInv'
  <2>1. pieces \subseteq OwnedSet
    BY <1>3, <1>5 DEF PieceSet, MergedSet
  <2>2. Late(m) \subseteq SliceSet
    BY DEF Late, TypeInv, Threads
  <2> DEFINE n == [m EXCEPT !.read = [slices |-> pieces, late |-> Late(m)]]
  <2> HIDE DEF pieces
  <2>3. n \in MergeSet /\ n.file = m.file
    BY <1>1, <2>1, <2>2 DEF MergeSet, ReadSet
  <2>4. Threads'
    BY <1>1, <1>5, <2>3 DEF TypeInv, Threads
  <2>5. Disks'
    BY <1>5 DEF TypeInv, Disks
  <2>. QED
    BY <1>2, <2>4, <2>5 DEF TypeInv
<1>6. ASSUME merging' = merging \ {m},
             \/ file' = [file EXCEPT ![m.node][m.file] = <<[kind |-> "garbage"]>>]
             \/ UNCHANGED file,
             UNCHANGED <<waiting, backlog, ended>>
      PROVE  TypeInv'
  <2> DEFINE g == <<[kind |-> "garbage"]>>
  <2>1. g \in Seq(PieceSet)
    BY DEF PieceSet
  <2> HIDE DEF g
  <2>3. [file EXCEPT ![m.node][m.file] = g] \in [Nodes -> [Files -> Seq(PieceSet)]]
    BY <1>1, <2>1 DEF TypeInv, Disks
  <2>2. file' \in [Nodes -> [Files -> Seq(PieceSet)]]
    BY <1>6, <2>3 DEF g, TypeInv, Disks
  <2>. QED
    BY <1>2, <1>6, <2>2 DEF TypeInv, Threads, Disks
<1>7. [why |-> "no file"] \in Ends /\ [why |-> "no record"] \in Ends
  BY DEF Ends
<1>. QED
  BY <1>4, <1>5, <1>6, <1>7 DEF ReadRecords

\* The types are inductive.
LEMMA StepTypeInv == TypeInv /\ [Next]_vars => TypeInv'
<1> SUFFICES ASSUME TypeInv, [Next]_vars PROVE TypeInv'
  OBVIOUS
<1>1. CASE \E c \in Clients, size \in Sizes : UploadAppendValue(c, size)
  BY <1>1, UploadTyped
<1>2. CASE setParameter
  BY <1>2, Bounds DEF setParameter, TypeInv, Counters, Tables, Asked, Threads, Disks
<1>3. ASSUME NEW i \in Groups, SendSlices(i) PROVE TypeInv'
  <2>1. Slices(i) \subseteq SliceSet
    BY <1>3, SlicesTyped DEF SendSlices
  <2>2. Asked' /\ Threads'
    BY <1>3, <2>1 DEF SendSlices, TypeInv, Asked, Threads
  <2>. QED
    BY <1>3, <2>2 DEF SendSlices, TypeInv, Counters, Tables, Disks
<1>4. ASSUME NEW i \in Groups, MergeAndReport(i) PROVE TypeInv'
  <2>1. Merges(i) \subseteq MergeSet /\ \A m \in Merges(i) : m.file[2] \notin DataBlocks
    <3>1. Slices(i) \subseteq SliceSet
      BY <1>4, SlicesTyped DEF MergeAndReport
    <3>2. ASSUME NEW s \in SliceSet PROVE [file |-> s.file, node |-> s.node, read |-> None] \in MergeSet
      BY DEF SliceSet, MergeSet
    <3>. QED
      BY <3>1, <3>2 DEF Merges
  <2>2. Asked' /\ Threads'
    BY <1>4, <2>1 DEF MergeAndReport, TypeInv, Asked, Threads
  <2>. QED
    BY <1>4, <2>2 DEF MergeAndReport, TypeInv, Counters, Tables, Disks
<1>5. CASE Acknowledge
  BY <1>5 DEF Acknowledge, TypeInv, Counters, Tables, Asked, Threads, Disks
<1>6. CASE \E h \in waiting, c \in backlog : WriteSlice(h, c)
  BY <1>6, WriteTyped
<1>7. ASSUME NEW m \in merging, ReadRecords(m) PROVE TypeInv'
  BY <1>7, ReadTyped
<1>8. ASSUME NEW m \in merging, WriteMerged(m) PROVE TypeInv'
  <2> DEFINE p == [kind |-> "merged", slices |-> m.read.slices, late |-> m.read.late]
  <2>1. m \in MergeSet /\ m.read \in ReadSet /\ m.node \in Nodes /\ m.file \in Files
    BY <1>8 DEF WriteMerged, TypeInv, Threads, MergeSet
  <2>2. p \in PieceSet
    BY <2>1 DEF PieceSet, MergedSet, ReadSet
  <2>3. <<p>> \in Seq(PieceSet)
    BY <2>2
  <2>4. file' \in [Nodes -> [Files -> Seq(PieceSet)]]
    BY <1>8, <2>1, <2>3 DEF WriteMerged, TypeInv, Disks
  <2>. QED
    BY <1>8, <2>4 DEF WriteMerged, TypeInv, Counters, Tables, Asked, Threads, Disks
<1>9. CASE UNCHANGED vars
  BY <1>9 DEF vars, TypeInv, Counters, Tables, Asked, Threads, Disks
<1>. QED
  BY <1>1, <1>2, <1>3, <1>4, <1>5, <1>6, <1>7, <1>8, <1>9 DEF Next, Finished

\* Whatever clients append and however the handlers are scheduled, the tables,
\* the request and the threads have the values the code takes them to have.
THEOREM TypeCorrect == Spec => []TypeOK
<1>1. TypeInv => TypeOK
  <2> SUFFICES ASSUME TypeInv PROVE TypeOK
    OBVIOUS
  <2>1. m_cur_stripe_id \in 0 .. MaxAppends
    BY Bounds DEF TypeInv, Counters
  <2>2. \A s \in waiting \union backlog : s.node \in Nodes /\ s.file \in Files /\ s.size > 0
    BY DEF TypeInv, Threads, SliceSet
  <2>. QED
    BY <2>1, <2>2 DEF TypeOK, TypeInv, Counters, Tables, Asked, Threads, Disks,
                      EntrySet, MergeSet
<1>. QED
  BY <1>1, InitTypeInv, StepTypeInv, PTL DEF Spec

-----------------------------------------------------------------------------
(* The history of the appends.                                             *)

\* An append as the history records it, the bytes it brought, and the blocks
\* of a group.
Made == [stripe : StripeIds, offset : 0 .. StripeSize - 1, size : 1 .. StripeSize]
End(a)   == a.offset + a.size
Bytes(a) == a.offset .. End(a) - 1
GroupBlocks(i) == GroupData(i) \union GroupParity(i)

\* The slice that append j of history H made of block b.
SliceIn(H, j, b) ==
  [no |-> j, file |-> <<H[j].stripe, b>>, node |-> m_stripe_table[H[j].stripe][b],
   offset |-> SliceOf(mode, H[j].offset, H[j].size, b).offset,
   size   |-> SliceOf(mode, H[j].offset, H[j].size, b).size,
   serialized |-> is_serialized(H[j].offset, H[j].size)]

\* The slices of append j for group i were sent, or the append committed: only
\* the last append may still be running.
Sent(j, i)      == ~ (request # None /\ j = appends /\ group[i] = "none")
Committed(j, i) == request # None /\ j = appends => group[i] = "committed"

\* The history is of all appends, within stripes that are placed, and ends
\* with the one that runs.
Recorded(H) ==
  /\ H \in [1 .. appends -> Made]
  /\ \A j \in 1 .. appends : /\ End(H[j]) <= StripeSize
                             /\ H[j].stripe < m_cur_stripe_id
                             /\ m_stripe_table[H[j].stripe] \in Placements
  /\ request # None => /\ H[appends].stripe = request.stripe
                       /\ H[appends].offset = request.offset
                       /\ H[appends].size = request.size
\* An append to a stripe begins where the earlier ones have ended,
InOrder(H) ==
  \A i, j \in 1 .. appends :
    i < j /\ H[i].stripe = H[j].stripe => End(H[i]) <= H[j].offset
\* and every byte before it was brought by one of them.
Gapless(H) ==
  \A j \in 1 .. appends : \A q \in 0 .. H[j].offset - 1 :
    \E i \in 1 .. j - 1 : H[i].stripe = H[j].stripe /\ q \in Bytes(H[i])
\* An entry of m_cur_offset_table is where the appends to its stripe have come
\* to, and no two clients have one stripe.
EntryOf(H, e) ==
  /\ e.stripe < m_cur_stripe_id /\ m_stripe_table[e.stripe] \in Placements
  /\ \A j \in 1 .. appends : H[j].stripe = e.stripe => End(H[j]) <= e.offset
  /\ \A q \in 0 .. e.offset - 1 :
       \E j \in 1 .. appends : H[j].stripe = e.stripe /\ q \in Bytes(H[j])
Entered(H) ==
  /\ \A c \in Clients : m_cur_offset_table[c] # None => EntryOf(H, m_cur_offset_table[c])
  /\ \A c, d \in Clients :
       c # d /\ m_cur_offset_table[c] # None /\ m_cur_offset_table[d] # None =>
         m_cur_offset_table[c].stripe # m_cur_offset_table[d].stripe
\* No proxy works on an append that is not running.
Idle == request = None => \A i \in Groups : group[i] = "none"
History(H) == Recorded(H) /\ InOrder(H) /\ Gapless(H) /\ Entered(H) /\ Idle

\* A slice under way, or the one a piece of a file was written for, is what
\* the plan made of its append.
Known(H, h) ==
  /\ h.no \in 1 .. appends /\ h.file[2] \in Watched /\ h = SliceIn(H, h.no, h.file[2])
  /\ \A i \in Groups : h.file[2] \in GroupBlocks(i) => Sent(h.no, i)
\* A piece was written for a slice of its file that waits no more; raw bytes
\* are of parities written by an append of a whole stripe.
Owned(H, n, f, p) ==
  /\ p \in OwnedSet /\ Known(H, p.own)
  /\ p.own.file = f /\ p.own.node = n /\ p.own \notin waiting
  /\ p.kind = "raw" => ~ p.own.serialized /\ f[2] \notin DataBlocks
\* The last append of a stripe of several was reported for the block's group:
\* only then is a parity merged, and the merged one is whole.
MergeDue(H, f) ==
  \E j \in 1 .. appends :
    /\ H[j].stripe = f[1] /\ H[j].offset > 0 /\ End(H[j]) = StripeSize
    /\ \A i \in Groups : f[2] \in GroupBlocks(i) => Committed(j, i)
MergedWhole(H, f, p) ==
  /\ p \in MergedSet /\ MergedRegion(p) = 0 .. BlockSize - 1
  /\ f[2] \notin DataBlocks /\ MergeDue(H, f)

\* Slices wait at nodes that run.
SlicesKnown(H) ==
  \A h \in waiting \union backlog : Known(H, h) /\ ended[h.node] = None
PiecesKnown(H) ==
  \A n \in Nodes, f \in Files : \A p \in Pieces(n, f) :
    Owned(H, n, f, p) \/ MergedWhole(H, f, p)
\* A slice sent to a node that runs still waits, or lies in its file, or was
\* merged.
Arrived(s) ==
  \/ s \in waiting
  \/ \E p \in Pieces(s.node, s.file) : p \in OwnedSet /\ p.own = s
  \/ \E p \in Pieces(s.node, s.file) : p \in MergedSet
NoneLost(H) ==
  \A j \in 1 .. appends, i \in Groups : Sent(j, i) =>
    \A b \in Watched \intersect PlanBlocks(H[j].offset, H[j].size, i) :
      ended[SliceIn(H, j, b).node] = None => Arrived(SliceIn(H, j, b))
\* A merge is due, alone with its file, and what it read covers the block.
Merging(H, m) ==
  /\ m.file[2] \in Watched \ DataBlocks
  /\ m.node = m_stripe_table[m.file[1]][m.file[2]] /\ ended[m.node] = None
  /\ mode # "REP_MODE" /\ MergeDue(H, m.file)
  /\ \A p \in Pieces(m.node, m.file) : p \in OwnedSet
  /\ m.read # None => MergedRegion(m.read) = 0 .. BlockSize - 1
  /\ \A o \in merging : o.file = m.file => o = m
MergesKnown(H) == \A m \in merging : Merging(H, m)
\* The ways a process may end.
NodesEnded ==
  /\ ended[Coordinator] = None
  /\ \A n \in Nodes :
       \/ ended[n] = None
       \/ ended[n].why = "no file"
       \/ /\ ended[n].why = "file exists"
          /\ \A p \in Pieces(n, ended[n].at) : p.own.no > ended[n].no

\* The inductive invariant, of a history.
Handled(H) == SlicesKnown(H) /\ PiecesKnown(H) /\ NoneLost(H) /\ MergesKnown(H) /\ NodesEnded
AppendInv(H) == TypeInv /\ History(H) /\ Handled(H)

-----------------------------------------------------------------------------
(* The start, and an append.                                               *)

\* At the start the history is empty.
LEMMA InitAppend ==
  ASSUME Init
  PROVE  \E H : AppendInv(H)
<1> DEFINE H == [j \in 1 .. 0 |-> j]
<1>1. appends = 0 /\ 1 .. appends = {} /\ request = None
  BY DEF Init
<1>2. H \in [1 .. appends -> Made]
  BY <1>1
<1> HIDE DEF H
<1>3. History(H)
  <2>1. Recorded(H) /\ InOrder(H) /\ Gapless(H)
    BY <1>1, <1>2 DEF Recorded, InOrder, Gapless
  <2>2. \A c \in Clients : m_cur_offset_table[c] = None
    BY DEF Init
  <2>3. Idle
    BY DEF Init, Idle
  <2>. QED
    BY <2>1, <2>2, <2>3 DEF History, Entered
<1>4. \A n \in Nodes, f \in Files : Pieces(n, f) = {}
  BY DEF Init, Pieces
<1>5. \A n \in Nodes \union {Coordinator} : ended[n] = None
  BY DEF Init
<1>6. Handled(H)
  <2>1. SlicesKnown(H) /\ MergesKnown(H)
    BY DEF Init, SlicesKnown, MergesKnown
  <2>2. PiecesKnown(H)
    BY <1>4 DEF PiecesKnown
  <2>3. NoneLost(H)
    BY <1>1 DEF NoneLost
  <2>4. NodesEnded
    BY <1>5 DEF NodesEnded
  <2>. QED
    BY <2>1, <2>2, <2>3, <2>4 DEF Handled
<1>. QED
  BY <1>3, <1>6, InitTypeInv DEF AppendInv

\* The values of a recorded append.
LEMMA MadeSizes ==
  ASSUME NEW H, Recorded(H), NEW j \in 1 .. appends
  PROVE  /\ H[j] \in Made /\ H[j].offset \in 0 .. StripeSize - 1
         /\ H[j].size \in 1 .. StripeSize - H[j].offset
         /\ End(H[j]) \in 1 .. StripeSize /\ End(H[j]) = H[j].offset + H[j].size
         /\ H[j].stripe \in StripeIds /\ H[j].stripe < m_cur_stripe_id
         /\ m_stripe_table[H[j].stripe] \in Placements
<1>1. H[j] \in Made /\ End(H[j]) <= StripeSize /\ H[j].stripe < m_cur_stripe_id
      /\ m_stripe_table[H[j].stripe] \in Placements
  BY DEF Recorded
<1>2. H[j].offset \in 0 .. StripeSize - 1 /\ H[j].size \in 1 .. StripeSize /\ H[j].stripe \in StripeIds
  BY <1>1 DEF Made
<1>3. End(H[j]) = H[j].offset + H[j].size
  BY DEF End
<1>. QED
  BY <1>1, <1>2, <1>3, Positive

\* A block is of one group.
LEMMA GroupOf ==
  ASSUME NEW b \in Blocks
  PROVE  \E i \in Groups : /\ b \in GroupBlocks(i)
                           /\ \A j \in Groups : b \in GroupBlocks(j) => j = i
BY GroupsOfBlocks DEF Groups, GroupBlocks

\* A step that leaves slices, merges, files and processes alone keeps what is
\* known of them, if the longer history knows as much.
LEMMA StillHandled ==
  ASSUME NEW H, NEW G, Handled(H), NoneLost(G)',
         UNCHANGED <<mode, waiting, backlog, merging, file, ended>>,
         \A h : Known(H, h) => Known(G, h)',
         \A f : MergeDue(H, f) => MergeDue(G, f)',
         \A j \in 1 .. appends : m_stripe_table'[H[j].stripe] = m_stripe_table[H[j].stripe]
  PROVE  Handled(G)'
<1>1. SlicesKnown(G)'
  BY DEF Handled, SlicesKnown
<1>2. \A n, f : Pieces(n, f)' = Pieces(n, f)
  BY DEF Pieces
<1>3. PiecesKnown(G)'
  <2> SUFFICES ASSUME NEW n \in Nodes, NEW f \in Files, NEW p \in Pieces(n, f)
               PROVE  Owned(G, n, f, p)' \/ MergedWhole(G, f, p)'
    BY <1>2 DEF PiecesKnown
  <2>1. CASE Owned(H, n, f, p)
    BY <2>1 DEF Owned
  <2>2. CASE MergedWhole(H, f, p)
    BY <2>2 DEF MergedWhole
  <2>. QED
    BY <2>1, <2>2 DEF Handled, PiecesKnown
<1>4. MergesKnown(G)'
  <2> SUFFICES ASSUME NEW m \in merging PROVE Merging(G, m)'
    BY DEF MergesKnown
  <2>1. Merging(H, m)
    BY DEF Handled, MergesKnown
  <2>2. m_stripe_table'[m.file[1]] = m_stripe_table[m.file[1]]
    BY <2>1 DEF Merging, MergeDue
  <2>. QED
    BY <1>2, <2>1, <2>2 DEF Merging
<1>5. NodesEnded'
  BY <1>2 DEF Handled, NodesEnded
<1>. QED
  BY <1>1, <1>3, <1>4, <1>5 DEF Handled

\* Where an append starts: at its client's entry, or in a new stripe.
LEMMA EntryTyped ==
  ASSUME TypeInv, appends < MaxAppends, NEW c \in Clients
  PROVE  LET entry == OffsetEntry(c) IN
         /\ entry.stripe \in StripeIds /\ entry.offset \in 0 .. StripeSize - 1
         /\ m_cur_offset_table[c] = None => entry.stripe = m_cur_stripe_id /\ entry.offset = 0
         /\ m_cur_offset_table[c] # None =>
              /\ entry = m_cur_offset_table[c] /\ entry \in EntrySet /\ entry.offset > 0
<1>1. m_cur_stripe_id \in StripeIds
  BY Bounds DEF TypeInv, Counters, StripeIds
<1>2. CASE m_cur_offset_table[c] = None
  BY <1>1, <1>2, Positive DEF OffsetEntry
<1>3. CASE m_cur_offset_table[c] # None
  <2>1. m_cur_offset_table[c] \in EntrySet
    BY <1>3 DEF TypeInv, Tables
  <2>. QED
    BY <1>3, <2>1, Positive DEF OffsetEntry, EntrySet
<1>. QED
  BY <1>2, <1>3

\* UploadAppendValue adds the append to the history.  That it adjoins what is
\* there is what the entries of m_cur_offset_table say.
LEMMA UploadKept ==
  ASSUME NEW H, AppendInv(H), NEW c \in Clients, NEW size \in Sizes, UploadAppendValue(c, size)
  PROVE  \E G : AppendInv(G)'
<1> DEFINE entry == OffsetEntry(c)
           new == [stripe |-> entry.stripe, offset |-> entry.offset, size |-> size]
           N == appends + 1
<1>1. TypeInv /\ History(H) /\ Handled(H) /\ TypeInv'
  BY UploadTyped DEF AppendInv
<1>2. /\ appends \in 0 .. MaxAppends /\ appends < MaxAppends /\ appends' = N
      /\ request = None /\ entry.offset + size <= StripeSize /\ size \in 1 .. StripeSize
      /\ m_cur_stripe_id \in Nat
  <2>1. /\ appends < MaxAppends /\ appends' = N /\ request = None
        /\ entry.offset + size <= StripeSize
    BY DEF UploadAppendValue
  <2>2. appends \in 0 .. MaxAppends /\ m_cur_stripe_id \in 0 .. appends
    BY <1>1 DEF TypeInv, Counters
  <2> HIDE DEF entry
  <2>3. m_cur_stripe_id \in Nat
    BY <2>2, Bounds
  <2>4. size \in 1 .. StripeSize
    BY Bounds
  <2>. QED
    BY <2>1, <2>2, <2>3, <2>4
<1>3. /\ entry.stripe \in StripeIds /\ entry.offset \in 0 .. StripeSize - 1
      /\ m_cur_offset_table[c] = None => entry.stripe = m_cur_stripe_id /\ entry.offset = 0
      /\ m_cur_offset_table[c] # None =>
           /\ entry = m_cur_offset_table[c] /\ entry \in EntrySet /\ entry.offset > 0
  BY <1>1, <1>2, EntryTyped
<1> HIDE DEF entry
<1>4. m_cur_offset_table[c] # None => EntryOf(H, entry)
  BY <1>1, <1>3 DEF History, Entered
<1>5. ~ (entry.offset > 0 /\ m_stripe_table[entry.stripe] = None)
  <2> SUFFICES ASSUME entry.offset > 0 PROVE m_stripe_table[entry.stripe] # None
    OBVIOUS
  <2>1. m_stripe_table[entry.stripe] \in Placements
    BY <1>3, <1>4 DEF EntryOf
  <2>. QED
    BY <2>1, NamesAssumption
<1>6. /\ \E placed \in IF entry.offset = 0 THEN Placements ELSE {m_stripe_table[entry.stripe]} :
           m_stripe_table' = [m_stripe_table EXCEPT ![entry.stripe] = placed]
      /\ request' = [no |-> N, stripe |-> entry.stripe, offset |-> entry.offset, size |-> size]
      /\ m_cur_offset_table' = [m_cur_offset_table EXCEPT ![c] = AdvancedEntry(entry, size)]
      /\ m_cur_stripe_id' = m_cur_stripe_id + (IF m_cur_offset_table[c] = None THEN 1 ELSE 0)
      /\ UNCHANGED <<ended, mode, group, waiting, backlog, merging, file, resets>>
  BY <1>2, <1>5 DEF UploadAppendValue, entry
<1>7. PICK placed \in IF entry.offset = 0 THEN Placements ELSE {m_stripe_table[entry.stripe]} :
        m_stripe_table' = [m_stripe_table EXCEPT ![entry.stripe] = placed]
  BY <1>6
<1>8. /\ m_stripe_table'[entry.stripe] \in Placements
      /\ \A id \in StripeIds \ {entry.stripe} : m_stripe_table'[id] = m_stripe_table[id]
      /\ m_cur_offset_table[c] # None => m_stripe_table'[entry.stripe] = m_stripe_table[entry.stripe]
  <2>1. placed \in Placements
    BY <1>3, <1>4, <1>7 DEF EntryOf
  <2>2. m_stripe_table \in [StripeIds -> Placements \union {None}]
    BY <1>1 DEF TypeInv, Tables
  <2>. QED
    BY <1>3, <1>7, <2>1, <2>2
<1>25. PICK G : G = [j \in 1 .. N |-> IF j = N THEN new ELSE H[j]]
  OBVIOUS
<1>9. /\ DOMAIN G = 1 .. N /\ G[N] = new /\ new \in Made
      /\ \A j \in 1 .. appends : G[j] = H[j] /\ j \in 1 .. N /\ j # N
      /\ \A j \in 1 .. N : j = N \/ j \in 1 .. appends
      /\ N \in 1 .. N /\ N \in Nat
  <2>1. new \in Made
    BY <1>2, <1>3 DEF Made
  <2>. QED
    BY <1>2, <1>25, <2>1
<1> HIDE DEF N
<1>10. \A j \in 1 .. appends :
         /\ H[j] \in Made /\ H[j].stripe \in StripeIds /\ H[j].stripe < m_cur_stripe_id
         /\ H[j].stripe \in Int /\ m_stripe_table[H[j].stripe] \in Placements
         /\ End(H[j]) \in 1 .. StripeSize /\ H[j].offset \in 0 .. StripeSize - 1
         /\ m_stripe_table'[H[j].stripe] = m_stripe_table[H[j].stripe]
  <2> SUFFICES ASSUME NEW j \in 1 .. appends
               PROVE  /\ H[j] \in Made /\ H[j].stripe \in StripeIds /\ H[j].stripe < m_cur_stripe_id
                      /\ H[j].stripe \in Int /\ m_stripe_table[H[j].stripe] \in Placements
                      /\ End(H[j]) \in 1 .. StripeSize /\ H[j].offset \in 0 .. StripeSize - 1
                      /\ m_stripe_table'[H[j].stripe] = m_stripe_table[H[j].stripe]
    OBVIOUS
  <2>1. /\ H[j] \in Made /\ H[j].stripe \in StripeIds /\ H[j].stripe < m_cur_stripe_id
        /\ m_stripe_table[H[j].stripe] \in Placements
        /\ End(H[j]) \in 1 .. StripeSize /\ H[j].offset \in 0 .. StripeSize - 1
    BY <1>1, MadeSizes DEF History
  <2>2. H[j].stripe \in Int
    BY <2>1 DEF StripeIds
  <2>3. H[j].stripe = entry.stripe => m_cur_offset_table[c] # None
    BY <1>2, <1>3, <2>1, <2>2
  <2>. QED
    BY <1>8, <2>1, <2>2, <2>3
<1>11. entry.stripe < m_cur_stripe_id' /\ entry.stripe \in Int
       /\ \A x \in Int : x < m_cur_stripe_id => x < m_cur_stripe_id'
  <2>1. entry.stripe \in Int
    BY <1>3 DEF StripeIds
  <2>2. m_cur_offset_table[c] # None => entry.stripe < m_cur_stripe_id
    BY <1>4 DEF EntryOf
  <2>. QED
    BY <1>2, <1>3, <1>6, <2>1, <2>2
<1>12. \A i \in 1 .. appends : H[i].stripe = entry.stripe => End(H[i]) <= entry.offset
  <2>1. CASE m_cur_offset_table[c] = None
    BY <1>2, <1>3, <1>10, <2>1
  <2>2. CASE m_cur_offset_table[c] # None
    BY <1>4, <2>2 DEF EntryOf
  <2>. QED
    BY <2>1, <2>2
<1>13. \A q \in 0 .. entry.offset - 1 :
         \E j \in 1 .. appends : H[j].stripe = entry.stripe /\ q \in Bytes(H[j])
  <2>1. CASE m_cur_offset_table[c] = None
    BY <1>3, <2>1
  <2>2. CASE m_cur_offset_table[c] # None
    BY <1>4, <2>2 DEF EntryOf
  <2>. QED
    BY <2>1, <2>2
<1>14. End(new) = entry.offset + size /\ new.stripe = entry.stripe /\ new.offset = entry.offset
       /\ new.size = size
  BY DEF End
<1> HIDE DEF new
<1>15. request' # None
  <2>1. request' \in Requests
    BY <1>2, <1>3, <1>6, Bounds DEF Requests, N
  <2>. QED
    BY <2>1, NamesAssumption
<1>16. Recorded(G)'
  <2>1. G \in [1 .. N -> Made]
    BY <1>9, <1>10, <1>25
  <2>2. ASSUME NEW j \in 1 .. N
        PROVE  /\ End(G[j]) <= StripeSize /\ G[j].stripe < m_cur_stripe_id'
               /\ m_stripe_table'[G[j].stripe] \in Placements
    <3>1. CASE j = N
      BY <1>2, <1>8, <1>9, <1>11, <1>14, <3>1
    <3>2. CASE j \in 1 .. appends
      BY <1>9, <1>10, <1>11, <3>2
    <3>. QED
      BY <1>9, <3>1, <3>2
  <2>3. G[N].stripe = request'.stripe /\ G[N].offset = request'.offset /\ G[N].size = request'.size
    BY <1>6, <1>9, <1>14
  <2>. QED
    BY <1>2, <2>1, <2>2, <2>3 DEF Recorded
<1>17. InOrder(G)'
  <2>1. ASSUME NEW i \in 1 .. N, NEW j \in 1 .. N, i < j, G[i].stripe = G[j].stripe
        PROVE  End(G[i]) <= G[j].offset
    <3>1. i \in 1 .. appends
      BY <1>2, <2>1 DEF N
    <3>2. CASE j = N
      BY <1>9, <1>12, <1>14, <2>1, <3>1, <3>2
    <3>3. CASE j \in 1 .. appends
      BY <1>1, <1>9, <2>1, <3>1, <3>3 DEF History, InOrder
    <3>. QED
      BY <1>9, <3>2, <3>3
  <2>. QED
    BY <1>2, <2>1 DEF InOrder
<1>18. Gapless(G)'
  <2>1. ASSUME NEW j \in 1 .. N, NEW q \in 0 .. G[j].offset - 1
        PROVE  \E i \in 1 .. j - 1 : G[i].stripe = G[j].stripe /\ q \in Bytes(G[i])
    <3>1. CASE j = N
      <4>1. PICK i \in 1 .. appends : H[i].stripe = entry.stripe /\ q \in Bytes(H[i])
        BY <1>9, <1>13, <1>14, <2>1, <3>1
      <4>2. i \in 1 .. j - 1
        BY <1>2, <3>1 DEF N
      <4>. QED
        BY <1>9, <1>14, <3>1, <4>1, <4>2
    <3>2. CASE j \in 1 .. appends
      <4>1. q \in 0 .. H[j].offset - 1
        BY <1>9, <2>1, <3>2
      <4>2. PICK i \in 1 .. j - 1 : H[i].stripe = H[j].stripe /\ q \in Bytes(H[i])
        BY <1>1, <3>2, <4>1 DEF History, Gapless
      <4>3. i \in 1 .. appends
        BY <1>2, <3>2
      <4>. QED
        BY <1>9, <3>2, <4>2, <4>3
    <3>. QED
      BY <1>9, <3>1, <3>2
  <2>. QED
    BY <1>2, <2>1 DEF Gapless
<1>19. Entered(G)'
  <2> DEFINE tbl == m_cur_offset_table
  <2>7. PICK adv : adv = AdvancedEntry(entry, size)
    OBVIOUS
  <2>1. /\ tbl'[c] = adv /\ \A d \in Clients \ {c} : tbl'[d] = tbl[d]
    BY <1>1, <1>6, <2>7 DEF TypeInv, Tables
  <2>2. adv # None => adv.stripe = entry.stripe /\ adv.offset = entry.offset + size
    <3>1. entry \in [stripe : StripeIds, offset : 0 .. StripeSize - 1]
      BY <1>3, EntryTyped, <1>1, <1>2 DEF entry, OffsetEntry, EntrySet
    <3>. QED
      BY <2>7, <3>1 DEF AdvancedEntry
  <2>3. adv # None => EntryOf(G, adv)'
    <3> SUFFICES ASSUME adv # None PROVE EntryOf(G, adv)'
      OBVIOUS
    <3>1. ASSUME NEW j \in 1 .. N, G[j].stripe = adv.stripe PROVE End(G[j]) <= adv.offset
      <4>1. CASE j = N
        BY <1>2, <1>3, <1>9, <1>14, <2>2, <4>1, Positive
      <4>2. CASE j \in 1 .. appends
        <5>1. End(G[j]) <= entry.offset /\ End(G[j]) \in Int
          BY <1>9, <1>10, <1>12, <2>2, <3>1, <4>2
        <5>. QED
          BY <1>2, <1>3, <2>2, <5>1, Positive
      <4>. QED
        BY <1>9, <4>1, <4>2
    <3>2. ASSUME NEW q \in 0 .. adv.offset - 1
          PROVE  \E j \in 1 .. N : G[j].stripe = adv.stripe /\ q \in Bytes(G[j])
      <4>1. CASE q \in 0 .. entry.offset - 1
        BY <1>9, <1>13, <2>2, <4>1
      <4>2. CASE q \in entry.offset .. entry.offset + size - 1
        BY <1>9, <1>14, <2>2, <4>2 DEF Bytes
      <4>. QED
        BY <1>2, <1>3, <2>2, <4>1, <4>2, Positive
    <3>. QED
      BY <1>2, <1>8, <1>11, <2>2, <3>1, <3>2 DEF EntryOf
  <2>4. ASSUME NEW d \in Clients \ {c}, NEW e, e = tbl[d], e # None
        PROVE  EntryOf(G, e)' /\ e.stripe # entry.stripe
    <3>1. EntryOf(H, e) /\ e \in EntrySet
      BY <1>1, <2>4 DEF History, Entered, TypeInv, Tables
    <3>2. e.stripe \in Int /\ e.stripe \in StripeIds /\ e.stripe < m_cur_stripe_id
      BY <3>1 DEF EntrySet, StripeIds, EntryOf
    <3>3. e.stripe # entry.stripe
      <4>1. CASE tbl[c] = None
        BY <1>2, <1>3, <3>2, <4>1
      <4>2. CASE tbl[c] # None
        BY <1>1, <1>3, <2>4, <4>2 DEF History, Entered
      <4>. QED
        BY <4>1, <4>2
    <3>4. ASSUME NEW j \in 1 .. N, G[j].stripe = e.stripe PROVE End(G[j]) <= e.offset
      <4>1. j \in 1 .. appends
        BY <1>9, <1>14, <3>3, <3>4
      <4>. QED
        BY <1>9, <3>1, <3>4, <4>1 DEF EntryOf
    <3>5. ASSUME NEW q \in 0 .. e.offset - 1
          PROVE  \E j \in 1 .. N : G[j].stripe = e.stripe /\ q \in Bytes(G[j])
      BY <1>9, <3>1 DEF EntryOf
    <3>6. m_stripe_table'[e.stripe] \in Placements
      BY <1>8, <3>1, <3>2, <3>3 DEF EntryOf
    <3>7. e.stripe < m_cur_stripe_id'
      BY <1>11, <3>2
    <3> HIDE DEF tbl
    <3>. QED
      BY <1>2, <3>3, <3>4, <3>5, <3>6, <3>7 DEF EntryOf
  <2>5. ASSUME NEW d \in Clients, tbl'[d] # None PROVE EntryOf(G, tbl[d])'
    <3>1. PICK e : e = tbl'[d]
      OBVIOUS
    <3>2. EntryOf(G, e)'
      <4>1. CASE d = c
        BY <2>1, <2>3, <2>5, <3>1, <4>1
      <4>2. CASE d # c
        BY <2>1, <2>4, <2>5, <3>1, <4>2
      <4>. QED
        BY <4>1, <4>2
    <3>. QED
      BY <3>1, <3>2 DEF EntryOf
  <2>6. ASSUME NEW d \in Clients, NEW e \in Clients, d # e, tbl'[d] # None, tbl'[e] # None
        PROVE  tbl'[d].stripe # tbl'[e].stripe
    <3>1. CASE d = c
      BY <2>1, <2>2, <2>4, <2>6, <3>1
    <3>2. CASE e = c
      BY <2>1, <2>2, <2>4, <2>6, <3>2
    <3>3. CASE d # c /\ e # c
      BY <1>1, <2>1, <2>6, <3>3 DEF History, Entered
    <3>. QED
      BY <3>1, <3>2, <3>3
  <2>. QED
    BY <2>5, <2>6 DEF Entered
<1>20. History(G)'
  BY <1>15, <1>16, <1>17, <1>18, <1>19 DEF History, Idle
<1>21. \A h : Known(H, h) => Known(G, h)'
  <2> SUFFICES ASSUME NEW h, Known(H, h) PROVE Known(G, h)'
    OBVIOUS
  <2>1. h.no \in 1 .. appends /\ h.no \in 1 .. N /\ h.no # N /\ G[h.no] = H[h.no]
    BY <1>9 DEF Known
  <2>2. SliceIn(G, h.no, h.file[2])' = SliceIn(H, h.no, h.file[2])
    BY <1>6, <1>10, <2>1 DEF SliceIn
  <2>3. \A i : Sent(h.no, i)'
    BY <1>2, <2>1 DEF Sent
  <2>. QED
    BY <1>2, <2>1, <2>2, <2>3 DEF Known
<1>22. \A f : MergeDue(H, f) => MergeDue(G, f)'
  <2> SUFFICES ASSUME NEW f, MergeDue(H, f) PROVE MergeDue(G, f)'
    OBVIOUS
  <2>1. PICK j \in 1 .. appends : H[j].stripe = f[1] /\ H[j].offset > 0 /\ End(H[j]) = StripeSize
    BY DEF MergeDue
  <2>2. \A i : Committed(j, i)'
    BY <1>2, <1>9, <2>1 DEF Committed
  <2>3. j \in 1 .. appends' /\ G[j] = H[j]
    BY <1>2, <1>9
  <2>. QED
    BY <2>1, <2>2, <2>3 DEF MergeDue
<1>23. NoneLost(G)'
  <2> SUFFICES ASSUME NEW j \in 1 .. N, NEW i \in Groups, Sent(j, i)',
                      NEW b \in Watched \intersect PlanBlocks(G[j].offset, G[j].size, i),
                      ended[SliceIn(G, j, b)'.node] = None
               PROVE  Arrived(SliceIn(G, j, b))'
    BY <1>2, <1>6 DEF NoneLost
  <2>1. j \in 1 .. appends
    <3>1. group[i] = "none"
      BY <1>1, <1>2 DEF History, Idle
    <3>. QED
      BY <1>2, <1>6, <1>9, <1>15, <3>1 DEF Sent
  <2>2. SliceIn(G, j, b)' = SliceIn(H, j, b) /\ G[j] = H[j]
    BY <1>6, <1>9, <1>10, <2>1 DEF SliceIn
  <2>3. Sent(j, i)
    BY <1>2 DEF Sent
  <2>4. Arrived(SliceIn(H, j, b))
    BY <1>1, <2>1, <2>2, <2>3 DEF Handled, NoneLost
  <2>. QED
    BY <1>6, <2>2, <2>4 DEF Arrived, Pieces
<1>24. Handled(G)'
  BY <1>1, <1>6, <1>10, <1>21, <1>22, <1>23, StillHandled
<1>. QED
  BY <1>1, <1>20, <1>24 DEF AppendInv

-----------------------------------------------------------------------------
(* The proxies.                                                            *)

\* A step that leaves the tables alone keeps the history.
LEMMA StillHistory ==
  ASSUME NEW H, History(H), Idle', request' = request \/ request' = None,
         UNCHANGED <<m_cur_stripe_id, m_cur_offset_table, m_stripe_table, appends>>
  PROVE  History(H)'
<1>1. Recorded(H)' /\ InOrder(H)' /\ Gapless(H)'
  BY DEF History, Recorded, InOrder, Gapless
<1>2. \A e : EntryOf(H, e)' = EntryOf(H, e)
  BY DEF EntryOf
<1>3. Entered(H)'
  BY <1>2 DEF History, Entered
<1>. QED
  BY <1>1, <1>3 DEF History

\* Slices change with the tables only.
LEMMA SameSlices ==
  ASSUME NEW H, UNCHANGED <<mode, m_stripe_table>>
  PROVE  \A j, b : SliceIn(H, j, b)' = SliceIn(H, j, b)
  BY DEF SliceIn

\* SendSlices sends what the plan made of the running append.
LEMMA SendKept ==
  ASSUME NEW H, AppendInv(H), NEW i \in Groups, SendSlices(i)
  PROVE  AppendInv(H)'
<1>1. TypeInv /\ History(H) /\ Handled(H) /\ TypeInv'
  <2>1. TypeInv'
    BY StepTypeInv DEF AppendInv, Next
  <2>. QED
    BY <2>1 DEF AppendInv
<1>2. /\ request # None /\ group[i] = "none" /\ group' = [group EXCEPT ![i] = "sent"]
      /\ waiting' = waiting \union Slices(i) /\ backlog' = backlog \union Slices(i)
      /\ UNCHANGED <<mode, m_cur_stripe_id, m_cur_offset_table, m_stripe_table,
                     request, merging, file, ended, appends, resets>>
  BY DEF SendSlices
<1>3. group'[i] = "sent" /\ \A j \in Groups \ {i} : group'[j] = group[j]
  BY <1>1, <1>2 DEF TypeInv, Asked
<1>4. History(H)'
  BY <1>1, <1>2, StillHistory DEF Idle
<1>5. \A j, b : SliceIn(H, j, b)' = SliceIn(H, j, b)
  BY <1>2, SameSlices
<1>6. \A j, l : Sent(j, l) /\ l \in Groups => Sent(j, l)'
  BY <1>2, <1>3 DEF Sent
<1>7. \A h : Known(H, h) => Known(H, h)'
  BY <1>2, <1>5, <1>6 DEF Known
<1>8. /\ appends \in 1 .. appends /\ request.no = appends
      /\ H[appends].stripe = request.stripe /\ H[appends].offset = request.offset
      /\ H[appends].size = request.size
      /\ request.offset \in 0 .. StripeSize - 1
      /\ request.size \in 1 .. StripeSize - request.offset /\ mode \in Modes
  BY <1>1, <1>2, Bounds, Positive DEF TypeInv, Asked, Counters, Requests, History, Recorded
<1>9. ASSUME NEW s \in Slices(i)
      PROVE  /\ s.file[2] \in GroupBlocks(i) /\ s.no = appends /\ ended[s.node] = None
             /\ s = SliceIn(H, appends, s.file[2]) /\ Known(H, s)'
  <2>1. PICK b \in Watched \intersect PlanBlocks(request.offset, request.size, i) : s = Slice(b)
    BY DEF Slices
  <2>2. s = SliceIn(H, appends, b) /\ s.no = appends /\ s.file = <<request.stripe, b>>
    BY <1>8, <2>1 DEF Slice, SliceIn
  <2>3. s.file[2] = b
    BY <2>2
  <2>4. b \in GroupBlocks(i)
    BY <1>8, <2>1, CutTyped DEF GroupBlocks
  <2>5. \A l \in Groups : b \in GroupBlocks(l) => l = i
    BY <2>1, <2>4, Bounds, GroupOf
  <2>6. Sent(appends, i)'
    BY <1>3 DEF Sent
  <2>7. Known(H, s)'
    BY <1>2, <1>5, <1>8, <2>1, <2>2, <2>3, <2>5, <2>6 DEF Known
  <2>8. ended[s.node] = None
    BY DEF Slices
  <2>. QED
    BY <2>2, <2>3, <2>4, <2>7, <2>8
<1>10. \A h : Known(H, h) => h \notin Slices(i)
  <2> SUFFICES ASSUME NEW h \in Slices(i), Known(H, h) PROVE FALSE
    OBVIOUS
  <2>1. Sent(appends, i)
    BY <1>9 DEF Known
  <2>. QED
    BY <1>2, <2>1 DEF Sent
<1>11. SlicesKnown(H)'
  BY <1>1, <1>2, <1>7, <1>9 DEF Handled, SlicesKnown
<1>12. \A f : MergeDue(H, f) => MergeDue(H, f)'
  <2>1. \A j, l : Committed(j, l) /\ l \in Groups => Committed(j, l)'
    BY <1>2, <1>3 DEF Committed
  <2>. QED
    BY <1>2, <2>1 DEF MergeDue
<1>13. \A n, f : Pieces(n, f)' = Pieces(n, f)
  BY <1>2 DEF Pieces
<1>14. PiecesKnown(H)'
  <2> SUFFICES ASSUME NEW n \in Nodes, NEW f \in Files, NEW p \in Pieces(n, f)
               PROVE  Owned(H, n, f, p)' \/ MergedWhole(H, f, p)'
    BY <1>13 DEF PiecesKnown
  <2>1. CASE Owned(H, n, f, p)
    BY <1>2, <1>7, <1>10, <2>1 DEF Owned
  <2>2. CASE MergedWhole(H, f, p)
    BY <1>12, <2>2 DEF MergedWhole
  <2>. QED
    BY <1>1, <2>1, <2>2 DEF Handled, PiecesKnown
<1>15. NoneLost(H)'
  <2> SUFFICES ASSUME NEW j \in 1 .. appends, NEW l \in Groups, Sent(j, l)',
                      NEW b \in Watched \intersect PlanBlocks(H[j].offset, H[j].size, l),
                      ended[SliceIn(H, j, b).node] = None
               PROVE  Arrived(SliceIn(H, j, b))'
    BY <1>2, <1>5 DEF NoneLost
  <2> DEFINE s == SliceIn(H, j, b)
  <2>1. CASE Sent(j, l)
    <3>1. Arrived(s)
      BY <1>1, <2>1 DEF Handled, NoneLost
    <3>. QED
      BY <1>2, <1>5, <1>13, <3>1 DEF Arrived
  <2>2. CASE ~ Sent(j, l)
    <3>1. j = appends /\ l = i
      BY <1>2, <1>3, <2>2 DEF Sent
    <3>2. s = Slice(b)
      BY <1>8, <3>1 DEF Slice, SliceIn
    <3>3. s \in Slices(i)
      BY <1>8, <3>1, <3>2 DEF Slices
    <3> HIDE DEF s
    <3>4. Arrived(s)'
      BY <1>2, <1>5, <3>3 DEF Arrived, s
    <3>. QED
      BY <3>4 DEF s
  <2>. QED
    BY <2>1, <2>2
<1>16. MergesKnown(H)'
  BY <1>1, <1>2, <1>12, <1>13 DEF Handled, MergesKnown, Merging
<1>17. NodesEnded'
  BY <1>1, <1>2, <1>13 DEF Handled, NodesEnded
<1>. QED
  BY <1>1, <1>4, <1>11, <1>14, <1>15, <1>16, <1>17 DEF AppendInv, Handled

\* While the append that completes a stripe runs, a merge is due only in the
\* groups that have committed.
LEMMA DueNow ==
  ASSUME NEW H, TypeInv, History(H), NEW i \in Groups, NEW f, f[2] \in GroupBlocks(i),
         request # None, f[1] = request.stripe, MergeDue(H, f)
  PROVE  group[i] = "committed"
<1>1. PICK j \in 1 .. appends :
        /\ H[j].stripe = f[1] /\ H[j].offset > 0 /\ End(H[j]) = StripeSize
        /\ \A l \in Groups : f[2] \in GroupBlocks(l) => Committed(j, l)
  BY DEF MergeDue
<1>2. appends \in 1 .. appends /\ H[appends].stripe = f[1] /\ appends \in Nat
  BY DEF TypeInv, Asked, Counters, Requests, History, Recorded
<1>3. H[appends].offset < StripeSize /\ H[appends].offset \in Nat
  BY <1>2, MadeSizes, Positive DEF History
<1>4. j < appends => StripeSize <= H[appends].offset
  BY <1>1, <1>2 DEF History, InOrder
<1>5. j = appends
  BY <1>1, <1>2, <1>3, <1>4, Positive
<1>. QED
  BY <1>1, <1>5 DEF Committed

\* MergeAndReport makes merges due, once for every parity: no merge of the
\* file was due before.
LEMMA MergeKept ==
  ASSUME NEW H, AppendInv(H), NEW i \in Groups, MergeAndReport(i)
  PROVE  AppendInv(H)'
<1>1. TypeInv /\ History(H) /\ Handled(H) /\ TypeInv'
  <2>1. TypeInv'
    BY StepTypeInv DEF AppendInv, Next
  <2>. QED
    BY <2>1 DEF AppendInv
<1>2. /\ request # None /\ group[i] = "sent" /\ group' = [group EXCEPT ![i] = "committed"]
      /\ merging' = merging \union Merges(i)
      /\ UNCHANGED <<mode, m_cur_stripe_id, m_cur_offset_table, m_stripe_table,
                     request, waiting, backlog, file, ended, appends, resets>>
  BY DEF MergeAndReport, SlicesSent
<1>3. group'[i] = "committed" /\ \A j \in Groups \ {i} : group'[j] = group[j]
  BY <1>1, <1>2 DEF TypeInv, Asked
<1>4. History(H)'
  BY <1>1, <1>2, StillHistory DEF Idle
<1>5. \A j, b : SliceIn(H, j, b)' = SliceIn(H, j, b)
  BY <1>2, SameSlices
<1>6. \A j, l : l \in Groups => (Sent(j, l)' <=> Sent(j, l))
  BY <1>2, <1>3 DEF Sent
<1>7. \A h : Known(H, h) => Known(H, h)'
  BY <1>2, <1>5, <1>6 DEF Known
<1>8. \A f : MergeDue(H, f) => MergeDue(H, f)'
  <2>1. \A j, l : Committed(j, l) /\ l \in Groups => Committed(j, l)'
    BY <1>2, <1>3 DEF Committed
  <2>. QED
    BY <1>2, <2>1 DEF MergeDue
<1>9. \A n, f : Pieces(n, f)' = Pieces(n, f)
  BY <1>2 DEF Pieces
<1>10. SlicesKnown(H)'
  BY <1>1, <1>2, <1>7 DEF Handled, SlicesKnown
<1>11. PiecesKnown(H)'
  <2> SUFFICES ASSUME NEW n \in Nodes, NEW f \in Files, NEW p \in Pieces(n, f)
               PROVE  Owned(H, n, f, p)' \/ MergedWhole(H, f, p)'
    BY <1>9 DEF PiecesKnown
  <2>1. CASE Owned(H, n, f, p)
    BY <1>2, <1>7, <2>1 DEF Owned
  <2>2. CASE MergedWhole(H, f, p)
    BY <1>8, <2>2 DEF MergedWhole
  <2>. QED
    BY <1>1, <2>1, <2>2 DEF Handled, PiecesKnown
<1>12. NoneLost(H)'
  <2>1. \A s : Arrived(s)' = Arrived(s)
    BY <1>2, <1>9 DEF Arrived
  <2> SUFFICES ASSUME NEW j \in 1 .. appends, NEW l \in Groups, Sent(j, l)',
                      NEW b \in Watched \intersect PlanBlocks(H[j].offset, H[j].size, l),
                      ended[SliceIn(H, j, b).node] = None
               PROVE  Arrived(SliceIn(H, j, b))
    BY <1>2, <1>5, <2>1 DEF NoneLost
  <2>. QED
    BY <1>1, <1>6 DEF Handled, NoneLost
<1>13. NodesEnded'
  BY <1>1, <1>2, <1>9 DEF Handled, NodesEnded
<1>14. /\ appends \in 1 .. appends /\ request.no = appends
       /\ H[appends].stripe = request.stripe /\ H[appends].offset = request.offset
       /\ H[appends].size = request.size
       /\ request.offset \in 0 .. StripeSize - 1
       /\ request.size \in 1 .. StripeSize - request.offset /\ mode \in Modes
  BY <1>1, <1>2, Bounds, Positive DEF TypeInv, Asked, Counters, Requests, History, Recorded
<1>15. ASSUME NEW m \in Merges(i)
       PROVE  \E b \in (Watched \ DataBlocks) \intersect GroupBlocks(i) :
                /\ m = [file |-> <<request.stripe, b>>, node |-> m_stripe_table[request.stripe][b],
                        read |-> None]
                /\ ended[m.node] = None /\ mode # "REP_MODE"
                /\ request.offset > 0 /\ request.offset + request.size = StripeSize
  <2>1. PICK s \in Slices(i) : /\ m = [file |-> s.file, node |-> s.node, read |-> None]
                               /\ s.file[2] \notin DataBlocks
    BY DEF Merges
  <2>2. PICK b \in Watched \intersect PlanBlocks(request.offset, request.size, i) :
          s = Slice(b) /\ ended[s.node] = None
    BY DEF Slices
  <2>3. s.file = <<request.stripe, b>> /\ s.node = m_stripe_table[request.stripe][b]
    BY <2>2 DEF Slice
  <2>4. b \in GroupBlocks(i) /\ b \notin DataBlocks
    BY <1>14, <2>1, <2>2, <2>3, CutTyped DEF GroupBlocks
  <2>5. is_merge_parity(request.offset, request.size) /\ mode # "REP_MODE"
    BY DEF Merges
  <2>. QED
    BY <2>1, <2>2, <2>3, <2>4, <2>5 DEF is_merge_parity
<1>16. ASSUME NEW m \in Merges(i) PROVE Merging(H, m)'
  <2>1. PICK b \in (Watched \ DataBlocks) \intersect GroupBlocks(i) :
          /\ m = [file |-> <<request.stripe, b>>, node |-> m_stripe_table[request.stripe][b],
                  read |-> None]
          /\ ended[m.node] = None /\ mode # "REP_MODE"
          /\ request.offset > 0 /\ request.offset + request.size = StripeSize
    BY <1>15
  <2>2. m.file = <<request.stripe, b>> /\ m.file[1] = request.stripe /\ m.file[2] = b
        /\ m.node = m_stripe_table[request.stripe][b] /\ m.read = None
    BY <2>1
  <2>3. \A l \in Groups : b \in GroupBlocks(l) => l = i
    BY <2>1, Bounds, GroupOf
  <2>4. MergeDue(H, m.file)'
    <3>1. End(H[appends]) = StripeSize
      BY <1>14, <2>1 DEF End
    <3>2. Committed(appends, i)'
      BY <1>3 DEF Committed
    <3>. QED
      BY <1>2, <1>14, <2>1, <2>2, <2>3, <3>1, <3>2 DEF MergeDue
  <2>5. ~ MergeDue(H, m.file)
    BY <1>1, <1>2, <2>1, <2>2, DueNow
  <2>6. ASSUME NEW p \in Pieces(m.node, m.file) PROVE p \in OwnedSet
    <3>1. m.node \in Nodes /\ m.file \in Files
      BY <1>1, <1>2 DEF TypeInv, Threads, MergeSet
    <3>. QED
      BY <1>1, <2>5, <2>6, <3>1 DEF Handled, PiecesKnown, MergedWhole, Owned
  <2>7. ASSUME NEW o \in merging', o.file = m.file PROVE o = m
    <3>1. CASE o \in merging
      BY <1>1, <2>5, <2>7, <3>1 DEF Handled, MergesKnown, Merging
    <3>2. CASE o \in Merges(i)
      <4>1. PICK a \in Watched :
              o = [file |-> <<request.stripe, a>>, node |-> m_stripe_table[request.stripe][a],
                   read |-> None]
        BY <1>15, <3>2
      <4>2. a = b
        BY <2>2, <2>7, <4>1
      <4>. QED
        BY <2>1, <4>1, <4>2
    <3>. QED
      BY <1>2, <2>7, <3>1, <3>2
  <2>. QED
    BY <1>2, <1>9, <2>1, <2>2, <2>4, <2>6, <2>7 DEF Merging
<1>17. ASSUME NEW m \in merging PROVE Merging(H, m)'
  <2>1. Merging(H, m)
    BY <1>1 DEF Handled, MergesKnown
  <2>2. ASSUME NEW o \in merging', o.file = m.file PROVE o = m
    <3>1. CASE o \in merging
      BY <2>1, <2>2, <3>1 DEF Merging
    <3>2. CASE o \in Merges(i)
      <4>1. Merging(H, o)'
        BY <1>16, <3>2
      <4>. QED
        BY <1>2, <2>2, <4>1 DEF Merging
    <3>. QED
      BY <1>2, <2>2, <3>1, <3>2
  <2>. QED
    BY <1>2, <1>8, <1>9, <2>1, <2>2 DEF Merging
<1>18. MergesKnown(H)'
  BY <1>2, <1>16, <1>17 DEF MergesKnown
<1>. QED
  BY <1>1, <1>4, <1>10, <1>11, <1>12, <1>13, <1>18 DEF AppendInv, Handled

\* Acknowledge ends the append, committed in every group.
LEMMA AckKept ==
  ASSUME NEW H, AppendInv(H), Acknowledge
  PROVE  AppendInv(H)'
<1>1. TypeInv /\ History(H) /\ Handled(H) /\ TypeInv'
  <2>1. TypeInv'
    BY StepTypeInv DEF AppendInv, Next
  <2>. QED
    BY <2>1 DEF AppendInv
<1>2. /\ request # None /\ \A i \in Groups : group[i] = "committed"
      /\ request' = None /\ group' = [i \in Groups |-> "none"]
      /\ UNCHANGED <<mode, m_cur_stripe_id, m_cur_offset_table, m_stripe_table,
                     waiting, backlog, merging, file, ended, appends, resets>>
  BY DEF Acknowledge
<1>3. History(H)'
  BY <1>1, <1>2, StillHistory DEF Idle
<1>4. \A j, b : SliceIn(H, j, b)' = SliceIn(H, j, b)
  BY <1>2, SameSlices
<1>5. \A j, l : l \in Groups => Sent(j, l) /\ Sent(j, l)' /\ Committed(j, l)'
  BY <1>2 DEF Sent, Committed
<1>6. \A h : Known(H, h) => Known(H, h)'
  BY <1>2, <1>4, <1>5 DEF Known
<1>7. \A f : MergeDue(H, f) => MergeDue(H, f)'
  BY <1>2, <1>5 DEF MergeDue
<1>8. NoneLost(H)'
  <2>1. \A s : Arrived(s)' = Arrived(s)
    BY <1>2 DEF Arrived, Pieces
  <2> SUFFICES ASSUME NEW j \in 1 .. appends, NEW l \in Groups,
                      NEW b \in Watched \intersect PlanBlocks(H[j].offset, H[j].size, l),
                      ended[SliceIn(H, j, b).node] = None
               PROVE  Arrived(SliceIn(H, j, b))
    BY <1>2, <1>4, <2>1 DEF NoneLost
  <2>. QED
    BY <1>1, <1>5 DEF Handled, NoneLost
<1>9. Handled(H)'
  BY <1>1, <1>2, <1>6, <1>7, <1>8, StillHandled
<1>. QED
  BY <1>1, <1>3, <1>9 DEF AppendInv

-----------------------------------------------------------------------------
(* The datanodes.                                                          *)

\* The end of a node, for a reason that NodesEnded has.
LEMMA EndKept ==
  ASSUME NEW H, AppendInv(H), TypeInv', NEW n \in Nodes, NEW why \in Ends, EndNode(n, why),
         UNCHANGED <<mode, m_cur_stripe_id, m_cur_offset_table, m_stripe_table,
                     request, group, appends, resets>>,
         \/ why.why = "no file"
         \/ why.why = "file exists" /\ \A p \in Pieces(n, why.at) : p.own.no > why.no
  PROVE  AppendInv(H)'
<1>1. TypeInv /\ History(H) /\ Handled(H)
  BY DEF AppendInv
<1>2. /\ ended' = [ended EXCEPT ![n] = why]
      /\ waiting' = {h \in waiting : h.node # n}
      /\ backlog' = {h \in backlog : h.node # n}
      /\ merging' = {m \in merging : m.node # n}
      /\ file' = file
  BY DEF EndNode
<1>3. /\ ended'[n] = why /\ why # None
      /\ \A p : p \in (Nodes \union {Coordinator}) \ {n} => ended'[p] = ended[p]
  BY <1>1, <1>2, NamesAssumption DEF TypeInv, Disks
<1>4. History(H)'
  BY <1>1, StillHistory DEF Idle, History
<1>5. \A j, b : SliceIn(H, j, b)' = SliceIn(H, j, b)
  BY SameSlices
<1>6. \A h : Known(H, h)' <=> Known(H, h)
  BY <1>5 DEF Known, Sent
<1>7. \A m, f : Pieces(m, f)' = Pieces(m, f)
  BY <1>2 DEF Pieces
<1>8. \A f : MergeDue(H, f)' <=> MergeDue(H, f)
  BY DEF MergeDue, Committed
<1>9. SlicesKnown(H)'
  <2> SUFFICES ASSUME NEW h \in waiting \union backlog, h.node # n
               PROVE  Known(H, h) /\ ended'[h.node] = None
    BY <1>2, <1>6 DEF SlicesKnown
  <2>1. h.node \in Nodes
    BY <1>1 DEF TypeInv, Threads, SliceSet
  <2>. QED
    BY <1>1, <1>3, <2>1 DEF Handled, SlicesKnown
<1>10. PiecesKnown(H)'
  <2> SUFFICES ASSUME NEW m \in Nodes, NEW f \in Files, NEW p \in Pieces(m, f)
               PROVE  Owned(H, m, f, p)' \/ MergedWhole(H, f, p)'
    BY <1>7 DEF PiecesKnown
  <2>1. CASE Owned(H, m, f, p)
    BY <1>2, <1>6, <2>1 DEF Owned
  <2>2. CASE MergedWhole(H, f, p)
    BY <1>8, <2>2 DEF MergedWhole
  <2>. QED
    BY <1>1, <2>1, <2>2 DEF Handled, PiecesKnown
<1>11. NoneLost(H)'
  <2> SUFFICES ASSUME NEW j \in 1 .. appends, NEW i \in Groups, Sent(j, i),
                      NEW b \in Watched \intersect PlanBlocks(H[j].offset, H[j].size, i),
                      ended'[SliceIn(H, j, b).node] = None
               PROVE  Arrived(SliceIn(H, j, b))'
    BY <1>5 DEF NoneLost, Sent
  <2> DEFINE s == SliceIn(H, j, b)
  <2>1. s.node \in Nodes /\ s.node # n
    <3>1. m_stripe_table[H[j].stripe] \in Placements
      BY <1>1, MadeSizes DEF History
    <3>. QED
      BY <1>3, <3>1 DEF SliceIn, Placements
  <2>2. Arrived(s)
    BY <1>1, <1>3, <2>1 DEF Handled, NoneLost
  <2> HIDE DEF s
  <2>3. Arrived(s)'
    BY <1>2, <1>5, <1>7, <2>1, <2>2 DEF Arrived, s
  <2>. QED
    BY <2>3 DEF s
<1>12. MergesKnown(H)'
  <2> SUFFICES ASSUME NEW m \in merging, m.node # n PROVE Merging(H, m)'
    BY <1>2 DEF MergesKnown
  <2>1. m.node \in Nodes
    BY <1>1 DEF TypeInv, Threads, MergeSet
  <2>2. Merging(H, m)
    BY <1>1 DEF Handled, MergesKnown
  <2>. QED
    BY <1>2, <1>3, <1>7, <1>8, <2>1, <2>2 DEF Merging
<1>13. NodesEnded'
  <2>1. ended'[Coordinator] = None
    BY <1>1, <1>3, NamesAssumption DEF Handled, NodesEnded
  <2>2. ASSUME NEW m \in Nodes
        PROVE  \/ ended'[m] = None
               \/ ended'[m].why = "no file"
               \/ /\ ended'[m].why = "file exists"
                  /\ \A p \in Pieces(m, ended'[m].at) : p.own.no > ended'[m].no
    <3>1. CASE m = n
      BY <1>3, <3>1
    <3>2. CASE m # n
      <4>1. ended'[m] = ended[m]
        BY <1>3, <3>2
      <4>. QED
        BY <1>1, <4>1 DEF Handled, NodesEnded
    <3>. QED
      BY <3>1, <3>2
  <2>. QED
    BY <1>7, <2>1, <2>2 DEF NodesEnded
<1>. QED
  BY <1>4, <1>9, <1>10, <1>11, <1>12, <1>13 DEF AppendInv, Handled

\* What a handler of offset 0 finds in the file of a data block was written by
\* later appends: an earlier append's slice would lie before the block's
\* start.
LEMMA LaterPieces ==
  ASSUME NEW H, AppendInv(H), NEW h \in waiting, h.file[2] \in DataBlocks, h.offset = 0,
         NEW p \in Pieces(h.node, h.file)
  PROVE  p.own.no > h.no
<1>1. TypeInv /\ History(H) /\ Handled(H)
  BY DEF AppendInv
<1>2. h \in SliceSet /\ h.node \in Nodes /\ h.file \in Files /\ Known(H, h)
  BY <1>1 DEF TypeInv, Threads, SliceSet, Handled, SlicesKnown
<1>3. Owned(H, h.node, h.file, p)
  BY <1>1, <1>2 DEF Handled, PiecesKnown, MergedWhole
<1> DEFINE o == p.own
           b == h.file[2]
<1>4. /\ Known(H, o) /\ o.file = h.file /\ o # h /\ o \in SliceSet
  BY <1>3 DEF Owned, OwnedSet
<1>5. /\ h = SliceIn(H, h.no, b) /\ o = SliceIn(H, o.no, b)
      /\ h.no \in 1 .. appends /\ o.no \in 1 .. appends
  BY <1>2, <1>4 DEF Known
<1>6. o.no # h.no
  BY <1>4, <1>5
<1> HIDE DEF o
<1>7. SUFFICES ASSUME o.no < h.no PROVE FALSE
  BY <1>1, <1>5, <1>6 DEF TypeInv, Counters, o
<1>8. H[o.no].stripe = H[h.no].stripe
  <2>1. h.file = <<H[h.no].stripe, b>> /\ o.file = <<H[o.no].stripe, b>>
    BY <1>5 DEF SliceIn
  <2>. QED
    BY <1>4, <2>1
<1>9. End(H[o.no]) <= H[h.no].offset
  BY <1>1, <1>5, <1>7, <1>8 DEF History, InOrder
<1> DEFINE s == DataSlices(H[o.no].offset, H[o.no].size)[b]
           t == DataSlices(H[h.no].offset, H[h.no].size)[b]
<1>10. h.offset = t.offset /\ h.size = t.size /\ o.size = s.size
  BY SMTT(30), <1>5 DEF SliceIn, SliceOf
<1>11. h.size > 0 /\ o.size > 0
  BY <1>2, <1>4 DEF SliceSet
<1>12. /\ H[o.no].offset \in 0 .. StripeSize - 1
       /\ H[o.no].size \in 1 .. StripeSize - H[o.no].offset
       /\ H[h.no].offset \in 0 .. StripeSize - 1
       /\ H[h.no].size \in 1 .. StripeSize - H[h.no].offset
       /\ H[o.no].offset + H[o.no].size <= H[h.no].offset
  BY <1>1, <1>5, <1>9, MadeSizes DEF History, End
<1>13. s.offset + s.size <= t.offset
  BY <1>10, <1>11, <1>12, CutsInOrder
<1>14. s.offset \in Nat /\ s.size \in Nat
  BY <1>10, <1>11, <1>12, CutOf
<1>. QED
  BY SMTT(30), <1>10, <1>11, <1>13, <1>14

\* WriteSlice, whether it writes or ends the node.
LEMMA WriteKept ==
  ASSUME NEW H, AppendInv(H), NEW h \in waiting, NEW c \in backlog, WriteSlice(h, c)
  PROVE  AppendInv(H)'
<1> DEFINE n == h.node
           f == h.file
           q == Piece(h, c)
<1>1. TypeInv /\ History(H) /\ Handled(H) /\ TypeInv'
  <2>1. TypeInv'
    BY StepTypeInv DEF AppendInv, Next
  <2>. QED
    BY <2>1 DEF AppendInv
<1>2. UNCHANGED <<mode, m_cur_stripe_id, m_cur_offset_table, m_stripe_table,
                  request, group, appends, resets>>
  BY DEF WriteSlice
<1>3. /\ h \in SliceSet /\ c \in SliceSet /\ n \in Nodes /\ f \in Files
      /\ Known(H, h) /\ ended[n] = None
  BY <1>1 DEF TypeInv, Threads, SliceSet, Handled, SlicesKnown
<1>4. CASE f[2] \in DataBlocks /\ h.offset = 0 /\ file[n][f] # <<>>
  <2> DEFINE why == [why |-> "file exists", at |-> h.file, no |-> h.no]
  <2>1. EndNode(n, why) /\ why \in Ends
    BY <1>3, <1>4 DEF WriteSlice, Ends, SliceSet
  <2>2. why.why = "file exists" /\ why.at = f /\ why.no = h.no
    OBVIOUS
  <2>3. \A p \in Pieces(n, f) : p.own.no > h.no
    BY <1>4, LaterPieces
  <2> HIDE DEF why
  <2>. QED
    BY <1>1, <1>2, <1>3, <2>1, <2>2, <2>3, EndKept
<1>5. CASE ~ (f[2] \in DataBlocks /\ h.offset = 0 /\ file[n][f] # <<>>)
  <2>1. /\ file' = [file EXCEPT ![n][f] = Append(@, q)]
        /\ waiting' = waiting \ {h} /\ backlog' = backlog \ {c}
        /\ merging' = merging /\ ended' = ended
    BY <1>5 DEF WriteSlice
  <2>2. /\ q \in OwnedSet /\ q \in PieceSet /\ q.own = h
        /\ q.kind = "raw" => ~ h.serialized /\ f[2] \notin DataBlocks
    BY <1>3 DEF Piece, PieceSet, OwnedSet
  <2> HIDE DEF q
  <2>3. /\ Pieces(n, f)' = Pieces(n, f) \union {q}
        /\ \A m \in Nodes, g \in Files : m # n \/ g # f => Pieces(m, g)' = Pieces(m, g)
    <3>1. file'[n][f] = Append(file[n][f], q)
      BY <1>1, <1>3, <2>1 DEF TypeInv, Disks
    <3>2. file[n][f] \in Seq(PieceSet)
      BY <1>1, <1>3 DEF TypeInv, Disks
    <3>3. Pieces(n, f)' = Pieces(n, f) \union {q}
      <4> DEFINE s == file[n][f]
                 t == Append(s, q)
      <4>2. Pieces(n, f)' = {t[j] : j \in DOMAIN t} /\ Pieces(n, f) = {s[j] : j \in DOMAIN s}
        BY <3>1 DEF Pieces
      <4>4. s \in Seq(PieceSet)
        BY <3>2
      <4> HIDE DEF s
      <4>1. /\ DOMAIN t = 1 .. Len(s) + 1 /\ DOMAIN s = 1 .. Len(s) /\ Len(s) \in Nat
            /\ \A j \in DOMAIN s : t[j] = s[j]
            /\ t[Len(s) + 1] = q
        BY <2>2, <4>4, Appended
      <4>3. DOMAIN t = DOMAIN s \union {Len(s) + 1}
        BY <4>1
      <4> HIDE DEF t
      <4>. QED
        BY <4>1, <4>2, <4>3
    <3>4. ASSUME NEW m \in Nodes, NEW g \in Files, m # n \/ g # f
          PROVE  Pieces(m, g)' = Pieces(m, g)
      <4>1. file'[m][g] = file[m][g]
        BY <1>1, <1>3, <2>1, <3>4 DEF TypeInv, Disks
      <4>. QED
        BY <4>1 DEF Pieces
    <3>. QED
      BY <3>3, <3>4
  <2>4. \A m \in Nodes, g \in Files : Pieces(m, g) \subseteq Pieces(m, g)'
    BY <2>3
  <2>5. History(H)'
    BY <1>1, <1>2, StillHistory DEF Idle, History
  <2>6. \A j, b : SliceIn(H, j, b)' = SliceIn(H, j, b)
    BY <1>2, SameSlices
  <2>7. \A s : Known(H, s)' <=> Known(H, s)
    BY <1>2, <2>6 DEF Known, Sent
  <2>8. \A g : MergeDue(H, g)' <=> MergeDue(H, g)
    BY <1>2 DEF MergeDue, Committed
  <2>9. SlicesKnown(H)'
    BY <1>1, <2>1, <2>7 DEF Handled, SlicesKnown
  <2>10. PiecesKnown(H)'
    <3> SUFFICES ASSUME NEW m \in Nodes, NEW g \in Files, NEW p \in Pieces(m, g)'
                 PROVE  Owned(H, m, g, p)' \/ MergedWhole(H, g, p)'
      BY DEF PiecesKnown
    <3>1. CASE p \in Pieces(m, g)
      <4>1. CASE Owned(H, m, g, p)
        BY <2>1, <2>7, <4>1 DEF Owned
      <4>2. CASE MergedWhole(H, g, p)
        BY <2>8, <4>2 DEF MergedWhole
      <4>. QED
        BY <1>1, <3>1, <4>1, <4>2 DEF Handled, PiecesKnown
    <3>2. CASE p \notin Pieces(m, g)
      <4>1. m = n /\ g = f /\ p = q
        BY <2>3, <3>2
      <4>. QED
        BY <1>3, <2>1, <2>2, <2>7, <4>1 DEF Owned
    <3>. QED
      BY <3>1, <3>2
  <2>11. NoneLost(H)'
    <3> SUFFICES ASSUME NEW j \in 1 .. appends, NEW i \in Groups, Sent(j, i),
                        NEW b \in Watched \intersect PlanBlocks(H[j].offset, H[j].size, i),
                        ended[SliceIn(H, j, b).node] = None
                 PROVE  Arrived(SliceIn(H, j, b))'
      BY <1>2, <2>1, <2>6 DEF NoneLost, Sent
    <3> DEFINE s == SliceIn(H, j, b)
    <3>1. s.node \in Nodes /\ s.file \in Files
      <4>1. m_stripe_table[H[j].stripe] \in Placements /\ H[j].stripe \in StripeIds
        BY <1>1, MadeSizes DEF History
      <4>. QED
        BY <4>1 DEF SliceIn, Placements, Files
    <3>2. Arrived(s)
      BY <1>1 DEF Handled, NoneLost
    <3>3. s' = s
      BY <2>6
    <3>4. PICK S : S = s
      OBVIOUS
    <3> HIDE DEF s
    <3>5. Arrived(S)'
      <4>1. S.node \in Nodes /\ S.file \in Files /\ Arrived(S)
        BY <3>1, <3>2, <3>4
      <4>2. CASE S = h
        BY <2>2, <2>3, <4>2 DEF Arrived
      <4>3. CASE S # h
        BY <2>1, <2>4, <4>1, <4>3 DEF Arrived
      <4>. QED
        BY <4>2, <4>3
    <3>. QED
      BY <2>6, <3>3, <3>4, <3>5 DEF s
  <2>12. MergesKnown(H)'
    <3> SUFFICES ASSUME NEW m \in merging PROVE Merging(H, m)'
      BY <2>1 DEF MergesKnown
    <3>1. m.node \in Nodes /\ m.file \in Files
      BY <1>1 DEF TypeInv, Threads, MergeSet
    <3>2. Merging(H, m)
      BY <1>1 DEF Handled, MergesKnown
    <3>3. \A p \in Pieces(m.node, m.file)' : p \in OwnedSet
      BY <2>2, <2>3, <3>1, <3>2 DEF Merging
    <3>. QED
      BY <1>2, <2>1, <2>8, <3>2, <3>3 DEF Merging
  <2>13. NodesEnded'
    <3>1. \A m \in Nodes : ended[m] # None => \A g \in Files : Pieces(m, g)' = Pieces(m, g)
      BY <1>3, <2>3
    <3>2. \A m \in Nodes : ended[m] # None /\ ended[m].why = "file exists" => ended[m].at \in Files
      <4>1. \A m \in Nodes : ended[m] \in {None} \union Ends
        BY <1>1 DEF TypeInv, Disks
      <4>. QED
        BY <4>1 DEF Ends
    <3>. QED
      BY <1>1, <2>1, <3>1, <3>2 DEF Handled, NodesEnded
  <2>. QED
    BY <1>1, <2>5, <2>9, <2>10, <2>11, <2>12, <2>13 DEF AppendInv, Handled
<1>. QED
  BY <1>4, <1>5

\* What a merge finds are pieces of its own file.
LEMMA PieceOfMerge ==
  ASSUME NEW H, AppendInv(H), NEW m \in merging, NEW p \in Pieces(m.node, m.file)
  PROVE  /\ p \in OwnedSet /\ Known(H, p.own) /\ p.own.file = m.file /\ p.own.node = m.node
         /\ p.kind = "raw" => ~ p.own.serialized
<1>1. Handled(H) /\ TypeInv /\ Merging(H, m)
  BY DEF AppendInv, Handled, MergesKnown
<1>2. m.node \in Nodes /\ m.file \in Files
  BY <1>1 DEF TypeInv, Threads, MergeSet
<1>3. p \in OwnedSet
  BY <1>1 DEF Merging
<1>4. p \notin MergedSet
  BY <1>3 DEF OwnedSet, MergedSet
<1>5. Owned(H, m.node, m.file, p)
  BY <1>1, <1>2, <1>4 DEF Handled, PiecesKnown, MergedWhole
<1>. QED
  BY <1>3, <1>5 DEF Owned

\* What a merge reads are records: raw bytes come from an append of the whole
\* stripe, which leaves nothing for the append that makes the merge due.
LEMMA AllRecords ==
  ASSUME NEW H, AppendInv(H), NEW m \in merging, NEW p \in Pieces(m.node, m.file)
  PROVE  p.kind = "slice"
<1>1. History(H) /\ TypeInv /\ MergeDue(H, m.file)
  BY DEF AppendInv, Handled, MergesKnown, Merging
<1>2. /\ p \in OwnedSet /\ Known(H, p.own) /\ p.own.file = m.file
      /\ p.kind = "raw" => ~ p.own.serialized
  BY PieceOfMerge
<1> SUFFICES ASSUME p.kind = "raw" PROVE FALSE
  BY <1>2 DEF OwnedSet
<1> DEFINE j == p.own.no
<1>3. j \in 1 .. appends /\ p.own = SliceIn(H, j, p.own.file[2])
  BY <1>2 DEF Known
<1>4. H[j].offset = 0 /\ H[j].size = StripeSize
  <2>1. p.own.serialized = is_serialized(H[j].offset, H[j].size)
    BY <1>3 DEF SliceIn
  <2>. QED
    BY <1>2, <2>1 DEF is_serialized
<1>5. H[j].stripe = m.file[1]
  <2>1. p.own.file = <<H[j].stripe, p.own.file[2]>>
    BY <1>3 DEF SliceIn
  <2>. QED
    BY <1>2, <2>1
<1>6. PICK d \in 1 .. appends :
        H[d].stripe = m.file[1] /\ H[d].offset > 0 /\ End(H[d]) = StripeSize
  BY <1>1 DEF MergeDue
<1>7. H[d].offset \in 0 .. StripeSize - 1 /\ End(H[j]) = StripeSize
  BY <1>1, <1>3, <1>4, <1>6, MadeSizes, Positive DEF History, End
<1> HIDE DEF j
<1>8. ~ (j < d) /\ ~ (d < j)
  BY <1>1, <1>3, <1>4, <1>5, <1>6, <1>7, Positive DEF History, InOrder
<1>9. j = d
  BY <1>1, <1>3, <1>6, <1>8 DEF j, TypeInv, Counters
<1>. QED
  BY <1>4, <1>6, <1>9

\* Records and slices too late for the merge cover the block: every byte of
\* the stripe was brought by some append, whose slice was sent before the
\* merge was due, and is not lost while the node runs.
LEMMA MergedCovers ==
  ASSUME NEW H, AppendInv(H), NEW m \in merging, NEW p,
         p.slices = Pieces(m.node, m.file), p.late = Late(m)
  PROVE  MergedRegion(p) = 0 .. BlockSize - 1
<1> DEFINE f == m.file
           b == m.file[2]
<1>1. History(H) /\ TypeInv /\ Handled(H) /\ Merging(H, m) /\ mode \in Modes
  BY Bounds DEF AppendInv, Handled, MergesKnown, TypeInv, Counters
<1>2. /\ m.node \in Nodes /\ f \in Files /\ b \in Watched \ DataBlocks
      /\ m.node = m_stripe_table[f[1]][b] /\ ended[m.node] = None /\ mode # "REP_MODE"
      /\ f = <<f[1], b>>
  BY <1>1 DEF TypeInv, Threads, MergeSet, Merging, Files
<1>3. ASSUME NEW s, Known(H, s), s.file = f
      PROVE  /\ s.no \in 1 .. appends
             /\ Region(s) \subseteq 0 .. BlockSize - 1
             /\ \A q \in Bytes(H[s.no]) : PlaceOf(q) \in Region(s)
  <2> DEFINE j == s.no
             y == ParitySlice(mode, H[j].offset, H[j].size)
  <2>1. j \in 1 .. appends /\ s = SliceIn(H, j, b)
    BY <1>3 DEF Known
  <2>2. s.offset = y.offset /\ s.size = y.size
    BY <1>2, <2>1 DEF SliceIn, SliceOf
  <2>3. /\ H[j].offset \in 0 .. StripeSize - 1 /\ H[j].size \in 1 .. StripeSize - H[j].offset
        /\ Bytes(H[j]) = H[j].offset .. H[j].offset + H[j].size - 1
    BY <1>1, <2>1, MadeSizes DEF History, Bytes
  <2>4. CoversParity(mode, H[j].offset, H[j].size)
    BY <1>1, <1>2, <2>3, ParityShape
  <2>5. Region(s) = Region(y)
    BY <2>2 DEF Region
  <2>. QED
    BY <2>1, <2>3, <2>4, <2>5 DEF CoversParity
<1>4. ASSUME NEW q \in p.slices PROVE Known(H, q.own) /\ q.own.file = f
  BY <1>4, PieceOfMerge
<1>5. ASSUME NEW h \in p.late PROVE Known(H, h) /\ h.file = f
  BY <1>1, <1>5 DEF Late, Handled, SlicesKnown
<1>6. MergedRegion(p) \subseteq 0 .. BlockSize - 1
  BY <1>3, <1>4, <1>5 DEF MergedRegion
<1>7. ASSUME NEW t \in 0 .. BlockSize - 1 PROVE t \in MergedRegion(p)
  <2>1. PICK q \in 0 .. StripeSize - 1 : PlaceOf(q) = t
    BY ByteOfPlace
  <2>2. PICK i \in Groups : b \in GroupBlocks(i)
    BY <1>2, Bounds, GroupOf
  <2>3. PICK d \in 1 .. appends :
          /\ H[d].stripe = f[1] /\ End(H[d]) = StripeSize /\ Committed(d, i)
    BY <1>1, <2>2 DEF Merging, MergeDue
  <2>4. PICK e \in 1 .. d : H[e].stripe = f[1] /\ q \in Bytes(H[e])
    <3>1. CASE q < H[d].offset
      <4>1. q \in 0 .. H[d].offset - 1
        BY <1>1, <2>1, <2>3, <3>1, MadeSizes DEF History
      <4>2. \E e \in 1 .. d - 1 : H[e].stripe = H[d].stripe /\ q \in Bytes(H[e])
        BY <1>1, <2>3, <4>1 DEF History, Gapless
      <4>. QED
        BY <2>3, <4>2
    <3>2. CASE ~ (q < H[d].offset)
      <4>1. H[d].offset \in Nat
        BY <1>1, <2>3, MadeSizes DEF History
      <4>2. q \in Bytes(H[d])
        BY <2>1, <2>3, <3>2, <4>1, Positive DEF Bytes
      <4>. QED
        BY <2>3, <4>2
    <3>. QED
      BY <3>1, <3>2
  <2>5. e \in 1 .. appends /\ (e = appends => e = d) /\ appends \in Nat
    BY <1>1, <2>3, <2>4 DEF TypeInv, Counters
  <2>6. Sent(e, i)
    BY <2>3, <2>5 DEF Sent, Committed
  <2>7. b \in Watched \intersect PlanBlocks(H[e].offset, H[e].size, i)
    <3>1. b \notin GroupData(i)
      BY <1>2, GroupsOfBlocks DEF Groups
    <3>. QED
      BY <1>2, <2>2, <3>1 DEF GroupBlocks, PlanBlocks
  <2> DEFINE s == SliceIn(H, e, b)
  <2>8. s.node = m.node /\ s.file = f /\ s.no = e
    BY <1>2, <2>4 DEF SliceIn
  <2>9. Arrived(s)
    BY <1>1, <1>2, <2>5, <2>6, <2>7, <2>8 DEF Handled, NoneLost
  <2> HIDE DEF s
  <2>10. \A x \in Pieces(m.node, f) : x \notin MergedSet
    BY <1>1 DEF Merging, OwnedSet, MergedSet
  <2>11. s \in Late(m) \/ \E x \in Pieces(m.node, f) : x.own = s
    BY <2>8, <2>9, <2>10 DEF Arrived, Late
  <2>12. Known(H, s)
    <3>1. CASE s \in Late(m)
      BY <1>5, <3>1
    <3>2. CASE \E x \in Pieces(m.node, f) : x.own = s
      BY <1>4, <3>2
    <3>. QED
      BY <2>11, <3>1, <3>2
  <2>13. t \in Region(s)
    BY <1>3, <2>1, <2>4, <2>8, <2>12
  <2>. QED
    BY <2>11, <2>13 DEF MergedRegion
<1>. QED
  BY <1>6, <1>7

\* ReadRecords reads the records, or ends the node that has none.
LEMMA ReadKept ==
  ASSUME NEW H, AppendInv(H), NEW m \in merging, ReadRecords(m)
  PROVE  AppendInv(H)'
<1> DEFINE n == m.node
           f == m.file
           P == Pieces(n, f)
<1>1. TypeInv /\ History(H) /\ Handled(H) /\ TypeInv' /\ Merging(H, m)
  <2>1. TypeInv'
    BY StepTypeInv DEF AppendInv, Next
  <2>. QED
    BY <2>1 DEF AppendInv, Handled, MergesKnown
<1>2. UNCHANGED <<mode, m_cur_stripe_id, m_cur_offset_table, m_stripe_table,
                  request, group, appends, resets>>
  BY DEF ReadRecords
<1>3. n \in Nodes /\ f \in Files /\ m \in MergeSet
  BY <1>1 DEF TypeInv, Threads, MergeSet
<1>4. \A p \in P : p.kind = "slice"
  BY AllRecords
<1>5. CASE P = {}
  <2> DEFINE why == [why |-> "no file"]
  <2>1. EndNode(n, why) /\ why \in Ends /\ why.why = "no file"
    BY <1>4, <1>5 DEF ReadRecords, Ends
  <2> HIDE DEF why
  <2>. QED
    BY <1>1, <1>2, <1>3, <2>1, EndKept
<1>6. CASE P # {}
  <2> PICK M : M = [m EXCEPT !.read = [slices |-> P, late |-> Late(m)]]
    OBVIOUS
  <2>1. merging' = (merging \ {m}) \union {M} /\ UNCHANGED <<waiting, backlog, file, ended>>
    BY <1>4, <1>6 DEF ReadRecords
  <2>2. /\ M.file = f /\ M.node = n /\ M.read.slices = P /\ M.read.late = Late(m)
    BY <1>3 DEF MergeSet
  <2>3. MergedRegion(M.read) = 0 .. BlockSize - 1
    BY <2>2, MergedCovers
  <2>4. History(H)'
    BY <1>1, <1>2, StillHistory DEF Idle, History
  <2>5. \A j, b : SliceIn(H, j, b)' = SliceIn(H, j, b)
    BY <1>2, SameSlices
  <2>6. \A s : Known(H, s)' <=> Known(H, s)
    BY <1>2, <2>5 DEF Known, Sent
  <2>7. \A g : MergeDue(H, g)' <=> MergeDue(H, g)
    BY <1>2 DEF MergeDue, Committed
  <2>8. \A l, g : Pieces(l, g)' = Pieces(l, g)
    BY <2>1 DEF Pieces
  <2>9. SlicesKnown(H)'
    BY <1>1, <2>1, <2>6 DEF Handled, SlicesKnown
  <2>10. PiecesKnown(H)'
    <3> SUFFICES ASSUME NEW l \in Nodes, NEW g \in Files, NEW p \in Pieces(l, g)
                 PROVE  Owned(H, l, g, p)' \/ MergedWhole(H, g, p)'
      BY <2>8 DEF PiecesKnown
    <3>1. CASE Owned(H, l, g, p)
      BY <2>1, <2>6, <3>1 DEF Owned
    <3>2. CASE MergedWhole(H, g, p)
      BY <2>7, <3>2 DEF MergedWhole
    <3>. QED
      BY <1>1, <3>1, <3>2 DEF Handled, PiecesKnown
  <2>11. NoneLost(H)'
    <3>1. \A s : Arrived(s)' = Arrived(s)
      BY <2>1, <2>8 DEF Arrived
    <3> SUFFICES ASSUME NEW j \in 1 .. appends, NEW i \in Groups, Sent(j, i),
                        NEW b \in Watched \intersect PlanBlocks(H[j].offset, H[j].size, i),
                        ended[SliceIn(H, j, b).node] = None
                 PROVE  Arrived(SliceIn(H, j, b))
      BY <1>2, <2>1, <2>5, <3>1 DEF NoneLost, Sent
    <3>. QED
      BY <1>1 DEF Handled, NoneLost
  <2>12. ASSUME NEW o \in merging \ {m} PROVE Merging(H, o)'
    <3>1. Merging(H, o) /\ o.file # f
      BY <1>1 DEF Handled, MergesKnown, Merging
    <3>2. \A x \in merging' : x.file = o.file => x = o
      BY <2>1, <2>2, <3>1 DEF Merging
    <3>. QED
      BY <1>2, <2>1, <2>7, <2>8, <3>1, <3>2 DEF Merging
  <2>13. Merging(H, M)'
    <3>1. \A x \in merging' : x.file = M.file => x = M
      BY <1>1, <2>1, <2>2 DEF Merging
    <3>. QED
      BY <1>1, <1>2, <2>1, <2>2, <2>3, <2>7, <2>8, <3>1 DEF Merging
  <2>14. MergesKnown(H)'
    BY <2>1, <2>12, <2>13 DEF MergesKnown
  <2>15. NodesEnded'
    BY <1>1, <2>1, <2>8 DEF Handled, NodesEnded
  <2>. QED
    BY <1>1, <2>4, <2>9, <2>10, <2>11, <2>14, <2>15 DEF AppendInv, Handled
<1>. QED
  BY <1>5, <1>6

\* WriteMerged replaces the records by their sum, which is whole.
LEMMA WriteMergedKept ==
  ASSUME NEW H, AppendInv(H), NEW m \in merging, WriteMerged(m)
  PROVE  AppendInv(H)'
<1> DEFINE n == m.node
           f == m.file
<1>1. TypeInv /\ History(H) /\ Handled(H) /\ TypeInv' /\ Merging(H, m)
  <2>1. TypeInv'
    BY StepTypeInv DEF AppendInv, Next
  <2>. QED
    BY <2>1 DEF AppendInv, Handled, MergesKnown
<1> PICK P : P = [kind |-> "merged", slices |-> m.read.slices, late |-> m.read.late]
  OBVIOUS
<1>2. /\ m.read # None /\ merging' = merging \ {m}
      /\ file' = [file EXCEPT ![n][f] = <<P>>]
      /\ UNCHANGED <<mode, m_cur_stripe_id, m_cur_offset_table, m_stripe_table,
                     request, group, waiting, backlog, ended, appends, resets>>
  BY DEF WriteMerged
<1>3. n \in Nodes /\ f \in Files /\ m.read \in ReadSet
  BY <1>1, <1>2 DEF TypeInv, Threads, MergeSet
<1>4. P \in MergedSet /\ MergedRegion(P) = 0 .. BlockSize - 1
  <2>1. P.slices = m.read.slices /\ P.late = m.read.late
    OBVIOUS
  <2>2. P \in MergedSet
    BY <1>3 DEF MergedSet, ReadSet
  <2>3. MergedRegion(m.read) = 0 .. BlockSize - 1
    BY <1>1, <1>2 DEF Merging
  <2>4. MergedRegion(P) = MergedRegion(m.read)
    BY <2>1 DEF MergedRegion
  <2>. QED
    BY <2>2, <2>3, <2>4
<1>5. /\ Pieces(n, f)' = {P}
      /\ \A l \in Nodes, g \in Files : l # n \/ g # f => Pieces(l, g)' = Pieces(l, g)
  <2>1. file'[n][f] = <<P>>
    BY <1>1, <1>2, <1>3 DEF TypeInv, Disks
  <2>2. DOMAIN <<P>> = {1} /\ <<P>>[1] = P
    OBVIOUS
  <2>3. Pieces(n, f)' = {P}
    BY <2>1, <2>2 DEF Pieces
  <2>4. \A l \in Nodes, g \in Files : l # n \/ g # f => file'[l][g] = file[l][g]
    BY <1>1, <1>2, <1>3 DEF TypeInv, Disks
  <2>. QED
    BY <2>3, <2>4 DEF Pieces
<1>6. History(H)'
  BY <1>1, <1>2, StillHistory DEF Idle, History
<1>7. \A j, b : SliceIn(H, j, b)' = SliceIn(H, j, b)
  BY <1>2, SameSlices
<1>8. \A s : Known(H, s)' <=> Known(H, s)
  BY <1>2, <1>7 DEF Known, Sent
<1>9. \A g : MergeDue(H, g)' <=> MergeDue(H, g)
  BY <1>2 DEF MergeDue, Committed
<1>10. SlicesKnown(H)'
  BY <1>1, <1>2, <1>8 DEF Handled, SlicesKnown
<1>11. PiecesKnown(H)'
  <2> SUFFICES ASSUME NEW l \in Nodes, NEW g \in Files, NEW p \in Pieces(l, g)'
               PROVE  Owned(H, l, g, p)' \/ MergedWhole(H, g, p)'
    BY DEF PiecesKnown
  <2>1. CASE l = n /\ g = f
    BY <1>1, <1>4, <1>5, <1>9, <2>1 DEF Merging, MergedWhole
  <2>2. CASE ~ (l = n /\ g = f)
    <3>1. p \in Pieces(l, g)
      BY <1>5, <2>2
    <3>2. CASE Owned(H, l, g, p)
      BY <1>2, <1>8, <3>2 DEF Owned
    <3>3. CASE MergedWhole(H, g, p)
      BY <1>9, <3>3 DEF MergedWhole
    <3>. QED
      BY <1>1, <3>1, <3>2, <3>3 DEF Handled, PiecesKnown
  <2>. QED
    BY <2>1, <2>2
<1>12. NoneLost(H)'
  <2> SUFFICES ASSUME NEW j \in 1 .. appends, NEW i \in Groups, Sent(j, i),
                      NEW b \in Watched \intersect PlanBlocks(H[j].offset, H[j].size, i),
                      ended[SliceIn(H, j, b).node] = None
               PROVE  Arrived(SliceIn(H, j, b))'
    BY <1>2, <1>7 DEF NoneLost, Sent
  <2> PICK s : s = SliceIn(H, j, b)
    OBVIOUS
  <2>1. s.node \in Nodes /\ s.file \in Files
    <3>1. m_stripe_table[H[j].stripe] \in Placements /\ H[j].stripe \in StripeIds
      BY <1>1, MadeSizes DEF History
    <3>. QED
      BY <3>1 DEF SliceIn, Placements, Files
  <2>2. Arrived(s)
    BY <1>1 DEF Handled, NoneLost
  <2>3. Arrived(s)'
    <3>1. CASE s.node = n /\ s.file = f
      BY <1>4, <1>5, <3>1 DEF Arrived
    <3>2. CASE ~ (s.node = n /\ s.file = f)
      BY <1>2, <1>5, <2>1, <2>2, <3>2 DEF Arrived
    <3>. QED
      BY <3>1, <3>2
  <2>. QED
    BY <1>7, <2>3
<1>13. MergesKnown(H)'
  <2> SUFFICES ASSUME NEW o \in merging \ {m} PROVE Merging(H, o)'
    BY <1>2 DEF MergesKnown
  <2>1. Merging(H, o) /\ o.file # f
    BY <1>1 DEF Handled, MergesKnown, Merging
  <2>2. o.node \in Nodes /\ o.file \in Files
    BY <1>1 DEF TypeInv, Threads, MergeSet
  <2>3. Pieces(o.node, o.file)' = Pieces(o.node, o.file)
    BY <1>5, <2>1, <2>2
  <2>. QED
    BY <1>2, <1>9, <2>1, <2>3 DEF Merging
<1>14. NodesEnded'
  <2>1. ended[n] = None
    BY <1>1 DEF Merging
  <2>2. \A l \in Nodes : ended[l] # None => \A g \in Files : Pieces(l, g)' = Pieces(l, g)
    BY <1>5, <2>1
  <2>3. \A l \in Nodes : ended[l] # None /\ ended[l].why = "file exists" => ended[l].at \in Files
    <3>1. \A l \in Nodes : ended[l] \in {None} \union Ends
      BY <1>1 DEF TypeInv, Disks
    <3>. QED
      BY <3>1 DEF Ends
  <2>. QED
    BY <1>1, <1>2, <2>2, <2>3 DEF Handled, NodesEnded
<1>. QED
  BY <1>1, <1>6, <1>10, <1>11, <1>12, <1>13, <1>14 DEF AppendInv, Handled

-----------------------------------------------------------------------------
(* The theorems.                                                           *)

\* While the tables were not cleared, the state has a history.
Traced == TypeInv /\ (resets = 0 => \E H : AppendInv(H))

\* Every step keeps that: only setParameter breaks with the history.
LEMMA StepTraced == Traced /\ [Next]_vars => Traced'
<1> SUFFICES ASSUME Traced, [Next]_vars PROVE Traced'
  OBVIOUS
<1>1. TypeInv /\ TypeInv'
  BY StepTypeInv DEF Traced
<1> SUFFICES ASSUME resets' = 0 PROVE \E G : AppendInv(G)'
  BY <1>1 DEF Traced
<1>2. ~ setParameter
  BY <1>1 DEF setParameter, TypeInv, Counters
<1>3. resets = 0
  BY <1>2 DEF Next, vars, UploadAppendValue, SendSlices, MergeAndReport, Acknowledge,
              WriteSlice, ReadRecords, WriteMerged, Finished
<1>4. PICK H : AppendInv(H)
  BY <1>3 DEF Traced
<1>5. ASSUME NEW c \in Clients, NEW size \in Sizes, UploadAppendValue(c, size)
      PROVE  \E G : AppendInv(G)'
  BY <1>4, <1>5, UploadKept
<1>6. ASSUME NEW i \in Groups, SendSlices(i) PROVE \E G : AppendInv(G)'
  BY <1>4, <1>6, SendKept
<1>7. ASSUME NEW i \in Groups, MergeAndReport(i) PROVE \E G : AppendInv(G)'
  BY <1>4, <1>7, MergeKept
<1>8. CASE Acknowledge
  BY <1>4, <1>8, AckKept
<1>9. ASSUME NEW h \in waiting, NEW c \in backlog, WriteSlice(h, c)
      PROVE  \E G : AppendInv(G)'
  BY <1>4, <1>9, WriteKept
<1>10. ASSUME NEW m \in merging, ReadRecords(m) PROVE \E G : AppendInv(G)'
  BY <1>4, <1>10, ReadKept
<1>11. ASSUME NEW m \in merging, WriteMerged(m) PROVE \E G : AppendInv(G)'
  BY <1>4, <1>11, WriteMergedKept
<1>12. CASE UNCHANGED vars
  <2>1. AppendInv(H)'
    <3>1. History(H)'
      BY <1>4, <1>12, StillHistory DEF vars, AppendInv, History, Idle
    <3>2. \A j, b : SliceIn(H, j, b)' = SliceIn(H, j, b)
      BY <1>12, SameSlices DEF vars
    <3>3. \A h : Known(H, h) => Known(H, h)'
      BY <1>12, <3>2 DEF vars, Known, Sent
    <3>4. \A f : MergeDue(H, f) => MergeDue(H, f)'
      BY <1>12 DEF vars, MergeDue, Committed
    <3>5. \A s : Arrived(s) => Arrived(s)'
      BY <1>12 DEF vars, Arrived, Pieces
    <3>6. NoneLost(H)'
      <4> SUFFICES ASSUME NEW j \in 1 .. appends, NEW i \in Groups, Sent(j, i),
                          NEW b \in Watched \intersect PlanBlocks(H[j].offset, H[j].size, i),
                          ended[SliceIn(H, j, b).node] = None
                   PROVE  Arrived(SliceIn(H, j, b))'
        BY <1>12, <3>2 DEF vars, NoneLost, Sent
      <4> PICK s : s = SliceIn(H, j, b)
        OBVIOUS
      <4>1. Arrived(s)
        BY <1>4 DEF AppendInv, Handled, NoneLost
      <4>. QED
        BY <3>2, <3>5, <4>1
    <3>7. Handled(H)'
      BY <1>4, <1>12, <3>3, <3>4, <3>6, StillHandled DEF vars, AppendInv
    <3>. QED
      BY <1>1, <3>1, <3>7 DEF AppendInv
  <2>. QED
    BY <2>1
<1>. QED
  BY <1>2, <1>5, <1>6, <1>7, <1>8, <1>9, <1>10, <1>11, <1>12 DEF Next, Finished

\* Whatever the clients append, the state is the outcome of the appends in
\* their order, until setParameter clears the tables.
THEOREM TracedHolds == Spec => []Traced
<1>1. Init => Traced
  BY InitTypeInv, InitAppend DEF Traced
<1>. QED
  BY <1>1, StepTraced, PTL DEF Spec

\* No append alone ends a process, but for the race of two appends to create a
\* file and for a merge before any record; and none turns a parity to garbage.
THEOREM EndsExplainedHolds == Spec => []EndsExplained
<1>1. Traced => EndsExplained
  <2> SUFFICES ASSUME Traced, resets = 0 PROVE EndsExplained
    BY DEF EndsExplained
  <2>1. PICK H : AppendInv(H)
    BY DEF Traced
  <2>2. NodesEnded /\ PiecesKnown(H)
    BY <2>1 DEF AppendInv, Handled
  <2>3. \A n \in Nodes, f \in Files : \A p \in Pieces(n, f) : p.kind # "garbage"
    BY <2>2 DEF PiecesKnown, Owned, MergedWhole, OwnedSet, MergedSet
  <2>. QED
    BY <2>2, <2>3 DEF EndsExplained, NodesEnded
<1>. QED
  BY <1>1, TracedHolds, PTL

\* Append i is on its way to the file, or in it.
Here(n, f, i) ==
  \/ \E h \in Late([node |-> n, file |-> f]) : h.no = i
  \/ \E l \in DOMAIN file[n][f] : file[n][f][l].own.no = i

\* An earlier append that brought a byte of a data block is there, as long as
\* the node runs.
LEMMA Present ==
  ASSUME NEW H, AppendInv(H), NEW n \in Nodes, NEW f \in Files, f[2] \in DataBlocks,
         n = m_stripe_table[f[1]][f[2]], ended[n] = None,
         NEW i \in 1 .. appends - 1, H[i].stripe = f[1],
         NEW q \in Bytes(H[i]), BlockOf(q) = f[2]
  PROVE  Here(n, f, i)
<1>1. TypeInv /\ History(H) /\ Handled(H) /\ i \in 1 .. appends
  BY DEF AppendInv, TypeInv, Counters
<1>2. f[2] \in Watched /\ f = <<f[1], f[2]>>
  BY DEF Files
<1>3. PICK g \in Groups : f[2] \in GroupBlocks(g)
  BY <1>2, Bounds, GroupOf
<1>4. f[2] \in GroupData(g)
  BY <1>3, GroupsOfBlocks DEF Groups, GroupBlocks
<1>5. /\ H[i].offset \in 0 .. StripeSize - 1 /\ H[i].size \in 1 .. StripeSize - H[i].offset
      /\ q \in H[i].offset .. H[i].offset + H[i].size - 1
  BY <1>1, MadeSizes DEF History, Bytes
<1>6. DataSlices(H[i].offset, H[i].size)[f[2]].size > 0
  BY <1>5, Touched
<1>7. f[2] \in Watched \intersect PlanBlocks(H[i].offset, H[i].size, g)
  BY <1>2, <1>4, <1>6 DEF PlanBlocks
<1>8. Sent(i, g)
  BY <1>1 DEF Sent, TypeInv, Counters
<1> PICK s : s = SliceIn(H, i, f[2])
  OBVIOUS
<1>9. s.node = n /\ s.file = f /\ s.no = i
  BY <1>2 DEF SliceIn
<1>10. Arrived(s)
  BY <1>1, <1>7, <1>8, <1>9 DEF Handled, NoneLost
<1>11. \A p \in Pieces(n, f) : p \notin MergedSet
  <2> SUFFICES ASSUME NEW p \in Pieces(n, f) PROVE p \notin MergedSet
    OBVIOUS
  <2>1. Owned(H, n, f, p)
    BY <1>1 DEF Handled, PiecesKnown, MergedWhole
  <2>. QED
    BY <2>1 DEF Owned, OwnedSet, MergedSet
<1>12. CASE s \in waiting
  <2>1. s \in Late([node |-> n, file |-> f])
    BY <1>9, <1>12 DEF Late
  <2>. QED
    BY <1>9, <2>1 DEF Here
<1>13. CASE \E p \in Pieces(n, f) : p.own = s
  BY <1>9, <1>13 DEF Pieces, Here
<1>. QED
  BY <1>9, <1>10, <1>11, <1>12, <1>13 DEF Arrived

\* In a file that nothing disturbed, each slice lies at its offset: a byte
\* between it and the piece before it would be of an append whose piece comes
\* between.
LEMMA PlacedInOrder ==
  ASSUME NEW H, AppendInv(H), NEW n \in Nodes, NEW f \in Files, f[2] \in DataBlocks,
         Undisturbed(n, f), NEW j \in DOMAIN file[n][f]
  PROVE  file[n][f][j].own.offset = WrittenAt(file[n][f], j)
<1> DEFINE P == file[n][f]
           b == f[2]
           no(l) == P[l].own.no
           cut(l) == DataSlices(H[no(l)].offset, H[no(l)].size)[b]
<1>1. TypeInv /\ History(H) /\ Handled(H)
  BY DEF AppendInv
<1>2. P \in Seq(PieceSet) /\ DOMAIN P = 1 .. Len(P) /\ Len(P) \in Nat
  <2>1. P \in Seq(PieceSet)
    BY <1>1 DEF TypeInv, Disks
  <2>. QED
    BY <2>1, LenProperties
<1>3. /\ ended[n] = None
      /\ \A l, m \in DOMAIN P : l < m => no(l) < no(m)
      /\ \A h \in Late([node |-> n, file |-> f]), l \in DOMAIN P : h.no > no(l)
  BY DEF Undisturbed
<1>4. ASSUME NEW l \in DOMAIN P
      PROVE  /\ no(l) \in 1 .. appends /\ H[no(l)].stripe = f[1]
             /\ n = m_stripe_table[f[1]][b]
             /\ P[l].own.offset = cut(l).offset /\ P[l].own.size = cut(l).size
             /\ cut(l).size > 0
             /\ H[no(l)].offset \in 0 .. StripeSize - 1
             /\ H[no(l)].size \in 1 .. StripeSize - H[no(l)].offset
             /\ End(H[no(l)]) = H[no(l)].offset + H[no(l)].size
  <2> DEFINE o == P[l].own
  <2>1. P[l] \in Pieces(n, f)
    BY <1>4 DEF Pieces
  <2>2. Owned(H, n, f, P[l])
    BY <1>1, <2>1 DEF Handled, PiecesKnown, MergedWhole
  <2>3. Known(H, o) /\ o.file = f /\ o.node = n /\ o.size > 0
    BY <2>2 DEF Owned, OwnedSet, SliceSet
  <2>4. o.no \in 1 .. appends /\ o = SliceIn(H, o.no, b)
    BY <2>3 DEF Known
  <2> HIDE DEF o
  <2>5. /\ o.file = <<H[o.no].stripe, b>> /\ o.node = m_stripe_table[H[o.no].stripe][b]
        /\ o.offset = DataSlices(H[o.no].offset, H[o.no].size)[b].offset
        /\ o.size = DataSlices(H[o.no].offset, H[o.no].size)[b].size
    BY <2>4 DEF SliceIn, SliceOf
  <2>6. H[o.no].stripe = f[1]
    <3> PICK S : S = H[o.no].stripe
      OBVIOUS
    <3>1. f = <<S, f[2]>>
      BY <2>3, <2>5
    <3>. QED
      BY <3>1
  <2>7. /\ H[o.no].offset \in 0 .. StripeSize - 1
        /\ H[o.no].size \in 1 .. StripeSize - H[o.no].offset
        /\ End(H[o.no]) = H[o.no].offset + H[o.no].size
    BY <1>1, <2>4, MadeSizes DEF History
  <2>. QED
    BY <2>3, <2>4, <2>5, <2>6, <2>7 DEF o
<1>0. j \in DOMAIN P
  OBVIOUS
<1> HIDE DEF P, no, cut, b
<1>5. ASSUME NEW q \in 0 .. H[no(j)].offset - 1, BlockOf(q) = b
      PROVE  \E l \in DOMAIN P : l < j /\ q \in Bytes(H[no(l)])
  <2>1. PICK i \in 1 .. no(j) - 1 : H[i].stripe = f[1] /\ q \in Bytes(H[i])
    <3>1. no(j) \in 1 .. appends /\ H[no(j)].stripe = f[1]
      BY <1>0, <1>4
    <3>. QED
      BY <1>1, <1>5, <3>1 DEF History, Gapless
  <2>2. no(j) \in 1 .. appends /\ i \in 1 .. appends - 1 /\ n = m_stripe_table[f[1]][b]
    <3>1. no(j) \in 1 .. appends /\ n = m_stripe_table[f[1]][b]
      BY <1>0, <1>4
    <3>. QED
      BY <1>1, <2>1, <3>1 DEF TypeInv, Counters
  <2>3. \/ \E h \in Late([node |-> n, file |-> f]) : h.no = i
        \/ \E l \in DOMAIN P : no(l) = i
    <3>1. ended[n] = None /\ BlockOf(q) = f[2] /\ n = m_stripe_table[f[1]][f[2]]
      BY <1>3, <1>5, <2>2 DEF b
    <3>2. Here(n, f, i)
      BY <2>1, <2>2, <3>1, Present
    <3>. QED
      BY <3>2 DEF P, no, Here
  <2>4. ~ \E h \in Late([node |-> n, file |-> f]) : h.no = i
    BY <1>0, <1>3, <2>1, <2>2
  <2>5. PICK l \in DOMAIN P : no(l) = i
    BY <2>3, <2>4
  <2>6. l < j
    <3>1. l \in Nat /\ j \in Nat
      BY <1>0, <1>2
    <3>2. ~ (j < l) /\ l # j
      BY <1>0, <1>3, <2>1, <2>2, <2>5
    <3>. QED
      BY <3>1, <3>2
  <2>. QED
    BY <2>1, <2>5, <2>6
<1>6. CASE j = 1
  <2>1. \A q \in 0 .. H[no(j)].offset - 1 : BlockOf(q) # b
    BY <1>2, <1>5, <1>6
  <2>2. cut(j).offset = 0
    <3>1. /\ H[no(j)].offset \in 0 .. StripeSize - 1
          /\ H[no(j)].size \in 1 .. StripeSize - H[no(j)].offset /\ cut(j).size > 0
      BY <1>0, <1>4
    <3>. QED
      BY <2>1, <3>1, CutStarts DEF cut, b
  <2>. QED
    BY <1>0, <1>4, <1>6, <2>2 DEF P, WrittenAt
<1>7. CASE j # 1
  <2> PICK i : i = j - 1
    OBVIOUS
  <2>1. i \in DOMAIN P /\ j \in DOMAIN P /\ i < j
    BY <1>0, <1>2, <1>7
  <2> DEFINE x == no(i)
             y == no(j)
  <2>2. x \in 1 .. appends /\ y \in 1 .. appends /\ x < y
        /\ H[x].stripe = f[1] /\ H[y].stripe = f[1]
    BY <1>3, <1>4, <2>1
  <2>3. End(H[x]) <= H[y].offset
    BY <1>1, <2>2 DEF History, InOrder
  <2>4. /\ H[x].offset \in 0 .. StripeSize - 1 /\ H[x].size \in 1 .. StripeSize - H[x].offset
        /\ H[y].offset \in 0 .. StripeSize - 1 /\ H[y].size \in 1 .. StripeSize - H[y].offset
        /\ End(H[x]) = H[x].offset + H[x].size
        /\ cut(i).size > 0 /\ cut(j).size > 0
    BY <1>4, <2>1
  <2>5. ASSUME NEW q \in End(H[x]) .. H[y].offset - 1, BlockOf(q) = b PROVE FALSE
    <3>1. q \in 0 .. H[y].offset - 1
      BY <2>4, Positive
    <3>2. PICK l \in DOMAIN P : l < j /\ q \in Bytes(H[no(l)])
      BY <1>5, <2>5, <3>1
    <3>3. /\ no(l) \in 1 .. appends /\ H[no(l)].stripe = f[1]
          /\ H[no(l)].offset \in 0 .. StripeSize - 1
          /\ End(H[no(l)]) = H[no(l)].offset + H[no(l)].size
          /\ H[no(l)].size \in 1 .. StripeSize - H[no(l)].offset
      BY <1>4
    <3>4. q < End(H[no(l)])
      BY <3>2, <3>3, Positive DEF Bytes
    <3>5. CASE l = i
      BY <2>4, <3>4, <3>5, Positive
    <3>6. CASE l # i
      <4>1. l < i
        <5>1. l \in Nat /\ j \in Nat
          BY <1>0, <1>2
        <5>. QED
          BY <3>2, <3>6, <5>1
      <4>2. no(l) < x
        BY <1>3, <2>1, <4>1
      <4>3. End(H[no(l)]) <= H[x].offset
        BY <1>1, <2>2, <3>3, <4>2 DEF History, InOrder
      <4>. QED
        BY <2>4, <3>3, <3>4, <4>3, Positive
    <3>. QED
      BY <3>5, <3>6
  <2>6. cut(j).offset = cut(i).offset + cut(i).size
    <3> HIDE DEF x, y
    <3>1. \A q \in H[x].offset + H[x].size .. H[y].offset - 1 : BlockOf(q) # b
      BY <2>4, <2>5
    <3>2. H[x].offset + H[x].size <= H[y].offset
      BY <2>3, <2>4
    <3>3. cut(i) = DataSlices(H[x].offset, H[x].size)[b]
          /\ cut(j) = DataSlices(H[y].offset, H[y].size)[b]
      BY DEF x, y, cut
    <3>4. b \in DataBlocks
      BY DEF b
    <3>. QED
      BY <2>4, <3>1, <3>2, <3>3, <3>4, CutAdjoins
  <2>7. P[i].own.offset = cut(i).offset /\ P[i].own.size = cut(i).size
        /\ P[j].own.offset = cut(j).offset
    BY <1>4, <2>1
  <2>8. P[j].own.offset = WrittenAt(P, j)
    BY <1>7, <2>6, <2>7 DEF WrittenAt
  <2>. QED
    BY <2>8 DEF P
<1>. QED
  BY <1>6, <1>7

\* The files of data blocks that nothing disturbed have every slice at the
\* offset of the plan, and every merged parity is the sum of slices that cover
\* the block.
THEOREM FilesInOrderHolds == Spec => []FilesInOrder
<1>1. Traced => FilesInOrder
  <2> SUFFICES ASSUME Traced, resets = 0, NEW n \in Nodes, NEW f \in Files
               PROVE  /\ f[2] \in DataBlocks /\ Undisturbed(n, f) =>
                           \A j \in DOMAIN file[n][f] :
                             file[n][f][j].own.offset = WrittenAt(file[n][f], j)
                      /\ \A p \in Pieces(n, f) :
                           p.kind = "merged" => MergedRegion(p) = 0 .. BlockSize - 1
    BY DEF FilesInOrder
  <2>1. PICK H : AppendInv(H)
    BY DEF Traced
  <2>2. ASSUME NEW p \in Pieces(n, f), p.kind = "merged"
        PROVE  MergedRegion(p) = 0 .. BlockSize - 1
    BY <2>1, <2>2 DEF AppendInv, Handled, PiecesKnown, Owned, OwnedSet, MergedWhole
  <2>. QED
    BY <2>1, <2>2, PlacedInOrder
<1>. QED
  BY <1>1, TracedHolds, PTL

\* Any append that can be made is cut into exactly its bytes, covered by its
\* parity slices, and proxy and client cut what the coordinator counted.
THEOREM SlicesAreBytesHolds == Spec => []SlicesAreBytes
<1>1. SlicesAreBytes
  BY DataIsTiled, ParityShape, SizesAgree DEF SlicesAreBytes, Groups
<1>. QED
  BY <1>1, PTL
=============================================================================
