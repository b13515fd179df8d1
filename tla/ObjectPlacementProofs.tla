------------------------ MODULE ObjectPlacementProofs ------------------------
(***************************************************************************)
(* Proofs about ObjectPlacement, for every schema that SetParameterByGrpc  *)
(* lets pass, every number of clusters that fits it, and any number of     *)
(* stripes and of calls of setParameter.                                   *)
(***************************************************************************)
EXTENDS ObjectPlacement, FiniteSetTheorems, TLAPS

-----------------------------------------------------------------------------
(* Quotients and remainders.                                               *)

\* Multiplying by a positive number keeps the order, and turns a step of one
\* into a step of d.
LEMMA Multiples ==
  ASSUME NEW d \in Nat \ {0}, NEW a \in Int, NEW c \in Int
  PROVE  /\ a * d \in Int
         /\ a < c => a * d + d <= c * d
         /\ a <= c => a * d <= c * d
         /\ a \in Nat => a * d \in Nat
<1>1. a < c => (c - a) * d >= d
  OBVIOUS
<1>2. (c - a) * d = c * d - a * d
  OBVIOUS
<1>. QED
  BY <1>1, <1>2

\* A number is its quotient times the divisor, plus a remainder below it.
LEMMA Divided ==
  ASSUME NEW d \in Nat \ {0}, NEW a \in Nat
  PROVE  /\ a \div d \in Nat /\ a % d \in 0 .. d - 1
         /\ a = (a \div d) * d + (a % d)
<1>1. a \div d \in Int /\ a % d \in 0 .. d - 1 /\ a = d * (a \div d) + (a % d)
  OBVIOUS
<1>2. d * (a \div d) = (a \div d) * d /\ (a \div d) * d \in Int
  BY <1>1, Multiples
<1>3. a \div d < 0 => (a \div d) * d + d <= 0
  <2>1. a \div d < 0 => (a \div d) * d + d <= 0 * d
    BY <1>1, Multiples
  <2>. QED
    BY <2>1
<1>. QED
  BY <1>1, <1>2, <1>3

\* Quotient and remainder are the only way to write a number so.
LEMMA DivUnique ==
  ASSUME NEW d \in Nat \ {0}, NEW q \in Nat, NEW o \in 0 .. d - 1
  PROVE  /\ q * d + o \in Nat
         /\ (q * d + o) \div d = q /\ (q * d + o) % d = o
<1> DEFINE a == q * d + o
<1>1. a \in Nat
  BY Multiples
<1>2. a \div d = q
  BY <1>1
<1>3. a = (a \div d) * d + (a % d)
  BY <1>1, Divided
<1>. QED
  BY <1>1, <1>2, <1>3, Multiples

\* ceil rounds a quotient up.
LEMMA CeilUp ==
  ASSUME NEW a \in Nat \ {0}, NEW d \in Nat \ {0}
  PROVE  /\ ceil(a, d) \in Nat \ {0}
         /\ (ceil(a, d) - 1) * d < a /\ a <= ceil(a, d) * d
         /\ a % d = 0 <=> a = ceil(a, d) * d
<1>1. PICK n \in Nat : n = a + d - 1
  OBVIOUS
<1>2. PICK c \in Nat : c = n \div d
  BY Divided
<1>3. ceil(a, d) = c
  BY <1>1, <1>2 DEF ceil
<1>4. n % d \in 0 .. d - 1 /\ n = c * d + (n % d) /\ c * d \in Nat
  BY <1>2, Divided, Multiples
<1>5. (c - 1) * d = c * d - d
  BY <1>4
<1>6. c # 0
  <2>1. c = 0 => c * d = 0
    OBVIOUS
  <2>. QED
    BY <1>1, <1>4, <2>1
<1>7. (c - 1) * d < a /\ a <= c * d
  BY <1>1, <1>4, <1>5
<1>8. a % d = 0 <=> a = c * d
  <2>1. a = c * d => a % d = 0
    <3>1. (c * d + 0) % d = 0
      BY DivUnique
    <3>. QED
      BY <1>4, <3>1
  <2>2. ASSUME a % d = 0 PROVE a = c * d
    <3>1. PICK m \in Nat : m = a \div d
      BY Divided
    <3>2. a = m * d + (a % d)
      BY <3>1, Divided
    <3>3. PICK v \in Nat : v = m * d
      BY <3>1, Multiples
    <3>4. a = v
      BY <2>2, <3>2, <3>3
    <3>5. ~ (m < c)
      <4>1. m < c => m * d + d <= c * d
        BY Multiples
      <4>. QED
        BY <4>1, <3>3, <3>4, <1>4, <1>5, <1>7
    <3>6. ~ (c < m)
      <4>1. c < m => c * d + d <= m * d
        BY Multiples
      <4>. QED
        BY <4>1, <3>3, <3>4, <1>4, <1>5, <1>7
    <3>. QED
      BY <3>3, <3>4, <3>5, <3>6
  <2>. QED
    BY <2>1, <2>2
<1>. QED
  BY <1>3, <1>6, <1>7, <1>8

-----------------------------------------------------------------------------
(* The chunks of a stripe.                                                 *)

\* what is known of a schema that a client may set
Shape(s) ==
  /\ s.k \in Nat \ {0} /\ s.l \in Nat \ {0} /\ s.g_m \in Nat /\ s.b \in Nat \ {0}
  /\ s.x \in Nat \ {0} /\ s.m_placement \in Placements
  /\ s.k = s.l * s.b

\* What SetParameterByGrpc lets pass has the numbers the proofs work with.
LEMMA LegalShape ==
  ASSUME NEW s \in Schemas, Legal(s)
  PROVE  Shape(s)
<1>1. /\ s.k \in Nat \ {0} /\ s.l \in 1 .. s.k /\ s.g_m \in Nat /\ s.b \in Nat \ {0}
      /\ s.x \in Nat \ {0} /\ s.m_placement \in Placements
  BY PlacementAssumption
<1>2. PICK k \in Nat \ {0}, l \in Nat \ {0}, b \in Nat \ {0} : k = s.k /\ l = s.l /\ b = s.b
  BY <1>1
<1>3. b = k \div l /\ k % l = 0
  BY <1>2 DEF Legal
<1>4. k = (k \div l) * l + (k % l)
  BY Divided
<1>5. k = b * l /\ b * l = l * b
  BY <1>3, <1>4, Multiples
<1>. QED
  BY <1>1, <1>2, <1>5 DEF Shape

\* chunks in a local group, and chunk number c of group i
PerGroup(s)  == ceil(s.b, s.g_m + 1)
At(s, i, c)  == i * s.b + c * (s.g_m + 1)

\* The numbers of a schema, their widths named. A chunk is as wide as g_m + 1
\* blocks, the last of a group ends it, and is full when the widths divide.
LEMMA Chunked ==
  ASSUME NEW s, Shape(s)
  PROVE  \E k, l, b, w, q \in Nat \ {0} :
           /\ s.k = k /\ s.l = l /\ s.b = b /\ s.g_m = w - 1 /\ PerGroup(s) = q
           /\ k = l * b /\ (q - 1) * w < b /\ b <= q * w
           /\ Full(s) <=> b = q * w
<1>1. PICK k, l, b, w \in Nat \ {0} :
         s.k = k /\ s.l = l /\ s.b = b /\ s.g_m = w - 1 /\ s.g_m + 1 = w
  <2>1. s.g_m + 1 \in Nat \ {0} /\ s.g_m = (s.g_m + 1) - 1
    BY DEF Shape
  <2>. QED
    BY <2>1 DEF Shape
<1>2. PICK q \in Nat \ {0} : q = ceil(b, w)
  BY CeilUp
<1>3. (q - 1) * w < b /\ b <= q * w /\ (b % w = 0 <=> b = q * w)
  BY <1>2, CeilUp
<1>4. k = l * b
  BY <1>1 DEF Shape
<1>5. PerGroup(s) = q
  BY <1>1, <1>2 DEF PerGroup
<1>6. Full(s) <=> b % w = 0
  BY <1>1 DEF Full
<1>. QED
  BY <1>1, <1>3, <1>4, <1>5, <1>6

\* Chunk number c of group i is a chunk, of that group.
LEMMA ChunkAt ==
  ASSUME NEW s, Shape(s), NEW i \in 0 .. s.l - 1, NEW c \in 0 .. PerGroup(s) - 1
  PROVE  /\ At(s, i, c) \in Chunks(s) /\ At(s, i, c) \in Nat
         /\ GroupOf(s, At(s, i, c)) = i
         /\ At(s, i, c) % s.b = c * (s.g_m + 1)
<1>1. PICK k, l, b, w, q \in Nat \ {0} :
           /\ s.k = k /\ s.l = l /\ s.b = b /\ s.g_m = w - 1 /\ PerGroup(s) = q
           /\ k = l * b /\ (q - 1) * w < b /\ b <= q * w
  BY Chunked
<1>2. i \in Nat /\ c \in Nat /\ i < l /\ c < q
  BY <1>1
<1>3. PICK o \in Nat : o = c * w
  BY <1>2, Multiples
<1>4. o < b
  <2>1. c * w <= (q - 1) * w
    BY <1>2, Multiples
  <2>2. (q - 1) * w \in Int
    BY Multiples
  <2>. QED
    BY <1>1, <1>3, <2>1, <2>2
<1>5. PICK y \in Nat : y = i * b
  BY <1>2, Multiples
<1>6. y + b <= k
  <2>1. i * b + b <= l * b
    BY <1>2, Multiples
  <2>. QED
    BY <1>1, <1>5, <2>1
<1>7. PICK j \in Nat : j = y + o
  OBVIOUS
<1>8. At(s, i, c) = j
  BY <1>1, <1>3, <1>5, <1>7 DEF At
<1>9. j \div b = i /\ j % b = o
  BY <1>2, <1>4, <1>5, <1>7, DivUnique
<1>10. o % w = 0
  <2>1. (c * w + 0) % w = 0
    BY <1>2, DivUnique
  <2>. QED
    BY <1>3, <2>1
<1>11. j \in 0 .. k - 1
  BY <1>4, <1>6, <1>7
<1>12. At(s, i, c) \in Chunks(s)
  BY <1>1, <1>8, <1>9, <1>10, <1>11 DEF Chunks
<1>. QED
  BY <1>1, <1>3, <1>8, <1>9, <1>12 DEF GroupOf

\* The chunk a data block is in.
LEMMA BlockInChunk ==
  ASSUME NEW s, Shape(s), NEW o \in 0 .. s.k - 1
  PROVE  \E i \in 0 .. s.l - 1 : \E c \in 0 .. PerGroup(s) - 1 :
           /\ PartOf(s, o) = At(s, i, c) /\ GroupOf(s, o) = i
           /\ At(s, i, c) <= o /\ o < At(s, i, c) + s.g_m + 1 /\ o < (i + 1) * s.b
<1>1. PICK k, l, b, w, q \in Nat \ {0} :
           /\ s.k = k /\ s.l = l /\ s.b = b /\ s.g_m = w - 1 /\ PerGroup(s) = q
           /\ k = l * b /\ (q - 1) * w < b /\ b <= q * w
  BY Chunked
<1>0. o \in Nat /\ o < k
  BY <1>1
<1>2. PICK i \in Nat : i = o \div b
  BY <1>0, Divided
<1>3. PICK y \in Nat : y = i * b
  BY Multiples
<1>4. PICK a \in Nat : a = o % b /\ a < b
  <2>1. PICK n \in Nat : n = o
    BY <1>0
  <2>2. n % b \in 0 .. b - 1
    BY Divided
  <2>. QED
    BY <2>1, <2>2
<1>5. o = y + a
  BY <1>0, <1>2, <1>3, <1>4, Divided
<1>6. i < l
  <2>1. l <= i => l * b <= i * b
    BY Multiples
  <2>. QED
    BY <1>0, <1>1, <1>3, <1>5, <2>1
<1>7. PICK c \in Nat : c = a \div w
  BY Divided
<1>8. PICK e \in Nat : e = a % w /\ e < w
  <2>1. a % w \in 0 .. w - 1
    BY Divided
  <2>. QED
    BY <2>1
<1>9. PICK m \in Nat : m = c * w
  BY Multiples
<1>10. a = m + e
  BY <1>7, <1>8, <1>9, Divided
<1>11. c < q
  <2>1. q <= c => q * w <= c * w
    BY Multiples
  <2>2. q * w \in Nat
    BY Multiples
  <2>. QED
    BY <1>1, <1>4, <1>9, <1>10, <2>1, <2>2
<1>12. PartOf(s, o) = o - e
  <2>1. o < s.k /\ (o % s.b) % (s.g_m + 1) = e
    BY <1>0, <1>1, <1>4, <1>8
  <2>2. o \notin Globals(s)
    BY <1>0, <1>1 DEF Globals
  <2>. QED
    BY <2>1, <2>2 DEF PartOf
<1>13. At(s, i, c) = y + m
  BY <1>1, <1>3, <1>9 DEF At
<1>14. (i + 1) * b = y + b
  BY <1>3
<1>15. i \in 0 .. s.l - 1 /\ c \in 0 .. PerGroup(s) - 1
  BY <1>1, <1>6, <1>11
<1>16. GroupOf(s, o) = i
  BY <1>1, <1>2 DEF GroupOf
<1>17. /\ PartOf(s, o) = At(s, i, c)
       /\ At(s, i, c) <= o /\ o < At(s, i, c) + s.g_m + 1 /\ o < (i + 1) * s.b
  BY <1>0, <1>1, <1>4, <1>5, <1>8, <1>10, <1>12, <1>13, <1>14
<1>. QED
  BY <1>15, <1>16, <1>17

\* Every chunk is one of them, and stands for itself.
LEMMA ChunkHasPlace ==
  ASSUME NEW s, Shape(s), NEW j \in Chunks(s)
  PROVE  /\ PartOf(s, j) = j /\ j \in 0 .. s.k - 1
         /\ \E i \in 0 .. s.l - 1 : \E c \in 0 .. PerGroup(s) - 1 : j = At(s, i, c)
<1>1. j \in 0 .. s.k - 1 /\ (j % s.b) % (s.g_m + 1) = 0
  BY DEF Chunks
<1>2. j \in Nat /\ j < s.k
  BY <1>1 DEF Shape
<1>3. PartOf(s, j) = j - 0
  <2>1. j \notin Globals(s)
    BY <1>2 DEF Globals, Shape
  <2>. QED
    BY <1>1, <1>2, <2>1 DEF PartOf
<1>. QED
  BY <1>1, <1>2, <1>3, BlockInChunk

\* Different places are different chunks.
LEMMA PlaceOnce ==
  ASSUME NEW s, Shape(s), NEW i \in 0 .. s.l - 1, NEW c \in 0 .. PerGroup(s) - 1,
         NEW h \in 0 .. s.l - 1, NEW e \in 0 .. PerGroup(s) - 1, At(s, i, c) = At(s, h, e)
  PROVE  i = h /\ c = e
<1>1. i = h /\ c * (s.g_m + 1) = e * (s.g_m + 1)
  BY ChunkAt
<1>2. PICK l, w, q \in Nat \ {0} : s.l = l /\ s.g_m = w - 1 /\ PerGroup(s) = q
  BY Chunked
<1>3. c \in Nat /\ e \in Nat
  BY <1>2
<1>4. c < e => c * w + w <= e * w
  BY <1>3, Multiples
<1>5. e < c => e * w + w <= c * w
  BY <1>3, Multiples
<1>6. c * w = e * w /\ c * w \in Nat
  BY <1>1, <1>2, <1>3, Multiples
<1>. QED
  BY <1>1, <1>3, <1>4, <1>5, <1>6

\* The last chunk of a group; it is partial unless the chunks are full.
LEMMA LastOfGroup ==
  ASSUME NEW s, Shape(s), NEW i \in 0 .. s.l - 1
  PROVE  LastChunk(s, i) = At(s, i, PerGroup(s) - 1)
<1>1. PICK k, l, b, w, q \in Nat \ {0} :
           /\ s.k = k /\ s.l = l /\ s.b = b /\ s.g_m = w - 1 /\ PerGroup(s) = q
           /\ k = l * b /\ (q - 1) * w < b /\ b <= q * w
  BY Chunked
<1>2. i \in Nat
  BY <1>1
<1>3. PICK y \in Nat : y = i * b
  BY <1>2, Multiples
<1>4. (i + 1) * b = y + b
  BY <1>2, <1>3
<1>5. PICK m \in Int : m = (q - 1) * w
  BY Multiples
<1>6. q * w = m + w
  BY <1>5
<1> DEFINE last(j) == j \in Chunks(s) /\ GroupOf(s, j) = i /\ j + s.g_m + 1 >= (i + 1) * s.b
<1>7. PICK top : top = At(s, i, q - 1)
  OBVIOUS
<1>8. q - 1 \in 0 .. PerGroup(s) - 1
  BY <1>1
<1>9. last(top)
  <2>1. top \in Chunks(s) /\ GroupOf(s, top) = i
    BY <1>7, <1>8, ChunkAt
  <2>2. top = y + m
    BY <1>1, <1>3, <1>5, <1>7 DEF At
  <2>3. top + s.g_m + 1 >= (i + 1) * s.b
    BY <2>2, <1>1, <1>4, <1>6
  <2>. QED
    BY <2>1, <2>3
<1>10. ASSUME NEW j, last(j) PROVE j = top
  <2>1. PICK h \in 0 .. s.l - 1, c \in 0 .. PerGroup(s) - 1 : j = At(s, h, c)
    BY <1>10, ChunkHasPlace
  <2>2. h = i
    BY <1>10, <2>1, ChunkAt
  <2>3. c \in Nat /\ c < q
    BY <1>1, <2>1
  <2>4. PICK n \in Nat : n = c * w
    BY <2>3, Multiples
  <2>5. j = y + n
    BY <1>1, <1>3, <2>1, <2>2, <2>4 DEF At
  <2>6. c < q - 1 => n + w <= m
    BY <1>5, <2>3, <2>4, Multiples
  <2>7. j + (w - 1) + 1 >= y + b
    BY <1>1, <1>4, <1>10
  <2>8. ~ (c < q - 1)
    BY <1>1, <1>5, <2>5, <2>6, <2>7
  <2>9. c = q - 1
    BY <2>3, <2>8
  <2>. QED
    BY <1>7, <2>1, <2>2, <2>9
<1>11. LastChunk(s, i) = CHOOSE j : last(j)
  BY DEF LastChunk
<1>12. LastChunk(s, i) = top
  BY <1>9, <1>10, <1>11
<1>. QED
  BY <1>1, <1>7, <1>12

\* Only the last chunk of a local group is partial, and none if the groups are full.
LEMMA PartialAt ==
  ASSUME NEW s, Shape(s), NEW i \in 0 .. s.l - 1, NEW c \in 0 .. PerGroup(s) - 1
  PROVE  PartialChunk(s, At(s, i, c)) <=> c = PerGroup(s) - 1 /\ ~ Full(s)
<1>1. PICK k, l, b, w, q \in Nat \ {0} :
           /\ s.k = k /\ s.l = l /\ s.b = b /\ s.g_m = w - 1 /\ PerGroup(s) = q
           /\ Full(s) <=> b = q * w
  BY Chunked
<1>2. i \in Nat /\ c \in Nat
  BY <1>1
<1>3. PICK y \in Nat : y = i * b
  BY <1>2, Multiples
<1>4. (i + 1) * b = y + b
  BY <1>2, <1>3
<1>5. PICK m \in Int : m = (q - 1) * w
  BY Multiples
<1>6. q * w = m + w
  BY <1>5
<1>7. LastChunk(s, i) = At(s, i, q - 1) /\ q - 1 \in 0 .. PerGroup(s) - 1
  BY <1>1, LastOfGroup
<1>8. At(s, i, c) = LastChunk(s, i) <=> c = q - 1
  BY <1>7, PlaceOnce
<1>9. At(s, i, q - 1) = y + m
  BY <1>1, <1>3, <1>5 DEF At
<1>10. At(s, i, q - 1) + s.g_m + 1 # (i + 1) * s.b <=> ~ Full(s)
  BY <1>1, <1>4, <1>6, <1>9
<1>11. GroupOf(s, At(s, i, c)) = i
  BY ChunkAt
<1>. QED
  BY <1>1, <1>7, <1>8, <1>10, <1>11 DEF PartialChunk

-----------------------------------------------------------------------------
(* How many clusters a stripe needs.                                       *)

\* The chunks whose number in their group is below m, counted.
LEMMA ChunksBelow ==
  ASSUME NEW s, Shape(s), NEW m \in 0 .. PerGroup(s)
  PROVE  LET S == {At(s, p[1], p[2]) : p \in (0 .. s.l - 1) \X (0 .. m - 1)}
         IN  IsFiniteSet(S) /\ Cardinality(S) = s.l * m
<1> DEFINE P == (0 .. s.l - 1) \X (0 .. m - 1)
           S == {At(s, p[1], p[2]) : p \in P}
           f == [p \in P |-> At(s, p[1], p[2])]
<1>1. PICK l, q \in Nat \ {0} : s.l = l /\ PerGroup(s) = q
  BY Chunked
<1>2. m \in Nat /\ m <= q
  BY <1>1
<1>3. IsFiniteSet(P) /\ Cardinality(P) = s.l * m
  <2>1. IsFiniteSet(0 .. l - 1) /\ Cardinality(0 .. l - 1) = l
    BY FS_Interval
  <2>2. IsFiniteSet(0 .. m - 1) /\ Cardinality(0 .. m - 1) = m
    BY <1>2, FS_Interval
  <2>3. /\ IsFiniteSet((0 .. l - 1) \X (0 .. m - 1))
        /\ Cardinality((0 .. l - 1) \X (0 .. m - 1)) = Cardinality(0 .. l - 1) * Cardinality(0 .. m - 1)
    BY <2>1, <2>2, FS_Product
  <2>. QED
    BY <1>1, <2>1, <2>2, <2>3
<1>4. f \in Bijection(P, S)
  <2>1. f \in [P -> S] /\ \A t \in S : \E p \in P : f[p] = t
    OBVIOUS
  <2>2. ASSUME NEW a \in P, NEW c \in P, f[a] = f[c] PROVE a = c
    <3>1. /\ a = <<a[1], a[2]>> /\ c = <<c[1], c[2]>>
          /\ a[1] \in 0 .. s.l - 1 /\ c[1] \in 0 .. s.l - 1
          /\ a[2] \in 0 .. PerGroup(s) - 1 /\ c[2] \in 0 .. PerGroup(s) - 1
      BY <1>1, <1>2
    <3>2. At(s, a[1], a[2]) = At(s, c[1], c[2])
      BY <2>2
    <3>3. a[1] = c[1] /\ a[2] = c[2]
      BY <3>1, <3>2, PlaceOnce
    <3>. QED
      BY <3>1, <3>3
  <2>. QED
    BY <2>1, <2>2 DEF Bijection, Injection, Surjection, IsInjective
<1>5. ExistsBijection(P, S)
  BY <1>4 DEF ExistsBijection
<1>. HIDE DEF P, S
<1>6. IsFiniteSet(S) /\ Cardinality(S) = s.l * m
  BY <1>3, <1>5, FS_Bijection
<1>. QED
  BY <1>6 DEF S, P

\* required_cluster_num has a cluster for every chunk and one more.
LEMMA RequiredCounts ==
  ASSUME NEW s, Shape(s)
  PROVE  required_cluster_num(s) = s.l * PerGroup(s) + 1
<1>1. PICK k, l, b, w, q \in Nat \ {0} :
           /\ s.k = k /\ s.l = l /\ s.b = b /\ s.g_m = w - 1 /\ s.g_m + 1 = w /\ PerGroup(s) = q
           /\ (q - 1) * w < b /\ b <= q * w
           /\ Full(s) <=> b = q * w
  BY SMTT(30), Chunked
<1>2. PICK m \in Nat : m = q * w
  BY Multiples
<1>3. (q - 1) * w = m - w /\ (q + 1) * w = m + w
  BY <1>2
<1>4. PICK n \in Nat : n = b + w
  OBVIOUS
<1>5. ceil(b + 1, w) = n \div w
  <2>1. (b + 1) + w - 1 = n
    BY <1>4
  <2>. QED
    BY <2>1 DEF ceil
<1>6. q * l = l * q /\ (q + 1) * l = l * q + l /\ l * q \in Nat
  BY Multiples
<1>7. CASE Full(s)
  <2>1. n = (q + 1) * w + 0
    BY <1>1, <1>2, <1>3, <1>4, <1>7
  <2>2. n \div w = q + 1
    <3>1. ((q + 1) * w + 0) \div w = q + 1
      BY DivUnique
    <3>. QED
      BY <2>1, <3>1
  <2>3. required_cluster_num(s) = ((q + 1) * l) + 1 - l
    BY <1>1, <1>5, <1>7, <2>2 DEF required_cluster_num
  <2>. QED
    BY <1>1, <1>6, <2>3
<1>8. CASE ~ Full(s)
  <2>1. PICK e \in 0 .. w - 1 : e = b - (m - w)
    BY <1>1, <1>2, <1>3, <1>8
  <2>2. n = q * w + e
    BY <1>2, <1>4, <2>1
  <2>3. n \div w = q
    BY <2>1, <2>2, DivUnique
  <2>4. required_cluster_num(s) = (q * l) + 1 - 0
    BY <1>1, <1>5, <1>8, <2>3 DEF required_cluster_num
  <2>. QED
    BY <1>1, <1>6, <2>4
<1>. QED
  BY <1>7, <1>8

\* A stripe has as many chunks as clusters are asked for, less the one of the
\* global parities.
LEMMA ChunksCounted ==
  ASSUME NEW s, Shape(s)
  PROVE  /\ IsFiniteSet(Chunks(s)) /\ Cardinality(Chunks(s)) = required_cluster_num(s) - 1
         /\ required_cluster_num(s) \in Nat \ {0}
<1>1. PICK l, q \in Nat \ {0} : s.l = l /\ PerGroup(s) = q
  BY Chunked
<1> DEFINE S == {At(s, p[1], p[2]) : p \in (0 .. s.l - 1) \X (0 .. PerGroup(s) - 1)}
<1>2. Chunks(s) = S
  <2>1. ASSUME NEW j \in Chunks(s) PROVE j \in S
    <3>1. PICK i \in 0 .. s.l - 1, c \in 0 .. PerGroup(s) - 1 : j = At(s, i, c)
      BY ChunkHasPlace
    <3>2. <<i, c>> \in (0 .. s.l - 1) \X (0 .. PerGroup(s) - 1) /\ j = At(s, <<i, c>>[1], <<i, c>>[2])
      BY <3>1
    <3>. QED
      BY <3>2
  <2>2. S \subseteq Chunks(s)
    BY ChunkAt
  <2>. QED
    BY <2>1, <2>2
<1>3. IsFiniteSet(S) /\ Cardinality(S) = s.l * PerGroup(s)
  <2>1. PerGroup(s) \in 0 .. PerGroup(s)
    BY <1>1
  <2>. QED
    BY <2>1, ChunksBelow
<1>4. l * q \in Nat
  BY Multiples
<1>. HIDE DEF S
<1>. QED
  BY <1>1, <1>2, <1>3, <1>4, RequiredCounts

\* The clusters drawn are as many as the shared region leaves to be found.
LEMMA DrawnCounted ==
  ASSUME NEW s, Shape(s)
  PROVE  /\ IsFiniteSet(Drawn(s)) /\ agg_clusters_num(s) \in 0 .. required_cluster_num(s)
         /\ Cardinality(Drawn(s)) = required_cluster_num(s) - agg_clusters_num(s)
<1>1. PICK k, l, q \in Nat \ {0} : s.k = k /\ s.l = l /\ PerGroup(s) = q
  BY Chunked
<1>2. /\ IsFiniteSet(Chunks(s)) /\ Cardinality(Chunks(s)) = required_cluster_num(s) - 1
      /\ required_cluster_num(s) \in Nat \ {0}
  BY ChunksCounted
<1>3. CASE s.m_placement = "AGG"
  BY <1>2, <1>3, FS_EmptySet DEF Drawn, agg_clusters_num
<1>4. CASE s.m_placement = "OPT" /\ Full(s)
  <2>1. \A j \in Chunks(s) : ~ PartialChunk(s, j)
    BY <1>4, ChunkHasPlace, PartialAt
  <2>2. Drawn(s) = Chunks(s) /\ agg_clusters_num(s) = 1
    BY <1>4, <2>1 DEF Drawn, agg_clusters_num
  <2>. QED
    BY <1>2, <2>2
<1>5. CASE s.m_placement = "OPT" /\ ~ Full(s)
  <2> DEFINE S == {At(s, p[1], p[2]) : p \in (0 .. s.l - 1) \X (0 .. (q - 1) - 1)}
  <2>1. Drawn(s) = S
    <3>1. Drawn(s) = {j \in Chunks(s) : ~ PartialChunk(s, j)}
      BY <1>5 DEF Drawn
    <3>2. ASSUME NEW j \in Drawn(s) PROVE j \in S
      <4>1. PICK i \in 0 .. s.l - 1, c \in 0 .. PerGroup(s) - 1 : j = At(s, i, c)
        BY <3>1, ChunkHasPlace
      <4>2. c # PerGroup(s) - 1
        BY <1>5, <3>1, <4>1, PartialAt
      <4>3. <<i, c>> \in (0 .. s.l - 1) \X (0 .. (q - 1) - 1) /\ j = At(s, <<i, c>>[1], <<i, c>>[2])
        BY <1>1, <4>1, <4>2
      <4>. QED
        BY <4>3
    <3>3. ASSUME NEW p \in (0 .. s.l - 1) \X (0 .. (q - 1) - 1) PROVE At(s, p[1], p[2]) \in Drawn(s)
      <4>1. p[1] \in 0 .. s.l - 1 /\ p[2] \in 0 .. PerGroup(s) - 1 /\ p[2] # PerGroup(s) - 1
        BY <1>1
      <4>2. ~ PartialChunk(s, At(s, p[1], p[2])) /\ At(s, p[1], p[2]) \in Chunks(s)
        BY <4>1, ChunkAt, PartialAt
      <4>. QED
        BY <3>1, <4>2
    <3>. QED
      BY <3>2, <3>3
  <2>2. IsFiniteSet(S) /\ Cardinality(S) = s.l * (q - 1)
    <3>1. q - 1 \in 0 .. PerGroup(s)
      BY <1>1
    <3>. QED
      BY <3>1, ChunksBelow
  <2>3. agg_clusters_num(s) = l + 1
    BY <1>1, <1>5 DEF agg_clusters_num
  <2>4. required_cluster_num(s) = l * q + 1 /\ l * (q - 1) = l * q - l /\ l * q \in Nat /\ l * q >= l
    <3>1. l * (q - 1) = l * q - l /\ l * (q - 1) = (q - 1) * l /\ (q - 1) * l \in Nat /\ l * q \in Nat
      BY Multiples
    <3>. QED
      BY <3>1, <1>1, RequiredCounts
  <2>. HIDE DEF S
  <2>. QED
    BY <1>1, <2>1, <2>2, <2>3, <2>4
<1>6. CASE s.m_placement \in {"Ran", "DIS"}
  <2>1. s.k \notin Chunks(s)
    BY <1>1, ChunkHasPlace
  <2>2. Drawn(s) = Chunks(s) \union {s.k} /\ agg_clusters_num(s) = 0
    BY <1>6 DEF Drawn, Parts, agg_clusters_num
  <2>. QED
    BY <1>2, <2>1, <2>2, FS_AddElement
<1>. QED
  BY <1>3, <1>4, <1>5, <1>6 DEF Shape, Placements

-----------------------------------------------------------------------------
(* Where the parts of a stripe go.                                         *)

\* the clusters of the region that stripes of a merge group share
Region(s, start) == start .. start + agg_clusters_num(s) - 1

\* the sites of the parts that are not drawn
Shared(s, start) == IF s.m_placement = "AGG" THEN AggSite(s, start) ELSE OptSite(s, start)

\* Numbering the chunks by how many come before is one to one.
LEMMA Before ==
  ASSUME NEW s, Shape(s)
  PROVE  \E f \in [Chunks(s) \union {s.k} -> Nat] :
           /\ \A j \in Chunks(s) \union {s.k} : f[j] = Cardinality({c \in Chunks(s) : c < j})
           /\ \A i, j \in Chunks(s) \union {s.k} : i < j => f[i] < f[j]
           /\ f[s.k] = required_cluster_num(s) - 1
           /\ s.k \in Nat /\ \A j \in Chunks(s) : j \in Nat /\ j < s.k
<1>1. PICK k \in Nat \ {0} : s.k = k
  BY Chunked
<1>2. IsFiniteSet(Chunks(s)) /\ Cardinality(Chunks(s)) = required_cluster_num(s) - 1
  BY ChunksCounted
<1>3. \A j \in Chunks(s) : j \in Nat /\ j < k
  BY <1>1, ChunkHasPlace
<1> DEFINE B(j) == {c \in Chunks(s) : c < j}
<1>4. \A j : IsFiniteSet(B(j)) /\ Cardinality(B(j)) \in Nat
  BY <1>2, FS_Subset, FS_CardinalityType
<1>5. B(k) = Chunks(s)
  BY <1>3
<1>6. ASSUME NEW i \in Chunks(s), NEW j \in Chunks(s) \union {k}, i < j
      PROVE  Cardinality(B(i)) < Cardinality(B(j))
  <2>1. B(i) \subseteq B(j) /\ i \in B(j) /\ i \notin B(i)
    BY <1>3, <1>6
  <2>2. Cardinality(B(i)) <= Cardinality(B(j)) /\ Cardinality(B(i)) # Cardinality(B(j))
    BY <1>4, <2>1, FS_Subset
  <2>. QED
    BY <1>4, <2>2
<1>7. \A j \in Chunks(s) \union {k} : ~ (k < j)
  BY <1>3
<1> DEFINE f == [j \in Chunks(s) \union {k} |-> Cardinality(B(j))]
<1>8. f \in [Chunks(s) \union {k} -> Nat] /\ \A j \in Chunks(s) \union {k} : f[j] = Cardinality(B(j))
  BY <1>4
<1>9. \A i, j \in Chunks(s) \union {k} : i < j => f[i] < f[j]
  BY <1>6, <1>7, <1>8
<1>10. f[k] = required_cluster_num(s) - 1
  BY <1>2, <1>5, <1>8
<1>. HIDE DEF f
<1>. QED
  BY <1>1, <1>3, <1>8, <1>9, <1>10

\* AGG counts up: every part has a cluster of its own in the region.
LEMMA AggApart ==
  ASSUME NEW s, Shape(s), s.m_placement = "AGG", NEW start \in Nat
  PROVE  /\ \A p \in Parts(s) : AggSite(s, start)[p] \in Region(s, start)
         /\ \A p, o \in Parts(s) : AggSite(s, start)[p] = AggSite(s, start)[o] => p = o
<1>1. PICK k, l, b \in Nat \ {0} : s.k = k /\ s.l = l /\ s.b = b /\ k = l * b
  BY Chunked
<1>2. PICK f \in [Chunks(s) \union {s.k} -> Nat] :
           /\ \A j \in Chunks(s) \union {s.k} : f[j] = Cardinality({c \in Chunks(s) : c < j})
           /\ \A i, j \in Chunks(s) \union {s.k} : i < j => f[i] < f[j]
           /\ f[s.k] = required_cluster_num(s) - 1
           /\ s.k \in Nat /\ \A j \in Chunks(s) : j \in Nat /\ j < s.k
  BY Before
<1>3. PICK R \in Nat \ {0} : R = required_cluster_num(s) /\ f[k] = R - 1
  BY <1>1, <1>2, ChunksCounted
<1>4. Region(s, start) = start .. start + R - 1
  BY <1>3 DEF Region, agg_clusters_num
<1>5. Parts(s) = Chunks(s) \union {k}
  BY <1>1 DEF Parts
<1>6. \A p \in Chunks(s) : p \in Nat /\ p < k /\ f[p] \in Nat /\ f[p] < R - 1
  BY <1>1, <1>2, <1>3
<1>7. CASE Full(s)
  <2>1. b \in Chunks(s) \union {k} /\ b <= k
    <3>1. CASE l = 1
      BY <1>1, <3>1
    <3>2. CASE l # 1
      <4>1. PICK q, w \in Nat \ {0} : PerGroup(s) = q /\ s.g_m = w - 1
        BY Chunked
      <4>2. 1 \in 0 .. s.l - 1 /\ 0 \in 0 .. PerGroup(s) - 1
        BY <1>1, <3>2, <4>1
      <4>3. At(s, 1, 0) = b
        BY <1>1, <4>1 DEF At
      <4>4. b \in Chunks(s)
        BY <4>2, <4>3, ChunkAt
      <4>. QED
        BY <4>4, <1>6
    <3>. QED
      BY <3>1, <3>2
  <2>2. f[b] \in Nat /\ f[b] <= R - 1
    BY <2>1, <1>3, <1>6
  <2>3. AggSite(s, start)[k] = start + f[b]
    BY <1>1, <1>2, <1>5, <1>7, <2>1 DEF AggSite
  <2>4. \A p \in Chunks(s) : /\ p < b => AggSite(s, start)[p] = start + f[p] + 0
                             /\ p >= b => AggSite(s, start)[p] = start + f[p] + 1
    BY <1>1, <1>2, <1>5, <1>6, <1>7 DEF AggSite
  <2>5. \A p \in Chunks(s) : /\ p < b => f[p] < f[b]
                             /\ p >= b => f[p] >= f[b]
    BY <1>1, <1>2, <1>6, <2>1
  <2>6. \A p, o \in Chunks(s) : /\ p < o => f[p] < f[o]
                                /\ p < o \/ p = o \/ o < p
    BY <1>2, <1>6
  <2>7. \A p \in Chunks(s) : AggSite(s, start)[p] \in Region(s, start) /\ AggSite(s, start)[p] # start + f[b]
    BY SMTT(30), <1>4, <1>6, <2>2, <2>4, <2>5
  <2>8. ASSUME NEW p \in Chunks(s), NEW o \in Chunks(s), p < o
        PROVE  AggSite(s, start)[p] # AggSite(s, start)[o]
    <3>1. PICK m \in Nat, n \in Nat : m = f[p] /\ n = f[o] /\ m < n
      BY <1>6, <2>6, <2>8
    <3>2. AggSite(s, start)[p] \in {start + m, start + m + 1} /\ (o >= b \/ (o < b /\ p < b))
      BY <1>6, <2>4, <2>8, <3>1
    <3>3. CASE o >= b
      BY <2>4, <3>1, <3>2, <3>3
    <3>4. CASE o < b /\ p < b
      BY <2>4, <3>1, <3>4
    <3>. QED
      BY <3>2, <3>3, <3>4
  <2>9. AggSite(s, start)[k] \in Region(s, start)
    BY <1>4, <2>2, <2>3
  <2>. QED
    BY <1>5, <2>3, <2>6, <2>7, <2>8, <2>9
<1>8. CASE ~ Full(s)
  <2>1. \A p \in Parts(s) : AggSite(s, start)[p] = start + f[p]
    <3>1. AggSite(s, start)[k] = start + f[k]
      BY <1>1, <1>2, <1>5, <1>8 DEF AggSite
    <3>2. \A p \in Chunks(s) : AggSite(s, start)[p] = start + f[p] + 0
      <4>1. \A p \in Chunks(s) : p # k
        BY <1>6
      <4>. QED
        BY <4>1, <1>1, <1>2, <1>5, <1>8 DEF AggSite
    <3>. QED
      BY <1>5, <1>6, <3>1, <3>2
  <2>2. \A p, o \in Parts(s) : f[p] \in Nat /\ f[p] <= R - 1 /\ (p < o => f[p] < f[o]) /\ (p < o \/ p = o \/ o < p)
    BY <1>1, <1>2, <1>3, <1>5, <1>6
  <2>. QED
    BY <2>1, <2>2, <1>4
<1>. QED
  BY <1>7, <1>8

\* OPT shares the clusters of the last chunks, when they are partial, and of
\* the global parities.
LEMMA OptShared ==
  ASSUME NEW s, Shape(s), s.m_placement = "OPT"
  PROVE  /\ Full(s) => Parts(s) \ Drawn(s) = {s.k}
         /\ ~ Full(s) => Parts(s) \ Drawn(s) =
              {s.k} \union {At(s, i, PerGroup(s) - 1) : i \in 0 .. s.l - 1}
<1>1. s.k \notin Chunks(s)
  <2>1. PICK k \in Nat \ {0} : s.k = k
    BY Chunked
  <2>. QED
    BY <2>1, ChunkHasPlace
<1>2. Parts(s) \ Drawn(s) = {s.k} \union {j \in Chunks(s) : PartialChunk(s, j)}
  BY <1>1 DEF Parts, Drawn
<1>3. Full(s) => \A j \in Chunks(s) : ~ PartialChunk(s, j)
  BY ChunkHasPlace, PartialAt
<1>4. ~ Full(s) => {j \in Chunks(s) : PartialChunk(s, j)} =
                   {At(s, i, PerGroup(s) - 1) : i \in 0 .. s.l - 1}
  <2>1. ASSUME ~ Full(s), NEW j \in Chunks(s), PartialChunk(s, j)
        PROVE  \E i \in 0 .. s.l - 1 : j = At(s, i, PerGroup(s) - 1)
    BY <2>1, ChunkHasPlace, PartialAt
  <2>2. ASSUME ~ Full(s), NEW i \in 0 .. s.l - 1
        PROVE  /\ At(s, i, PerGroup(s) - 1) \in Chunks(s)
               /\ PartialChunk(s, At(s, i, PerGroup(s) - 1))
    <3>1. PerGroup(s) - 1 \in 0 .. PerGroup(s) - 1
      BY Chunked
    <3>. QED
      BY <2>2, <3>1, ChunkAt, PartialAt
  <2>. QED
    BY <2>1, <2>2
<1>. QED
  BY <1>2, <1>3, <1>4

\* Under every placement the parts that are not drawn lie in the region, each
\* on a cluster of its own.
LEMMA SharedApart ==
  ASSUME NEW s, Shape(s), NEW start \in Nat
  PROVE  /\ \A p \in Parts(s) \ Drawn(s) : Shared(s, start)[p] \in Region(s, start)
         /\ \A p, o \in Parts(s) \ Drawn(s) :
              Shared(s, start)[p] = Shared(s, start)[o] => p = o
<1>1. PICK k, l, q \in Nat \ {0} : s.k = k /\ s.l = l /\ PerGroup(s) = q
  BY Chunked
<1>2. CASE s.m_placement = "AGG"
  BY <1>2, AggApart DEF Shared
<1>3. CASE s.m_placement \in {"Ran", "DIS"}
  BY <1>3 DEF Drawn
<1>4. CASE s.m_placement = "OPT"
  <2>1. Shared(s, start) = OptSite(s, start)
    BY <1>4 DEF Shared
  <2>2. k \in Parts(s) \ Drawn(s)
    BY <1>1, <1>4, OptShared
  <2>3. CASE Full(s)
    <3>1. agg_clusters_num(s) = 1
      BY <1>4, <2>3 DEF agg_clusters_num
    <3>2. OptSite(s, start)[k] = start + 1 - 1
      BY <1>1, <2>2, <3>1 DEF OptSite
    <3>3. Region(s, start) = start .. start + 1 - 1
      BY <3>1 DEF Region
    <3>4. Parts(s) \ Drawn(s) = {k}
      BY <1>1, <1>4, <2>3, OptShared
    <3>. QED
      BY <2>1, <3>2, <3>3, <3>4
  <2>4. CASE ~ Full(s)
    <3>1. agg_clusters_num(s) = l + 1
      BY <1>1, <1>4, <2>4 DEF agg_clusters_num
    <3>2. OptSite(s, start)[k] = start + (l + 1) - 1
      BY <1>1, <2>2, <3>1 DEF OptSite
    <3>3. Region(s, start) = start .. start + (l + 1) - 1
      BY <3>1 DEF Region
    <3>4. Parts(s) \ Drawn(s) = {k} \union {At(s, i, q - 1) : i \in 0 .. l - 1}
      BY <1>1, <1>4, <2>4, OptShared
    <3>5. ASSUME NEW i \in 0 .. l - 1
          PROVE  OptSite(s, start)[At(s, i, q - 1)] = start + i
      <4>1. i \in 0 .. s.l - 1 /\ q - 1 \in 0 .. PerGroup(s) - 1
        BY <1>1
      <4>2. At(s, i, q - 1) \in Chunks(s) /\ GroupOf(s, At(s, i, q - 1)) = i
        BY <1>1, <4>1, ChunkAt
      <4>3. At(s, i, q - 1) # k
        <5>1. At(s, i, q - 1) \in 0 .. k - 1
          BY <1>1, <4>2, ChunkHasPlace
        <5>. QED
          BY <5>1
      <4>. QED
        BY <1>1, <3>4, <4>2, <4>3 DEF OptSite
    <3>6. \A i \in 0 .. l - 1 : start + i \in start .. start + (l + 1) - 1 /\ start + i # start + (l + 1) - 1
      OBVIOUS
    <3>7. \A i, j \in 0 .. l - 1 : start + i = start + j => i = j
      OBVIOUS
    <3>8. start + (l + 1) - 1 \in start .. start + (l + 1) - 1
      OBVIOUS
    <3>9. \A p \in Parts(s) \ Drawn(s) : p = k \/ \E i \in 0 .. l - 1 : p = At(s, i, q - 1)
      BY <3>4
    <3>. QED
      BY <2>1, <3>2, <3>3, <3>5, <3>6, <3>7, <3>8, <3>9
  <2>. QED
    BY <2>3, <2>4
<1>. QED
  BY <1>2, <1>3, <1>4 DEF Shape, Placements

-----------------------------------------------------------------------------
(* The parts and the blocks of a stripe.                                   *)

\* A local parity goes with the last chunk of its group, or with the global
\* parities when the chunks are full; with no global parity they are full.
LEMMA PartOfParity ==
  ASSUME NEW s, Shape(s)
  PROVE  /\ \A o \in Globals(s) : PartOf(s, o) = s.k
         /\ \A i \in 0 .. s.l - 1 :
              PartOf(s, s.k + s.g_m + i) = IF Full(s) THEN s.k ELSE At(s, i, PerGroup(s) - 1)
         /\ s.g_m = 0 => Full(s)
<1>1. PICK k, l, b, w, q \in Nat \ {0} :
           /\ s.k = k /\ s.l = l /\ s.b = b /\ s.g_m = w - 1 /\ PerGroup(s) = q
           /\ (q - 1) * w < b /\ b <= q * w
           /\ Full(s) <=> b = q * w
  BY Chunked
<1>2. \A o \in Globals(s) : ~ (o < s.k)
  BY <1>1 DEF Globals
<1>3. ASSUME NEW i \in 0 .. s.l - 1
      PROVE  PartOf(s, s.k + s.g_m + i) = IF Full(s) THEN s.k ELSE At(s, i, PerGroup(s) - 1)
  <2>1. PICK n \in Nat : n = s.k + s.g_m + i
    BY <1>1
  <2>2. ~ (n < s.k) /\ n \notin Globals(s) /\ n - s.k - s.g_m = i
    BY <1>1, <2>1 DEF Globals
  <2>3. PerGroup(s) - 1 \in 0 .. PerGroup(s) - 1
    BY <1>1
  <2>4. LastChunk(s, i) = At(s, i, PerGroup(s) - 1)
    BY LastOfGroup
  <2>5. PartialChunk(s, LastChunk(s, i)) <=> ~ Full(s)
    BY <2>3, <2>4, PartialAt
  <2>6. PartOf(s, n) = IF PartialChunk(s, LastChunk(s, i)) THEN LastChunk(s, i) ELSE s.k
    BY <2>2 DEF PartOf
  <2>. QED
    BY <2>1, <2>4, <2>5, <2>6
<1>4. w = 1 => b = q * w
  <2>1. w = 1 => (q - 1) * w = q - 1 /\ q * w = q
    OBVIOUS
  <2>. QED
    BY <1>1, <2>1
<1>5. \A o \in Globals(s) : PartOf(s, o) = s.k
  BY <1>2 DEF PartOf
<1>. QED
  BY <1>1, <1>3, <1>4, <1>5

\* Every block is in a part, and a part is named by a block of it.
LEMMA PartOfBlock ==
  ASSUME NEW s, Shape(s)
  PROVE  /\ \A o \in Blocks(s) : PartOf(s, o) \in Parts(s)
         /\ \A p \in Parts(s) : p \in Blocks(s) /\ PartOf(s, p) = p
<1>1. PICK k, l, w, q \in Nat \ {0} : s.k = k /\ s.l = l /\ s.g_m = w - 1 /\ PerGroup(s) = q
  BY Chunked
<1>2. \A i \in 0 .. s.l - 1 : \A c \in 0 .. PerGroup(s) - 1 : At(s, i, c) \in Parts(s)
  BY ChunkAt DEF Parts
<1>3. s.k \in Parts(s)
  BY DEF Parts
<1>4. q - 1 \in 0 .. PerGroup(s) - 1
  BY <1>1
<1>5. ASSUME NEW o \in Blocks(s) PROVE PartOf(s, o) \in Parts(s)
  <2>1. CASE o \in 0 .. s.k - 1
    BY <2>1, <1>2, BlockInChunk
  <2>2. CASE o \in Globals(s)
    BY <2>2, <1>3, PartOfParity
  <2>3. CASE o \notin 0 .. s.k - 1 /\ o \notin Globals(s)
    <3>1. o - k - (w - 1) \in 0 .. s.l - 1 /\ o = s.k + s.g_m + (o - k - (w - 1))
      BY <1>1, <2>3 DEF Blocks, Globals
    <3>. QED
      BY <3>1, <1>1, <1>2, <1>3, <1>4, PartOfParity
  <2>. QED
    BY <2>1, <2>2, <2>3
<1>6. s.k \in Blocks(s) /\ PartOf(s, s.k) = s.k
  <2>1. s.k \in Blocks(s)
    BY <1>1 DEF Blocks
  <2>2. CASE s.g_m # 0
    <3>1. s.k \in Globals(s)
      BY <1>1, <2>2 DEF Globals
    <3>. QED
      BY <2>1, <3>1, PartOfParity
  <2>3. CASE s.g_m = 0
    <3>1. s.k = s.k + s.g_m + 0 /\ 0 \in 0 .. s.l - 1
      BY <1>1, <2>3
    <3>2. Full(s)
      BY <2>3, PartOfParity
    <3>3. PartOf(s, s.k + s.g_m + 0) = s.k
      BY <3>1, <3>2, PartOfParity
    <3>. QED
      BY <2>1, <3>1, <3>3
  <2>. QED
    BY <2>2, <2>3
<1>7. \A p \in Chunks(s) : p \in Blocks(s) /\ PartOf(s, p) = p
  <2>1. 0 .. s.k - 1 \subseteq Blocks(s)
    BY <1>1 DEF Blocks
  <2>. QED
    BY <2>1, ChunkHasPlace
<1>. QED
  BY <1>5, <1>6, <1>7 DEF Parts

\* What is lost of a local group when a part of a stripe is lost.
LostOf(s, p)      == {o \in Blocks(s) : PartOf(s, o) = p}
OfGroup(s, p, i)  == {o \in LostOf(s, p) : \/ o < s.k /\ GroupOf(s, o) = i
                                           \/ o = s.k + s.g_m + i}

\* A chunk and the local parity stored with it are at most g_m + 1 blocks, all
\* of one group.
LEMMA ChunkLoss ==
  ASSUME NEW s, Shape(s), NEW h \in 0 .. s.l - 1, NEW e \in 0 .. PerGroup(s) - 1
  PROVE  /\ \A i \in 0 .. s.l - 1 : i # h => OfGroup(s, At(s, h, e), i) = {}
         /\ IsFiniteSet(OfGroup(s, At(s, h, e), h))
         /\ Cardinality(OfGroup(s, At(s, h, e), h)) <= s.g_m + 1
         /\ LostOf(s, At(s, h, e)) \intersect Globals(s) = {}
<1>1. PICK k, l, b, w, q \in Nat \ {0} :
           /\ s.k = k /\ s.l = l /\ s.b = b /\ s.g_m = w - 1 /\ PerGroup(s) = q
           /\ k = l * b /\ (q - 1) * w < b /\ b <= q * w
           /\ Full(s) <=> b = q * w
  BY Chunked
<1>2. PICK p \in Nat : p = At(s, h, e)
  BY ChunkAt
<1>3. p < k
  <2>1. p \in Chunks(s)
    BY <1>2, ChunkAt
  <2>2. p \in 0 .. k - 1
    BY <1>1, <2>1, ChunkHasPlace
  <2>. QED
    BY <2>2
<1>4. q - 1 \in 0 .. PerGroup(s) - 1
  BY <1>1
<1>5. \A o \in LostOf(s, p) : o \in Blocks(s) /\ PartOf(s, o) = p
  BY DEF LostOf
\* the data blocks
<1>6. ASSUME NEW o \in LostOf(s, p), o < s.k
      PROVE  /\ o \in 0 .. s.k - 1 /\ GroupOf(s, o) = h
             /\ p <= o /\ o < p + w /\ o < (h + 1) * b
  <2>1. o \in 0 .. s.k - 1
    BY <1>1, <1>5, <1>6 DEF Blocks
  <2>2. PICK i \in 0 .. s.l - 1, c \in 0 .. PerGroup(s) - 1 :
          /\ PartOf(s, o) = At(s, i, c) /\ GroupOf(s, o) = i
          /\ At(s, i, c) <= o /\ o < At(s, i, c) + s.g_m + 1 /\ o < (i + 1) * s.b
    BY <2>1, BlockInChunk
  <2>3. At(s, i, c) = At(s, h, e)
    BY <1>2, <1>5, <2>2
  <2>4. i = h
    BY <2>3, PlaceOnce
  <2>5. p <= o /\ o < p + s.g_m + 1 /\ o < (h + 1) * s.b
    BY <1>2, <2>2, <2>3, <2>4
  <2>6. p + s.g_m + 1 = p + w
    BY <1>1
  <2>. QED
    BY <1>1, <2>1, <2>2, <2>4, <2>5, <2>6
\* the local parities
<1>7. ASSUME NEW i \in 0 .. s.l - 1, s.k + s.g_m + i \in LostOf(s, p)
      PROVE  i = h /\ e = q - 1 /\ ~ Full(s)
  <2>1. PartOf(s, s.k + s.g_m + i) = p
    BY <1>5, <1>7
  <2>2. ~ Full(s) /\ p = At(s, i, PerGroup(s) - 1)
    BY <1>1, <1>3, <2>1, PartOfParity
  <2>3. At(s, i, PerGroup(s) - 1) = At(s, h, e) /\ PerGroup(s) - 1 \in 0 .. PerGroup(s) - 1
    BY <1>1, <1>2, <1>4, <2>2
  <2>4. i = h /\ PerGroup(s) - 1 = e
    BY <2>3, PlaceOnce
  <2>. QED
    BY <1>1, <2>2, <2>4
<1>8. \A i \in 0 .. s.l - 1 : i # h => OfGroup(s, p, i) = {}
  BY <1>6, <1>7 DEF OfGroup
<1>9. LostOf(s, p) \intersect Globals(s) = {}
  BY <1>1, <1>3, <1>5, PartOfParity
<1>10. IsFiniteSet(OfGroup(s, p, h)) /\ Cardinality(OfGroup(s, p, h)) <= w
  <2>1. CASE e = q - 1 /\ ~ Full(s)
    <3>1. PICK y \in Nat : y = h * b
      BY <1>1, Multiples
    <3>2. (h + 1) * b = y + b
      BY <1>1, <3>1
    <3>3. PICK m \in Int : m = (q - 1) * w
      BY Multiples
    <3>4. p = y + m /\ q * w = m + w
      BY <1>1, <1>2, <2>1, <3>1, <3>3 DEF At
    <3>5. y + b - 1 - p + 1 <= w - 1 /\ y + b - 1 - p + 1 >= 0
      BY <1>1, <2>1, <3>3, <3>4
    <3>6. PICK top \in Int : top = y + b - 1
      OBVIOUS
    <3>7. IsFiniteSet(p .. top) /\ Cardinality(p .. top) <= w - 1
      <4>1. IsFiniteSet(p .. top) /\ Cardinality(p .. top) = IF p > top THEN 0 ELSE top - p + 1
        BY FS_Interval
      <4>2. top - p + 1 <= w - 1
        BY <3>5, <3>6
      <4>. QED
        BY <4>1, <4>2
    <3>8. PICK n : n = s.k + s.g_m + h
      OBVIOUS
    <3>9. OfGroup(s, p, h) \subseteq (p .. top) \union {n}
      <4>1. ASSUME NEW o \in OfGroup(s, p, h), o # n PROVE o \in p .. top
        <5>1. o \in LostOf(s, p) /\ o < s.k
          BY <3>8, <4>1 DEF OfGroup
        <5>2. o \in Int /\ p <= o /\ o < (h + 1) * b
          BY <1>1, <1>6, <5>1
        <5>. QED
          BY <5>2, <3>2, <3>6
      <4>. QED
        BY <4>1
    <3>10. /\ IsFiniteSet((p .. top) \union {n})
           /\ Cardinality((p .. top) \union {n}) <= Cardinality(p .. top) + 1
           /\ Cardinality(p .. top) \in Nat
      <4>1. Cardinality(p .. top) \in Nat
        BY <3>7, FS_CardinalityType
      <4>2. /\ IsFiniteSet((p .. top) \union {n})
            /\ Cardinality((p .. top) \union {n}) =
                 IF n \in p .. top THEN Cardinality(p .. top) ELSE Cardinality(p .. top) + 1
        BY <3>7, FS_AddElement
      <4>. QED
        BY <4>1, <4>2
    <3>11. /\ IsFiniteSet(OfGroup(s, p, h))
           /\ Cardinality(OfGroup(s, p, h)) <= Cardinality((p .. top) \union {n})
           /\ Cardinality(OfGroup(s, p, h)) \in Nat
           /\ Cardinality((p .. top) \union {n}) \in Nat
      BY <3>9, <3>10, FS_Subset, FS_CardinalityType
    <3>. QED
      BY <3>7, <3>10, <3>11
  <2>2. CASE ~ (e = q - 1 /\ ~ Full(s))
    <3>1. PICK top \in Int : top = p + w - 1
      OBVIOUS
    <3>2. IsFiniteSet(p .. top) /\ Cardinality(p .. top) = w
      BY <3>1, FS_Interval
    <3>3. OfGroup(s, p, h) \subseteq p .. top
      <4>1. ASSUME NEW o \in OfGroup(s, p, h) PROVE o \in p .. top
        <5>1. o \in LostOf(s, p) /\ o < s.k
          BY <1>7, <2>2 DEF OfGroup
        <5>2. o \in Int /\ p <= o /\ o < p + w
          BY <1>1, <1>6, <5>1
        <5>. QED
          BY <5>2, <3>1
      <4>. QED
        BY <4>1
    <3>. QED
      BY <3>2, <3>3, FS_Subset
  <2>. QED
    BY <2>1, <2>2
<1>. QED
  BY <1>1, <1>2, <1>8, <1>9, <1>10

\* What lies with the global parities is these and at most one block of each
\* group.
LEMMA GlobalLoss ==
  ASSUME NEW s, Shape(s)
  PROVE  /\ \A i \in 0 .. s.l - 1 :
              /\ OfGroup(s, s.k, i) \subseteq {s.k + s.g_m + i}
         /\ IsFiniteSet(Globals(s)) /\ Cardinality(Globals(s)) = s.g_m
<1>1. PICK k, l, w \in Nat \ {0} : s.k = k /\ s.l = l /\ s.g_m = w - 1
  BY Chunked
<1>2. ASSUME NEW o \in LostOf(s, s.k) PROVE ~ (o < s.k)
  <2>1. SUFFICES ASSUME o < s.k PROVE FALSE
    OBVIOUS
  <2>2. o \in 0 .. s.k - 1
    BY <1>1, <1>2, <2>1 DEF LostOf, Blocks
  <2>3. PICK i \in 0 .. s.l - 1, c \in 0 .. PerGroup(s) - 1 : PartOf(s, o) = At(s, i, c)
    BY <2>2, BlockInChunk
  <2>4. At(s, i, c) \in 0 .. k - 1
    BY <1>1, ChunkAt, ChunkHasPlace
  <2>5. PartOf(s, o) = k
    BY <1>1, <1>2 DEF LostOf
  <2>. QED
    BY <2>3, <2>4, <2>5
<1>3. \A i \in 0 .. s.l - 1 : OfGroup(s, s.k, i) \subseteq {s.k + s.g_m + i}
  BY <1>2 DEF OfGroup
<1>4. IsFiniteSet(k .. k + (w - 1) - 1) /\ Cardinality(k .. k + (w - 1) - 1) = w - 1
  BY FS_Interval
<1>. QED
  BY <1>1, <1>3, <1>4 DEF Globals

\* A stripe that loses one part can be decoded.
LEMMA PartDecodable ==
  ASSUME NEW s, Shape(s), NEW p \in Parts(s)
  PROVE  Decodable(s, LostOf(s, p))
<1> DEFINE beyond == UNION {{i} \X (2 .. Cardinality(OfGroup(s, p, i))) : i \in 0 .. s.l - 1}
<1>1. PICK g \in Nat : g = s.g_m
  BY DEF Shape
<1>2. SUFFICES Cardinality(beyond) + Cardinality(LostOf(s, p) \intersect Globals(s)) <= g
  BY <1>1 DEF Decodable, OfGroup
<1>3. Cardinality({}) = 0
  BY FS_EmptySet
<1>4. CASE p = s.k
  <2>1. ASSUME NEW i \in 0 .. s.l - 1 PROVE 2 .. Cardinality(OfGroup(s, p, i)) = {}
    <3>1. PICK n : n = s.k + s.g_m + i
      OBVIOUS
    <3>2. IsFiniteSet({n}) /\ Cardinality({n}) = 1
      BY FS_Singleton
    <3>3. Cardinality(OfGroup(s, p, i)) \in Nat /\ Cardinality(OfGroup(s, p, i)) <= 1
      BY <1>4, <3>1, <3>2, GlobalLoss, FS_Subset, FS_CardinalityType
    <3>. QED
      BY <3>3
  <2>2. beyond = {}
    BY <2>1
  <2>3. /\ IsFiniteSet(Globals(s)) /\ Cardinality(Globals(s)) = g
        /\ LostOf(s, p) \intersect Globals(s) \in SUBSET Globals(s)
    BY <1>1, GlobalLoss
  <2>4. /\ Cardinality(LostOf(s, p) \intersect Globals(s)) <= g
        /\ Cardinality(LostOf(s, p) \intersect Globals(s)) \in Nat
    BY <2>3, FS_Subset, FS_CardinalityType
  <2>. HIDE DEF beyond
  <2>. QED
    BY <1>3, <2>2, <2>4
<1>5. CASE p # s.k
  <2>1. PICK h \in 0 .. s.l - 1, e \in 0 .. PerGroup(s) - 1 : p = At(s, h, e)
    BY <1>5, ChunkHasPlace DEF Parts
  <2>2. \A i \in 0 .. s.l - 1 : i # h => OfGroup(s, p, i) = {}
    BY <2>1, ChunkLoss
  <2>3. PICK n \in Nat : n = Cardinality(OfGroup(s, p, h)) /\ n <= g + 1
    BY <1>1, <2>1, ChunkLoss, FS_CardinalityType
  <2>4. \A i \in 0 .. s.l - 1 : i # h => 2 .. Cardinality(OfGroup(s, p, i)) = {}
    <3>1. 2 .. 0 = {}
      OBVIOUS
    <3>. QED
      BY <1>3, <2>2, <3>1
  <2>5. beyond = {h} \X (2 .. n)
    <3>1. \A i \in 0 .. s.l - 1 : i # h => {i} \X (2 .. Cardinality(OfGroup(s, p, i))) = {}
      BY <2>4
    <3>2. {h} \X (2 .. n) = {h} \X (2 .. Cardinality(OfGroup(s, p, h)))
      BY <2>3
    <3>. QED
      BY <3>1, <3>2
  <2>6. IsFiniteSet({h}) /\ Cardinality({h}) = 1
    BY FS_Singleton
  <2>7. IsFiniteSet(2 .. n) /\ Cardinality(2 .. n) = IF 2 > n THEN 0 ELSE n - 2 + 1
    BY FS_Interval
  <2>8. Cardinality({h} \X (2 .. n)) = 1 * Cardinality(2 .. n)
    BY <2>6, <2>7, FS_Product
  <2>9. Cardinality(LostOf(s, p) \intersect Globals(s)) = 0
    BY <1>3, <2>1, ChunkLoss
  <2>. HIDE DEF beyond
  <2>. QED
    BY <2>3, <2>5, <2>7, <2>8, <2>9
<1>. QED
  BY <1>4, <1>5

-----------------------------------------------------------------------------
(* The invariant.                                                          *)

\* the schema in force fits the system
Setup ==
  /\ m_num_of_Clusters \in ClusterNums /\ m_encode_parameters \in Schemas
  /\ Legal(m_encode_parameters) /\ Fits(m_encode_parameters, m_num_of_Clusters)

\* the shared region does not run past the last cluster, and nothing is drawn
\* from it; only DIS and OPT keep a list
RegionKept ==
  LET s == m_encode_parameters
  IN  /\ m_agg_start_cid \in Nat
      /\ m_agg_start_cid + agg_clusters_num(s) < m_num_of_Clusters
      /\ m_free_clusters \subseteq 0 .. m_num_of_Clusters - 1
      /\ m_free_clusters \intersect Region(s, m_agg_start_cid) = {}
      /\ s.m_placement \notin {"DIS", "OPT"} => m_free_clusters = {}
\* groups and stripes are numbered in turn, every stripe is in a group, and no
\* group has more than x
Numbered ==
  /\ \E n \in Nat : DOMAIN m_merge_groups = 1 .. n /\ (n = 0 => m_merge_groups = <<>>)
  /\ \E n \in Nat : DOMAIN map2cluster = 1 .. n
  /\ UNION {m_merge_groups[n] : n \in DOMAIN m_merge_groups} = Stripes
  /\ \A n \in DOMAIN m_merge_groups :
       /\ IsFiniteSet(m_merge_groups[n])
       /\ Cardinality(m_merge_groups[n]) <= m_encode_parameters.x

\* a stripe has a cluster for each part, another for each
Placed(s, clusters, where) ==
  /\ where \in [Blocks(s) -> 0 .. clusters - 1]
  /\ \A o \in Blocks(s) : where[o] = where[PartOf(s, o)]
  /\ \A p, q \in Parts(s) : where[p] = where[q] => p = q

\* what two stripes of a merge group have in common: the parts not drawn
Alike(s, where, other) ==
  s.m_placement # "Ran" =>
    /\ \A p \in Parts(s) \ Drawn(s) : where[p] = other[p]
    /\ \A p \in Drawn(s) : \A q \in Parts(s) : where[p] # other[q]

\* the stripes of the newest group, which the next may join, have the region's
\* clusters for what is not drawn, and have drawn what is neither free nor of
\* the region
Joined(s, start, free, where) ==
  /\ \A p \in Parts(s) \ Drawn(s) : where[p] = Shared(s, start)[p]
  /\ s.m_placement # "Ran" =>
       \A p \in Drawn(s) : where[p] \notin free /\ where[p] \notin Region(s, start)

AllPlaced ==
  \A t \in Stripes : Placed(m_encode_parameters, m_num_of_Clusters, map2cluster[t])

MatesAlike ==
  \A n \in DOMAIN m_merge_groups : \A t, u \in m_merge_groups[n] :
    t # u => Alike(m_encode_parameters, map2cluster[t], map2cluster[u])

NewestJoined ==
  m_merge_groups # <<>> => \A t \in NewestGroup :
    Joined(m_encode_parameters, m_agg_start_cid, m_free_clusters, map2cluster[t])

PlacementInv ==
  Setup /\ RegionKept /\ Numbered /\ AllPlaced /\ MatesAlike /\ NewestJoined

\* The list a stripe draws from is apart from the region and long enough.
LEMMA FreeEnough ==
  ASSUME Setup, RegionKept, NEW start \in AggStarts(m_encode_parameters)
  PROVE  LET s == m_encode_parameters
             free == FreeClusters(s, start)
         IN  /\ start \in Nat /\ start + agg_clusters_num(s) < m_num_of_Clusters
             /\ free \subseteq 0 .. m_num_of_Clusters - 1 /\ IsFiniteSet(free)
             /\ Cardinality(Drawn(s)) <= Cardinality(free)
             /\ free \intersect Region(s, start) = {}
<1>1. PICK s \in Schemas : s = m_encode_parameters /\ Shape(s)
  BY LegalShape DEF Setup
<1>2. PICK C \in Nat : C = m_num_of_Clusters
  BY PlacementAssumption DEF Setup
<1>3. PICK R \in Nat, G \in Nat :
        /\ R = required_cluster_num(s) /\ G = agg_clusters_num(s) /\ G <= R
        /\ Cardinality(Drawn(s)) = R - G
  BY <1>1, ChunksCounted, DrawnCounted
<1>4. C >= R /\ C > G
  BY <1>1, <1>2, <1>3 DEF Setup, Fits
<1>5. start \in Nat /\ start + G < C
  BY <1>1, <1>2, <1>3, <1>4 DEF AggStarts, RegionKept
<1>6. PICK n \in Nat : n = start
  BY <1>5
<1> DEFINE rest == (0 .. C - 1) \ (n .. n + G - 1)
<1>7. Region(s, start) = n .. n + G - 1
  BY <1>3, <1>6 DEF Region
<1>8. /\ rest \subseteq 0 .. C - 1 /\ IsFiniteSet(rest) /\ Cardinality(rest) >= R - G
      /\ rest \intersect Region(s, start) = {}
  <2>1. IsFiniteSet(0 .. C - 1) /\ Cardinality(0 .. C - 1) = C
    BY FS_Interval
  <2>2. IsFiniteSet(n .. n + G - 1) /\ Cardinality(n .. n + G - 1) = G
    BY FS_Interval
  <2>3. (0 .. C - 1) \intersect (n .. n + G - 1) \in SUBSET (n .. n + G - 1)
    OBVIOUS
  <2>4. /\ Cardinality((0 .. C - 1) \intersect (n .. n + G - 1)) <= G
        /\ Cardinality((0 .. C - 1) \intersect (n .. n + G - 1)) \in Nat
    BY <2>2, <2>3, FS_Subset, FS_CardinalityType
  <2>5. IsFiniteSet(rest) /\ Cardinality(rest) = C - Cardinality((0 .. C - 1) \intersect (n .. n + G - 1))
    BY <2>1, FS_Difference
  <2>. QED
    BY <1>4, <1>7, <2>4, <2>5
<1>9. 0 .. m_num_of_Clusters - 1 = 0 .. C - 1
  BY <1>2
<1>10. IsFiniteSet(0 .. C - 1) /\ Cardinality(0 .. C - 1) = C
  BY FS_Interval
<1> DEFINE free == FreeClusters(s, start)
<1>11. /\ free \subseteq 0 .. C - 1 /\ IsFiniteSet(free)
       /\ R - G <= Cardinality(free) /\ free \intersect Region(s, start) = {}
  <2>1. CASE s.m_placement = "Ran"
    <3>1. G = 0
      BY <1>3, <2>1 DEF agg_clusters_num
    <3>2. free = 0 .. C - 1
      BY <1>9, <2>1 DEF FreeClusters
    <3>3. Region(s, start) = {}
      BY <1>7, <3>1
    <3>. HIDE DEF free
    <3>. QED
      BY <1>4, <1>10, <3>1, <3>2, <3>3
  <2>2. CASE s.m_placement = "AGG"
    <3>1. free = {} /\ Drawn(s) = {}
      BY <2>2 DEF FreeClusters, Drawn
    <3>. HIDE DEF free
    <3>. QED
      BY <1>3, <3>1, FS_EmptySet
  <2>3. CASE s.m_placement \in {"DIS", "OPT"}
    <3>1. CASE FreeShort(s) \/ NoOpenGroup(s)
      <4>1. free = rest
        BY <1>3, <1>6, <1>9, <2>3, <3>1 DEF FreeClusters
      <4>. HIDE DEF free, rest
      <4>. QED
        BY <4>1, <1>8
    <3>2. CASE ~ (FreeShort(s) \/ NoOpenGroup(s))
      <4>1. free = m_free_clusters
        BY <2>3, <3>2 DEF FreeClusters
      <4>2. start = m_agg_start_cid
        BY <1>1, <3>2 DEF AggStarts, NewGroup
      <4>3. free \subseteq 0 .. C - 1 /\ free \intersect Region(s, start) = {}
        BY <1>1, <1>9, <4>1, <4>2 DEF RegionKept
      <4>4. ~ (Cardinality(m_free_clusters) < R - G)
        BY <1>3, <2>3, <3>2 DEF FreeShort
      <4>. HIDE DEF free
      <4>5. IsFiniteSet(free) /\ Cardinality(free) \in Nat
        BY <1>10, <4>3, FS_Subset, FS_CardinalityType
      <4>6. R - G <= Cardinality(free)
        BY <4>1, <4>4, <4>5
      <4>. QED
        BY <4>3, <4>5, <4>6
    <3>. QED
      BY <3>1, <3>2
  <2>. QED
    BY <1>1, <2>1, <2>2, <2>3 DEF Shape, Placements
<1>. QED
  BY <1>1, <1>2, <1>3, <1>5, <1>11

\* A stripe that is placed has drawn from the list, has the region's clusters
\* for the rest, and no cluster twice.
LEMMA SiteApart ==
  ASSUME NEW s, Shape(s), NEW start \in Nat,
         Cardinality(Drawn(s)) <= Cardinality(FreeClusters(s, start)),
         FreeClusters(s, start) \intersect Region(s, start) = {},
         NEW site \in Sites(s, start)
  PROVE  /\ \A p \in Drawn(s) : site[p] \in FreeClusters(s, start)
         /\ \A p \in Parts(s) \ Drawn(s) : site[p] = Shared(s, start)[p]
         /\ \A p \in Parts(s) \ Drawn(s) : site[p] \in Region(s, start)
         /\ \A p, q \in Parts(s) : site[p] = site[q] => p = q
<1>1. PICK d \in Draws(Drawn(s), FreeClusters(s, start)) :
        site = [p \in Parts(s) |-> IF p \in Drawn(s) THEN d[p] ELSE Shared(s, start)[p]]
  BY DEF Sites, Shared
<1>2. /\ d \in [Drawn(s) -> FreeClusters(s, start)]
      /\ \A p, q \in Drawn(s) : p # q => d[p] # d[q]
  BY <1>1 DEF Draws
<1>3. Drawn(s) \subseteq Parts(s)
  BY DEF Drawn, Parts, Shape, Placements
<1>4. \A p \in Drawn(s) : site[p] = d[p] /\ site[p] \in FreeClusters(s, start)
  BY <1>1, <1>2, <1>3
<1>5. \A p \in Parts(s) \ Drawn(s) : site[p] = Shared(s, start)[p] /\ site[p] \in Region(s, start)
  BY <1>1, SharedApart
<1>6. ASSUME NEW p \in Parts(s), NEW q \in Parts(s), site[p] = site[q] PROVE p = q
  <2>1. CASE p \in Drawn(s) /\ q \in Drawn(s)
    BY <1>2, <1>4, <1>6, <2>1
  <2>2. CASE p \notin Drawn(s) /\ q \notin Drawn(s)
    BY <1>5, <1>6, <2>2, SharedApart
  <2>3. CASE (p \in Drawn(s) /\ q \notin Drawn(s)) \/ (p \notin Drawn(s) /\ q \in Drawn(s))
    BY <1>4, <1>5, <1>6, <2>3
  <2>. QED
    BY <2>1, <2>2, <2>3
<1>. QED
  BY <1>4, <1>5, <1>6

\* the sites of a stripe as clusters of its blocks
Where(s, site) == [o \in Blocks(s) |-> site[PartOf(s, o)]]

\* The stripes so far and those the next stripe will be with.
Mates(s) == IF NewGroup(s) THEN {} ELSE NewestGroup

\* generate_placement keeps every stripe placed as its schema asks, and the merge
\* groups alike or apart.
LEMMA PlacementStays ==
  ASSUME PlacementInv, generate_placement
  PROVE  PlacementInv'
<1>1. PICK s \in Schemas : s = m_encode_parameters /\ Shape(s)
  BY LegalShape DEF PlacementInv, Setup
<1>2. PICK M \in Nat : DOMAIN map2cluster = 1 .. M
  BY DEF PlacementInv, Numbered
<1>3. PICK id \in Nat : id = M + 1
  OBVIOUS
<1>4. Cardinality(Stripes) + 1 = id
  <2>1. Cardinality(1 .. M) = M
    BY FS_Interval
  <2>. QED
    BY <1>2, <1>3, <2>1 DEF Stripes
<1>0. PICK start \in AggStarts(s) : \E site \in Sites(s, start) :
        /\ m_agg_start_cid' = start
        /\ m_merge_groups' = Grouped(s, id)
        /\ m_free_clusters' = IF s.m_placement \in {"DIS", "OPT"}
                              THEN FreeClusters(s, start) \ {site[p] : p \in Drawn(s)}
                              ELSE m_free_clusters
        /\ map2cluster' = [t \in 1 .. id |-> IF t = id THEN Where(s, site) ELSE map2cluster[t]]
        /\ UNCHANGED <<m_num_of_Clusters, m_encode_parameters>>
  BY ZenonT(30), <1>1, <1>4 DEF generate_placement, Where
<1>5. PICK site \in Sites(s, start) :
        /\ m_agg_start_cid' = start
        /\ m_merge_groups' = Grouped(s, id)
        /\ m_free_clusters' = IF s.m_placement \in {"DIS", "OPT"}
                              THEN FreeClusters(s, start) \ {site[p] : p \in Drawn(s)}
                              ELSE m_free_clusters
        /\ map2cluster' = [t \in 1 .. id |-> IF t = id THEN Where(s, site) ELSE map2cluster[t]]
        /\ UNCHANGED <<m_num_of_Clusters, m_encode_parameters>>
  BY <1>0
<1> DEFINE free == FreeClusters(s, start)
           w == Where(s, site)
<1>6. PICK C \in Nat, G \in Nat : C = m_num_of_Clusters /\ G = agg_clusters_num(s)
  BY <1>1, PlacementAssumption, ChunksCounted, DrawnCounted DEF PlacementInv, Setup
<1>7. /\ start \in Nat /\ start + G < C
      /\ free \subseteq 0 .. C - 1 /\ free \intersect Region(s, start) = {}
      /\ Cardinality(Drawn(s)) <= Cardinality(free)
  BY <1>1, <1>6, FreeEnough DEF PlacementInv
<1>8. /\ \A p \in Drawn(s) : site[p] \in free
      /\ \A p \in Parts(s) \ Drawn(s) : site[p] = Shared(s, start)[p]
      /\ \A p \in Parts(s) \ Drawn(s) : site[p] \in Region(s, start)
      /\ \A p, q \in Parts(s) : site[p] = site[q] => p = q
  BY <1>1, <1>7, SiteApart
<1>9. Drawn(s) \subseteq Parts(s)
  BY <1>1 DEF Drawn, Parts, Shape, Placements
<1>10. \A p \in Parts(s) : p \in Blocks(s) /\ w[p] = site[p]
  BY <1>1, PartOfBlock DEF Where
<1>11. Region(s, start) \subseteq 0 .. C - 1
  BY <1>6, <1>7 DEF Region
<1>12. Placed(s, C, w)
  <2>1. \A p \in Parts(s) : site[p] \in 0 .. C - 1
    BY <1>7, <1>8, <1>11
  <2>2. \A o \in Blocks(s) : PartOf(s, o) \in Parts(s) /\ PartOf(s, PartOf(s, o)) = PartOf(s, o)
    BY <1>1, PartOfBlock
  <2>3. w \in [Blocks(s) -> 0 .. C - 1]
    BY <2>1, <2>2 DEF Where
  <2>4. \A o \in Blocks(s) : w[o] = site[PartOf(s, o)]
    BY DEF Where
  <2>5. \A o \in Blocks(s) : w[o] = w[PartOf(s, o)]
    BY <2>2, <2>4, <1>10
  <2>. QED
    BY <1>8, <1>10, <2>3, <2>5 DEF Placed
<1>. HIDE DEF w, free
<1>13. PICK N \in Nat : DOMAIN m_merge_groups = 1 .. N /\ (N = 0 => m_merge_groups = <<>>)
  BY DEF PlacementInv, Numbered
<1>14. Cardinality(DOMAIN m_merge_groups) = N
  BY <1>13, FS_Interval
<1>15. /\ N = 0 => NewGroup(s)
       /\ NewestGroup = m_merge_groups[N]
  BY <1>13, <1>14 DEF NewGroup, NoOpenGroup, NewestGroup
<1>16. PICK K \in Nat \ {0} : K = IF NewGroup(s) THEN N + 1 ELSE N
  BY <1>15
\* the new groups
<1>17. /\ DOMAIN m_merge_groups' = 1 .. K
       /\ m_merge_groups'[K] = Mates(s) \union {id}
       /\ \A n \in 1 .. K : n # K => n \in 1 .. N /\ m_merge_groups'[n] = m_merge_groups[n]
  <2>1. CASE NewGroup(s)
    <3>1. m_merge_groups' = [n \in 1 .. N + 1 |-> IF n > N THEN {id} ELSE m_merge_groups[n]]
      BY <1>5, <1>14, <2>1 DEF Grouped
    <3>. QED
      BY <1>16, <2>1, <3>1 DEF Mates
  <2>2. CASE ~ NewGroup(s)
    <3>1. m_merge_groups' = [m_merge_groups EXCEPT ![N] = @ \union {id}] /\ K = N
      BY <1>5, <1>14, <1>16, <2>2 DEF Grouped
    <3>2. N \in DOMAIN m_merge_groups
      BY <1>13, <1>16, <3>1
    <3>. QED
      BY <1>13, <1>15, <2>2, <3>1, <3>2 DEF Mates
  <2>. QED
    BY <2>1, <2>2
<1>18. NewestGroup' = m_merge_groups'[K] /\ m_merge_groups' # <<>>
  <2>1. Cardinality(DOMAIN m_merge_groups') = K
    BY <1>17, FS_Interval
  <2>2. DOMAIN m_merge_groups' # {}
    <3>1. 1 \in 1 .. K
      OBVIOUS
    <3>. QED
      BY <1>17, <3>1
  <2>3. DOMAIN <<>> = {}
    OBVIOUS
  <2>. QED
    BY <2>1, <2>2, <2>3 DEF NewestGroup
\* who is in them
<1>19. UNION {m_merge_groups[n] : n \in 1 .. N} = 1 .. M
  BY <1>2, <1>13 DEF PlacementInv, Numbered, Stripes
<1>20. /\ Mates(s) \subseteq 1 .. M /\ id \notin Mates(s)
       /\ \A n \in 1 .. N : m_merge_groups[n] \subseteq 1 .. M
       /\ ~ NewGroup(s) => N \in 1 .. N
  BY <1>3, <1>15, <1>16, <1>19 DEF Mates
<1>21. Numbered'
  <2>1. UNION {m_merge_groups'[n] : n \in 1 .. K} = 1 .. id
    <3>1. ASSUME NEW n \in 1 .. K, NEW t \in m_merge_groups'[n] PROVE t \in 1 .. id
      BY <1>3, <1>17, <1>20, <3>1
    <3>2. ASSUME NEW t \in 1 .. id PROVE \E n \in 1 .. K : t \in m_merge_groups'[n]
      <4>1. CASE t = id
        BY <1>17, <4>1
      <4>2. CASE t # id
        <5>1. PICK n \in 1 .. N : t \in m_merge_groups[n]
          BY <1>3, <1>19, <4>2
        <5>2. n \in 1 .. K
          BY <1>16
        <5>3. CASE n # K
          BY <1>17, <5>1, <5>2, <5>3
        <5>4. CASE n = K
          BY <1>15, <1>16, <1>17, <5>1, <5>2, <5>4 DEF Mates
        <5>. QED
          BY <5>3, <5>4
      <4>. QED
        BY <4>1, <4>2
    <3>. QED
      BY <3>1, <3>2
  <2>2. IsFiniteSet(Mates(s)) /\ Cardinality(Mates(s)) < s.x
    <3>1. CASE NewGroup(s)
      BY <1>1, <3>1, FS_EmptySet DEF Mates, Shape
    <3>2. CASE ~ NewGroup(s)
      <4>1. Mates(s) = m_merge_groups[N] /\ N \in DOMAIN m_merge_groups
        BY <1>13, <1>15, <1>20, <3>2 DEF Mates
      <4>2. IsFiniteSet(m_merge_groups[N]) /\ Cardinality(m_merge_groups[N]) <= s.x
        BY <1>1, <4>1 DEF PlacementInv, Numbered
      <4>3. Cardinality(m_merge_groups[N]) # s.x
        BY <1>15, <3>2 DEF NewGroup, NoOpenGroup
      <4>4. Cardinality(m_merge_groups[N]) \in Nat
        BY <4>2, FS_CardinalityType
      <4>. QED
        BY <1>1, <4>1, <4>2, <4>3, <4>4 DEF Shape
    <3>. QED
      BY <3>1, <3>2
  <2>3. /\ IsFiniteSet(m_merge_groups'[K])
        /\ Cardinality(m_merge_groups'[K]) <= s.x
    <3>1. IsFiniteSet(Mates(s) \union {id}) /\ Cardinality(Mates(s) \union {id}) = Cardinality(Mates(s)) + 1
      BY <1>20, <2>2, FS_AddElement
    <3>2. Cardinality(Mates(s)) \in Nat
      BY <2>2, FS_CardinalityType
    <3>. QED
      BY <1>1, <1>17, <2>2, <3>1, <3>2 DEF Shape
  <2>4. \A n \in 1 .. K : n # K =>
          IsFiniteSet(m_merge_groups'[n]) /\ Cardinality(m_merge_groups'[n]) <= s.x
    BY <1>1, <1>13, <1>17 DEF PlacementInv, Numbered
  <2>5. DOMAIN map2cluster' = 1 .. id
    BY <1>5
  <2>. QED
    BY <1>1, <1>5, <1>17, <2>1, <2>3, <2>4, <2>5 DEF Numbered, Stripes
<1>22. /\ map2cluster'[id] = w
       /\ \A t \in 1 .. M : map2cluster'[t] = map2cluster[t]
       /\ Stripes' = 1 .. M \union {id}
  BY <1>3, <1>5 DEF Stripes, w
<1>23. RegionKept'
  <2>1. m_free_clusters' \subseteq 0 .. C - 1 /\ m_free_clusters' \intersect Region(s, start) = {}
    <3>1. CASE s.m_placement \in {"DIS", "OPT"}
      BY <1>5, <1>7, <3>1 DEF free
    <3>2. CASE s.m_placement \notin {"DIS", "OPT"}
      BY <1>1, <1>5, <3>2 DEF PlacementInv, RegionKept
    <3>. QED
      BY <3>1, <3>2
  <2>2. s.m_placement \notin {"DIS", "OPT"} => m_free_clusters' = {}
    BY <1>1, <1>5 DEF PlacementInv, RegionKept
  <2>. QED
    BY <1>1, <1>5, <1>6, <1>7, <2>1, <2>2 DEF RegionKept, Region
<1>24. \A t \in Mates(s) :
         /\ start = m_agg_start_cid
         /\ s.m_placement \in {"DIS", "OPT"} => free = m_free_clusters
         /\ Joined(s, start, m_free_clusters, map2cluster[t])
  <2>1. ASSUME NEW t \in Mates(s) PROVE ~ NewGroup(s) /\ m_merge_groups # <<>> /\ t \in NewestGroup
    BY DEF Mates, NewGroup, NoOpenGroup
  <2>2. ~ NewGroup(s) => start = m_agg_start_cid
    BY DEF AggStarts
  <2>3. ~ NewGroup(s) /\ s.m_placement \in {"DIS", "OPT"} => free = m_free_clusters
    BY DEF free, FreeClusters, NewGroup
  <2>. QED
    BY <1>1, <2>1, <2>2, <2>3 DEF PlacementInv, NewestJoined
<1>25. s.m_placement # "Ran" => s.m_placement \in {"DIS", "OPT"} \/ Drawn(s) = {}
  BY <1>1 DEF Shape, Placements, Drawn
<1>26. ASSUME NEW t \in Mates(s)
       PROVE  Alike(s, w, map2cluster[t]) /\ Alike(s, map2cluster[t], w)
  <2>1. Joined(s, start, m_free_clusters, map2cluster[t])
    BY <1>24
  <2>2. \A p \in Parts(s) \ Drawn(s) :
          w[p] = map2cluster[t][p] /\ map2cluster[t][p] \in Region(s, start)
    BY <1>8, <1>10, <2>1 DEF Joined
  <2>3. ASSUME s.m_placement # "Ran", NEW p \in Drawn(s), NEW q \in Parts(s)
        PROVE  w[p] # map2cluster[t][q] /\ map2cluster[t][p] # w[q]
    <3>1. free = m_free_clusters
      BY <1>24, <1>25, <2>3
    <3>2. w[p] \in free /\ w[p] \notin Region(s, start)
      BY <1>7, <1>8, <1>9, <1>10
    <3>3. map2cluster[t][p] \notin free /\ map2cluster[t][p] \notin Region(s, start)
      BY <2>1, <2>3, <3>1 DEF Joined
    <3>4. CASE q \in Drawn(s)
      <4>1. map2cluster[t][q] \notin free /\ w[q] \in free
        BY <1>8, <1>9, <1>10, <2>1, <2>3, <3>1, <3>4 DEF Joined
      <4>. QED
        BY <3>2, <3>3, <4>1
    <3>5. CASE q \notin Drawn(s)
      BY <1>8, <1>10, <2>2, <3>2, <3>3, <3>5
    <3>. QED
      BY <3>4, <3>5
  <2>. QED
    BY <2>2, <2>3 DEF Alike
<1>27. ASSUME NEW n \in 1 .. K, NEW t \in m_merge_groups'[n], NEW u \in m_merge_groups'[n], t # u
       PROVE  Alike(s, map2cluster'[t], map2cluster'[u])
  <2>1. ASSUME NEW m \in 1 .. N, t \in m_merge_groups[m], u \in m_merge_groups[m]
        PROVE  Alike(s, map2cluster'[t], map2cluster'[u])
    <3>1. Alike(s, map2cluster[t], map2cluster[u])
      BY <1>1, <1>13, <1>27, <2>1 DEF PlacementInv, MatesAlike
    <3>2. t \in 1 .. M /\ u \in 1 .. M
      BY <1>20, <2>1
    <3>. QED
      BY <1>22, <3>1, <3>2
  <2>2. CASE n # K
    BY <1>17, <1>27, <2>1, <2>2
  <2>3. CASE n = K
    <3>1. t \in Mates(s) \union {id} /\ u \in Mates(s) \union {id}
      BY <1>17, <2>3
    <3>2. CASE t \in Mates(s) /\ u \in Mates(s)
      BY <1>15, <1>20, <2>1, <3>2 DEF Mates
    <3>3. CASE t = id \/ u = id
      BY <1>20, <1>22, <1>26, <1>27, <3>1, <3>3
    <3>. QED
      BY <3>1, <3>2, <3>3
  <2>. QED
    BY <2>2, <2>3
<1>28. ASSUME NEW t \in m_merge_groups'[K]
       PROVE  Joined(s, start, m_free_clusters', map2cluster'[t])
  <2>1. CASE t = id
    <3>1. \A p \in Parts(s) \ Drawn(s) : w[p] = Shared(s, start)[p]
      BY <1>8, <1>10
    <3>2. ASSUME s.m_placement # "Ran", NEW p \in Drawn(s)
          PROVE  w[p] \notin m_free_clusters' /\ w[p] \notin Region(s, start)
      <4>1. w[p] = site[p] /\ w[p] \in free
        BY <1>8, <1>9, <1>10
      <4>2. m_free_clusters' = free \ {site[q] : q \in Drawn(s)}
        BY <1>5, <1>25, <3>2 DEF free
      <4>. QED
        BY <1>7, <4>1, <4>2
    <3>. QED
      BY <1>22, <2>1, <3>1, <3>2 DEF Joined
  <2>2. CASE t # id
    <3>1. t \in Mates(s) /\ map2cluster'[t] = map2cluster[t]
      BY <1>17, <1>20, <1>22, <2>2
    <3>2. Joined(s, start, m_free_clusters, map2cluster[t])
      BY <1>24, <3>1
    <3>3. s.m_placement # "Ran" /\ Drawn(s) # {} => m_free_clusters' \subseteq m_free_clusters
      BY <1>5, <1>24, <1>25, <3>1 DEF free
    <3>. QED
      BY <3>1, <3>2, <3>3 DEF Joined
  <2>. QED
    BY <2>1, <2>2
<1>29. Setup'
  BY <1>5 DEF PlacementInv, Setup
<1>30. \A t \in Stripes' : Placed(s, C, map2cluster'[t])
  <2>1. \A t \in 1 .. M : Placed(s, C, map2cluster[t])
    BY <1>1, <1>2, <1>6 DEF PlacementInv, AllPlaced, Stripes
  <2>. QED
    BY <1>12, <1>22, <2>1
<1>31. s = m_encode_parameters' /\ C = m_num_of_Clusters'
  BY <1>1, <1>5, <1>6
<1>32. AllPlaced'
  BY <1>30, <1>31 DEF AllPlaced
<1>33. MatesAlike'
  BY <1>17, <1>27, <1>31 DEF MatesAlike
<1>34. NewestJoined'
  BY <1>5, <1>18, <1>28, <1>31 DEF NewestJoined
<1>. QED
  BY <1>21, <1>23, <1>29, <1>32, <1>33, <1>34 DEF PlacementInv

\* A schema is set: no stripe, no group, no list.
LEMMA Fresh ==
  ASSUME NEW s \in Schemas, NEW C \in ClusterNums, Legal(s), Fits(s, C)
  PROVE  /\ Shape(s) /\ C \in Nat /\ agg_clusters_num(s) \in Nat
         /\ 0 + agg_clusters_num(s) < C
<1>1. Shape(s)
  BY LegalShape
<1>2. C \in Nat
  BY PlacementAssumption
<1>3. agg_clusters_num(s) \in Nat
  BY <1>1, ChunksCounted, DrawnCounted
<1>. QED
  BY <1>1, <1>2, <1>3 DEF Fits

\* no stripe and no group: the state setParameter leaves
Empty ==
  m_merge_groups = <<>> /\ m_free_clusters = {} /\ m_agg_start_cid = 0 /\ map2cluster = <<>>

\* A setParameter, which clears the tables, leaves no placement to be wrong.
LEMMA EmptyKept == Setup /\ Empty => PlacementInv
<1>. SUFFICES ASSUME Setup, Empty PROVE PlacementInv
  OBVIOUS
<1>1. DOMAIN m_merge_groups = {} /\ DOMAIN map2cluster = {} /\ 1 .. 0 = {}
  BY DEF Empty
<1>2. Numbered
  <2>1. UNION {m_merge_groups[n] : n \in DOMAIN m_merge_groups} = Stripes
    BY <1>1 DEF Stripes
  <2>. QED
    BY <1>1, <2>1 DEF Numbered, Empty
<1>3. RegionKept
  BY Fresh DEF RegionKept, Empty, Setup
<1>4. AllPlaced /\ MatesAlike /\ NewestJoined
  BY <1>1 DEF AllPlaced, MatesAlike, NewestJoined, Stripes, Empty
<1>. QED
  BY <1>2, <1>3, <1>4 DEF PlacementInv

\* The placement invariant holds in every reachable state.
LEMMA InvHolds == Spec => []PlacementInv
<1>1. Init => PlacementInv
  <2>1. ASSUME Init PROVE Setup /\ Empty
    BY <2>1 DEF Init, Setup, Empty, Cleared
  <2>. QED
    BY <2>1, EmptyKept
<1>2. PlacementInv /\ [Next]_vars => PlacementInv'
  <2>. SUFFICES ASSUME PlacementInv, [Next]_vars PROVE PlacementInv'
    OBVIOUS
  <2>1. CASE generate_placement
    BY <2>1, PlacementStays
  <2>2. ASSUME NEW s \in Schemas, setParameter(s) PROVE PlacementInv'
    <3>1. Setup' /\ Empty'
      BY <2>2 DEF setParameter, Cleared, Setup, Empty, PlacementInv
    <3>2. (Setup /\ Empty => PlacementInv)'
      BY EmptyKept, PTL
    <3>. QED
      BY <3>1, <3>2
  <2>3. CASE UNCHANGED vars
    BY <2>3 DEF vars, PlacementInv, Setup, RegionKept, Numbered, AllPlaced, MatesAlike,
                NewestJoined, Stripes, NewestGroup
  <2>. QED
    BY <2>1, <2>2, <2>3 DEF Next
<1>. QED
  BY <1>1, <1>2, PTL DEF Spec

-----------------------------------------------------------------------------
(* What follows.                                                           *)

\* TypeOK: every block is placed on a cluster of the system, for the list is
\* never shorter than what is drawn from it and the region ends before the
\* last cluster.  Init and setParameter take schemas whose l divides k and
\* that the clusters suffice for (Legal, Fits), here and in what follows.
THEOREM TypeCorrect == Spec => []TypeOK
<1>1. PlacementInv => TypeOK
  <2>. SUFFICES ASSUME PlacementInv PROVE TypeOK
    OBVIOUS
  <2>1. PICK s \in Schemas : s = m_encode_parameters /\ Shape(s)
    BY LegalShape DEF PlacementInv, Setup
  <2>2. PICK C \in Nat, G \in Nat : C = m_num_of_Clusters /\ G = agg_clusters_num(s)
    BY <2>1, PlacementAssumption, ChunksCounted, DrawnCounted DEF PlacementInv, Setup
  <2>3. m_agg_start_cid \in 0 .. m_num_of_Clusters - 1
    BY <2>1, <2>2 DEF PlacementInv, RegionKept
  <2>4. ASSUME NEW t \in Stripes PROVE ClustersOf(t) \subseteq 0 .. m_num_of_Clusters - 1
    BY DEF PlacementInv, AllPlaced, Placed, ClustersOf
  <2>. QED
    BY <2>3, <2>4 DEF TypeOK, PlacementInv, Setup, RegionKept, Numbered
<1>. QED
  BY <1>1, InvHolds, PTL

\* SurvivesClusterLoss: when l divides k and the clusters suffice, a cluster
\* holds one part of a stripe, and a part is either a chunk of a group, with its
\* local parity at most g_m + 1 blocks, or the global parities, with at most one
\* local parity of each group.
THEOREM SurvivesClusterLossHolds == Spec => []SurvivesClusterLoss
<1>1. PlacementInv => SurvivesClusterLoss
  <2>. SUFFICES ASSUME PlacementInv, NEW t \in Stripes, NEW c \in ClustersOf(t)
                PROVE  Decodable(m_encode_parameters,
                                 {o \in DOMAIN map2cluster[t] : map2cluster[t][o] = c})
    BY DEF SurvivesClusterLoss
  <2>1. PICK s \in Schemas : s = m_encode_parameters /\ Shape(s)
    BY LegalShape DEF PlacementInv, Setup
  <2>2. PICK w : w = map2cluster[t] /\ Placed(s, m_num_of_Clusters, w)
    BY <2>1 DEF PlacementInv, AllPlaced
  <2>3. PICK o \in Blocks(s) : w[o] = c
    BY <2>2 DEF ClustersOf, Placed
  <2>4. PICK p \in Parts(s) : p = PartOf(s, o) /\ w[p] = c
    BY <2>1, <2>2, <2>3, PartOfBlock DEF Placed
  <2>5. \A b \in Blocks(s) : w[b] = c <=> PartOf(s, b) = p
    <3>1. \A b \in Blocks(s) : PartOf(s, b) \in Parts(s) /\ w[b] = w[PartOf(s, b)]
      BY <2>1, <2>2, PartOfBlock DEF Placed
    <3>2. \A q \in Parts(s) : w[q] = w[p] => q = p
      BY <2>2 DEF Placed
    <3>. QED
      BY <2>4, <3>1, <3>2
  <2>6. {b \in DOMAIN w : w[b] = c} = LostOf(s, p)
    <3>1. DOMAIN w = Blocks(s)
      BY <2>2 DEF Placed
    <3>. QED
      BY <2>5, <3>1 DEF LostOf
  <2>. QED
    BY <2>1, <2>2, <2>6, PartDecodable
<1>. QED
  BY <1>1, InvHolds, PTL

\* The parts OPT does not draw are those of the parities.
LEMMA TogetherIsShared ==
  ASSUME NEW s, Shape(s), s.m_placement = "OPT"
  PROVE  {PartOf(s, o) : o \in s.k .. s.k + s.g_m + s.l - 1} = Parts(s) \ Drawn(s)
<1>1. PICK k \in Nat, l \in Nat \ {0}, g \in Nat : s.k = k /\ s.l = l /\ s.g_m = g
  BY DEF Shape
<1> DEFINE parities == s.k .. s.k + s.g_m + s.l - 1
<1>2. ASSUME NEW o \in parities
      PROVE  \/ o \in Globals(s) /\ PartOf(s, o) = s.k
             \/ \E i \in 0 .. s.l - 1 :
                  PartOf(s, o) = IF Full(s) THEN s.k ELSE At(s, i, PerGroup(s) - 1)
  <2>1. CASE o \in Globals(s)
    BY <2>1, PartOfParity
  <2>2. CASE o \notin Globals(s)
    <3>1. o - k - g \in 0 .. s.l - 1 /\ o = s.k + s.g_m + (o - k - g)
      BY <1>1, <2>2 DEF Globals
    <3>. QED
      BY <3>1, PartOfParity
  <2>. QED
    BY <2>1, <2>2
<1>3. \A i \in 0 .. s.l - 1 : s.k + s.g_m + i \in parities
  BY <1>1
<1>4. \E o \in parities : PartOf(s, o) = s.k
  <2>1. CASE g = 0
    <3>1. s.k + s.g_m + 0 \in parities /\ PartOf(s, s.k + s.g_m + 0) = s.k
      BY <1>1, <1>3, <2>1, PartOfParity
    <3>. QED
      BY <3>1
  <2>2. CASE g # 0
    <3>1. s.k \in Globals(s) /\ s.k \in parities
      BY <1>1, <2>2 DEF Globals
    <3>. QED
      BY <3>1, PartOfParity
  <2>. QED
    BY <2>1, <2>2
<1>5. CASE Full(s)
  <2>1. \A o \in parities : PartOf(s, o) = s.k
    BY <1>2, <1>5
  <2>2. Parts(s) \ Drawn(s) = {s.k}
    BY <1>5, OptShared
  <2>. HIDE DEF parities
  <2>3. {PartOf(s, o) : o \in parities} = {s.k}
    BY <1>4, <2>1
  <2>. QED
    BY <2>2, <2>3 DEF parities
<1>6. CASE ~ Full(s)
  <2>1. PICK last : last = [i \in 0 .. s.l - 1 |-> At(s, i, PerGroup(s) - 1)]
    OBVIOUS
  <2>2. Parts(s) \ Drawn(s) = {s.k} \union {last[i] : i \in 0 .. s.l - 1}
    BY <1>6, <2>1, OptShared
  <2>3. \A o \in parities : PartOf(s, o) = s.k \/ \E i \in 0 .. s.l - 1 : PartOf(s, o) = last[i]
    BY <1>2, <1>6, <2>1
  <2>4. \A i \in 0 .. s.l - 1 : \E o \in parities : PartOf(s, o) = last[i]
    BY <1>3, <1>6, <2>1, PartOfParity
  <2>. HIDE DEF parities
  <2>5. {PartOf(s, o) : o \in parities} = {s.k} \union {last[i] : i \in 0 .. s.l - 1}
    BY <1>4, <2>3, <2>4
  <2>. QED
    BY <2>2, <2>5 DEF parities
<1>. QED
  BY <1>5, <1>6

\* What two stripes of a merge group share is what neither draws.
LEMMA AlikeShares ==
  ASSUME NEW s, Shape(s), s.m_placement # "Ran", NEW C,
         NEW w, Placed(s, C, w), NEW v, Placed(s, C, v), Alike(s, w, v)
  PROVE  /\ {o \in Blocks(s) : w[o] \in {v[b] : b \in DOMAIN v}} =
              {o \in Blocks(s) : PartOf(s, o) \in Parts(s) \ Drawn(s)}
         /\ {o \in Blocks(s) : PartOf(s, o) \in Parts(s) \ Drawn(s)} \subseteq
              {o \in Blocks(s) : w[o] = v[o]}
<1>1. /\ DOMAIN v = Blocks(s)
      /\ \A o \in Blocks(s) : PartOf(s, o) \in Parts(s) /\ w[o] = w[PartOf(s, o)]
                              /\ v[o] = v[PartOf(s, o)]
  BY PartOfBlock DEF Placed
<1>2. ASSUME NEW o \in Blocks(s), PartOf(s, o) \in Parts(s) \ Drawn(s) PROVE w[o] = v[o]
  BY <1>1, <1>2 DEF Alike
<1>3. ASSUME NEW o \in Blocks(s), NEW b \in Blocks(s), w[o] = v[b]
      PROVE  PartOf(s, o) \notin Drawn(s)
  BY <1>1, <1>3 DEF Alike
<1>. QED
  BY <1>1, <1>2, <1>3

\* MergeGroupShape: what stripes of a group have in common is what neither
\* draws: nothing under DIS, everything under AGG, and under OPT the parts of
\* the parities; and a group has at most x stripes.
THEOREM MergeGroupShapeHolds == Spec => []MergeGroupShape
<1>1. PlacementInv => MergeGroupShape
  <2>. SUFFICES ASSUME PlacementInv PROVE MergeGroupShape
    OBVIOUS
  <2>1. PICK s \in Schemas : s = m_encode_parameters /\ Shape(s)
    BY LegalShape DEF PlacementInv, Setup
  <2> DEFINE shares(t, u) == {o \in Blocks(s) : map2cluster[t][o] \in ClustersOf(u)}
             alike(t, u) == {o \in Blocks(s) : map2cluster[t][o] = map2cluster[u][o]}
             these == {o \in Blocks(s) : PartOf(s, o) \in Parts(s) \ Drawn(s)}
  <2>2. ASSUME NEW n \in DOMAIN m_merge_groups PROVE Cardinality(m_merge_groups[n]) <= s.x
    BY <2>1 DEF PlacementInv, Numbered
  <2>3. ASSUME NEW n \in DOMAIN m_merge_groups,
               NEW t \in m_merge_groups[n], NEW u \in m_merge_groups[n], t # u,
               s.m_placement # "Ran"
        PROVE  shares(t, u) = these /\ these \subseteq alike(t, u)
    <3>1. t \in Stripes /\ u \in Stripes
      BY DEF PlacementInv, Numbered
    <3>2. /\ Placed(s, m_num_of_Clusters, map2cluster[t])
          /\ Placed(s, m_num_of_Clusters, map2cluster[u])
          /\ Alike(s, map2cluster[t], map2cluster[u])
      BY <2>1, <2>3, <3>1 DEF PlacementInv, AllPlaced, MatesAlike
    <3>. QED
      BY <2>1, <2>3, <3>2, AlikeShares DEF ClustersOf
  <2>4. \A o \in Blocks(s) : PartOf(s, o) \in Parts(s)
    BY <2>1, PartOfBlock
  <2>5. s.m_placement = "DIS" => these = {}
    BY DEF Drawn
  <2>6. s.m_placement = "AGG" => these = Blocks(s)
    BY <2>4 DEF Drawn
  <2>7. s.m_placement = "OPT" =>
          these = {o \in Blocks(s) : PartOf(s, o) \in
                     {PartOf(s, b) : b \in s.k .. s.k + s.g_m + s.l - 1}}
    BY <2>1, TogetherIsShared
  <2>8. \A t, u : alike(t, u) \subseteq Blocks(s)
    OBVIOUS
  <2>9. s.m_placement \in {"Ran", "DIS", "AGG", "OPT"}
    BY <2>1 DEF Shape, Placements
  <2>10. ASSUME NEW n \in DOMAIN m_merge_groups,
                NEW t \in m_merge_groups[n], NEW u \in m_merge_groups[n], t # u
         PROVE  CASE s.m_placement = "Ran" -> TRUE
                  [] s.m_placement = "DIS" -> shares(t, u) = {}
                  [] s.m_placement = "AGG" -> alike(t, u) = Blocks(s)
                  [] OTHER -> LET parities == s.k .. s.k + s.g_m + s.l - 1
                                  together == {PartOf(s, o) : o \in parities}
                                  block == {o \in Blocks(s) : PartOf(s, o) \in together}
                              IN  shares(t, u) = block /\ block \subseteq alike(t, u)
    <3>1. s.m_placement # "Ran" => shares(t, u) = these /\ these \subseteq alike(t, u)
      BY <2>3, <2>10
    <3>. HIDE DEF shares, alike, these
    <3>2. CASE s.m_placement = "Ran"
      BY <3>2
    <3>3. CASE s.m_placement = "DIS"
      BY <2>5, <3>1, <3>3
    <3>4. CASE s.m_placement = "AGG"
      <4>1. alike(t, u) = Blocks(s)
        BY <2>6, <2>8, <3>1, <3>4
      <4>. QED
        BY <3>4, <4>1
    <3>5. CASE s.m_placement = "OPT"
      BY <2>7, <3>1, <3>5
    <3>. QED
      BY <2>9, <3>2, <3>3, <3>4, <3>5
  <2>. QED
    BY <2>1, <2>2, <2>10 DEF MergeGroupShape
<1>. QED
  BY <1>1, InvHolds, PTL
=============================================================================
