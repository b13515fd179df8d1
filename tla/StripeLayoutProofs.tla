------------------------- MODULE StripeLayoutProofs -------------------------
(***************************************************************************)
(* Proofs about StripeLayout, for every configuration file that            *)
(* validateConfig lets pass and Supported admits, of any of the four codes *)
(* and of any size, for every stripe id and every sub_set.                 *)
(*                                                                         *)
(* What the four codes have in common is stated once (Laid): the groups of *)
(* a stripe cut its data, its global and its local parities into runs, in  *)
(* order.  Placement, cut and read are proved from that; only the repairs  *)
(* look at each code again.                                                *)
(***************************************************************************)
EXTENDS StripeLayout, FiniteSetTheorems, SequenceTheorems, WellFoundedInduction, TLAPS

-----------------------------------------------------------------------------
(* Numbers.                                                                *)

\* Multiplying by a positive number keeps the order, and turns a step of one
\* into a step of d.
LEMMA Multiples ==
  ASSUME NEW d \in Nat \ {0}, NEW a \in Int, NEW c \in Int
  PROVE  /\ a * d \in Int
         /\ a < c => a * d + d <= c * d
         /\ a <= c => a * d <= c * d
         /\ a \in Nat => a * d \in Nat
<1>1. a < c => (c - a) * d >= d
  OBVIOUS
<1>2. (c - a) * d = c * d - a * d
  OBVIOUS
<1>. QED
  BY <1>1, <1>2

\* A number is its quotient times the divisor, plus a remainder below it.
LEMMA Divided ==
  ASSUME NEW d \in Nat \ {0}, NEW a \in Nat
  PROVE  /\ a \div d \in Nat /\ a % d \in 0 .. d - 1
         /\ a = (a \div d) * d + (a % d)
<1>1. a \div d \in Int /\ a % d \in 0 .. d - 1 /\ a = d * (a \div d) + (a % d)
  OBVIOUS
<1>2. d * (a \div d) = (a \div d) * d /\ (a \div d) * d \in Int
  BY <1>1, Multiples
<1>3. a \div d < 0 => (a \div d) * d + d <= 0
  <2>1. a \div d < 0 => (a \div d) * d + d <= 0 * d
    BY <1>1, Multiples
  <2>. QED
    BY <2>1
<1>. QED
  BY <1>1, <1>2, <1>3

\* Quotient and remainder are the only way to write a number so.
LEMMA DivUnique ==
  ASSUME NEW d \in Nat \ {0}, NEW q \in Nat, NEW o \in 0 .. d - 1
  PROVE  /\ q * d + o \in Nat
         /\ (q * d + o) \div d = q /\ (q * d + o) % d = o
<1> DEFINE a == q * d + o
<1>1. a \in Nat
  BY Multiples
<1>2. a \div d = q
  BY <1>1
<1>3. a = (a \div d) * d + (a % d)
  BY <1>1, Divided
<1>. QED
  BY <1>1, <1>2, <1>3, Multiples

\* A set of numbers that is not empty has a least one: the form of
\* induction used here.
LEMMA LeastNumber ==
  ASSUME NEW S, S \subseteq Nat, S # {}
  PROVE  \E x \in S : \A y \in S : x <= y
<1> DEFINE R == {ss \in Nat \X Nat : ss[1] < ss[2]}
<1>1. R = OpToRel(<, Nat)
  BY DEF OpToRel
<1>2. IsWellFoundedOn(R, Nat)
  BY <1>1, NatLessThanWellFounded
<1>3. \A x, y \in Nat : <<y, x>> \in R <=> y < x
  OBVIOUS
<1> HIDE DEF R
<1>4. PICK x \in S : \A y \in S : ~ (<<y, x>> \in R)
  BY <1>2, WFMin
<1>5. ASSUME NEW y \in S PROVE x <= y
  <2>1. ~(y < x)
    BY <1>3, <1>4
  <2>. QED
    BY <2>1
<1>. QED
  BY <1>5

\* Numbers that never fall from one to the next are in order.
LEMMA Rises ==
  ASSUME NEW n \in Nat, NEW f \in [0 .. n -> Nat],
         \A g \in 0 .. n - 1 : f[g] <= f[g + 1]
  PROVE  \A g, h \in 0 .. n : g <= h => f[g] <= f[h]
<1> DEFINE bad == {h \in 0 .. n : \E g \in 0 .. n : g <= h /\ ~ (f[g] <= f[h])}
<1>1. SUFFICES ASSUME bad # {} PROVE FALSE
  OBVIOUS
<1>2. PICK h \in bad : \A y \in bad : h <= y
  <2>1. bad \subseteq Nat
    OBVIOUS
  <2>. HIDE DEF bad
  <2>. QED
    BY <1>1, <2>1, LeastNumber
<1>3. PICK g \in 0 .. n : g <= h /\ ~ (f[g] <= f[h])
  OBVIOUS
<1>4. g < h /\ h - 1 \in 0 .. n - 1 /\ h \in 0 .. n
  BY <1>3
<1>5. f[h - 1] <= f[(h - 1) + 1] /\ (h - 1) + 1 = h
  BY <1>4
<1>6. h - 1 \notin bad
  BY <1>2, <1>4
<1>7. f[g] <= f[h - 1]
  BY <1>3, <1>4, <1>6
<1>. QED
  BY <1>3, <1>4, <1>5, <1>7

\* A number between the first and the last lies in one of the steps.
LEMMA Steps ==
  ASSUME NEW n \in Nat, NEW f \in [0 .. n -> Nat], NEW x \in Nat,
         f[0] <= x, x < f[n]
  PROVE  \E g \in 0 .. n - 1 : f[g] <= x /\ x < f[g + 1]
<1> DEFINE over == {h \in 0 .. n : x < f[h]}
<1>1. n \in over
  OBVIOUS
<1>2. PICK h \in over : \A y \in over : h <= y
  <2>1. over \subseteq Nat
    OBVIOUS
  <2>. HIDE DEF over
  <2>. QED
    BY <1>1, <2>1, LeastNumber
<1>3. h # 0 /\ h - 1 \in 0 .. n - 1 /\ (h - 1) + 1 = h
  OBVIOUS
<1>4. h - 1 \notin over
  BY <1>2, <1>3
<1>. QED
  BY <1>3, <1>4

-----------------------------------------------------------------------------
(* The groups of a stripe.                                                 *)

\* a configuration in force
Fit(c) ==
  /\ c.CodeType \in CodeTypes /\ c.k \in Nat /\ c.r \in Nat /\ c.z \in Nat
  /\ c.DatanodeNumPerCluster \in Nat /\ c.ClusterNum \in Nat
  /\ Supported(c) /\ validateConfig(c)

Within(f, g, b) == f[g] <= b /\ b < f[g + 1]

\* what group g takes is what the client counts for it, and fits a cluster; a
\* group keeps data, or is the last
Counted(c, n, D, G, L, g) ==
  \E d, e, l \in Nat :
    /\ d = get_data_block_num_per_group(c, g) /\ D[g + 1] = D[g] + d
    /\ e = get_global_parity_block_num_per_group(c, g) /\ G[g + 1] = G[g] + e
    /\ l = get_local_parity_block_num_per_group(c, g) /\ L[g + 1] = L[g] + l
    /\ 0 < d + e + l /\ d + e + l < c.DatanodeNumPerCluster
    /\ IF c.CodeType = "UniLRC" \/ g < n - 1 THEN d > 0 ELSE d = 0

\* n groups; group g takes the data from D[g] on, the global parities from
\* G[g] on and the local ones from L[g] on
Layout(c, n, D, G, L) ==
  /\ n \in Nat \ {0} /\ n = ClientGroups(c) /\ n <= c.ClusterNum
  /\ D \in [0 .. n -> Nat] /\ G \in [0 .. n -> Nat] /\ L \in [0 .. n -> Nat]
  /\ D[0] = 0 /\ D[n] = c.k
  /\ G[0] = c.k /\ G[n] = c.k + c.r
  /\ L[0] = c.k + c.r /\ L[n] = c.k + c.r + c.z
  /\ \A g \in 0 .. n - 1 : Counted(c, n, D, G, L, g)
  /\ \A g \in 0 .. n - 1, b \in Blocks(c) :
       Within(D, g, b) \/ Within(G, g, b) \/ Within(L, g, b) => map2group(c, b) = g

\* A file that validateConfig lets pass gives a supported configuration of
\* numbers.
LEMMA FilesFit ==
  ASSUME NEW file \in Files, validateConfig(loadConfig(file))
  PROVE  Fit(loadConfig(file))
<1> DEFINE c == loadConfig(file)
<1>1. /\ file \in [CodeType : CodeTypes, alpha : Nat, k : Nat, r : Nat, z : Nat,
                   DatanodeNumPerCluster : Nat, ClusterNum : Nat]
      /\ Supported(c)
  BY FilesAssumption
<1>2. /\ c.CodeType = file.CodeType /\ c.z = file.z
      /\ c.DatanodeNumPerCluster = file.DatanodeNumPerCluster /\ c.ClusterNum = file.ClusterNum
  BY <1>1 DEF loadConfig
<1>3. c.k \in Nat /\ c.r \in Nat
  <2>1. CASE file.CodeType = "UniLRC"
    <3>1. PICK a \in Nat, z \in Nat : a = file.alpha /\ z = file.z
      BY <1>1
    <3>2. c.k = a * z * z - a * z /\ c.r = a * z
      BY <1>1, <2>1, <3>1 DEF loadConfig
    <3>3. a * z \in Nat /\ a * z * z \in Nat
      <4>1. a * z \in Nat
        OBVIOUS
      <4>2. \A n \in Nat : n * z \in Nat
        OBVIOUS
      <4>. QED
        BY <4>1, <4>2
    <3>4. c.k > 0
      BY <1>1 DEF Supported
    <3>. QED
      BY <3>2, <3>3, <3>4
  <2>2. CASE file.CodeType # "UniLRC"
    BY <1>1, <2>2 DEF loadConfig
  <2>. QED
    BY <2>1, <2>2
<1>. QED
  BY <1>1, <1>2, <1>3 DEF Fit


\* the numbers of the blocks, and the three kinds of them
LEMMA BlockKinds ==
  ASSUME NEW c, Fit(c), NEW b \in Blocks(c)
  PROVE  /\ b \in Nat /\ b < c.k + c.r + c.z
         /\ IsData(c, b) \/ IsGlobal(c, b) \/ IsLocal(c, b)
<1>1. PICK k \in Nat, r \in Nat, z \in Nat : k = c.k /\ r = c.r /\ z = c.z
  BY DEF Fit
<1>2. b \in Nat /\ b < k + r + z
  BY <1>1 DEF Blocks, N
<1>3. b < k \/ (k <= b /\ b < k + r) \/ k + r <= b
  BY <1>2
<1>. QED
  BY <1>1, <1>2, <1>3 DEF IsData, IsGlobal, IsLocal

\* A number that a divisor divides is the quotient times the divisor.
LEMMA Exactly ==
  ASSUME NEW d \in Nat, d > 0, NEW a \in Nat, a % d = 0
  PROVE  a \div d \in Nat /\ a = (a \div d) * d
<1>1. PICK q \in Nat : q = a \div d
  BY Divided
<1>2. PICK v \in Nat : v = q * d
  OBVIOUS
<1>3. a = v + (a % d)
  BY <1>1, <1>2, Divided
<1>. QED
  BY <1>1, <1>2, <1>3

\* A block of a run of length d is in the run its number divided by d says.
LEMMA RunOf ==
  ASSUME NEW d \in Nat \ {0}, NEW g \in Nat, NEW x \in Nat, g * d <= x, x < g * d + d
  PROVE  x \div d = g /\ x % d = x - g * d
<1>1. PICK v \in Nat : v = g * d
  BY Multiples
<1>2. PICK o \in 0 .. d - 1 : o = x - v /\ x = g * d + o
  BY <1>1
<1>3. (g * d + o) \div d = g /\ (g * d + o) % d = o
  BY DivUnique
<1>. QED
  BY <1>1, <1>2, <1>3

\* UniLRC: a run of each kind in every group.
LEMMA UniLaid ==
  ASSUME NEW c, Fit(c), c.CodeType = "UniLRC"
  PROVE  \E n, D, G, L : Layout(c, n, D, G, L)
<1>1. PICK k \in Nat, r \in Nat, z \in Nat, nodes \in Nat, clusters \in Nat :
        /\ k = c.k /\ r = c.r /\ z = c.z
        /\ nodes = c.DatanodeNumPerCluster /\ clusters = c.ClusterNum
  BY DEF Fit
<1>2. z > 1 /\ k > 0 /\ k % z = 0 /\ r % z = 0
  BY <1>1 DEF Fit, Supported
<1>3. PICK s \in Nat, a \in Nat : s = k \div z /\ a = r \div z /\ k = s * z /\ r = a * z
  BY <1>2, Exactly
<1>4. s > 0
  <2>1. s = 0 => s * z = 0
    OBVIOUS
  <2>. QED
    BY <1>2, <1>3, <2>1
<1>5. s + a + 1 < nodes /\ z < clusters
  <2>1. N(c) = (s + a + 1) * z
    <3>1. (s + a + 1) * z = s * z + a * z + z
      OBVIOUS
    <3>. QED
      BY <1>1, <1>3, <3>1 DEF N
  <2>2. ((s + a + 1) * z + 0) \div z = s + a + 1
    BY <1>2, DivUnique
  <2>3. (s + a + 1) * z \in Nat
    BY <1>2, Multiples
  <2>4. N(c) \div z = s + a + 1
    BY <2>1, <2>2, <2>3
  <2>. QED
    BY <1>1, <2>4 DEF Fit, validateConfig
<1> DEFINE D == [g \in 0 .. z |-> g * s]
           G == [g \in 0 .. z |-> k + g * a]
           L == [g \in 0 .. z |-> k + r + g]
<1>6. \A g \in 0 .. z : g \in Nat /\ g * s \in Nat /\ g * a \in Nat
  BY Multiples
<1>7. D \in [0 .. z -> Nat] /\ G \in [0 .. z -> Nat] /\ L \in [0 .. z -> Nat]
  BY <1>6
<1>8. /\ D[0] = 0 /\ D[z] = c.k /\ G[0] = c.k /\ G[z] = c.k + c.r
      /\ L[0] = c.k + c.r /\ L[z] = c.k + c.r + c.z
  <2>1. z * s = k /\ z * a = r /\ 0 * s = 0 /\ 0 * a = 0
    BY <1>3
  <2>2. 0 \in 0 .. z /\ z \in 0 .. z
    OBVIOUS
  <2>3. /\ D[0] = 0 * s /\ D[z] = z * s /\ G[0] = k + 0 * a /\ G[z] = k + z * a
        /\ L[0] = k + r + 0 /\ L[z] = k + r + z
    BY <2>2
  <2>. HIDE DEF D, G, L
  <2>. QED
    BY <1>1, <2>1, <2>3
<1>9. ASSUME NEW g \in 0 .. z - 1
      PROVE  /\ s = get_data_block_num_per_group(c, g) /\ D[g + 1] = D[g] + s
             /\ a = get_global_parity_block_num_per_group(c, g) /\ G[g + 1] = G[g] + a
             /\ 1 = get_local_parity_block_num_per_group(c, g) /\ L[g + 1] = L[g] + 1
  <2>1. (g + 1) * s = g * s + s /\ (g + 1) * a = g * a + a
    OBVIOUS
  <2>2. g \in 0 .. z /\ g + 1 \in 0 .. z
    OBVIOUS
  <2>3. D[g + 1] = D[g] + s /\ G[g + 1] = G[g] + a /\ L[g + 1] = L[g] + 1
    BY <1>6, <2>1, <2>2
  <2>4. s = get_data_block_num_per_group(c, g)
    BY <1>1, <1>3 DEF get_data_block_num_per_group, LocalSize
  <2>5. a = get_global_parity_block_num_per_group(c, g)
    BY <1>1, <1>3 DEF get_global_parity_block_num_per_group
  <2>6. 1 = get_local_parity_block_num_per_group(c, g)
    BY DEF get_local_parity_block_num_per_group
  <2>. QED
    BY <2>3, <2>4, <2>5, <2>6
<1>10. ASSUME NEW g \in 0 .. z - 1, NEW b \in Blocks(c),
              Within(D, g, b) \/ Within(G, g, b) \/ Within(L, g, b)
       PROVE  map2group(c, b) = g
  <2>0. g \in Nat /\ b \in Nat /\ g \in 0 .. z /\ g + 1 \in 0 .. z
    BY <1>1 DEF Blocks, N
  <2>1. /\ D[g] = g * s /\ D[g + 1] = g * s + s
        /\ G[g] = k + g * a /\ G[g + 1] = k + g * a + a
        /\ L[g] = k + r + g /\ L[g + 1] = k + r + g + 1
    BY <1>6, <1>9, <2>0
  <2>2. map2group(c, b) = AzureGroup(c, b)
    BY DEF map2group
  <2>3. PICK v \in Nat, w \in Nat : v = g * s /\ w = g * a /\ v + s <= k /\ w + a <= r
    <3>1. g * s + s <= z * s /\ g * a + a <= z * a
      <4>1. g < z => g * s + s <= z * s
        BY <1>4, Multiples
      <4>2. a # 0 => (g < z => g * a + a <= z * a)
        BY Multiples
      <4>3. a = 0 => g * a + a <= z * a
        OBVIOUS
      <4>. QED
        BY <4>1, <4>2, <4>3
    <3>2. z * s = k /\ z * a = r
      BY <1>3
    <3>. QED
      BY <1>6, <2>0, <3>1, <3>2
  <2>4. CASE Within(D, g, b)
    <3>1. v <= b /\ b < v + s
      BY <2>1, <2>3, <2>4 DEF Within
    <3>2. b \div s = g
      BY <1>4, <2>0, <2>3, <3>1, RunOf
    <3>3. IsData(c, b) /\ ~ IsGlobal(c, b) /\ ~ IsLocal(c, b) /\ LocalSize(c) = s
      BY <1>1, <1>3, <2>0, <2>3, <3>1 DEF IsData, IsGlobal, IsLocal, LocalSize
    <3>. QED
      BY <2>2, <3>2, <3>3 DEF AzureGroup
  <2>5. CASE Within(G, g, b)
    <3>1. k + w <= b /\ b < k + w + a
      BY <2>1, <2>3, <2>5 DEF Within
    <3>2. PICK x \in Nat : x = b - k /\ w <= x /\ x < w + a
      BY <2>0, <3>1
    <3>3. a \in Nat \ {0}
      BY <3>2
    <3>4. x \div a = g
      BY <2>0, <2>3, <3>2, <3>3, RunOf
    <3>5. ~ IsData(c, b) /\ IsGlobal(c, b) /\ ~ IsLocal(c, b)
      BY <1>1, <2>0, <2>3, <3>1 DEF IsData, IsGlobal, IsLocal
    <3>6. (b - c.k) \div (c.r \div c.z) = g
      BY <1>1, <1>3, <3>2, <3>4
    <3>. QED
      BY <2>2, <3>5, <3>6 DEF AzureGroup
  <2>6. CASE Within(L, g, b)
    <3>1. b = k + r + g
      BY <2>0, <2>1, <2>6 DEF Within
    <3>2. ~ IsData(c, b) /\ ~ IsGlobal(c, b) /\ IsLocal(c, b) /\ LocalId(c, b) = g
      BY <1>1, <2>0, <3>1 DEF IsData, IsGlobal, IsLocal, LocalId
    <3>. QED
      BY <2>2, <3>2 DEF AzureGroup
  <2>. QED
    BY <1>10, <2>4, <2>5, <2>6
<1>11. z = ClientGroups(c)
  BY <1>1 DEF ClientGroups
<1>12. ASSUME NEW g \in 0 .. z - 1 PROVE Counted(c, z, D, G, L, g)
  <2>1. s \in Nat /\ a \in Nat /\ 1 \in Nat /\ 0 < s + a + 1 /\ s + a + 1 < c.DatanodeNumPerCluster
    BY <1>1, <1>5
  <2>. HIDE DEF D, G, L
  <2>. QED
    BY <1>4, <1>9, <2>1 DEF Counted
<1>. HIDE DEF D, G, L
<1>13. z \in Nat \ {0} /\ z <= c.ClusterNum
  BY <1>1, <1>2, <1>5
<1>14. Layout(c, z, D, G, L)
  BY <1>7, <1>8, <1>10, <1>11, <1>12, <1>13 DEF Layout
<1>. QED
  BY <1>14


\* AzureLRC: a run of data and a local parity in every group, and the global
\* parities in one more.
LEMMA AzureLaid ==
  ASSUME NEW c, Fit(c), c.CodeType = "AzureLRC"
  PROVE  \E n, D, G, L : Layout(c, n, D, G, L)
<1>1. PICK k \in Nat, r \in Nat, z \in Nat, nodes \in Nat, clusters \in Nat :
        /\ k = c.k /\ r = c.r /\ z = c.z
        /\ nodes = c.DatanodeNumPerCluster /\ clusters = c.ClusterNum
  BY DEF Fit
<1>2. z > 1 /\ k > 0 /\ k % z = 0
  BY <1>1 DEF Fit, Supported
<1>3. PICK s \in Nat : s = k \div z /\ k = s * z
  BY <1>2, Exactly
<1>4. s > 0
  <2>1. s = 0 => s * z = 0
    OBVIOUS
  <2>. QED
    BY <1>2, <1>3, <2>1
<1>5. s + 1 < nodes /\ z + 1 < clusters /\ r > s /\ nodes > r
  BY <1>1, <1>3 DEF Fit, validateConfig, Supported, LocalSize
<1> DEFINE n == z + 1
           D == [g \in 0 .. n |-> IF g <= z THEN g * s ELSE k]
           G == [g \in 0 .. n |-> IF g <= z THEN k ELSE k + r]
           L == [g \in 0 .. n |-> IF g <= z THEN k + r + g ELSE k + r + z]
<1>6. \A g \in 0 .. n : g \in Nat /\ g * s \in Nat
  BY Multiples
<1>7. D \in [0 .. n -> Nat] /\ G \in [0 .. n -> Nat] /\ L \in [0 .. n -> Nat]
  BY <1>6
<1>8. z * s = k /\ 0 * s = 0
  BY <1>3
<1>9. /\ \A g \in 0 .. z : D[g] = g * s /\ G[g] = k /\ L[g] = k + r + g
      /\ D[n] = k /\ G[n] = k + r /\ L[n] = k + r + z
  OBVIOUS
<1>10. /\ D[0] = 0 /\ D[n] = c.k /\ G[0] = c.k /\ G[n] = c.k + c.r
       /\ L[0] = c.k + c.r /\ L[n] = c.k + c.r + c.z
  <2>1. D[0] = 0 * s /\ G[0] = k /\ L[0] = k + r + 0
    BY <1>9
  <2>. HIDE DEF D, G, L
  <2>. QED
    BY <1>1, <1>8, <1>9, <2>1
<1>. HIDE DEF D, G, L
<1>11. n = ClientGroups(c)
  BY <1>1 DEF ClientGroups
<1>12. ASSUME NEW g \in 0 .. n - 1 PROVE Counted(c, n, D, G, L, g)
  <2>1. CASE g < z
    <3>1. ~ LastGroup(c, g)
      BY <1>11, <2>1 DEF LastGroup
    <3>2. (g + 1) * s = g * s + s
      OBVIOUS
    <3>3. D[g + 1] = D[g] + s /\ G[g + 1] = G[g] + 0 /\ L[g + 1] = L[g] + 1
      <4>1. g \in 0 .. z /\ g + 1 \in 0 .. z
        BY <2>1
      <4>. QED
        BY <1>6, <1>9, <3>2, <4>1
    <3>4. /\ s = get_data_block_num_per_group(c, g)
          /\ 0 = get_global_parity_block_num_per_group(c, g)
          /\ 1 = get_local_parity_block_num_per_group(c, g)
      BY <1>1, <1>3, <3>1 DEF get_data_block_num_per_group, LocalSize,
           get_global_parity_block_num_per_group, get_local_parity_block_num_per_group
    <3>5. 0 < s + 0 + 1 /\ s + 0 + 1 < c.DatanodeNumPerCluster /\ g < n - 1
      BY <1>1, <1>5, <2>1
    <3>. QED
      BY <1>4, <3>3, <3>4, <3>5 DEF Counted
  <2>2. CASE g = z
    <3>1. LastGroup(c, g)
      BY <1>11, <2>2 DEF LastGroup
    <3>2. z \in 0 .. z /\ g + 1 = n
      BY <2>2
    <3>3. D[g + 1] = D[g] + 0 /\ G[g + 1] = G[g] + r /\ L[g + 1] = L[g] + 0
      BY <1>8, <1>9, <2>2, <3>2
    <3>4. /\ 0 = get_data_block_num_per_group(c, g)
          /\ r = get_global_parity_block_num_per_group(c, g)
          /\ 0 = get_local_parity_block_num_per_group(c, g)
      BY <1>1, <3>1 DEF get_data_block_num_per_group,
           get_global_parity_block_num_per_group, get_local_parity_block_num_per_group
    <3>5. 0 < 0 + r + 0 /\ 0 + r + 0 < c.DatanodeNumPerCluster /\ ~ (g < n - 1)
      BY <1>1, <1>5, <2>2
    <3>. QED
      BY <3>3, <3>4, <3>5 DEF Counted
  <2>. QED
    BY <2>1, <2>2
<1>13. ASSUME NEW g \in 0 .. n - 1, NEW b \in Blocks(c),
              Within(D, g, b) \/ Within(G, g, b) \/ Within(L, g, b)
       PROVE  map2group(c, b) = g
  <2>1. g \in Nat /\ b \in Nat /\ g \in 0 .. z
    BY <1>1 DEF Blocks, N
  <2>2. map2group(c, b) = AzureGroup(c, b)
    BY DEF map2group
  <2>3. PICK v \in Nat : v = g * s
    BY <2>1, Multiples
  <2>4. CASE g < z
    <3>1. g + 1 \in 0 .. z /\ (g + 1) * s = g * s + s
      BY <2>4
    <3>2. D[g] = v /\ D[g + 1] = v + s /\ G[g] = k /\ G[g + 1] = k /\ L[g] = k + r + g
          /\ L[g + 1] = k + r + (g + 1)
      BY <1>9, <2>1, <2>3, <3>1
    <3>3. v + s <= k
      <4>1. g * s + s <= z * s
        BY <1>4, <2>4, Multiples
      <4>. QED
        BY <1>8, <2>3, <4>1
    <3>4. CASE v <= b /\ b < v + s
      <4>1. b \div s = g
        <5>1. g * s <= b /\ b < g * s + s
          BY <2>3, <3>4
        <5>2. s \in Nat \ {0}
          BY <1>4
        <5>. QED
          BY <2>1, <5>1, <5>2, RunOf
      <4>2. IsData(c, b) /\ ~ IsGlobal(c, b) /\ ~ IsLocal(c, b) /\ LocalSize(c) = s
        BY <1>1, <1>3, <2>1, <2>3, <3>3, <3>4 DEF IsData, IsGlobal, IsLocal, LocalSize
      <4>. QED
        BY <2>2, <4>1, <4>2 DEF AzureGroup
    <3>5. CASE b = k + r + g
      <4>1. ~ IsData(c, b) /\ ~ IsGlobal(c, b) /\ IsLocal(c, b) /\ LocalId(c, b) = g
        BY <1>1, <2>1, <3>5 DEF IsData, IsGlobal, IsLocal, LocalId
      <4>. QED
        BY <2>2, <4>1 DEF AzureGroup
    <3>. QED
      BY <1>13, <2>1, <3>2, <3>4, <3>5 DEF Within
  <2>5. CASE g = z
    <3>1. D[g] = k /\ D[g + 1] = k /\ G[g] = k /\ G[g + 1] = k + r
          /\ L[g] = k + r + z /\ L[g + 1] = k + r + z
      BY <1>8, <1>9, <2>1, <2>5
    <3>2. k <= b /\ b < k + r
      BY <1>13, <2>1, <3>1 DEF Within
    <3>3. ~ IsData(c, b) /\ IsGlobal(c, b) /\ ~ IsLocal(c, b)
      BY <1>1, <2>1, <3>2 DEF IsData, IsGlobal, IsLocal
    <3>. QED
      BY <1>1, <2>2, <2>5, <3>3 DEF AzureGroup
  <2>. QED
    BY <2>1, <2>4, <2>5
<1>14. n \in Nat \ {0} /\ n <= c.ClusterNum
  BY <1>1, <1>2, <1>5
<1>. HIDE DEF n
<1>15. Layout(c, n, D, G, L)
  BY <1>7, <1>10, <1>11, <1>12, <1>13, <1>14 DEF Layout
<1>. QED
  BY <1>15

\* UniformLRC: the first k + r blocks in runs of r, the last of which are the
\* global parities, each with a local parity.
LEMMA UniformNumbers ==
  ASSUME NEW c, Fit(c), c.CodeType = "UniformLRC"
  PROVE  \E k, r, z \in Nat \ {0} :
           /\ k = c.k /\ r = c.r /\ z = c.z /\ z > 1 /\ k = (z - 1) * r /\ k + r = z * r
           /\ UniformSmall(c) = r /\ UniformLarger(c) = 0 /\ UniformSmalls(c) = z
           /\ z < c.ClusterNum /\ r + 1 < c.DatanodeNumPerCluster
<1>1. PICK k \in Nat, r \in Nat, z \in Nat, nodes \in Nat, clusters \in Nat :
        /\ k = c.k /\ r = c.r /\ z = c.z
        /\ nodes = c.DatanodeNumPerCluster /\ clusters = c.ClusterNum
  BY DEF Fit
<1>2. z > 1 /\ k > 0 /\ k = r * (z - 1) /\ nodes > r + 1
  BY <1>1 DEF Fit, Supported
<1>3. r > 0
  <2>1. r = 0 => r * (z - 1) = 0
    OBVIOUS
  <2>. QED
    BY <1>2, <2>1
<1>4. k = (z - 1) * r /\ k + r = z * r /\ z * r = r * z
  <2>1. r * (z - 1) = (z - 1) * r /\ z * r = (z - 1) * r + r /\ z * r = r * z
    OBVIOUS
  <2>. QED
    BY <1>2, <2>1
<1>5. UniformSmall(c) = r /\ UniformLarger(c) = 0
  <2>1. (r * z + 0) \div z = r /\ (r * z + 0) % z = 0 /\ r * z \in Nat
    BY <1>2, DivUnique
  <2>. QED
    BY <1>1, <1>4, <2>1 DEF UniformSmall, UniformLarger
<1>6. UniformSmalls(c) = z
  BY <1>1, <1>5 DEF UniformSmalls
<1>7. z < clusters
  <2>1. UniformGroupsIn(c, UniformSmall(c)) = 1
    <3>1. (1 * (r + 1) + (r - 1)) \div (r + 1) = 1
      BY <1>3, DivUnique
    <3>2. r + (r + 1) - 1 = 1 * (r + 1) + (r - 1)
      OBVIOUS
    <3>. QED
      BY <1>1, <1>5, <3>1, <3>2 DEF UniformGroupsIn, Ceil
  <2>2. PICK x \in Nat : x = UniformGroupsIn(c, UniformSmall(c) + 1)
    <3>1. (r + 1) + (r + 1) - 1 \in Nat /\ r + 1 \in Nat \ {0}
      OBVIOUS
    <3>. QED
      BY <1>1, <1>5, <3>1, Divided DEF UniformGroupsIn, Ceil
  <2>3. x * 0 + 1 * z = z
    OBVIOUS
  <2>. QED
    BY <1>1, <1>5, <1>6, <2>1, <2>2, <2>3 DEF Fit, validateConfig
<1>. QED
  BY <1>1, <1>2, <1>3, <1>4, <1>5, <1>6, <1>7


\* UniformLRC: block b of a stripe without its local parities is in group
\* b \div r; only the last group has global parities.
LEMMA UniformAt ==
  ASSUME NEW c, Fit(c), c.CodeType = "UniformLRC", NEW g \in 0 .. c.z - 1
  PROVE  /\ \A b \in Nat : g * c.r <= b /\ b < g * c.r + c.r =>
              /\ b < c.k + c.r /\ (b < c.k <=> g < c.z - 1)
              /\ UniformLocal(c, b) = g /\ UniformOffset(c, b) = b - g * c.r
              /\ UniformGroup(c, b) = g
         /\ UniformGroup(c, c.k + c.r + g) = g
<1>1. PICK k, r, z \in Nat \ {0} :
        /\ k = c.k /\ r = c.r /\ z = c.z /\ z > 1 /\ k = (z - 1) * r /\ k + r = z * r
        /\ UniformSmall(c) = r /\ UniformLarger(c) = 0 /\ UniformSmalls(c) = z
  BY UniformNumbers
<1>2. UniformGroupsIn(c, r) = 1
  <2>1. (1 * (r + 1) + (r - 1)) \div (r + 1) = 1
    BY DivUnique
  <2>2. r + (r + 1) - 1 = 1 * (r + 1) + (r - 1)
    OBVIOUS
  <2>. QED
    BY <1>1, <2>1, <2>2 DEF UniformGroupsIn, Ceil
<1>3. \A l \in 0 .. z : UniformFirst(c, l) = l
  <2>1. \A l \in 0 .. z : l * 1 = l
    OBVIOUS
  <2>. QED
    BY <1>1, <1>2, <2>1 DEF UniformFirst, UniformSum
<1>4. PICK v \in Nat, h \in Nat : v = g * r /\ h = g /\ h < z
  BY <1>1, Multiples
<1>5. h * r = v /\ v + r <= k + r /\ (h < z - 1 => v + r <= k) /\ (h = z - 1 => v = k)
  <2>1. h * r + r <= z * r
    BY <1>4, Multiples
  <2>2. h < z - 1 => h * r + r <= (z - 1) * r
    BY <1>4, Multiples
  <2>. QED
    BY <1>1, <1>4, <2>1, <2>2
<1>6. ASSUME NEW b \in Nat, v <= b, b < v + r
      PROVE  /\ b < k + r /\ (b < k <=> h < z - 1)
             /\ UniformLocal(c, b) = h /\ UniformOffset(c, b) = b - v
             /\ UniformGroup(c, b) = h
  <2>1. b < k + r /\ (b < k <=> h < z - 1)
    BY <1>4, <1>5, <1>6
  <2>2. UniformLocal(c, b) = h
    <3>1. b \div r = h
      BY <1>5, <1>6, RunOf
    <3>. QED
      BY <1>1, <2>1, <3>1 DEF UniformLocal
  <2>3. UniformOffset(c, b) = b - v
    <3>1. UniformSum(c, h, r, r + 1) = v
      BY <1>1, <1>4, <1>5 DEF UniformSum
    <3>. QED
      BY <1>1, <2>2, <3>1 DEF UniformOffset
  <2>4. UniformGroup(c, b) = h
    <3>1. PICK o \in Nat : o = b - v /\ o < r + 1
      BY <1>6
    <3>2. o \div (r + 1) = 0
      BY <3>1
    <3>3. ~ IsLocal(c, b)
      BY <1>1, <2>1 DEF IsLocal
    <3>4. UniformFirst(c, h) = h
      BY <1>3, <1>4
    <3>. QED
      BY <1>1, <2>2, <2>3, <3>1, <3>2, <3>3, <3>4 DEF UniformGroup
  <2>. QED
    BY <2>1, <2>2, <2>3, <2>4
<1>7. UniformGroup(c, k + r + h) = h
  <2>1. PICK b \in Nat : b = k + r + h
    OBVIOUS
  <2>2. IsLocal(c, b) /\ LocalId(c, b) = h
    BY <1>1, <2>1 DEF IsLocal, LocalId
  <2>3. UniformFirst(c, h + 1) = h + 1
    BY <1>3, <1>4
  <2>. QED
    BY <2>1, <2>2, <2>3 DEF UniformGroup
<1>. QED
  BY <1>1, <1>4, <1>6, <1>7

\* UniformLRC: a run of r blocks and a local parity in every group.
LEMMA UniformLaid ==
  ASSUME NEW c, Fit(c), c.CodeType = "UniformLRC"
  PROVE  \E n, D, G, L : Layout(c, n, D, G, L)
<1>1. PICK k, r, z \in Nat \ {0} :
        /\ k = c.k /\ r = c.r /\ z = c.z /\ z > 1 /\ k = (z - 1) * r /\ k + r = z * r
        /\ UniformSmall(c) = r /\ UniformLarger(c) = 0 /\ UniformSmalls(c) = z
        /\ z < c.ClusterNum /\ r + 1 < c.DatanodeNumPerCluster
  BY UniformNumbers
<1> DEFINE D == [g \in 0 .. z |-> IF g < z THEN g * r ELSE k]
           G == [g \in 0 .. z |-> IF g < z THEN k ELSE k + r]
           L == [g \in 0 .. z |-> k + r + g]
<1>2. \A g \in 0 .. z : g \in Nat /\ g * r \in Nat
  BY Multiples
<1>3. D \in [0 .. z -> Nat] /\ G \in [0 .. z -> Nat] /\ L \in [0 .. z -> Nat]
  BY <1>2
<1>4. /\ \A g \in 0 .. z - 1 : D[g] = g * r /\ G[g] = k
      /\ \A g \in 0 .. z : L[g] = k + r + g
      /\ D[z] = k /\ G[z] = k + r
  OBVIOUS
<1>5. /\ D[0] = 0 /\ D[z] = c.k /\ G[0] = c.k /\ G[z] = c.k + c.r
      /\ L[0] = c.k + c.r /\ L[z] = c.k + c.r + c.z
  <2>1. 0 * r = 0 /\ 0 \in 0 .. z - 1 /\ 0 \in 0 .. z /\ z \in 0 .. z
    OBVIOUS
  <2>. HIDE DEF D, G, L
  <2>. QED
    BY <1>1, <1>4, <2>1
<1>. HIDE DEF D, G, L
<1>6. z = ClientGroups(c)
  BY <1>1 DEF ClientGroups
<1>7. (k + r) \div z = r
  <2>1. (r * z + 0) \div z = r
    BY DivUnique
  <2>2. r * z + 0 = k + r
    <3>1. r * z = z * r
      OBVIOUS
    <3>. QED
      BY <1>1, <3>1
  <2>. QED
    BY <2>1, <2>2
<1>8. ASSUME NEW g \in 0 .. z - 1 PROVE Counted(c, z, D, G, L, g)
  <2>0. L[g + 1] = L[g] + 1
    BY <1>4
  <2>1. CASE g < z - 1
    <3>1. ~ LastGroup(c, g)
      BY <1>6, <2>1 DEF LastGroup
    <3>2. (g + 1) * r = g * r + r
      OBVIOUS
    <3>3. D[g + 1] = D[g] + r /\ G[g + 1] = G[g] + 0
      <4>1. g \in 0 .. z - 1 /\ g + 1 \in 0 .. z - 1 /\ g * r \in Nat
        BY <1>2, <2>1
      <4>. QED
        BY <1>4, <3>2, <4>1
    <3>4. /\ r = get_data_block_num_per_group(c, g)
          /\ 0 = get_global_parity_block_num_per_group(c, g)
          /\ 1 = get_local_parity_block_num_per_group(c, g)
      BY <1>1, <1>7, <3>1 DEF get_data_block_num_per_group,
           get_global_parity_block_num_per_group, get_local_parity_block_num_per_group
    <3>5. 0 < r + 0 + 1 /\ r + 0 + 1 < c.DatanodeNumPerCluster
      BY <1>1
    <3>. QED
      BY <2>0, <2>1, <3>3, <3>4, <3>5 DEF Counted
  <2>2. CASE g = z - 1
    <3>1. LastGroup(c, g)
      BY <1>6, <2>2 DEF LastGroup
    <3>2. z - 1 \in 0 .. z - 1 /\ g + 1 = z
      BY <2>2
    <3>3. D[g + 1] = D[g] + 0 /\ G[g + 1] = G[g] + r
      <4>1. D[g] = k /\ G[g] = k
        BY <1>1, <1>4, <2>2
      <4>. QED
        BY <1>4, <3>2, <4>1
    <3>4. /\ 0 = get_data_block_num_per_group(c, g)
          /\ r = get_global_parity_block_num_per_group(c, g)
          /\ 1 = get_local_parity_block_num_per_group(c, g)
      BY <1>1, <3>1 DEF get_data_block_num_per_group,
           get_global_parity_block_num_per_group, get_local_parity_block_num_per_group
    <3>5. 0 < 0 + r + 1 /\ 0 + r + 1 < c.DatanodeNumPerCluster /\ ~ (g < z - 1)
      BY <1>1, <2>2
    <3>. QED
      BY <2>0, <3>3, <3>4, <3>5 DEF Counted
  <2>. QED
    BY <2>1, <2>2
<1>9. ASSUME NEW g \in 0 .. z - 1, NEW b \in Blocks(c),
             Within(D, g, b) \/ Within(G, g, b) \/ Within(L, g, b)
      PROVE  map2group(c, b) = g
  <2>1. g \in Nat /\ b \in Nat
    BY <1>1 DEF Blocks, N
  <2>2. map2group(c, b) = UniformGroup(c, b)
    BY DEF map2group
  <2>3. PICK v \in Nat : v = g * r
    BY <2>1, Multiples
  <2>4. /\ g < z - 1 => D[g] = v /\ D[g + 1] = v + r /\ G[g] = k /\ G[g + 1] = k
        /\ g = z - 1 => v = k /\ D[g] = k /\ D[g + 1] = k /\ G[g] = k /\ G[g + 1] = k + r
        /\ L[g] = k + r + g /\ L[g + 1] = k + r + g + 1
    <3>1. (g + 1) * r = g * r + r
      OBVIOUS
    <3>2. g < z - 1 => g + 1 \in 0 .. z - 1
      OBVIOUS
    <3>3. g = z - 1 => g + 1 = z /\ v = k
      BY <1>1, <2>3
    <3>. QED
      BY <1>4, <2>3, <3>1, <3>2, <3>3
  <2>5. (v <= b /\ b < v + r) \/ b = k + r + g
    BY <1>9, <2>1, <2>4 DEF Within
  <2>6. g \in 0 .. c.z - 1 /\ g * c.r = v
    BY <1>1, <2>3
  <2>7. CASE v <= b /\ b < v + r
    BY <1>1, <2>1, <2>2, <2>6, <2>7, UniformAt
  <2>8. CASE b = k + r + g
    <3>1. UniformGroup(c, c.k + c.r + g) = g
      BY <2>6, UniformAt
    <3>. QED
      BY <1>1, <2>2, <2>8, <3>1
  <2>. QED
    BY <2>5, <2>7, <2>8
<1>10. z \in Nat \ {0} /\ z <= c.ClusterNum
  BY <1>1 DEF Fit
<1>11. Layout(c, z, D, G, L)
  BY <1>3, <1>5, <1>6, <1>8, <1>9, <1>10 DEF Layout
<1>. QED
  BY <1>11


\* OptimalLRC: the s data blocks of a local group in q runs of w = r + 1, the
\* last of which is shorter and has the local parity; the global parities in
\* one more group.
LEMMA OptimalNumbers ==
  ASSUME NEW c, Fit(c), c.CodeType = "OptimalLRC"
  PROVE  \E k, r, z, s, w, q \in Nat \ {0} :
           /\ k = c.k /\ r = c.r /\ z = c.z /\ z > 1 /\ w = r + 1 /\ r > 1
           /\ LocalSize(c) = s /\ k = z * s
           /\ PerLocal(c) = q /\ ClientPerLocal(c) = q
           /\ \E m, o \in Nat : m = (q - 1) * w /\ o < w /\ o > 0 /\ s = m + o /\ s % w = o
           /\ z * q + 1 < c.ClusterNum /\ w < c.DatanodeNumPerCluster
<1>1. PICK k \in Nat, r \in Nat, z \in Nat, nodes \in Nat, clusters \in Nat :
        /\ k = c.k /\ r = c.r /\ z = c.z
        /\ nodes = c.DatanodeNumPerCluster /\ clusters = c.ClusterNum
  BY DEF Fit
<1>2. z > 1 /\ k > 0 /\ k % z = 0 /\ r > 1
  BY <1>1 DEF Fit, Supported
<1>3. PICK s \in Nat : s = k \div z /\ k = s * z
  BY <1>2, Exactly
<1>4. s > 0 /\ s * z = z * s
  <2>1. s = 0 => s * z = 0
    OBVIOUS
  <2>. QED
    BY <1>2, <1>3, <2>1
<1>5. PICK w \in Nat \ {0} : w = r + 1
  OBVIOUS
<1>6. LocalSize(c) = s
  BY <1>1, <1>3 DEF LocalSize
<1>7. PICK p \in Nat, o \in 0 .. w - 1 : p = s \div w /\ o = s % w /\ s = p * w + o
  BY Divided
<1>8. PICK m \in Nat : m = p * w /\ s = m + o
  BY <1>7, Multiples
<1>9. o > 0
  BY <1>1, <1>5, <1>6, <1>7 DEF Fit, Supported
<1>10. PICK q \in Nat \ {0} : q = p + 1
  OBVIOUS
<1>11. ClientPerLocal(c) = q
  BY <1>1, <1>5, <1>6, <1>7, <1>10 DEF ClientPerLocal
<1>12. q * w = m + w
  <2>1. (p + 1) * w = p * w + w
    OBVIOUS
  <2>. QED
    BY <1>8, <1>10, <2>1
<1>13. PerLocal(c) = q
  <2>1. s + w - 1 = q * w + (o - 1) /\ o - 1 \in 0 .. w - 1
    BY <1>8, <1>9, <1>12
  <2>2. (q * w + (o - 1)) \div w = q
    BY <2>1, DivUnique
  <2>. QED
    BY <1>1, <1>5, <1>6, <2>1, <2>2 DEF PerLocal, Ceil
<1>14. Ceil(c.k, c.z * (c.r + 1)) = q
  <2>1. PICK zw \in Nat \ {0} : zw = z * w
    BY <1>2, Multiples
  <2>2. PICK zo \in Nat : zo = z * o /\ zo > 0 /\ zo <= zw
    <3>1. z * o = o * z /\ z * w = w * z
      OBVIOUS
    <3>2. o * z <= w * z
      BY <1>2, Multiples
    <3>3. 0 < o => 0 * z + z <= o * z
      BY <1>2, Multiples
    <3>4. 0 * z = 0
      OBVIOUS
    <3>5. PICK x \in Nat : x = o * z
      BY <1>2, Multiples
    <3>. QED
      BY <1>2, <1>9, <2>1, <3>1, <3>2, <3>3, <3>4, <3>5
  <2>3. k + zw = q * zw + zo
    <3>1. s * z + z * w = (p + 1) * (z * w) + z * o
      <4>1. s * z = p * (z * w) + z * o
        <5>1. (p * w + o) * z = p * (z * w) + z * o
          OBVIOUS
        <5>. QED
          BY <1>7, <5>1
      <4>2. (p + 1) * (z * w) = p * (z * w) + z * w
        OBVIOUS
      <4>3. p * (z * w) \in Int /\ z * o \in Int /\ z * w \in Int
        OBVIOUS
      <4>. QED
        BY <4>1, <4>2, <4>3
    <3>. QED
      BY <1>3, <1>10, <2>1, <2>2, <3>1
  <2>4. q * zw \in Nat
    BY Multiples
  <2>5. k + zw - 1 = q * zw + (zo - 1) /\ zo - 1 \in 0 .. zw - 1
    BY <2>2, <2>3, <2>4
  <2>6. (q * zw + (zo - 1)) \div zw = q
    BY <2>5, DivUnique
  <2>. QED
    BY <1>1, <1>5, <2>1, <2>5, <2>6 DEF Ceil
<1>15. z * q + 1 < clusters /\ w < nodes
  <2>1. q * z = z * q
    OBVIOUS
  <2>. QED
    BY <1>1, <1>5, <1>14, <2>1 DEF Fit, validateConfig
<1>16. \E mm, oo \in Nat : mm = (q - 1) * w /\ oo < w /\ oo > 0 /\ s = mm + oo /\ s % w = oo
  BY <1>7, <1>8, <1>9, <1>10
<1>17. k \in Nat \ {0} /\ r \in Nat \ {0} /\ z \in Nat \ {0} /\ s \in Nat \ {0}
  BY <1>2, <1>4
<1>18. /\ k = c.k /\ r = c.r /\ z = c.z /\ z > 1 /\ w = r + 1 /\ r > 1
       /\ LocalSize(c) = s /\ k = z * s
       /\ PerLocal(c) = q /\ ClientPerLocal(c) = q
       /\ z * q + 1 < c.ClusterNum /\ w < c.DatanodeNumPerCluster
  BY <1>1, <1>2, <1>3, <1>4, <1>5, <1>6, <1>11, <1>13, <1>15
<1>. QED
  BY <1>16, <1>17, <1>18


\* run e of local group l is group l q + e
LEMMA OptimalAt ==
  ASSUME NEW c, Fit(c), c.CodeType = "OptimalLRC",
         NEW l \in 0 .. c.z - 1, NEW e \in 0 .. PerLocal(c) - 1, NEW b \in Nat,
         l * LocalSize(c) + e * (c.r + 1) <= b,
         b < l * LocalSize(c) + e * (c.r + 1) + (c.r + 1),
         b < l * LocalSize(c) + LocalSize(c)
  PROVE  /\ b < c.k /\ b \div LocalSize(c) = l
         /\ (b % LocalSize(c)) \div (c.r + 1) = e
         /\ OptimalGroup(c, b) = l * PerLocal(c) + e
<1>1. PICK k, r, z, s, w, q \in Nat \ {0} :
           /\ k = c.k /\ r = c.r /\ z = c.z /\ z > 1 /\ w = r + 1 /\ r > 1
           /\ LocalSize(c) = s /\ k = z * s
           /\ PerLocal(c) = q /\ ClientPerLocal(c) = q
           /\ \E m, o \in Nat : m = (q - 1) * w /\ o < w /\ o > 0 /\ s = m + o /\ s % w = o
           /\ z * q + 1 < c.ClusterNum /\ w < c.DatanodeNumPerCluster
  BY OptimalNumbers
<1>2. PICK h \in Nat, d \in Nat : h = l /\ d = e /\ h < z
  BY <1>1
<1>3. PICK v \in Nat, x \in Nat : v = h * s /\ x = d * w
  BY Multiples
<1>4. v + x <= b /\ b < v + x + w /\ b < v + s /\ h * s = v
  BY <1>1, <1>2, <1>3
<1>5. b \div s = h /\ b % s = b - v
  <2>1. h * s <= b /\ b < h * s + s
    BY <1>3, <1>4
  <2>. QED
    BY <1>3, <2>1, RunOf
<1>6. b < k
  <2>1. h * s + s <= z * s
    BY <1>2, Multiples
  <2>. QED
    BY <1>1, <1>4, <2>1
<1>7. PICK y \in Nat : y = b - v /\ x <= y /\ y < x + w
  BY <1>3, <1>4
<1>8. y \div w = d
  BY <1>3, <1>7, RunOf
<1>9. (b % s) \div w = d
  BY <1>5, <1>7, <1>8
<1>10. IsData(c, b) /\ ~ IsGlobal(c, b) /\ ~ IsLocal(c, b)
  <2>1. k = c.k /\ r = c.r
    BY <1>1
  <2>2. b < k /\ ~ (k <= b) /\ ~ (k + r <= b)
    BY <1>6
  <2>. QED
    BY <2>1, <2>2 DEF IsData, IsGlobal, IsLocal
<1>11. OptimalGroup(c, b) = d + h * q
  BY <1>1, <1>5, <1>9, <1>10 DEF OptimalGroup
<1>12. d + h * q = h * q + d
  OBVIOUS
<1>. QED
  BY <1>1, <1>2, <1>5, <1>6, <1>9, <1>11, <1>12

\* A number below z q is a multiple of q and less than q more; only the last of
\* the q such numbers is followed by a multiple.
Written(q, z, g) ==
  \E a \in 0 .. z - 1, d \in 0 .. q - 1 :
    g = a * q + d /\ ((g + 1) % q = 0 <=> d = q - 1)

\* A group of OptimalLRC is numbered by its local group and its place in it.
LEMMA Digits ==
  ASSUME NEW q \in Nat \ {0}, NEW z \in Nat, NEW m \in Nat, m = z * q, NEW g \in 0 .. m - 1
  PROVE  Written(q, z, g)
<1>0. g \in Nat
  OBVIOUS
<1>1. PICK a \in Nat, d \in 0 .. q - 1 : a = g \div q /\ d = g % q
  BY <1>0, Divided
<1>2. g = a * q + d
  BY <1>0, <1>1, Divided
<1>3. a < z
  <2>1. z <= a => z * q <= a * q
    BY Multiples
  <2>2. PICK u \in Nat : u = a * q
    BY Multiples
  <2>. QED
    BY <1>2, <2>1, <2>2
<1>4. (g + 1) % q = 0 <=> d = q - 1
  <2>1. CASE d = q - 1
    <3>1. (a + 1) * q + 0 = a * q + q /\ a * q \in Nat
      BY Multiples
    <3>2. ((a + 1) * q + 0) % q = 0
      <4>1. a + 1 \in Nat /\ 0 \in 0 .. q - 1
        OBVIOUS
      <4>. QED
        BY <4>1, DivUnique
    <3>. QED
      BY <1>2, <2>1, <3>1, <3>2
  <2>2. CASE d # q - 1
    <3>1. d + 1 \in 0 .. q - 1
      BY <2>2
    <3>2. (a * q + (d + 1)) % q = d + 1
      BY <3>1, DivUnique
    <3>3. g + 1 = a * q + (d + 1)
      <4>1. PICK u \in Nat : u = a * q
        BY Multiples
      <4>. QED
        BY <1>2, <4>1
    <3>. QED
      BY <2>2, <3>2, <3>3
  <2>. QED
    BY <2>1, <2>2
<1>5. a \in 0 .. z - 1
  BY <1>3
<1>. QED
  BY <1>2, <1>4, <1>5 DEF Written

\* the borders of the groups: run d of local group a begins at a s + d w
Bordered(D, G, L, q, s, w, k, r, g) ==
  \E a, d, u, v, x \in Nat :
    /\ g = u + d /\ u = a * q /\ v = a * s /\ x = d * w /\ d < q
    /\ (g + 1) % q = 0 <=> d = q - 1
    /\ D[g] = v + x /\ G[g] = k /\ G[g + 1] = k /\ L[g] = k + r + a
    /\ IF d = q - 1 THEN D[g + 1] = v + s /\ L[g + 1] = L[g] + 1
                    ELSE D[g + 1] = v + x + w /\ L[g + 1] = L[g]

Borders(D, G, L, q, s, w, k, r, z, zq) ==
  /\ D[0] = 0 /\ G[0] = k /\ L[0] = k + r
  /\ D[zq] = k /\ G[zq] = k /\ L[zq] = k + r + z
  /\ D[zq + 1] = k /\ G[zq + 1] = k + r /\ L[zq + 1] = k + r + z
  /\ \A g \in 0 .. zq - 1 : Bordered(D, G, L, q, s, w, k, r, g)

\* The borders of the runs of OptimalLRC: r + 1 data blocks in each group of
\* a local group, the rest and the local parity in its last.
LEMMA OptimalRuns ==
  ASSUME NEW q \in Nat \ {0}, NEW s \in Nat, NEW w \in Nat, NEW z \in Nat \ {0},
         NEW zq \in Nat, zq = z * q, NEW k \in Nat, k = z * s, NEW r \in Nat
  PROVE  \E D, G, L \in [0 .. zq + 1 -> Nat] :
           Borders(D, G, L, q, s, w, k, r, z, zq)
<1> DEFINE F == [g \in 0 .. zq |-> (g \div q) * s + (g % q) * w]
           A == [g \in 0 .. zq |-> g \div q]
<1>1. \A g \in 0 .. zq : A[g] \in Nat /\ F[g] \in Nat
  <2>1. ASSUME NEW g \in 0 .. zq PROVE g \div q \in Nat /\ g % q \in Nat
    BY Divided
  <2>2. \A x, y \in Nat : x * s + y * w \in Nat
    <3>1. ASSUME NEW x \in Nat, NEW y \in Nat PROVE x * s + y * w \in Nat
      OBVIOUS
    <3>. QED
      BY <3>1
  <2>. QED
    BY <2>1, <2>2
<1>2. ASSUME NEW a \in Nat, NEW d \in 0 .. q - 1, NEW g \in 0 .. zq, g = a * q + d
      PROVE  F[g] = a * s + d * w /\ A[g] = a
  <2>1. (a * q + d) \div q = a /\ (a * q + d) % q = d
    BY DivUnique
  <2>2. g \div q = a /\ g % q = d
    BY <1>2, <2>1
  <2>. QED
    BY <2>2
<1>. HIDE DEF F, A
<1> DEFINE D == [g \in 0 .. zq + 1 |-> IF g <= zq THEN F[g] ELSE k]
           G == [g \in 0 .. zq + 1 |-> IF g <= zq THEN k ELSE k + r]
           L == [g \in 0 .. zq + 1 |-> IF g <= zq THEN k + r + A[g] ELSE k + r + z]
<1>3. D \in [0 .. zq + 1 -> Nat] /\ G \in [0 .. zq + 1 -> Nat] /\ L \in [0 .. zq + 1 -> Nat]
  BY <1>1
<1>4. /\ \A g \in 0 .. zq : D[g] = F[g] /\ G[g] = k /\ L[g] = k + r + A[g]
      /\ D[zq + 1] = k /\ G[zq + 1] = k + r /\ L[zq + 1] = k + r + z
  OBVIOUS
<1>. HIDE DEF D, G, L
<1>5. D[0] = 0 /\ G[0] = k /\ L[0] = k + r
  <2>1. 0 = 0 * q + 0 /\ 0 * s + 0 * w = 0 /\ 0 \in Nat /\ 0 \in 0 .. q - 1 /\ 0 \in 0 .. zq
    OBVIOUS
  <2>2. F[0] = 0 * s + 0 * w /\ A[0] = 0
    BY <1>2, <2>1
  <2>. QED
    BY <1>4, <2>1, <2>2
<1>6. D[zq] = k /\ G[zq] = k /\ L[zq] = k + r + z
  <2>1. zq = z * q + 0 /\ z * s + 0 * w = k /\ 0 \in 0 .. q - 1 /\ zq \in 0 .. zq
    OBVIOUS
  <2>2. F[zq] = z * s + 0 * w /\ A[zq] = z
    BY <1>2, <2>1
  <2>. QED
    BY <1>4, <2>1, <2>2
<1>7. ASSUME NEW g \in 0 .. zq - 1 PROVE Bordered(D, G, L, q, s, w, k, r, g)
  <2>0. g \in Nat /\ g < z * q /\ g \in 0 .. zq /\ g + 1 \in 0 .. zq
    OBVIOUS
  <2>1. PICK a \in 0 .. z - 1, d \in 0 .. q - 1 :
          g = a * q + d /\ ((g + 1) % q = 0 <=> d = q - 1)
    <3>1. Written(q, z, g)
      BY Digits
    <3>. QED
      BY <3>1 DEF Written
  <2>2. PICK u \in Nat, v \in Nat, x \in Nat : u = a * q /\ v = a * s /\ x = d * w
    BY Multiples
  <2>3. a \in Nat /\ d \in Nat /\ d < q /\ a + 1 \in Nat
    BY <2>1
  <2>4. F[g] = v + x /\ A[g] = a
    BY <1>2, <2>0, <2>1, <2>2, <2>3
  <2>5. D[g] = v + x /\ G[g] = k /\ L[g] = k + r + a /\ G[g + 1] = k
    BY <1>4, <2>0, <2>4
  <2>6. CASE d = q - 1
    <3>1. (a + 1) * q + 0 = a * q + q /\ (a + 1) * s + 0 * w = a * s + s
      BY <2>3
    <3>2. g + 1 = (a + 1) * q + 0
      BY <2>1, <2>2, <2>6, <3>1
    <3>3. F[g + 1] = (a + 1) * s + 0 * w /\ A[g + 1] = a + 1
      <4>1. PICK e \in Nat, h \in 0 .. zq : e = a + 1 /\ h = g + 1
        BY <2>0, <2>3
      <4>2. 0 \in 0 .. q - 1 /\ h = e * q + 0
        BY <3>2, <4>1
      <4>3. F[h] = e * s + 0 * w /\ A[h] = e
        BY <1>2, <4>2
      <4>. QED
        BY <4>1, <4>3
    <3>4. D[g + 1] = v + s /\ L[g + 1] = k + r + (a + 1)
      BY <1>4, <2>0, <2>2, <3>1, <3>3
    <3>5. L[g + 1] = L[g] + 1
      BY <2>3, <2>5, <3>4
    <3>. QED
      BY <2>1, <2>2, <2>3, <2>5, <2>6, <3>4, <3>5 DEF Bordered
  <2>7. CASE d # q - 1
    <3>1. d + 1 \in 0 .. q - 1 /\ (d + 1) * w = d * w + w
      BY <2>3, <2>7
    <3>2. g + 1 = a * q + (d + 1)
      BY <2>1, <2>2
    <3>3. F[g + 1] = a * s + (d + 1) * w /\ A[g + 1] = a
      <4>1. PICK e \in 0 .. q - 1, h \in 0 .. zq : e = d + 1 /\ h = g + 1
        BY <2>0, <3>1
      <4>2. h = a * q + e
        BY <3>2, <4>1
      <4>3. F[h] = a * s + e * w /\ A[h] = a
        BY <1>2, <2>3, <4>2
      <4>. QED
        BY <4>1, <4>3
    <3>4. D[g + 1] = v + x + w /\ L[g + 1] = k + r + a
      BY <1>4, <2>0, <2>2, <3>1, <3>3
    <3>5. L[g + 1] = L[g]
      BY <2>5, <3>4
    <3>. QED
      BY <2>1, <2>2, <2>3, <2>5, <2>7, <3>4, <3>5 DEF Bordered
  <2>. QED
    BY <2>6, <2>7
<1>. QED
  BY <1>3, <1>4, <1>5, <1>6, <1>7 DEF Borders

\* OptimalLRC: runs of data and of local parities, and a last group of the
\* global parities.
LEMMA OptimalLaid ==
  ASSUME NEW c, Fit(c), c.CodeType = "OptimalLRC"
  PROVE  \E n, D, G, L : Layout(c, n, D, G, L)
<1>1. PICK k, r, z, s, w, q \in Nat \ {0} :
        /\ k = c.k /\ r = c.r /\ z = c.z /\ z > 1 /\ w = r + 1 /\ r > 1
        /\ LocalSize(c) = s /\ k = z * s
        /\ PerLocal(c) = q /\ ClientPerLocal(c) = q
        /\ \E m, o \in Nat : m = (q - 1) * w /\ o < w /\ o > 0 /\ s = m + o /\ s % w = o
        /\ z * q + 1 < c.ClusterNum /\ w < c.DatanodeNumPerCluster
  BY OptimalNumbers
<1>2. PICK m, o \in Nat : m = (q - 1) * w /\ o < w /\ o > 0 /\ s = m + o /\ s % w = o
  BY <1>1
<1>3. PICK zq \in Nat : zq = z * q
  BY Multiples
<1>4. k = c.k /\ r = c.r /\ z = c.z /\ r \in Nat /\ r > 1
  BY <1>1
<1>13. w = r + 1 /\ o < w /\ o > 0 /\ s = m + o /\ w < c.DatanodeNumPerCluster
  BY <1>1, <1>2
<1>14. zq + 1 < c.ClusterNum
  BY <1>1, <1>3
<1>15. c.DatanodeNumPerCluster \in Nat /\ c.ClusterNum \in Nat
  BY DEF Fit
<1>5. PICK D, G, L \in [0 .. zq + 1 -> Nat] :
        /\ D[0] = 0 /\ G[0] = k /\ L[0] = k + r
        /\ D[zq] = k /\ G[zq] = k /\ L[zq] = k + r + z
        /\ D[zq + 1] = k /\ G[zq + 1] = k + r /\ L[zq + 1] = k + r + z
        /\ \A g \in 0 .. zq - 1 : Bordered(D, G, L, q, s, w, k, r, g)
  <2>1. k = z * s /\ zq = z * q /\ s \in Nat /\ w \in Nat /\ k \in Nat /\ r \in Nat
        /\ q \in Nat \ {0} /\ z \in Nat \ {0}
    BY <1>1, <1>3
  <2>2. PICK D, G, L \in [0 .. zq + 1 -> Nat] : Borders(D, G, L, q, s, w, k, r, z, zq)
    BY <2>1, OptimalRuns
  <2>. QED
    BY <2>2 DEF Borders
<1>6. zq + 1 = ClientGroups(c)
  BY <1>1, <1>3 DEF ClientGroups
\* a run of data has the local parity when it is the last of its local group
<1>7. ASSUME NEW g \in 0 .. zq - 1
      PROVE  \E a, d, u, v, x \in Nat :
               /\ g = u + d /\ u = a * q /\ v = a * s /\ x = d * w /\ d < q
               /\ EndsLocal(c, g) <=> d = q - 1
               /\ D[g] = v + x /\ G[g] = k /\ G[g + 1] = k /\ L[g] = k + r + a
               /\ IF d = q - 1 THEN /\ x = m /\ D[g + 1] = v + s /\ D[g + 1] = D[g] + o
                                    /\ L[g + 1] = L[g] + 1
                               ELSE /\ x + w <= m /\ D[g + 1] = v + x + w /\ D[g + 1] = D[g] + w
                                    /\ L[g + 1] = L[g]
  <2>1. PICK a, d, u, v, x \in Nat :
          /\ g = u + d /\ u = a * q /\ v = a * s /\ x = d * w /\ d < q
          /\ (g + 1) % q = 0 <=> d = q - 1
          /\ D[g] = v + x /\ G[g] = k /\ G[g + 1] = k /\ L[g] = k + r + a
          /\ IF d = q - 1 THEN D[g + 1] = v + s /\ L[g + 1] = L[g] + 1
                          ELSE D[g + 1] = v + x + w /\ L[g + 1] = L[g]
    BY <1>5 DEF Bordered
  <2>2. EndsLocal(c, g) <=> d = q - 1
    BY <1>1, <2>1 DEF EndsLocal
  <2>3. d = q - 1 => x = m
    BY <1>2, <2>1
  <2>4. d # q - 1 => x + w <= m
    <3>1. d < q - 1 => d * w + w <= (q - 1) * w
      BY Multiples
    <3>. QED
      BY <1>2, <2>1, <3>1
  <2>7. /\ D[g] = v + x /\ v \in Nat /\ x \in Nat
        /\ IF d = q - 1 THEN D[g + 1] = v + s ELSE D[g + 1] = v + x + w
    BY <2>1
  <2>5. d = q - 1 => D[g + 1] = D[g] + o
    BY <1>13, <2>3, <2>7
  <2>6. d # q - 1 => D[g + 1] = D[g] + w
    BY <2>7
  <2>. QED
    BY <2>1, <2>2, <2>3, <2>4, <2>5, <2>6
<1>8. ASSUME NEW g \in 0 .. zq PROVE Counted(c, zq + 1, D, G, L, g)
  <2>1. CASE g = zq
    <3>1. LastGroup(c, g)
      BY <1>6, <2>1 DEF LastGroup
    <3>2. D[g + 1] = D[g] + 0 /\ G[g + 1] = G[g] + r /\ L[g + 1] = L[g] + 0
      BY <1>5, <2>1
    <3>3. /\ 0 = get_data_block_num_per_group(c, g)
          /\ r = get_global_parity_block_num_per_group(c, g)
          /\ 0 = get_local_parity_block_num_per_group(c, g)
      BY <1>1, <3>1 DEF get_data_block_num_per_group,
           get_global_parity_block_num_per_group, get_local_parity_block_num_per_group
    <3>4. 0 < 0 + r + 0 /\ 0 + r + 0 < c.DatanodeNumPerCluster /\ ~ (g < (zq + 1) - 1)
      <4>1. 0 < 0 + r + 0 /\ 0 + r + 0 = r /\ ~ (g < (zq + 1) - 1)
        BY <1>4, <2>1, SMTT(30)
      <4>2. r < c.DatanodeNumPerCluster
        BY <1>13, <1>15
      <4>. QED
        BY <4>1, <4>2
    <3>. QED
      BY <3>2, <3>3, <3>4 DEF Counted
  <2>2. CASE g # zq
    <3>1. ~ LastGroup(c, g) /\ g < (zq + 1) - 1 /\ g \in 0 .. zq - 1
      BY <1>6, <2>2 DEF LastGroup
    <3>2. PICK a, d, u, v, x \in Nat :
            /\ g = u + d /\ u = a * q /\ v = a * s /\ x = d * w /\ d < q
            /\ EndsLocal(c, g) <=> d = q - 1
            /\ D[g] = v + x /\ G[g] = k /\ G[g + 1] = k /\ L[g] = k + r + a
            /\ IF d = q - 1 THEN /\ x = m /\ D[g + 1] = v + s /\ D[g + 1] = D[g] + o
                                 /\ L[g + 1] = L[g] + 1
                            ELSE /\ x + w <= m /\ D[g + 1] = v + x + w /\ D[g + 1] = D[g] + w
                                 /\ L[g + 1] = L[g]
      BY <1>7, <3>1
    <3>3. D[g] \in Nat /\ G[g] \in Nat /\ L[g] \in Nat
      BY <1>5
    <3>4. 0 = get_global_parity_block_num_per_group(c, g)
      BY <3>1 DEF get_global_parity_block_num_per_group
    <3>5. get_data_block_num_per_group(c, g) = IF EndsLocal(c, g) THEN o ELSE w
      BY <1>1, <1>2, <3>1 DEF get_data_block_num_per_group
    <3>6. get_local_parity_block_num_per_group(c, g) = IF EndsLocal(c, g) THEN 1 ELSE 0
      BY <3>1 DEF get_local_parity_block_num_per_group
    <3>7. CASE EndsLocal(c, g)
      <4>1. 0 < o + 0 + 1 /\ o + 0 + 1 < c.DatanodeNumPerCluster
        BY <1>13, <1>15
      <4>2. D[g + 1] = D[g] + o /\ G[g + 1] = G[g] + 0 /\ L[g + 1] = L[g] + 1
        BY <3>2, <3>3, <3>7
      <4>. QED
        BY <1>13, <3>1, <3>4, <3>5, <3>6, <3>7, <4>1, <4>2 DEF Counted
    <3>8. CASE ~ EndsLocal(c, g)
      <4>1. 0 < w + 0 + 0 /\ w + 0 + 0 < c.DatanodeNumPerCluster
        BY <1>13, <1>15
      <4>2. D[g + 1] = D[g] + w /\ G[g + 1] = G[g] + 0 /\ L[g + 1] = L[g] + 0
        <5>1. D[g + 1] = D[g] + w
          BY <3>2, <3>3, <3>8
        <5>2. G[g + 1] = G[g] + 0
          BY <3>2
        <5>3. L[g + 1] = L[g] + 0
          BY <3>2, <3>3, <3>8
        <5>. QED
          BY <5>1, <5>2, <5>3
      <4>. QED
        BY <1>13, <3>1, <3>4, <3>5, <3>6, <3>8, <4>1, <4>2 DEF Counted
    <3>. QED
      BY <3>7, <3>8
  <2>. QED
    BY <2>1, <2>2
<1>9. ASSUME NEW g \in 0 .. zq, NEW b \in Blocks(c),
             Within(D, g, b) \/ Within(G, g, b) \/ Within(L, g, b)
      PROVE  map2group(c, b) = g
  <2>1. b \in Nat
    BY <1>1 DEF Blocks, N
  <2>2. map2group(c, b) = OptimalGroup(c, b)
    BY DEF map2group
  <2>3. CASE g = zq
    <3>1. k <= b /\ b < k + r
      BY <1>5, <1>9, <2>1, <2>3 DEF Within
    <3>2. ~ IsData(c, b) /\ IsGlobal(c, b) /\ ~ IsLocal(c, b)
      <4>1. ~ (b < k) /\ ~ (k + r <= b)
        BY <2>1, <3>1
      <4>2. k = c.k /\ r = c.r
        BY <1>4
      <4>. QED
        BY <3>1, <4>1, <4>2 DEF IsData, IsGlobal, IsLocal
    <3>. QED
      BY <1>1, <1>3, <2>2, <2>3, <3>2 DEF OptimalGroup
  <2>4. CASE g # zq
    <3>1. g \in 0 .. zq - 1
      BY <2>4
    <3>2. PICK a, d, u, v, x \in Nat :
            /\ g = u + d /\ u = a * q /\ v = a * s /\ x = d * w /\ d < q
            /\ EndsLocal(c, g) <=> d = q - 1
            /\ D[g] = v + x /\ G[g] = k /\ G[g + 1] = k /\ L[g] = k + r + a
            /\ IF d = q - 1 THEN /\ x = m /\ D[g + 1] = v + s /\ D[g + 1] = D[g] + o
                                 /\ L[g + 1] = L[g] + 1
                            ELSE /\ x + w <= m /\ D[g + 1] = v + x + w /\ D[g + 1] = D[g] + w
                                 /\ L[g + 1] = L[g]
      BY <1>7, <3>1
    <3>8. /\ g = u + d /\ d < q /\ D[g] = v + x /\ G[g] = k /\ G[g + 1] = k /\ L[g] = k + r + a
          /\ IF d = q - 1 THEN x = m /\ D[g + 1] = v + s /\ L[g + 1] = L[g] + 1
                          ELSE x + w <= m /\ D[g + 1] = v + x + w /\ L[g + 1] = L[g]
          /\ a \in Nat /\ d \in Nat /\ u \in Nat /\ v \in Nat /\ x \in Nat
      BY <3>2
    <3>3. a < z
      <4>1. z <= a => zq <= u
        <5>1. z <= a => z * q <= a * q
          BY <3>8, Multiples
        <5>. QED
          BY <1>3, <3>2, <5>1
      <4>. QED
        BY <3>1, <3>8, <4>1
    <3>4. /\ a \in 0 .. c.z - 1 /\ d \in 0 .. PerLocal(c) - 1
          /\ a * LocalSize(c) + d * (c.r + 1) = v + x /\ a * LocalSize(c) = v
      <4>1. a * s = v /\ d * w = x /\ c.r + 1 = w /\ LocalSize(c) = s /\ PerLocal(c) = q
        BY <1>1, <3>2
      <4>2. a * LocalSize(c) = v /\ d * (c.r + 1) = x
        BY <4>1
      <4>. QED
        <5>1. a \in 0 .. c.z - 1
          BY <1>4, <3>3
        <5>2. d \in 0 .. PerLocal(c) - 1
          BY <3>8, <4>1
        <5>. QED
          BY <4>2, <5>1, <5>2
    <3>5. \/ v + x <= b /\ b < D[g + 1]
          \/ b = k + r + a /\ d = q - 1
      <4>1. CASE Within(D, g, b)
        BY <3>8, <4>1 DEF Within
      <4>2. CASE Within(G, g, b)
        BY <2>1, <3>8, <4>2 DEF Within
      <4>3. CASE Within(L, g, b)
        <5>1. L[g] = k + r + a /\ L[g] <= b /\ b < L[g + 1]
          BY <3>8, <4>3 DEF Within
        <5>2. IF d = q - 1 THEN L[g + 1] = L[g] + 1 ELSE L[g + 1] = L[g]
          BY <3>8
        <5>3. PICK e \in Nat : e = k + r + a
          BY <3>8
        <5>4. d = q - 1 /\ e <= b /\ b < e + 1
          BY <2>1, <5>1, <5>2, <5>3, SMTT(30)
        <5>. QED
          BY <2>1, <5>3, <5>4
      <4>. QED
        BY <1>9, <4>1, <4>2, <4>3
    <3>6. CASE v + x <= b /\ b < D[g + 1]
      <4>1. b < v + x + w /\ b < v + s
        <5>1. CASE d = q - 1
          <6>1. D[g + 1] = v + s /\ x = m
            BY <3>8, <5>1
          <6>2. s = m + o /\ o < w
            BY <1>13
          <6>. QED
            BY <2>1, <3>6, <6>1, <6>2
        <5>2. CASE d # q - 1
          <6>1. D[g + 1] = v + x + w /\ x + w <= m
            BY <3>8, <5>2
          <6>2. s = m + o
            BY <1>13
          <6>. QED
            BY <2>1, <3>6, <6>1, <6>2
        <5>. QED
          BY <5>1, <5>2
      <4>2. /\ a * LocalSize(c) + d * (c.r + 1) <= b
            /\ b < a * LocalSize(c) + d * (c.r + 1) + (c.r + 1)
            /\ b < a * LocalSize(c) + LocalSize(c)
        BY <1>1, <3>4, <3>6, <4>1
      <4>3. OptimalGroup(c, b) = a * PerLocal(c) + d
        BY <2>1, <3>4, <4>2, OptimalAt, SMTT(30)
      <4>. QED
        BY <1>1, <2>2, <3>2, <3>3, <4>3
    <3>7. CASE b = k + r + a /\ d = q - 1
      <4>1. ~ IsData(c, b) /\ ~ IsGlobal(c, b) /\ IsLocal(c, b) /\ LocalId(c, b) = a
        <5>1. b = c.k + c.r + a /\ c.k \in Nat /\ c.r \in Nat /\ c.r > 0
          BY <1>4, <3>7, SMTT(30)
        <5>. QED
          BY <5>1, SMTT(30) DEF IsData, IsGlobal, IsLocal, LocalId
      <4>2. OptimalGroup(c, b) = (a + 1) * q - 1
        BY <1>1, <4>1 DEF OptimalGroup
      <4>3. (a + 1) * q = a * q + q /\ a * q \in Nat
        BY Multiples
      <4>. QED
        BY <2>2, <3>2, <3>7, <4>2, <4>3
    <3>. QED
      BY <3>5, <3>6, <3>7
  <2>. QED
    BY <2>3, <2>4
<1>10. \A g \in 0 .. (zq + 1) - 1 : g \in 0 .. zq
  OBVIOUS
<1>11. zq + 1 \in Nat \ {0} /\ zq + 1 <= c.ClusterNum
  BY <1>14, <1>15
<1>12. Layout(c, zq + 1, D, G, L)
  BY <1>1, <1>5, <1>6, <1>8, <1>9, <1>10, <1>11 DEF Layout
<1>. QED
  BY <1>12

\* Every supported configuration lays its stripes out so.
LEMMA Laid ==
  ASSUME NEW c, Fit(c)
  PROVE  \E n, D, G, L : Layout(c, n, D, G, L)
<1>1. c.CodeType \in {"UniLRC", "AzureLRC", "OptimalLRC", "UniformLRC"}
  BY DEF Fit, CodeTypes
<1>. QED
  BY <1>1, UniLaid, AzureLaid, OptimalLaid, UniformLaid

-----------------------------------------------------------------------------
(* What follows from the layout.                                           *)

\* the numbers of a layout, without the products they come from
LEMMA LayoutShape ==
  ASSUME NEW c, NEW n, NEW D, NEW G, NEW L, Fit(c), Layout(c, n, D, G, L)
  PROVE  /\ n \in Nat \ {0} /\ n <= c.ClusterNum /\ n = ClientGroups(c)
         /\ c.k \in Nat /\ c.r \in Nat /\ c.z \in Nat /\ N(c) = c.k + c.r + c.z
         /\ D \in [0 .. n -> Nat] /\ G \in [0 .. n -> Nat] /\ L \in [0 .. n -> Nat]
         /\ \A g \in 0 .. n - 1 : D[g] <= D[g + 1] /\ G[g] <= G[g + 1] /\ L[g] <= L[g + 1]
         /\ \A g, h \in 0 .. n : g <= h => D[g] <= D[h] /\ G[g] <= G[h] /\ L[g] <= L[h]
         /\ \A g \in 0 .. n :
              /\ D[g] <= c.k
              /\ c.k <= G[g] /\ G[g] <= c.k + c.r
              /\ c.k + c.r <= L[g] /\ L[g] <= N(c)
<1>1. /\ n \in Nat \ {0} /\ n <= c.ClusterNum /\ n = ClientGroups(c)
      /\ D \in [0 .. n -> Nat] /\ G \in [0 .. n -> Nat] /\ L \in [0 .. n -> Nat]
  BY DEF Layout
<1>2. c.k \in Nat /\ c.r \in Nat /\ c.z \in Nat /\ N(c) = c.k + c.r + c.z
  BY DEF Fit, N
<1>3. ASSUME NEW g \in 0 .. n - 1
      PROVE  D[g] <= D[g + 1] /\ G[g] <= G[g + 1] /\ L[g] <= L[g + 1]
  <2>1. Counted(c, n, D, G, L, g)
    BY DEF Layout
  <2>2. PICK d, e, l \in Nat : D[g + 1] = D[g] + d /\ G[g + 1] = G[g] + e /\ L[g + 1] = L[g] + l
    BY <2>1 DEF Counted
  <2>3. D[g] \in Nat /\ G[g] \in Nat /\ L[g] \in Nat
    BY <1>1
  <2>. QED
    BY <2>2, <2>3
<1>4. ASSUME NEW g \in 0 .. n, NEW h \in 0 .. n, g <= h
      PROVE  D[g] <= D[h] /\ G[g] <= G[h] /\ L[g] <= L[h]
  <2>1. D[g] <= D[h]
    BY <1>1, <1>3, <1>4, Rises
  <2>2. G[g] <= G[h]
    BY <1>1, <1>3, <1>4, Rises
  <2>3. L[g] <= L[h]
    BY <1>1, <1>3, <1>4, Rises
  <2>. QED
    BY <2>1, <2>2, <2>3
<1>5. ASSUME NEW g \in 0 .. n
      PROVE  /\ D[g] <= c.k
             /\ c.k <= G[g] /\ G[g] <= c.k + c.r
             /\ c.k + c.r <= L[g] /\ L[g] <= N(c)
  <2>1. 0 \in 0 .. n /\ n \in 0 .. n /\ 0 <= g /\ g <= n
    BY <1>1
  <2>2. D[g] <= D[n] /\ G[0] <= G[g] /\ G[g] <= G[n] /\ L[0] <= L[g] /\ L[g] <= L[n]
    BY <1>4, <2>1
  <2>3. /\ D[n] = c.k /\ G[0] = c.k /\ G[n] = c.k + c.r
        /\ L[0] = c.k + c.r /\ L[n] = N(c)
    BY <1>2 DEF Layout
  <2>. QED
    BY <2>2, <2>3
<1>. QED
  BY <1>1, <1>2, <1>3, <1>4, <1>5

\* a block is in the run of its kind that its group takes
LEMMA InGroup ==
  ASSUME NEW c, NEW n, NEW D, NEW G, NEW L, Fit(c), Layout(c, n, D, G, L),
         NEW b \in Blocks(c)
  PROVE  /\ b \in Nat /\ map2group(c, b) \in 0 .. n - 1
         /\ IsData(c, b) => Within(D, map2group(c, b), b)
         /\ IsGlobal(c, b) => Within(G, map2group(c, b), b)
         /\ IsLocal(c, b) => Within(L, map2group(c, b), b)
<1>1. /\ n \in Nat \ {0} /\ c.k \in Nat /\ c.r \in Nat /\ c.z \in Nat /\ N(c) = c.k + c.r + c.z
      /\ D \in [0 .. n -> Nat] /\ G \in [0 .. n -> Nat] /\ L \in [0 .. n -> Nat]
  BY LayoutShape
<1>2. b \in Nat /\ b < N(c)
  <2>1. N(c) \in Nat
    BY <1>1
  <2>. QED
    BY <2>1 DEF Blocks
<1>3. /\ D[0] = 0 /\ D[n] = c.k /\ G[0] = c.k /\ G[n] = c.k + c.r
      /\ L[0] = c.k + c.r /\ L[n] = N(c)
  BY <1>1 DEF Layout
<1>4. \A g \in 0 .. n - 1 :
        Within(D, g, b) \/ Within(G, g, b) \/ Within(L, g, b) => map2group(c, b) = g
  BY DEF Layout
<1>5. CASE IsData(c, b)
  <2>1. D[0] <= b /\ b < D[n]
    BY <1>2, <1>3, <1>5 DEF IsData
  <2>2. PICK g \in 0 .. n - 1 : D[g] <= b /\ b < D[g + 1]
    BY <1>1, <1>2, <2>1, Steps
  <2>3. map2group(c, b) = g
    BY <1>4, <2>2 DEF Within
  <2>4. ~ IsGlobal(c, b) /\ ~ IsLocal(c, b)
    BY <1>1, <1>2, <1>5 DEF IsData, IsGlobal, IsLocal
  <2>. QED
    BY <1>2, <2>2, <2>3, <2>4 DEF Within
<1>6. CASE IsGlobal(c, b)
  <2>1. G[0] <= b /\ b < G[n]
    BY <1>2, <1>3, <1>6 DEF IsGlobal
  <2>2. PICK g \in 0 .. n - 1 : G[g] <= b /\ b < G[g + 1]
    BY <1>1, <1>2, <2>1, Steps
  <2>3. map2group(c, b) = g
    BY <1>4, <2>2 DEF Within
  <2>4. ~ IsData(c, b) /\ ~ IsLocal(c, b)
    BY <1>1, <1>2, <1>6 DEF IsData, IsGlobal, IsLocal
  <2>. QED
    BY <1>2, <2>2, <2>3, <2>4 DEF Within
<1>7. CASE IsLocal(c, b)
  <2>1. L[0] <= b /\ b < L[n]
    BY <1>2, <1>3, <1>7 DEF IsLocal
  <2>2. PICK g \in 0 .. n - 1 : L[g] <= b /\ b < L[g + 1]
    BY <1>1, <1>2, <2>1, Steps
  <2>3. map2group(c, b) = g
    BY <1>4, <2>2 DEF Within
  <2>4. ~ IsData(c, b) /\ ~ IsGlobal(c, b)
    BY <1>1, <1>2, <1>7 DEF IsData, IsGlobal, IsLocal
  <2>. QED
    BY <1>2, <2>2, <2>3, <2>4 DEF Within
<1>8. IsData(c, b) \/ IsGlobal(c, b) \/ IsLocal(c, b)
  BY <1>1, <1>2 DEF IsData, IsGlobal, IsLocal
<1>. QED
  BY <1>5, <1>6, <1>7, <1>8

\* A block of a run is within any bounds of the run.
LEMMA RunBounds ==
  ASSUME NEW f, NEW g, NEW lo \in Nat, NEW hi \in Nat, NEW b \in Int, Within(f, g, b),
         f[g] \in Nat, f[g + 1] \in Nat, lo <= f[g], f[g + 1] <= hi
  PROVE  lo <= b /\ b < hi
BY DEF Within

\* the three runs of a group, and how many blocks they have together
LEMMA GroupRuns ==
  ASSUME NEW c, NEW n, NEW D, NEW G, NEW L, Fit(c), Layout(c, n, D, G, L),
         NEW g \in 0 .. n - 1
  PROVE  /\ \A b \in Int : b \in group_to_blocks(c, g) <=>
              Within(D, g, b) \/ Within(G, g, b) \/ Within(L, g, b)
         /\ group_to_blocks(c, g) # {}
<1>1. /\ n \in Nat \ {0} /\ c.k \in Nat /\ c.r \in Nat /\ c.z \in Nat /\ N(c) = c.k + c.r + c.z
      /\ D \in [0 .. n -> Nat] /\ G \in [0 .. n -> Nat] /\ L \in [0 .. n -> Nat]
  BY LayoutShape
<1>2. g \in 0 .. n /\ g + 1 \in 0 .. n
  BY <1>1
<1>3. /\ D[g] \in Nat /\ D[g + 1] \in Nat /\ G[g] \in Nat /\ G[g + 1] \in Nat
      /\ L[g] \in Nat /\ L[g + 1] \in Nat
  BY <1>1, <1>2
<1>4. /\ D[g + 1] <= c.k /\ c.k <= G[g] /\ G[g + 1] <= c.k + c.r
      /\ c.k + c.r <= L[g] /\ L[g + 1] <= N(c)
  BY <1>2, LayoutShape
<1>5. ASSUME NEW b \in Int, Within(D, g, b) \/ Within(G, g, b) \/ Within(L, g, b)
      PROVE  b \in group_to_blocks(c, g)
  <2>1. b \in Blocks(c)
    <3>1. PICK k \in Nat, r \in Nat, z \in Nat, m \in Nat :
            k = c.k /\ r = c.r /\ z = c.z /\ m = N(c) /\ m = k + r + z
      BY <1>1
    <3>3. /\ D[g + 1] <= k /\ k <= G[g] /\ G[g + 1] <= k + r /\ k + r <= L[g] /\ L[g + 1] <= m
          /\ 0 <= D[g]
      BY <1>3, <1>4, <3>1
    <3>4. ASSUME Within(D, g, b) PROVE b \in Nat /\ b < N(c)
      <4>1. 0 <= b /\ b < k
        BY <1>3, <3>3, <3>4, RunBounds
      <4>. QED
        BY <3>1, <4>1
    <3>5. ASSUME Within(G, g, b) PROVE b \in Nat /\ b < N(c)
      <4>1. k <= b /\ b < k + r
        BY <1>3, <3>3, <3>5, RunBounds
      <4>. QED
        BY <3>1, <4>1
    <3>6. ASSUME Within(L, g, b) PROVE b \in Nat /\ b < N(c)
      <4>1. k + r <= b /\ b < m
        BY <1>3, <3>3, <3>6, RunBounds
      <4>. QED
        BY <3>1, <4>1
    <3>2. b \in Nat /\ b < N(c)
      BY <1>5, <3>4, <3>5, <3>6
    <3>7. N(c) \in Nat
      BY <1>1
    <3>. QED
      BY <3>2, <3>7 DEF Blocks
  <2>2. map2group(c, b) = g
    BY <1>5, <2>1 DEF Layout
  <2>. QED
    BY <2>1, <2>2 DEF group_to_blocks
<1>6. ASSUME NEW b \in group_to_blocks(c, g)
      PROVE  Within(D, g, b) \/ Within(G, g, b) \/ Within(L, g, b)
  <2>1. b \in Blocks(c) /\ map2group(c, b) = g
    BY DEF group_to_blocks
  <2>2. b \in Nat
    BY <2>1, InGroup
  <2>3. IsData(c, b) \/ IsGlobal(c, b) \/ IsLocal(c, b)
    BY <2>1, BlockKinds
  <2>. QED
    BY <2>1, <2>3, InGroup
<1>7. group_to_blocks(c, g) # {}
  <2>1. Counted(c, n, D, G, L, g)
    BY DEF Layout
  <2>2. PICK d, e, l \in Nat :
          /\ D[g + 1] = D[g] + d /\ G[g + 1] = G[g] + e /\ L[g + 1] = L[g] + l
          /\ 0 < d + e + l
    BY <2>1 DEF Counted
  <2>3. Within(D, g, D[g]) \/ Within(G, g, G[g]) \/ Within(L, g, L[g])
    BY <1>3, <2>2 DEF Within
  <2>. QED
    BY <1>3, <1>5, <2>3
<1>. QED
  BY <1>5, <1>6, <1>7

\* The client's groups are the coordinator's.
LEMMA NumGroups ==
  ASSUME NEW c, NEW n, NEW D, NEW G, NEW L, Fit(c), Layout(c, n, D, G, L)
  PROVE  num_groups(c) = n
<1>1. n \in Nat \ {0}
  BY LayoutShape
<1>2. {map2group(c, b) : b \in Blocks(c)} = 0 .. n - 1
  <2>1. ASSUME NEW b \in Blocks(c) PROVE map2group(c, b) \in 0 .. n - 1
    BY InGroup
  <2>2. ASSUME NEW g \in 0 .. n - 1 PROVE \E b \in Blocks(c) : map2group(c, b) = g
    <3>1. group_to_blocks(c, g) # {}
      BY GroupRuns
    <3>. QED
      BY <3>1 DEF group_to_blocks
  <2>. QED
    BY <2>1, <2>2
<1>3. Cardinality(0 .. n - 1) = n
  BY <1>1, FS_Interval
<1>. QED
  BY <1>2, <1>3 DEF num_groups

\* the runs of a group as sets
Run(f, g) == f[g] .. f[g + 1] - 1

\* The size of a run.
LEMMA RunSize ==
  ASSUME NEW n \in Nat, NEW f \in [0 .. n -> Nat], NEW g \in 0 .. n - 1, f[g] <= f[g + 1]
  PROVE  /\ IsFiniteSet(Run(f, g)) /\ Cardinality(Run(f, g)) = f[g + 1] - f[g]
         /\ Run(f, g) \subseteq Nat
         /\ \A b \in Int : b \in Run(f, g) <=> Within(f, g, b)
<1>1. f[g] \in Nat /\ f[g + 1] \in Nat
  OBVIOUS
<1>2. PICK u \in Nat, v \in Nat : u = f[g] /\ v = f[g + 1] /\ u <= v
  BY <1>1
<1>3. IsFiniteSet(u .. v - 1) /\ Cardinality(u .. v - 1) = v - u
  <2>1. PICK w \in Int : w = v - 1 /\ (u > w <=> u = v)
    BY <1>2
  <2>2. u \in Int /\ w \in Int
    BY <1>2, <2>1
  <2>3. IsFiniteSet(u .. w) /\ Cardinality(u .. w) = IF u > w THEN 0 ELSE w - u + 1
    BY <2>2, FS_Interval
  <2>4. (IF u > w THEN 0 ELSE w - u + 1) = v - u
    <3>1. CASE u = v
      BY <2>1, <3>1
    <3>2. CASE u # v
      <4>1. w - u + 1 = v - u /\ ~ (u > w)
        BY <1>2, <2>1, <3>2, SMTT(30)
      <4>. QED
        BY <4>1
    <3>. QED
      BY <3>1, <3>2
  <2>. QED
    BY <2>1, <2>3, <2>4
<1>4. Run(f, g) = u .. v - 1
  BY <1>2 DEF Run
<1>5. \A b \in Int : b \in u .. v - 1 <=> Within(f, g, b)
  BY <1>2 DEF Within
<1>. QED
  BY <1>2, <1>3, <1>4, <1>5

\* A group is its three runs: as many blocks as the client counts, fewer than
\* the nodes of a cluster.
LEMMA GroupSize ==
  ASSUME NEW c, NEW n, NEW D, NEW G, NEW L, Fit(c), Layout(c, n, D, G, L),
         NEW g \in 0 .. n - 1
  PROVE  /\ IsFiniteSet(group_to_blocks(c, g))
         /\ group_to_blocks(c, g) = Run(D, g) \union Run(G, g) \union Run(L, g)
         /\ Cardinality(group_to_blocks(c, g)) = (D[g + 1] - D[g]) + (G[g + 1] - G[g])
                                                 + (L[g + 1] - L[g])
         /\ Cardinality(group_to_blocks(c, g)) < c.DatanodeNumPerCluster
<1>1. /\ n \in Nat \ {0} /\ c.k \in Nat /\ c.r \in Nat /\ c.z \in Nat /\ N(c) = c.k + c.r + c.z
      /\ D \in [0 .. n -> Nat] /\ G \in [0 .. n -> Nat] /\ L \in [0 .. n -> Nat]
      /\ D[g] <= D[g + 1] /\ G[g] <= G[g + 1] /\ L[g] <= L[g + 1]
  BY LayoutShape
<1>2. /\ D[g + 1] <= c.k /\ c.k <= G[g] /\ G[g + 1] <= c.k + c.r
      /\ c.k + c.r <= L[g]
  <2>1. g \in 0 .. n /\ g + 1 \in 0 .. n
    BY <1>1
  <2>. QED
    BY <2>1, LayoutShape
<1>3. /\ IsFiniteSet(Run(D, g)) /\ Cardinality(Run(D, g)) = D[g + 1] - D[g]
      /\ Run(D, g) \subseteq Nat
      /\ \A b \in Int : b \in Run(D, g) <=> Within(D, g, b)
  BY <1>1, RunSize
<1>4. /\ IsFiniteSet(Run(G, g)) /\ Cardinality(Run(G, g)) = G[g + 1] - G[g]
      /\ Run(G, g) \subseteq Nat
      /\ \A b \in Int : b \in Run(G, g) <=> Within(G, g, b)
  BY <1>1, RunSize
<1>5. /\ IsFiniteSet(Run(L, g)) /\ Cardinality(Run(L, g)) = L[g + 1] - L[g]
      /\ Run(L, g) \subseteq Nat
      /\ \A b \in Int : b \in Run(L, g) <=> Within(L, g, b)
  BY <1>1, RunSize
<1>6. group_to_blocks(c, g) = Run(D, g) \union Run(G, g) \union Run(L, g)
  <2>1. \A b \in Int : b \in group_to_blocks(c, g) <=>
          Within(D, g, b) \/ Within(G, g, b) \/ Within(L, g, b)
    BY GroupRuns
  <2>2. group_to_blocks(c, g) \subseteq Int
    BY <1>1 DEF group_to_blocks, Blocks
  <2>. QED
    BY <1>3, <1>4, <1>5, <2>1, <2>2
<1>7. /\ D[g] \in Nat /\ D[g + 1] \in Nat /\ G[g] \in Nat /\ G[g + 1] \in Nat
      /\ L[g] \in Nat /\ L[g + 1] \in Nat
  BY <1>1
<1>13. \A b \in Nat : /\ ~ (Within(D, g, b) /\ Within(G, g, b))
                      /\ ~ (Within(D, g, b) /\ Within(L, g, b))
                      /\ ~ (Within(G, g, b) /\ Within(L, g, b))
  <2>1. PICK k \in Nat, r \in Nat : k = c.k /\ r = c.r
    BY <1>1
  <2>2. PICK d1 \in Nat, g0 \in Nat, g1 \in Nat, l0 \in Nat :
          d1 = D[g + 1] /\ g0 = G[g] /\ g1 = G[g + 1] /\ l0 = L[g]
    BY <1>7
  <2>3. d1 <= k /\ k <= g0 /\ g1 <= k + r /\ k + r <= l0
    BY <1>2, <2>1, <2>2
  <2>4. ASSUME NEW b \in Nat
        PROVE  ~ (b < d1 /\ g0 <= b) /\ ~ (b < d1 /\ l0 <= b) /\ ~ (b < g1 /\ l0 <= b)
    BY <2>3
  <2>. QED
    BY <2>2, <2>4 DEF Within
<1>8. Run(D, g) \intersect Run(G, g) = {}
  <2>1. \A b \in Nat : ~ (b \in Run(D, g) /\ b \in Run(G, g))
    BY <1>3, <1>4, <1>13
  <2>. QED
    BY <1>3, <2>1
<1>9. (Run(D, g) \union Run(G, g)) \intersect Run(L, g) = {}
  <2>1. \A b \in Nat : ~ (b \in Run(D, g) /\ b \in Run(L, g)) /\ ~ (b \in Run(G, g) /\ b \in Run(L, g))
    BY <1>3, <1>4, <1>5, <1>13
  <2>. QED
    BY <1>5, <2>1
<1>10. /\ IsFiniteSet(Run(D, g) \union Run(G, g))
       /\ Cardinality(Run(D, g) \union Run(G, g)) = (D[g + 1] - D[g]) + (G[g + 1] - G[g])
  <2>1. /\ IsFiniteSet(Run(D, g) \union Run(G, g))
        /\ Cardinality(Run(D, g) \union Run(G, g)) =
             Cardinality(Run(D, g)) + Cardinality(Run(G, g))
             - Cardinality(Run(D, g) \intersect Run(G, g))
    BY <1>3, <1>4, FS_Union
  <2>2. Cardinality(Run(D, g) \intersect Run(G, g)) = 0
    BY <1>8, FS_EmptySet
  <2>. QED
    BY <1>3, <1>4, <1>7, <2>1, <2>2
<1>11. /\ IsFiniteSet(group_to_blocks(c, g))
       /\ Cardinality(group_to_blocks(c, g)) = (D[g + 1] - D[g]) + (G[g + 1] - G[g])
                                               + (L[g + 1] - L[g])
  <2> DEFINE A == Run(D, g) \union Run(G, g)
  <2>1. /\ IsFiniteSet(A \union Run(L, g))
        /\ Cardinality(A \union Run(L, g)) =
             Cardinality(A) + Cardinality(Run(L, g)) - Cardinality(A \intersect Run(L, g))
    BY <1>5, <1>10, FS_Union
  <2>2. Cardinality(A \intersect Run(L, g)) = 0
    BY <1>9, FS_EmptySet
  <2>. QED
    BY <1>5, <1>6, <1>7, <1>10, <2>1, <2>2
<1>12. Cardinality(group_to_blocks(c, g)) < c.DatanodeNumPerCluster
  <2>1. Counted(c, n, D, G, L, g)
    BY DEF Layout
  <2>2. PICK d, e, l \in Nat :
          /\ D[g + 1] = D[g] + d /\ G[g + 1] = G[g] + e /\ L[g + 1] = L[g] + l
          /\ d + e + l < c.DatanodeNumPerCluster
    BY <2>1 DEF Counted
  <2>3. D[g + 1] - D[g] = d /\ G[g + 1] - G[g] = e /\ L[g + 1] - L[g] = l
    BY <1>7, <2>2
  <2>. QED
    BY <1>11, <2>2, <2>3
<1>. QED
  BY <1>6, <1>11, <1>12

-----------------------------------------------------------------------------
(* Placement.                                                              *)

\* a number below twice the divisor is at most once above it
LEMMA ModOnce ==
  ASSUME NEW d \in Nat \ {0}, NEW x \in 0 .. 2 * d - 1
  PROVE  x % d = IF x < d THEN x ELSE x - d
<1>1. CASE x < d
  <2>1. 0 * d + x = x /\ 0 \in Nat /\ x \in 0 .. d - 1
    BY <1>1
  <2>2. (0 * d + x) % d = x
    BY <2>1, DivUnique
  <2>. QED
    BY <1>1, <2>1, <2>2
<1>2. CASE ~ (x < d)
  <2>1. PICK o \in 0 .. d - 1 : o = x - d
    BY <1>2
  <2>2. 1 * d + o = x /\ 1 \in Nat
    BY <2>1
  <2>3. (1 * d + o) % d = o
    BY <2>2, DivUnique
  <2>. QED
    BY <1>2, <2>1, <2>2, <2>3
<1>. QED
  BY <1>1, <1>2

\* the round robin does not come round within a stripe
LEMMA RoundRobin ==
  ASSUME Fit(conf), t_cluster_id \in 0 .. conf.ClusterNum - 1
  PROVE  /\ \A g \in Groups : g \in Nat /\ cluster(g) \in 0 .. conf.ClusterNum - 1
         /\ \A g, h \in Groups : g # h => cluster(g) # cluster(h)
         /\ \A b \in Blocks(conf) : map2group(conf, b) \in Groups
<1>1. PICK n, D, G, L : Layout(conf, n, D, G, L)
  BY Laid
<1>2. n \in Nat \ {0} /\ n <= conf.ClusterNum /\ Groups = 0 .. n - 1
  BY <1>1, LayoutShape, NumGroups DEF Groups
<1>3. PICK d \in Nat \ {0}, t \in Nat : d = conf.ClusterNum /\ n <= d /\ t = t_cluster_id /\ t < d
  <2>1. conf.ClusterNum \in Nat
    BY DEF Fit
  <2>. QED
    BY <1>2, <2>1
<1>4. ASSUME NEW g \in Groups
      PROVE  /\ g \in Nat /\ g < d
             /\ cluster(g) = IF t + g < d THEN t + g ELSE t + g - d
  <2>1. g \in Nat /\ g < d
    BY <1>2, <1>3
  <2>2. t + g \in 0 .. 2 * d - 1
    BY <1>3, <2>1
  <2>3. PICK x \in 0 .. 2 * d - 1 : x = t + g
    BY <2>2
  <2>4. x % d = IF x < d THEN x ELSE x - d
    BY ModOnce
  <2>5. cluster(g) = x % d
    BY <1>3, <2>3 DEF cluster
  <2>6. cluster(g) = IF x < d THEN x ELSE x - d
    BY <2>4, <2>5
  <2>. QED
    BY <2>1, <2>3, <2>6
<1>5. ASSUME NEW g \in Groups PROVE g \in Nat /\ cluster(g) \in 0 .. conf.ClusterNum - 1
  <2>1. g \in Nat /\ g < d /\ cluster(g) = IF t + g < d THEN t + g ELSE t + g - d
    BY <1>4
  <2>2. cluster(g) \in 0 .. d - 1
    BY <1>3, <2>1
  <2>. QED
    BY <1>3, <2>1, <2>2
<1>6. ASSUME NEW g \in Groups, NEW h \in Groups, g # h PROVE cluster(g) # cluster(h)
  <2>1. g \in Nat /\ g < d /\ cluster(g) = IF t + g < d THEN t + g ELSE t + g - d
    BY <1>4
  <2>2. h \in Nat /\ h < d /\ cluster(h) = IF t + h < d THEN t + h ELSE t + h - d
    BY <1>4
  <2>. QED
    BY <1>3, <1>6, <2>1, <2>2
<1>7. ASSUME NEW b \in Blocks(conf) PROVE map2group(conf, b) \in Groups
  BY <1>1, <1>2, InGroup
<1>. QED
  BY <1>5, <1>6, <1>7

\* the blocks placed on a cluster so far
PlacedOn(cl) == {b \in Blocks(conf) : b < i /\ cluster(map2group(conf, b)) = cl}

\* The configuration in force is one of the files; and from the placement on,
\* the nodes used in a cluster are as many as the blocks placed on it.
ConfInv ==
  pc # "start" => Fit(conf) /\ conf \in {loadConfig(file) : file \in Files}

PlaceInv ==
  pc \notin {"start", "configured"} =>
    /\ t_cluster_id \in 0 .. conf.ClusterNum - 1
    /\ i \in Nat /\ i <= N(conf)
    /\ pc = "placing" <=> i < N(conf)
    /\ used \in [0 .. conf.ClusterNum - 1 -> Nat]
    /\ \A cl \in 0 .. conf.ClusterNum - 1 : used[cl] = Cardinality(PlacedOn(cl))

\* a cluster holds the blocks of one group at most, fewer than it has nodes
LEMMA FewPlaced ==
  ASSUME Fit(conf), t_cluster_id \in 0 .. conf.ClusterNum - 1,
         NEW cl \in 0 .. conf.ClusterNum - 1
  PROVE  /\ IsFiniteSet(PlacedOn(cl))
         /\ Cardinality(PlacedOn(cl)) \in Nat
         /\ Cardinality(PlacedOn(cl)) < conf.DatanodeNumPerCluster
<1>1. PICK n, D, G, L : Layout(conf, n, D, G, L)
  BY Laid
<1>2. n \in Nat \ {0} /\ Groups = 0 .. n - 1
  BY <1>1, LayoutShape, NumGroups DEF Groups
<1>3. \E g \in Groups : PlacedOn(cl) \subseteq group_to_blocks(conf, g)
  <2>1. CASE PlacedOn(cl) = {}
    <3>1. 0 \in Groups
      BY <1>2
    <3>. QED
      BY <2>1, <3>1
  <2>2. CASE PlacedOn(cl) # {}
    <3>1. PICK b \in Blocks(conf) : cluster(map2group(conf, b)) = cl
      BY <2>2 DEF PlacedOn
    <3>2. map2group(conf, b) \in Groups
      BY RoundRobin
    <3>3. ASSUME NEW a \in PlacedOn(cl) PROVE a \in group_to_blocks(conf, map2group(conf, b))
      <4>1. a \in Blocks(conf) /\ cluster(map2group(conf, a)) = cl
        BY DEF PlacedOn
      <4>2. map2group(conf, a) \in Groups
        BY <4>1, RoundRobin
      <4>3. map2group(conf, a) = map2group(conf, b)
        BY <3>1, <3>2, <4>1, <4>2, RoundRobin
      <4>. QED
        BY <4>1, <4>3 DEF group_to_blocks
    <3>. QED
      BY <3>2, <3>3
  <2>. QED
    BY <2>1, <2>2
<1>4. PICK g \in 0 .. n - 1 : PlacedOn(cl) \subseteq group_to_blocks(conf, g)
  BY <1>2, <1>3
<1>5. /\ IsFiniteSet(group_to_blocks(conf, g))
      /\ Cardinality(group_to_blocks(conf, g)) < conf.DatanodeNumPerCluster
  BY <1>1, GroupSize
<1>6. /\ IsFiniteSet(PlacedOn(cl))
      /\ Cardinality(PlacedOn(cl)) <= Cardinality(group_to_blocks(conf, g))
  BY <1>4, <1>5, FS_Subset
<1>7. Cardinality(PlacedOn(cl)) \in Nat /\ Cardinality(group_to_blocks(conf, g)) \in Nat
  BY <1>5, <1>6, FS_CardinalityType
<1>8. conf.DatanodeNumPerCluster \in Nat
  BY DEF Fit
<1>. QED
  BY <1>5, <1>6, <1>7, <1>8

\* every cluster of a group has a node left
LEMMA NodeThere ==
  ASSUME ConfInv, PlaceInv, pc \notin {"start", "configured"}, NEW g \in Groups
  PROVE  HasNode(g)
<1>1. Fit(conf) /\ t_cluster_id \in 0 .. conf.ClusterNum - 1
  BY DEF ConfInv, PlaceInv
<1>2. cluster(g) \in 0 .. conf.ClusterNum - 1
  BY <1>1, RoundRobin
<1>3. used[cluster(g)] = Cardinality(PlacedOn(cluster(g)))
  BY <1>2 DEF PlaceInv
<1>. QED
  BY <1>1, <1>2, <1>3, FewPlaced DEF HasNode

\* A configuration in use stays one that fits.
LEMMA ConfStep ==
  ASSUME ConfInv, [Next]_vars
  PROVE  ConfInv'
<1>. USE DEF ConfInv
<1>1. ASSUME NEW file \in Files, LoadConfig(file) PROVE ConfInv'
  BY <1>1, FilesFit DEF LoadConfig
<1>2. ASSUME NEW s \in StripeIds, StartStripe(s) PROVE ConfInv'
  BY <1>2 DEF StartStripe
<1>3. CASE PlaceBlock
  BY <1>3 DEF PlaceBlock
<1>4. CASE UploadSet
  BY <1>4 DEF UploadSet
<1>5. ASSUME NEW m \in SubsetSizes, UploadSubset(m) PROVE ConfInv'
  BY <1>5 DEF UploadSubset
<1>6. CASE CutSlices
  BY <1>6 DEF CutSlices
<1>7. CASE StoreStripe
  BY <1>7 DEF StoreStripe
<1>8. CASE GetStripe
  BY <1>8 DEF GetStripe
<1>9. ASSUME NEW f, RecoverBlock(f) PROVE ConfInv'
  BY <1>9 DEF RecoverBlock
<1>10. CASE UNCHANGED vars
  BY <1>10 DEF vars
<1>. QED
  BY <1>1, <1>2, <1>3, <1>4, <1>5, <1>6, <1>7, <1>8, <1>9, <1>10 DEF Next, Done

\* the steps after the placement leave it alone
LEMMA PlacedStays ==
  ASSUME PlaceInv, UNCHANGED <<conf, i, t_cluster_id, used>>,
         pc \notin {"start", "configured", "placing"},
         pc' \notin {"start", "configured", "placing"}
  PROVE  PlaceInv'
<1>1. \A cl : PlacedOn(cl)' = PlacedOn(cl)
  BY DEF PlacedOn, cluster
<1>. QED
  BY <1>1 DEF PlaceInv

\* the first block is yet to be placed
LEMMA StartPlaces ==
  ASSUME ConfInv, NEW s \in StripeIds, StartStripe(s)
  PROVE  PlaceInv'
<1>1. Fit(conf) /\ s \in Nat
  BY FilesAssumption DEF ConfInv, StartStripe
<1>2. PICK n, D, G, L : Layout(conf, n, D, G, L)
  BY <1>1, Laid
<1>3. PICK d \in Nat \ {0} : d = conf.ClusterNum
  <2>1. n \in Nat \ {0} /\ n <= conf.ClusterNum /\ conf.ClusterNum \in Nat
    BY <1>1, <1>2, LayoutShape DEF Fit
  <2>. QED
    BY <2>1
<1>4. N(conf) \in Nat /\ 0 < N(conf)
  BY <1>1 DEF Fit, N, Supported
<1>5. s % d \in 0 .. d - 1
  BY <1>1, <1>3, Divided
<1>6. t_cluster_id' \in 0 .. conf.ClusterNum - 1
  BY <1>3, <1>5 DEF StartStripe, FirstCluster
<1>7. pc' = "placing" /\ i' = 0 /\ conf' = conf /\ used' = [cl \in 0 .. conf.ClusterNum - 1 |-> 0]
  BY DEF StartStripe
<1>8. \A cl : PlacedOn(cl)' = {}
  <2>1. Blocks(conf)' = Blocks(conf) /\ \A b \in Blocks(conf) : ~ (b < 0)
    BY <1>4, <1>7 DEF Blocks
  <2>. QED
    BY <1>7, <2>1 DEF PlacedOn
<1>9. \A cl : Cardinality(PlacedOn(cl)') = 0
  BY <1>8, FS_EmptySet
<1>. QED
  BY <1>4, <1>6, <1>7, <1>9 DEF PlaceInv

\* one more block on the cluster of its group
LEMMA PlacePlaces ==
  ASSUME ConfInv, PlaceInv, PlaceBlock
  PROVE  PlaceInv'
<1>1. Fit(conf) /\ pc = "placing"
  BY DEF ConfInv, PlaceBlock
<1>2. /\ t_cluster_id \in 0 .. conf.ClusterNum - 1 /\ i \in Nat /\ i < N(conf)
      /\ used \in [0 .. conf.ClusterNum - 1 -> Nat]
      /\ \A cl \in 0 .. conf.ClusterNum - 1 : used[cl] = Cardinality(PlacedOn(cl))
  BY <1>1 DEF PlaceInv
<1>3. N(conf) \in Nat /\ i \in Blocks(conf)
  <2>1. N(conf) \in Nat
    BY <1>1 DEF Fit, N
  <2>2. i \in Nat /\ i < N(conf)
    BY <1>2
  <2>. QED
    BY <2>1, <2>2 DEF Blocks
<1> DEFINE at == cluster(map2group(conf, i))
<1>4. at \in 0 .. conf.ClusterNum - 1
  BY <1>1, <1>2, <1>3, RoundRobin
<1>5. /\ conf' = conf /\ t_cluster_id' = t_cluster_id /\ i' = i + 1
      /\ used' = [used EXCEPT ![at] = @ + 1]
      /\ pc' = IF i' = N(conf) THEN "placed" ELSE "placing"
  BY DEF PlaceBlock
<1>. HIDE DEF at
<1>6. ASSUME NEW cl
      PROVE  PlacedOn(cl)' = IF cl = at THEN PlacedOn(cl) \union {i} ELSE PlacedOn(cl)
  <2>1. PlacedOn(cl)' = {b \in Blocks(conf) : b < i + 1 /\ cluster(map2group(conf, b)) = cl}
    BY <1>5 DEF PlacedOn, cluster
  <2>2. \A b \in Blocks(conf) : b < i + 1 <=> b < i \/ b = i
    BY <1>2, <1>3 DEF Blocks
  <2>. QED
    BY <1>3, <2>1, <2>2 DEF PlacedOn, at
<1>7. ASSUME NEW cl \in 0 .. conf.ClusterNum - 1
      PROVE  used'[cl] \in Nat /\ used'[cl] = Cardinality(PlacedOn(cl)')
  <2>1. IsFiniteSet(PlacedOn(cl)) /\ Cardinality(PlacedOn(cl)) \in Nat
    BY <1>1, <1>2, FewPlaced
  <2>2. i \notin PlacedOn(cl)
    BY <1>2 DEF PlacedOn
  <2>3. Cardinality(PlacedOn(cl) \union {i}) = Cardinality(PlacedOn(cl)) + 1
    BY <2>1, <2>2, FS_AddElement
  <2>4. used'[cl] = IF cl = at THEN used[cl] + 1 ELSE used[cl]
    BY <1>2, <1>4, <1>5
  <2>. QED
    <3>1. CASE cl = at
      <4>1. PlacedOn(cl)' = PlacedOn(cl) \union {i} /\ used'[cl] = used[cl] + 1
        BY <1>6, <2>4, <3>1
      <4>2. used[cl] = Cardinality(PlacedOn(cl))
        BY <1>2
      <4>. QED
        BY <2>1, <2>3, <4>1, <4>2
    <3>2. CASE cl # at
      <4>1. PlacedOn(cl)' = PlacedOn(cl) /\ used'[cl] = used[cl]
        BY <1>6, <2>4, <3>2
      <4>2. used[cl] = Cardinality(PlacedOn(cl))
        BY <1>2
      <4>. QED
        BY <2>1, <4>1, <4>2
    <3>. QED
      BY <3>1, <3>2
<1>8. used' \in [0 .. conf.ClusterNum - 1 -> Nat]
  BY <1>2, <1>4, <1>5
<1>9. i' \in Nat /\ i' <= N(conf) /\ (pc' = "placing" <=> i' < N(conf))
      /\ pc' \in {"placing", "placed"}
  BY <1>2, <1>3, <1>5
<1>. QED
  BY <1>2, <1>5, <1>7, <1>8, <1>9 DEF PlaceInv

\* Every step keeps what is known of a placement under way.
LEMMA PlaceStep ==
  ASSUME ConfInv, PlaceInv, [Next]_vars
  PROVE  PlaceInv'
<1>1. ASSUME NEW file \in Files, LoadConfig(file) PROVE PlaceInv'
  BY <1>1 DEF LoadConfig, PlaceInv
<1>2. ASSUME NEW s \in StripeIds, StartStripe(s) PROVE PlaceInv'
  BY <1>2, StartPlaces
<1>3. CASE PlaceBlock
  BY <1>3, PlacePlaces
<1>4. CASE UploadSet
  BY <1>4, PlacedStays DEF UploadSet
<1>5. ASSUME NEW m \in SubsetSizes, UploadSubset(m) PROVE PlaceInv'
  BY <1>5, PlacedStays DEF UploadSubset
<1>6. CASE CutSlices
  <2>1. pc = "replied" /\ pc' \in {"encoded", "aborted", "undefined"}
        /\ UNCHANGED <<conf, i, t_cluster_id, used>>
    BY <1>6 DEF CutSlices
  <2>. QED
    BY <2>1, PlacedStays
<1>7. CASE StoreStripe
  BY <1>7, PlacedStays DEF StoreStripe
<1>8. CASE GetStripe
  BY <1>8, PlacedStays DEF GetStripe
<1>9. ASSUME NEW f, RecoverBlock(f) PROVE PlaceInv'
  <2>1. pc = "stored" /\ pc' \in {"repairing", "undefined"}
        /\ UNCHANGED <<conf, i, t_cluster_id, used>>
    BY <1>9 DEF RecoverBlock
  <2>. QED
    BY <2>1, PlacedStays
<1>10. CASE UNCHANGED vars
  BY <1>10 DEF vars, PlaceInv, PlacedOn, cluster
<1>. QED
  BY <1>1, <1>2, <1>3, <1>4, <1>5, <1>6, <1>7, <1>8, <1>9, <1>10 DEF Next, Done


\* Of every configuration, stripe id and upload: the placement so far.
THEOREM PlacementHolds == Spec => [](ConfInv /\ PlaceInv)
<1>1. Init => ConfInv /\ PlaceInv
  BY DEF Init, ConfInv, PlaceInv
<1>2. ConfInv /\ PlaceInv /\ [Next]_vars => (ConfInv /\ PlaceInv)'
  BY ConfStep, PlaceStep
<1>. QED
  BY <1>1, <1>2, PTL DEF Spec

\* A cluster holds blocks of one group of the stripe only: the round robin of
\* clusters does not come round before the groups are all placed.
THEOREM GroupsApartHolds == Spec => []GroupsApart
<1>1. ConfInv /\ PlaceInv => GroupsApart
  <2>. SUFFICES ASSUME ConfInv, PlaceInv, pc = "placed" PROVE GroupsApart
    BY DEF GroupsApart
  <2>1. Fit(conf) /\ t_cluster_id \in 0 .. conf.ClusterNum - 1
    BY DEF ConfInv, PlaceInv
  <2>. QED
    BY <2>1, RoundRobin DEF GroupsApart
<1>. QED
  BY <1>1, PlacementHolds, PTL

\* The loop of randomly_select_a_node ends, for the block being placed and for
\* the replacement of a lost one: fewer nodes of a cluster hold the stripe
\* than there are.
THEOREM NodeLeftHolds == Spec => []NodeLeft
<1>1. ConfInv /\ PlaceInv => NodeLeft
  <2>1. ASSUME ConfInv, PlaceInv, pc = "placing" PROVE HasNode(map2group(conf, i))
    <3>1. Fit(conf) /\ t_cluster_id \in 0 .. conf.ClusterNum - 1 /\ i \in Nat /\ i < N(conf)
      BY <2>1 DEF ConfInv, PlaceInv
    <3>2. i \in Blocks(conf)
      BY <3>1 DEF Fit, N, Blocks
    <3>. QED
      BY <2>1, <3>1, <3>2, RoundRobin, NodeThere
  <2>2. ASSUME ConfInv, PlaceInv, pc = "stored", NEW g \in Groups PROVE HasNode(g)
    BY <2>2, NodeThere
  <2>. QED
    BY <2>1, <2>2 DEF NodeLeft
<1>. QED
  BY <1>1, PlacementHolds, PTL

-----------------------------------------------------------------------------
(* Read of a stripe.                                                       *)

\* what getStripe asks for
ReadInv ==
  pc = "reading" =>
    requests = [j \in 1 .. Cardinality(DataGroups) |->
                 {b \in group_to_blocks(conf, j - 1) : IsData(conf, b)}]

\* A read keeps the requests it was given.
LEMMA ReadStep ==
  ASSUME ReadInv, [Next]_vars
  PROVE  ReadInv'
<1>. USE DEF ReadInv
<1>1. ASSUME NEW file \in Files, LoadConfig(file) PROVE ReadInv'
  BY <1>1 DEF LoadConfig
<1>2. ASSUME NEW s \in StripeIds, StartStripe(s) PROVE ReadInv'
  BY <1>2 DEF StartStripe
<1>3. CASE PlaceBlock
  BY <1>3 DEF PlaceBlock
<1>4. CASE UploadSet
  BY <1>4 DEF UploadSet
<1>5. ASSUME NEW m \in SubsetSizes, UploadSubset(m) PROVE ReadInv'
  BY <1>5 DEF UploadSubset
<1>6. CASE CutSlices
  BY <1>6 DEF CutSlices
<1>7. CASE StoreStripe
  BY <1>7 DEF StoreStripe
<1>8. CASE GetStripe
  BY <1>8 DEF GetStripe, DataGroups
<1>9. ASSUME NEW f, RecoverBlock(f) PROVE ReadInv'
  BY <1>9 DEF RecoverBlock
<1>10. CASE UNCHANGED vars
  BY <1>10 DEF vars, DataGroups
<1>. QED
  BY <1>1, <1>2, <1>3, <1>4, <1>5, <1>6, <1>7, <1>8, <1>9, <1>10 DEF Next, Done

\* the data blocks of the groups that keep data are the k blocks, each once
LEMMA ReadsData ==
  ASSUME Fit(conf), ReadInv, pc = "reading"
  PROVE  GetReadsData
<1>1. PICK n, D, G, L : Layout(conf, n, D, G, L)
  BY Laid
<1>2. /\ n \in Nat \ {0} /\ conf.k \in Nat /\ conf.r \in Nat /\ conf.z \in Nat
      /\ N(conf) = conf.k + conf.r + conf.z
      /\ D \in [0 .. n -> Nat] /\ G \in [0 .. n -> Nat] /\ L \in [0 .. n -> Nat]
      /\ \A g \in 0 .. n - 1 : D[g] <= D[g + 1]
      /\ num_groups(conf) = n
  BY <1>1, LayoutShape, NumGroups
<1>3. D[0] = 0 /\ D[n] = conf.k
  BY <1>1 DEF Layout
<1>4. conf.k > 0
  BY DEF Fit, Supported
<1>5. PICK e \in Nat : /\ e = (IF conf.CodeType = "UniLRC" THEN n ELSE n - 1)
                       /\ e <= n /\ DataGroups = 0 .. e - 1
  <2>1. CASE conf.CodeType = "UniLRC"
    BY <1>2, <2>1 DEF DataGroups
  <2>2. CASE conf.CodeType # "UniLRC"
    <3>1. n - 1 \in Nat /\ DataGroups = 0 .. n - 2 /\ n - 2 = (n - 1) - 1
      BY <1>2, <2>2 DEF DataGroups
    <3>. QED
      BY <1>2, <2>2, <3>1
  <2>. QED
    BY <2>1, <2>2
<1>6. Cardinality(DataGroups) = e
  <2>1. CASE e = 0
    <3>1. 0 .. e - 1 = {}
      BY <2>1
    <3>. QED
      BY <1>5, <2>1, <3>1, FS_EmptySet
  <2>2. CASE e # 0
    <3>1. Cardinality(0 .. e - 1) = (e - 1) - 0 + 1
      BY <1>5, <2>2, FS_Interval
    <3>. QED
      BY <1>5, <3>1
  <2>. QED
    BY <2>1, <2>2
<1>7. requests = [j \in 1 .. e |-> {b \in group_to_blocks(conf, j - 1) : IsData(conf, b)}]
  BY <1>6 DEF ReadInv
\* a request is the run of data of its group, not empty
<1>8. ASSUME NEW j \in 1 .. e
      PROVE  /\ j - 1 \in 0 .. n - 1
             /\ D[j - 1] < D[j]
             /\ \A b : b \in requests[j] <=> b \in Nat /\ D[j - 1] <= b /\ b < D[j]
  <2>1. PICK g \in 0 .. n - 1 : g = j - 1 /\ g + 1 = j /\ g \in 0 .. n /\ g + 1 \in 0 .. n
    BY <1>2, <1>5
  <2>2. Counted(conf, n, D, G, L, g)
    BY <1>1 DEF Layout
  <2>3. conf.CodeType = "UniLRC" \/ g < n - 1
    BY <1>2, <1>5, <2>1
  <2>4. D[g] \in Nat /\ D[g + 1] \in Nat /\ D[g] < D[g + 1]
    <3>1. D[g] \in Nat /\ D[g + 1] \in Nat
      BY <1>2, <2>1
    <3>2. PICK d \in Nat : D[g + 1] = D[g] + d /\ d > 0
      BY <2>2, <2>3 DEF Counted
    <3>. QED
      BY <3>1, <3>2
  <2>5. requests[j] = {b \in group_to_blocks(conf, g) : IsData(conf, b)}
    BY <1>7, <2>1
  <2>6. ASSUME NEW b \in requests[j] PROVE b \in Nat /\ Within(D, g, b)
    <3>1. b \in Blocks(conf) /\ map2group(conf, b) = g /\ IsData(conf, b)
      BY <2>5 DEF group_to_blocks
    <3>. QED
      BY <1>1, <3>1, InGroup
  <2>7. ASSUME NEW b \in Nat, Within(D, g, b) PROVE b \in requests[j]
    <3>1. b \in group_to_blocks(conf, g)
      BY <1>1, <2>7, GroupRuns
    <3>2. D[g + 1] <= conf.k /\ conf.k \in Nat /\ D[g + 1] \in Nat
      BY <1>1, <2>1, LayoutShape
    <3>3. IsData(conf, b)
      BY <2>7, <3>2 DEF IsData, Within
    <3>. QED
      BY <2>5, <3>1, <3>3
  <2>. QED
    BY <2>1, <2>4, <2>6, <2>7 DEF Within
<1>9. DOMAIN requests = 1 .. e
  BY <1>7
<1>10. \A g, h \in 0 .. n : g <= h => D[g] <= D[h]
  BY <1>1, LayoutShape
<1>11. ReadOnce
  <2>1. ASSUME NEW a \in 1 .. e, NEW b \in 1 .. e, a < b
        PROVE  requests[a] \intersect requests[b] = {}
    <3>1. PICK g \in 0 .. n, h \in 0 .. n : g = a /\ h = b - 1 /\ g <= h
      BY <1>2, <1>5, <2>1
    <3>2. D[a] <= D[b - 1] /\ D[a] \in Nat /\ D[b - 1] \in Nat
      BY <1>2, <1>10, <3>1
    <3>3. ASSUME NEW x, x \in requests[a], x \in requests[b] PROVE FALSE
      <4>1. x \in Nat /\ x < D[a] /\ D[b - 1] <= x
        BY <1>8, <3>3
      <4>. QED
        BY <3>2, <4>1
    <3>. QED
      BY <3>3
  <2>2. \A a, b \in 1 .. e : a # b => a < b \/ b < a
    BY <1>5
  <2>. QED
    BY <1>9, <2>1, <2>2 DEF ReadOnce
<1>12. RepairReads = 0 .. conf.k - 1
  <2>1. ASSUME NEW j \in 1 .. e, NEW b \in requests[j] PROVE b \in 0 .. conf.k - 1
    <3>1. b \in Nat /\ b < D[j]
      BY <1>8
    <3>2. j \in 0 .. n
      BY <1>2, <1>5
    <3>3. D[j] \in Nat /\ D[j] <= conf.k /\ conf.k \in Nat
      BY <1>1, <3>2, LayoutShape
    <3>. QED
      BY <3>1, <3>3
  <2>2. ASSUME NEW b \in 0 .. conf.k - 1 PROVE \E j \in 1 .. e : b \in requests[j]
    <3>1. D[0] <= b /\ b < D[n] /\ b \in Nat
      BY <1>2, <1>3
    <3>2. PICK g \in 0 .. n - 1 : D[g] <= b /\ b < D[g + 1]
      BY <1>2, <3>1, Steps
    <3>3. g < e
      <4>1. CASE conf.CodeType = "UniLRC"
        BY <1>2, <1>5, <4>1
      <4>2. CASE conf.CodeType # "UniLRC"
        <5>1. Counted(conf, n, D, G, L, g)
          BY <1>1 DEF Layout
        <5>2. D[g] \in Nat
          <6>1. n \in Nat /\ D \in [0 .. n -> Nat]
            BY <1>2
          <6>2. g \in 0 .. n
            BY <6>1
          <6>. QED
            BY <6>1, <6>2
        <5>3. D[g + 1] # D[g]
          BY <3>1, <3>2, <5>2
        <5>4. g < n - 1
          BY <4>2, <5>1, <5>2, <5>3 DEF Counted
        <5>. QED
          BY <1>2, <1>5, <4>2, <5>4
      <4>. QED
        BY <4>1, <4>2
    <3>4. PICK j \in 1 .. e : j = g + 1 /\ j - 1 = g
      BY <1>5, <3>3
    <3>5. b \in requests[j]
      BY <1>8, <3>1, <3>2, <3>4
    <3>. QED
      BY <3>5
  <2>. QED
    BY <1>9, <2>1, <2>2 DEF RepairReads, Joined
<1>13. ASSUME NEW j \in 1 .. e PROVE requests[j] # {}
  <2>1. D[j - 1] \in Nat /\ D[j - 1] < D[j]
    <3>1. n \in Nat /\ D \in [0 .. n -> Nat]
      BY <1>2
    <3>2. j - 1 \in 0 .. n
      BY <1>2, <1>5, <3>1
    <3>. QED
      BY <1>8, <3>1, <3>2
  <2>. QED
    BY <1>8, <2>1
<1>. QED
  BY <1>9, <1>11, <1>12, <1>13 DEF GetReadsData

\* A read of the stripe asks for the k data blocks, each once and nothing else,
\* and asks no proxy for none.
THEOREM GetReadsDataHolds == Spec => []GetReadsData
<1>1. Init => ReadInv
  BY DEF Init, ReadInv
<1>2. ReadInv /\ [Next]_vars => ReadInv'
  BY ReadStep
<1>3. ConfInv /\ ReadInv => GetReadsData
  BY ReadsData DEF ConfInv, GetReadsData
<1>. QED
  BY <1>1, <1>2, <1>3, PlacementHolds, PTL DEF Spec


-----------------------------------------------------------------------------
(* The members of a sequence that are kept.                                *)

\* one step of Kept, as a function of the steps before
KeptTurn(s, S, f, j) ==
  IF j = 0 THEN <<>>
  ELSE IF s[j] \in S THEN Append(f[j - 1], s[j]) ELSE f[j - 1]

\* The recursive function of Kept exists: by the first length for which it
\* would not.
LEMMA KeptThere ==
  ASSUME NEW X, NEW s \in Seq(X), NEW S
  PROVE  \E f : /\ f = [j \in 0 .. Len(s) |-> KeptTurn(s, S, f, j)]
                /\ Kept(s, S) = f[Len(s)]
<1> DEFINE Ok(n) == \E f : f = [j \in 0 .. n |-> KeptTurn(s, S, f, j)]
           bad == {n \in Nat : ~ Ok(n)}
<1>1. bad = {}
  <2>1. SUFFICES ASSUME bad # {} PROVE FALSE
    OBVIOUS
  <2>2. PICK n \in bad : \A l \in bad : n <= l
    <3>1. bad \subseteq Nat
      OBVIOUS
    <3>. HIDE DEF bad
    <3>. QED
      BY <2>1, <3>1, LeastNumber
  <2>3. n # 0
    <3> DEFINE g == [j \in 0 .. 0 |-> <<>>]
    <3>1. g = [j \in 0 .. 0 |-> KeptTurn(s, S, g, j)]
      BY DEF KeptTurn
    <3>. QED
      BY <2>2, <3>1
  <2>4. n - 1 \in Nat /\ n - 1 \notin bad /\ n \in Nat
    BY <2>2, <2>3
  <2>5. PICK g : g = [j \in 0 .. n - 1 |-> KeptTurn(s, S, g, j)]
    BY <2>4
  <2> DEFINE h == [j \in 0 .. n |-> IF j = n THEN KeptTurn(s, S, g, n) ELSE g[j]]
  <2>6. \A j \in 0 .. n : h[j] = IF j = n THEN KeptTurn(s, S, g, n) ELSE g[j]
    OBVIOUS
  <2>7. \A j \in 0 .. n - 1 : g[j] = KeptTurn(s, S, g, j)
    BY <2>5
  <2> HIDE DEF h
  <2>8. ASSUME NEW j \in 0 .. n PROVE h[j] = KeptTurn(s, S, h, j)
    <3>1. j # 0 => h[j - 1] = g[j - 1]
      BY <2>4, <2>6
    <3>2. KeptTurn(s, S, h, j) = KeptTurn(s, S, g, j)
      BY <3>1 DEF KeptTurn
    <3>3. h[j] = KeptTurn(s, S, g, j)
      BY <2>4, <2>6, <2>7
    <3>. QED
      BY <3>2, <3>3
  <2>9. h = [j \in 0 .. n |-> KeptTurn(s, S, h, j)]
    BY <2>8 DEF h
  <2>. QED
    BY <2>2, <2>9
<1>2. Len(s) \in Nat
  BY LenProperties
<1>3. \E f : f = [j \in 0 .. Len(s) |-> KeptTurn(s, S, f, j)]
  <2>1. Ok(Len(s))
    BY <1>1, <1>2
  <2>. QED
    BY <2>1
<1> DEFINE upTo[j \in 0 .. Len(s)] ==
             IF j = 0 THEN <<>>
             ELSE IF s[j] \in S THEN Append(upTo[j - 1], s[j]) ELSE upTo[j - 1]
<1>4. upTo = [j \in 0 .. Len(s) |-> KeptTurn(s, S, upTo, j)]
  BY <1>3 DEF KeptTurn
<1>5. Kept(s, S) = upTo[Len(s)]
  BY DEF Kept
<1>. QED
  BY <1>4, <1>5

\* K is what is kept of the first n members of s, h where it comes from
KeptFrom(s, S, n, K, h) ==
  /\ h \in [1 .. Len(K) -> 1 .. n]
  /\ \A a, b \in 1 .. Len(K) : a < b => h[a] < h[b]
  /\ \A a \in 1 .. Len(K) : K[a] = s[h[a]] /\ s[h[a]] \in S
  /\ \A j \in 1 .. n : s[j] \in S => \E a \in 1 .. Len(K) : h[a] = j

\* One more member of the sequence is kept, or left out.
LEMMA KeptStep ==
  ASSUME NEW X, NEW s \in Seq(X), NEW S, NEW n \in 1 .. Len(s),
         NEW K \in Seq(X), NEW h, KeptFrom(s, S, n - 1, K, h)
  PROVE  /\ s[n] \in S => \E g : KeptFrom(s, S, n, Append(K, s[n]), g)
         /\ s[n] \notin S => KeptFrom(s, S, n, K, h)
<1>1. PICK l \in Nat : l = Len(K)
  BY LenProperties
<1>2. /\ h \in [1 .. l -> 1 .. n - 1]
      /\ \A a, b \in 1 .. l : a < b => h[a] < h[b]
      /\ \A a \in 1 .. l : K[a] = s[h[a]] /\ s[h[a]] \in S
      /\ \A j \in 1 .. n - 1 : s[j] \in S => \E a \in 1 .. l : h[a] = j
  BY <1>1 DEF KeptFrom
<1>3. Len(s) \in Nat /\ n \in Nat /\ s[n] \in X
  BY LenProperties, ElementOfSeq
<1>4. ASSUME s[n] \in S PROVE \E g : KeptFrom(s, S, n, Append(K, s[n]), g)
  <2> DEFINE A == Append(K, s[n])
             g == [a \in 1 .. l + 1 |-> IF a = l + 1 THEN n ELSE h[a]]
  <2>1. Len(A) = l + 1 /\ A[l + 1] = s[n] /\ \A a \in 1 .. l : A[a] = K[a]
    BY <1>1, <1>3
  <2>2. \A a \in 1 .. l + 1 : g[a] = IF a = l + 1 THEN n ELSE h[a]
    OBVIOUS
  <2>3. g \in [1 .. l + 1 -> 1 .. n]
    BY <1>1, <1>2, <1>3
  <2>. HIDE DEF g, A
  <2>4. \A a \in 1 .. l : a \in 1 .. l + 1 /\ a # l + 1 /\ h[a] \in 1 .. n - 1 /\ h[a] < n
    BY <1>1, <1>2, <1>3
  <2>5. \A a \in 1 .. l + 1 : a = l + 1 \/ a \in 1 .. l
    BY <1>1
  <2>6. ASSUME NEW a \in 1 .. l + 1, NEW b \in 1 .. l + 1, a < b PROVE g[a] < g[b]
    <3>1. a \in 1 .. l
      BY <1>1, <2>6
    <3>. QED
      BY <1>2, <2>2, <2>4, <2>5, <2>6, <3>1
  <2>7. ASSUME NEW a \in 1 .. l + 1 PROVE A[a] = s[g[a]] /\ s[g[a]] \in S
    BY <1>2, <1>4, <2>1, <2>2, <2>4, <2>5
  <2>8. ASSUME NEW j \in 1 .. n, s[j] \in S PROVE \E a \in 1 .. l + 1 : g[a] = j
    <3>1. CASE j = n
      <4>1. l + 1 \in 1 .. l + 1
        BY <1>1
      <4>. QED
        BY <2>2, <3>1, <4>1
    <3>2. CASE j # n
      <4>1. j \in 1 .. n - 1
        BY <1>3, <3>2
      <4>2. PICK a \in 1 .. l : h[a] = j
        BY <1>2, <2>8, <4>1
      <4>. QED
        BY <2>2, <2>4, <4>2
    <3>. QED
      BY <3>1, <3>2
  <2>9. KeptFrom(s, S, n, A, g)
    BY <2>1, <2>3, <2>6, <2>7, <2>8 DEF KeptFrom
  <2>. QED
    BY <2>9 DEF A
<1>5. ASSUME s[n] \notin S PROVE KeptFrom(s, S, n, K, h)
  <2>1. h \in [1 .. l -> 1 .. n]
    BY <1>2, <1>3
  <2>2. ASSUME NEW j \in 1 .. n, s[j] \in S PROVE \E a \in 1 .. l : h[a] = j
    <3>1. j \in 1 .. n - 1
      BY <1>3, <1>5, <2>2
    <3>. QED
      BY <1>2, <2>2, <3>1
  <2>. QED
    BY <1>1, <1>2, <2>1, <2>2 DEF KeptFrom
<1>. QED
  BY <1>4, <1>5

\* Kept takes the members of s that are in S, in their order.
LEMMA KeptAre ==
  ASSUME NEW X, NEW s \in Seq(X), NEW S
  PROVE  /\ Kept(s, S) \in Seq(X)
         /\ \E h : KeptFrom(s, S, Len(s), Kept(s, S), h)
<1>1. PICK f : /\ f = [j \in 0 .. Len(s) |-> KeptTurn(s, S, f, j)]
               /\ Kept(s, S) = f[Len(s)]
  BY KeptThere
<1>2. Len(s) \in Nat
  BY LenProperties
<1>3. \A j \in 0 .. Len(s) : f[j] = KeptTurn(s, S, f, j)
  BY <1>1
<1> DEFINE Ok(n) == f[n] \in Seq(X) /\ \E h : KeptFrom(s, S, n, f[n], h)
           bad == {n \in 0 .. Len(s) : ~ Ok(n)}
<1>4. bad = {}
  <2>1. SUFFICES ASSUME bad # {} PROVE FALSE
    OBVIOUS
  <2>2. PICK n \in bad : \A l \in bad : n <= l
    <3>1. bad \subseteq Nat
      OBVIOUS
    <3>. HIDE DEF bad
    <3>. QED
      BY <2>1, <3>1, LeastNumber
  <2>3. n # 0
    <3>1. f[0] = <<>>
      BY <1>2, <1>3 DEF KeptTurn
    <3>2. f[0] \in Seq(X) /\ Len(f[0]) = 0
      BY <3>1, EmptySeq
    <3> DEFINE h == [a \in 1 .. 0 |-> 0]
    <3>3. h \in [1 .. 0 -> 1 .. 0] /\ 1 .. 0 = {}
      OBVIOUS
    <3>4. KeptFrom(s, S, 0, f[0], h)
      BY <3>2, <3>3 DEF KeptFrom
    <3>. QED
      BY <2>2, <3>2, <3>4
  <2>4. n \in 1 .. Len(s) /\ n - 1 \in 0 .. Len(s) /\ n - 1 \notin bad
    <3>1. n \in 0 .. Len(s)
      OBVIOUS
    <3>. HIDE DEF bad
    <3>. QED
      BY <1>2, <2>2, <2>3, <3>1
  <2>5. Ok(n - 1)
    BY <2>4
  <2>6. PICK h : KeptFrom(s, S, n - 1, f[n - 1], h)
    BY <2>5
  <2>7. f[n - 1] \in Seq(X)
    BY <2>5
  <2>8. f[n] = IF s[n] \in S THEN Append(f[n - 1], s[n]) ELSE f[n - 1]
    BY <1>2, <1>3, <2>4 DEF KeptTurn
  <2>9. s[n] \in X
    BY <2>4, ElementOfSeq
  <2>10. f[n] \in Seq(X)
    BY <2>7, <2>8, <2>9
  <2>11. \E g : KeptFrom(s, S, n, f[n], g)
    BY <2>4, <2>6, <2>7, <2>8, KeptStep
  <2>. QED
    BY <2>2, <2>10, <2>11
<1>5. Ok(Len(s))
  <2>1. Len(s) \in 0 .. Len(s)
    BY <1>2
  <2>. QED
    BY <1>4, <2>1
<1>. QED
  BY <1>1, <1>5


\* the groups kept are in order, and all there
LEMMA KeptGroups ==
  ASSUME NEW n \in Nat, NEW S
  PROVE  /\ Kept(InOrder(n), S) \in Seq(0 .. n - 1)
         /\ \A a, b \in 1 .. Len(Kept(InOrder(n), S)) :
              a < b => Kept(InOrder(n), S)[a] < Kept(InOrder(n), S)[b]
         /\ \A g \in 0 .. n - 1 : g \in S <=>
              \E a \in 1 .. Len(Kept(InOrder(n), S)) : Kept(InOrder(n), S)[a] = g
<1> DEFINE s == InOrder(n)
           K == Kept(s, S)
<1>1. s \in Seq(0 .. n - 1) /\ Len(s) = n /\ \A j \in 1 .. n : s[j] = j - 1
  BY DEF InOrder
<1>. HIDE DEF s
<1>2. PICK h : KeptFrom(s, S, n, K, h)
  BY <1>1, KeptAre
<1>3. K \in Seq(0 .. n - 1)
  BY <1>1, KeptAre
<1>. HIDE DEF K
<1>4. PICK l \in Nat : l = Len(K)
  BY <1>3, LenProperties
<1>5. /\ h \in [1 .. l -> 1 .. n]
      /\ \A a, b \in 1 .. l : a < b => h[a] < h[b]
      /\ \A a \in 1 .. l : K[a] = s[h[a]] /\ s[h[a]] \in S
      /\ \A j \in 1 .. n : s[j] \in S => \E a \in 1 .. l : h[a] = j
  BY <1>2, <1>4 DEF KeptFrom
<1>6. \A a \in 1 .. l : h[a] \in 1 .. n /\ K[a] = h[a] - 1 /\ K[a] \in S
  BY <1>1, <1>5
<1>7. \A a, b \in 1 .. l : a < b => K[a] < K[b]
  BY <1>5, <1>6
<1>8. ASSUME NEW g \in 0 .. n - 1, g \in S PROVE \E a \in 1 .. l : K[a] = g
  <2>1. g + 1 \in 1 .. n /\ (g + 1) - 1 = g
    OBVIOUS
  <2>2. s[g + 1] = g
    BY <1>1, <2>1
  <2>3. PICK a \in 1 .. l : h[a] = g + 1
    BY <1>5, <1>8, <2>1, <2>2
  <2>. QED
    BY <1>6, <2>1, <2>3
<1>9. \A g \in 0 .. n - 1 : g \in S <=> \E a \in 1 .. l : K[a] = g
  BY <1>6, <1>8
<1>. QED
  BY <1>3, <1>4, <1>7, <1>9 DEF K, s

-----------------------------------------------------------------------------
(* Ranks in a set of three runs.                                           *)

\* The size of an interval.
LEMMA IntervalSize ==
  ASSUME NEW u \in Nat, NEW v \in Nat, u <= v
  PROVE  IsFiniteSet(u .. v - 1) /\ Cardinality(u .. v - 1) = v - u
<1>1. PICK w \in Int : w = v - 1 /\ (u > w <=> u = v)
  OBVIOUS
<1>2. IsFiniteSet(u .. w) /\ Cardinality(u .. w) = IF u > w THEN 0 ELSE w - u + 1
  BY FS_Interval
<1>. QED
  BY <1>1, <1>2

Runs(u0, u1, v0, v1, w0, w1) == (u0 .. u1 - 1) \union (v0 .. v1 - 1) \union (w0 .. w1 - 1)
InTurn(u0, u1, v0, v1, w0, w1) ==
  /\ {u0, u1, v0, v1, w0, w1} \subseteq Nat
  /\ u0 <= u1 /\ u1 <= v0 /\ v0 <= v1 /\ v1 <= w0 /\ w0 <= w1

\* The numbers of an interval.
LEMMA InInterval ==
  ASSUME NEW a \in Nat, NEW b \in Nat
  PROVE  \A y : y \in a .. b - 1 <=> y \in Nat /\ a <= y /\ y < b
OBVIOUS

\* The numbers of three runs.
LEMMA InRuns ==
  ASSUME NEW u0, NEW u1, NEW v0, NEW v1, NEW w0, NEW w1, InTurn(u0, u1, v0, v1, w0, w1)
  PROVE  \A y : y \in Runs(u0, u1, v0, v1, w0, w1) <=>
           y \in Nat /\ ((u0 <= y /\ y < u1) \/ (v0 <= y /\ y < v1) \/ (w0 <= y /\ y < w1))
<1>1. /\ u0 \in Nat /\ u1 \in Nat /\ v0 \in Nat /\ v1 \in Nat /\ w0 \in Nat /\ w1 \in Nat
  BY DEF InTurn
<1>2. \A y : y \in u0 .. u1 - 1 <=> y \in Nat /\ u0 <= y /\ y < u1
  BY <1>1, InInterval
<1>3. \A y : y \in v0 .. v1 - 1 <=> y \in Nat /\ v0 <= y /\ y < v1
  BY <1>1, InInterval
<1>4. \A y : y \in w0 .. w1 - 1 <=> y \in Nat /\ w0 <= y /\ y < w1
  BY <1>1, InInterval
<1>5. ASSUME NEW A, NEW B, NEW C
      PROVE  \A y : y \in A \union B \union C <=> y \in A \/ y \in B \/ y \in C
  OBVIOUS
<1>6. \A y : y \in Runs(u0, u1, v0, v1, w0, w1) <=>
              y \in u0 .. u1 - 1 \/ y \in v0 .. v1 - 1 \/ y \in w0 .. w1 - 1
  BY <1>5 DEF Runs
<1>7. ASSUME NEW y
      PROVE  y \in Runs(u0, u1, v0, v1, w0, w1) <=>
               y \in Nat /\ ((u0 <= y /\ y < u1) \/ (v0 <= y /\ y < v1) \/ (w0 <= y /\ y < w1))
  <2>1. y \in u0 .. u1 - 1 <=> y \in Nat /\ u0 <= y /\ y < u1
    BY <1>2
  <2>2. y \in v0 .. v1 - 1 <=> y \in Nat /\ v0 <= y /\ y < v1
    BY <1>3
  <2>3. y \in w0 .. w1 - 1 <=> y \in Nat /\ w0 <= y /\ y < w1
    BY <1>4
  <2>4. y \in Runs(u0, u1, v0, v1, w0, w1) <=>
          y \in u0 .. u1 - 1 \/ y \in v0 .. v1 - 1 \/ y \in w0 .. w1 - 1
    BY <1>6
  <2>. QED
    BY <2>1, <2>2, <2>3, <2>4, Zenon
<1>. QED
  BY <1>7

\* Three runs that follow one another have as many members as their lengths
\* add up to.
LEMMA RunsSize ==
  ASSUME NEW u0, NEW u1, NEW v0, NEW v1, NEW w0, NEW w1, InTurn(u0, u1, v0, v1, w0, w1)
  PROVE  /\ IsFiniteSet(Runs(u0, u1, v0, v1, w0, w1))
         /\ Cardinality(Runs(u0, u1, v0, v1, w0, w1)) = (u1 - u0) + (v1 - v0) + (w1 - w0)
<1> DEFINE A == u0 .. u1 - 1
           B == v0 .. v1 - 1
           C == w0 .. w1 - 1
<1>1. /\ u0 \in Nat /\ u1 \in Nat /\ v0 \in Nat /\ v1 \in Nat /\ w0 \in Nat /\ w1 \in Nat
      /\ u0 <= u1 /\ u1 <= v0 /\ v0 <= v1 /\ v1 <= w0 /\ w0 <= w1
  BY DEF InTurn
<1>2. /\ IsFiniteSet(A) /\ Cardinality(A) = u1 - u0
      /\ IsFiniteSet(B) /\ Cardinality(B) = v1 - v0
      /\ IsFiniteSet(C) /\ Cardinality(C) = w1 - w0
  BY <1>1, IntervalSize
<1>3. A \intersect B = {} /\ (A \union B) \intersect C = {}
  BY <1>1
<1>. HIDE DEF A, B, C
<1>4. Cardinality({}) = 0
  BY FS_EmptySet
<1>5. /\ IsFiniteSet(A \union B)
      /\ Cardinality(A \union B) = Cardinality(A) + Cardinality(B) - Cardinality(A \intersect B)
  BY <1>2, FS_Union
<1>6. /\ IsFiniteSet((A \union B) \union C)
      /\ Cardinality((A \union B) \union C) =
           Cardinality(A \union B) + Cardinality(C) - Cardinality((A \union B) \intersect C)
  BY <1>2, <1>5, FS_Union
<1>7. Cardinality((A \union B) \union C) = (u1 - u0) + (v1 - v0) + (w1 - w0)
  <2>1. PICK a \in Nat, b \in Nat, d \in Nat : a = u1 - u0 /\ b = v1 - v0 /\ d = w1 - w0
    BY <1>1
  <2>2. Cardinality(A \union B) = a + b - 0
    BY <1>2, <1>3, <1>4, <1>5, <2>1
  <2>3. Cardinality((A \union B) \union C) = (a + b - 0) + d - 0
    BY <1>2, <1>3, <1>4, <1>6, <2>1, <2>2
  <2>. QED
    BY <2>1, <2>3
<1>. QED
  BY <1>6, <1>7 DEF A, B, C, Runs

\* a member of a run ranks behind the runs before, at its place
LEMMA RunsRank ==
  ASSUME NEW u0, NEW u1, NEW v0, NEW v1, NEW w0, NEW w1, InTurn(u0, u1, v0, v1, w0, w1),
         NEW x \in Runs(u0, u1, v0, v1, w0, w1)
  PROVE  /\ x \in Nat
         /\ x < u1 => u0 <= x /\ Rank(Runs(u0, u1, v0, v1, w0, w1), x) = x - u0
         /\ u1 <= x /\ x < v1 =>
              v0 <= x /\ Rank(Runs(u0, u1, v0, v1, w0, w1), x) = (u1 - u0) + (x - v0)
         /\ v1 <= x =>
              /\ w0 <= x /\ x < w1
              /\ Rank(Runs(u0, u1, v0, v1, w0, w1), x) = (u1 - u0) + (v1 - v0) + (x - w0)
<1> DEFINE S == Runs(u0, u1, v0, v1, w0, w1)
           below == {y \in S : y < x}
<1>1. /\ u0 \in Nat /\ u1 \in Nat /\ v0 \in Nat /\ v1 \in Nat /\ w0 \in Nat /\ w1 \in Nat
      /\ u0 <= u1 /\ u1 <= v0 /\ v0 <= v1 /\ v1 <= w0 /\ w0 <= w1
  BY DEF InTurn
<1>2. x \in Nat /\ ((u0 <= x /\ x < u1) \/ (v0 <= x /\ x < v1) \/ (w0 <= x /\ x < w1))
  BY <1>1 DEF Runs
<1>3. Rank(S, x) = Cardinality(below)
  BY DEF Rank
<1>4. \A y : y \in below <=> y \in S /\ y < x
  OBVIOUS
<1>5. \A y : y \in S <=> y \in Nat /\ ((u0 <= y /\ y < u1) \/ (v0 <= y /\ y < v1) \/ (w0 <= y /\ y < w1))
  BY <1>1 DEF Runs
<1>. HIDE DEF below, S
<1>6. ASSUME x < u1 PROVE u0 <= x /\ Rank(S, x) = x - u0
  <2>1. u0 <= x
    BY <1>1, <1>2, <1>6
  <2>2. below = u0 .. x - 1
    <3>1. \A y : y \in below <=> y \in Nat /\ u0 <= y /\ y < x
      BY <1>1, <1>2, <1>4, <1>5, <1>6
    <3>2. \A y : y \in u0 .. x - 1 <=> y \in Nat /\ u0 <= y /\ y < x
      BY <1>1, <1>2, InInterval
    <3>. QED
      BY <3>1, <3>2, Zenon
  <2>. QED
    BY <1>1, <1>2, <1>3, <2>1, <2>2, IntervalSize
<1>7. ASSUME u1 <= x, x < v1 PROVE v0 <= x /\ Rank(S, x) = (u1 - u0) + (x - v0)
  <2>1. v0 <= x
    BY <1>1, <1>2, <1>7
  <2>3. InTurn(u0, u1, v0, x, w0, w0)
    BY <1>1, <1>2, <1>7, <2>1 DEF InTurn
  <2>2. below = Runs(u0, u1, v0, x, w0, w0)
    <3>1. \A y : y \in Runs(u0, u1, v0, x, w0, w0) <=>
                   y \in Nat /\ ((u0 <= y /\ y < u1) \/ (v0 <= y /\ y < x) \/ (w0 <= y /\ y < w0))
      BY <2>3, InRuns
    <3>2. \A y : y \in below <=> y \in Runs(u0, u1, v0, x, w0, w0)
      BY <1>1, <1>2, <1>4, <1>5, <1>7, <2>1, <3>1
    <3>. QED
      BY <3>2
  <2>4. Cardinality(below) = (u1 - u0) + (x - v0) + (w0 - w0)
    BY <2>2, <2>3, RunsSize
  <2>. QED
    BY <1>1, <1>2, <1>3, <2>1, <2>4
<1>8. ASSUME v1 <= x
      PROVE  w0 <= x /\ x < w1 /\ Rank(S, x) = (u1 - u0) + (v1 - v0) + (x - w0)
  <2>1. w0 <= x /\ x < w1
    BY <1>1, <1>2, <1>8
  <2>3. InTurn(u0, u1, v0, v1, w0, x)
    BY <1>1, <1>2, <2>1 DEF InTurn
  <2>2. below = Runs(u0, u1, v0, v1, w0, x)
    <3>1. \A y : y \in Runs(u0, u1, v0, v1, w0, x) <=>
                   y \in Nat /\ ((u0 <= y /\ y < u1) \/ (v0 <= y /\ y < v1) \/ (w0 <= y /\ y < x))
      BY <2>3, InRuns
    <3>2. \A y : y \in below <=> y \in Runs(u0, u1, v0, v1, w0, x)
      BY <1>1, <1>2, <1>4, <1>5, <2>1, <3>1
    <3>. QED
      BY <3>2
  <2>4. Cardinality(below) = (u1 - u0) + (v1 - v0) + (x - w0)
    BY <2>2, <2>3, RunsSize
  <2>. QED
    BY <1>3, <2>1, <2>4
<1>. QED
  BY <1>2, <1>6, <1>7, <1>8 DEF S

\* cut by their sizes, the three runs come out again
LEMMA RunsCut ==
  ASSUME NEW u0, NEW u1, NEW v0, NEW v1, NEW w0, NEW w1, InTurn(u0, u1, v0, v1, w0, w1)
  PROVE  /\ Slice(Runs(u0, u1, v0, v1, w0, w1), 0, u1 - u0) = u0 .. u1 - 1
         /\ Slice(Runs(u0, u1, v0, v1, w0, w1), u1 - u0, v1 - v0) = v0 .. v1 - 1
         /\ Slice(Runs(u0, u1, v0, v1, w0, w1), (u1 - u0) + (v1 - v0), w1 - w0) = w0 .. w1 - 1
<1> DEFINE S == Runs(u0, u1, v0, v1, w0, w1)
           q(x) == Rank(S, x)
<1>1. /\ u0 \in Nat /\ u1 \in Nat /\ v0 \in Nat /\ v1 \in Nat /\ w0 \in Nat /\ w1 \in Nat
      /\ u0 <= u1 /\ u1 <= v0 /\ v0 <= v1 /\ v1 <= w0 /\ w0 <= w1
  BY DEF InTurn
<1>2. \A x \in S :
        /\ x \in Nat
        /\ x < u1 => u0 <= x /\ q(x) = x - u0
        /\ u1 <= x /\ x < v1 => v0 <= x /\ q(x) = (u1 - u0) + (x - v0)
        /\ v1 <= x => w0 <= x /\ x < w1 /\ q(x) = (u1 - u0) + (v1 - v0) + (x - w0)
  BY RunsRank
<1>3. \A x : x \in S <=> x \in Nat /\ ((u0 <= x /\ x < u1) \/ (v0 <= x /\ x < v1) \/ (w0 <= x /\ x < w1))
  BY InRuns
<1>4. \A a, m : Slice(S, a, m) = {x \in S : q(x) >= a /\ q(x) < a + m}
  BY DEF Slice
<1>. HIDE DEF S, q
<1>5. Slice(S, 0, u1 - u0) = u0 .. u1 - 1
  <2>1. \A x \in S : q(x) >= 0 /\ q(x) < 0 + (u1 - u0) <=> x < u1
    BY <1>1, <1>2
  <2>2. \A x : x \in Slice(S, 0, u1 - u0) <=> x \in S /\ (x < u1)
    BY <1>4, <2>1
  <2>3. \A x : x \in S /\ (x < u1) <=> x \in Nat /\ u0 <= x /\ x < u1
    BY <1>1, <1>3
  <2>4. \A x : x \in Slice(S, 0, u1 - u0) <=> x \in u0 .. u1 - 1
    BY <1>1, <2>2, <2>3
  <2>. QED
    BY <2>4
<1>6. Slice(S, u1 - u0, v1 - v0) = v0 .. v1 - 1
  <2>1. \A x \in S : q(x) >= u1 - u0 /\ q(x) < (u1 - u0) + (v1 - v0) <=> u1 <= x /\ x < v1
    BY <1>1, <1>2
  <2>2. \A x : x \in Slice(S, u1 - u0, v1 - v0) <=> x \in S /\ (u1 <= x /\ x < v1)
    BY <1>4, <2>1
  <2>3. \A x : x \in S /\ (u1 <= x /\ x < v1) <=> x \in Nat /\ v0 <= x /\ x < v1
    BY <1>1, <1>3
  <2>4. \A x : x \in Slice(S, u1 - u0, v1 - v0) <=> x \in v0 .. v1 - 1
    BY <1>1, <2>2, <2>3
  <2>. QED
    BY <2>4
<1>7. Slice(S, (u1 - u0) + (v1 - v0), w1 - w0) = w0 .. w1 - 1
  <2>1. \A x \in S : q(x) >= (u1 - u0) + (v1 - v0)
                     /\ q(x) < ((u1 - u0) + (v1 - v0)) + (w1 - w0) <=> v1 <= x
    BY <1>1, <1>2
  <2>2. \A x : x \in Slice(S, (u1 - u0) + (v1 - v0), w1 - w0) <=> x \in S /\ (v1 <= x)
    BY <1>4, <2>1
  <2>3. \A x : x \in S /\ (v1 <= x) <=> x \in Nat /\ w0 <= x /\ x < w1
    BY <1>1, <1>3
  <2>4. \A x : x \in Slice(S, (u1 - u0) + (v1 - v0), w1 - w0) <=> x \in w0 .. w1 - 1
    BY <1>1, <2>2, <2>3
  <2>. QED
    BY <2>4
<1>. QED
  BY <1>5, <1>6, <1>7 DEF S


-----------------------------------------------------------------------------
(* The slices of an upload and the client's counts.                        *)

\* the data runs, of an upload of m blocks
UpTo(f, n, m) == [g \in 0 .. n |-> IF f[g] < m THEN f[g] ELSE m]

\* What an upload brings to group g: three runs.
LEMMA BroughtRuns ==
  ASSUME NEW n, NEW D, NEW G, NEW L, Fit(conf), Layout(conf, n, D, G, L),
         NEW m \in Nat, m <= conf.k, NEW M, M = UpTo(D, n, m), NEW g \in 0 .. n - 1
  PROVE  /\ InTurn(M[g], M[g + 1], G[g], G[g + 1], L[g], L[g + 1])
         /\ Brought(g, m) = Runs(M[g], M[g + 1], G[g], G[g + 1], L[g], L[g + 1])
<1>1. /\ n \in Nat \ {0} /\ conf.k \in Nat /\ conf.r \in Nat
      /\ D \in [0 .. n -> Nat] /\ G \in [0 .. n -> Nat] /\ L \in [0 .. n -> Nat]
  BY LayoutShape
<1>2. g \in 0 .. n /\ g + 1 \in 0 .. n
  BY <1>1
<1>3. PICK d0 \in Nat, d1 \in Nat, e0 \in Nat, e1 \in Nat, l0 \in Nat, l1 \in Nat,
           k \in Nat, r \in Nat :
        /\ d0 = D[g] /\ d1 = D[g + 1] /\ e0 = G[g] /\ e1 = G[g + 1]
        /\ l0 = L[g] /\ l1 = L[g + 1] /\ k = conf.k /\ r = conf.r
  BY <1>1, <1>2
<1>4. /\ d0 <= d1 /\ e0 <= e1 /\ l0 <= l1
      /\ d1 <= k /\ k <= e0 /\ e1 <= k + r /\ k + r <= l0
  <2>1. D[g] <= D[g + 1] /\ G[g] <= G[g + 1] /\ L[g] <= L[g + 1]
    BY LayoutShape
  <2>2. D[g + 1] <= conf.k
    BY <1>2, LayoutShape
  <2>3. conf.k <= G[g] /\ conf.k + conf.r <= L[g]
    BY <1>2, LayoutShape
  <2>4. G[g + 1] <= conf.k + conf.r
    BY <1>2, LayoutShape
  <2>. QED
    BY <1>3, <2>1, <2>2, <2>3, <2>4
<1>5. PICK m0 \in Nat, m1 \in Nat :
        /\ m0 = M[g] /\ m0 = (IF d0 < m THEN d0 ELSE m)
        /\ m1 = M[g + 1] /\ m1 = (IF d1 < m THEN d1 ELSE m)
  <2>1. M[g] = (IF d0 < m THEN d0 ELSE m) /\ M[g + 1] = (IF d1 < m THEN d1 ELSE m)
    BY <1>2, <1>3 DEF UpTo
  <2>. QED
    BY <2>1
<1>6. m0 <= m1 /\ m1 <= e0 /\ m \in Nat
  BY <1>4, <1>5
<1>7. InTurn(m0, m1, e0, e1, l0, l1)
  <2>1. e1 <= l0
    BY <1>4
  <2>. QED
    BY <1>4, <1>6, <2>1 DEF InTurn
<1>8. \A b \in Int : b \in group_to_blocks(conf, g) <=>
        (d0 <= b /\ b < d1) \/ (e0 <= b /\ b < e1) \/ (l0 <= b /\ b < l1)
  BY <1>3, GroupRuns DEF Within
<1>9. \A b : b \in group_to_blocks(conf, g) => b \in Nat
  <2>1. \A b \in Blocks(conf) : b \in Nat
    BY InGroup
  <2>. QED
    BY <2>1 DEF group_to_blocks
<1>10. \A b : b \in Runs(m0, m1, e0, e1, l0, l1) <=>
        b \in Nat /\ ((m0 <= b /\ b < m1) \/ (e0 <= b /\ b < e1) \/ (l0 <= b /\ b < l1))
  BY <1>7, InRuns
<1>11. \A b : b \in Brought(g, m) <=> b \in group_to_blocks(conf, g) /\ (b < k => b < m)
  BY <1>3 DEF Brought, IsData
<1>12. ASSUME NEW b PROVE b \in Brought(g, m) <=> b \in Runs(m0, m1, e0, e1, l0, l1)
  <2>1. b \in Brought(g, m) <=>
          /\ b \in Nat
          /\ (d0 <= b /\ b < d1) \/ (e0 <= b /\ b < e1) \/ (l0 <= b /\ b < l1)
          /\ b < k => b < m
    BY <1>8, <1>9, <1>11
  <2>2. ASSUME b \in Nat
        PROVE  /\ (d0 <= b /\ b < d1) \/ (e0 <= b /\ b < e1) \/ (l0 <= b /\ b < l1)
               /\ b < k => b < m
               <=> (m0 <= b /\ b < m1) \/ (e0 <= b /\ b < e1) \/ (l0 <= b /\ b < l1)
    BY <1>4, <1>5, <2>2
  <2>. QED
    BY <1>10, <2>1, <2>2
<1>13. Brought(g, m) = Runs(m0, m1, e0, e1, l0, l1)
  BY <1>12
<1>. QED
  BY <1>3, <1>5, <1>7, <1>13

\* one step of DataNum's count of the blocks to come
LeftTurn(f, h) ==
  IF h = 0 THEN block_num
  ELSE IF get_data_block_num_per_group(conf, h - 1) > f[h - 1] THEN 0
       ELSE f[h - 1] - get_data_block_num_per_group(conf, h - 1)

\* The client counts the data run of an upload.
LEMMA DataNumIs ==
  ASSUME NEW n, NEW D, NEW G, NEW L, Fit(conf), Layout(conf, n, D, G, L),
         block_num \in Nat, block_num <= conf.k, trimmed \in BOOLEAN,
         ~ trimmed => block_num = conf.k,
         NEW M, M = UpTo(D, n, block_num), NEW g \in 0 .. n - 1
  PROVE  DataNum(g) = M[g + 1] - M[g]
<1>1. n \in Nat \ {0} /\ D \in [0 .. n -> Nat] /\ conf.k \in Nat
  BY LayoutShape
<1>2. PICK m \in Nat : m = block_num /\ m <= conf.k /\ (~ trimmed => m = conf.k)
  OBVIOUS
<1>3. D[0] = 0
  BY DEF Layout
<1> DEFINE full(h) == get_data_block_num_per_group(conf, h)
<1>4. ASSUME NEW h \in 0 .. n - 1 PROVE full(h) \in Nat /\ D[h + 1] = D[h] + full(h)
  <2>1. Counted(conf, n, D, G, L, h)
    BY DEF Layout
  <2>. QED
    BY <2>1 DEF Counted
<1>. HIDE DEF full
<1>5. \A h \in 0 .. n : M[h] = IF D[h] < m THEN D[h] ELSE m
  BY <1>2 DEF UpTo
<1> DEFINE w == [h \in 0 .. g |-> m - M[h]]
<1>6. ASSUME NEW h \in 0 .. g
      PROVE  w[h] = IF h = 0 THEN m ELSE IF full(h - 1) > w[h - 1] THEN 0 ELSE w[h - 1] - full(h - 1)
  <2>1. CASE h = 0
    <3>1. 0 \in 0 .. n /\ M[0] = 0
      BY <1>1, <1>3, <1>5
    <3>. QED
      BY <2>1, <3>1
  <2>2. CASE h # 0
    <3>1. PICK j \in 0 .. n - 1 : j = h - 1 /\ j + 1 = h /\ j \in 0 .. g /\ j \in 0 .. n /\ h \in 0 .. n
      BY <1>1, <2>2
    <3>2. PICK a \in Nat, b \in Nat, d \in Nat : a = D[j] /\ b = D[h] /\ d = full(j) /\ b = a + d
      <4>1. full(j) \in Nat /\ D[j + 1] = D[j] + full(j)
        BY <1>4, <3>1
      <4>2. D[j] \in Nat /\ D[h] \in Nat
        BY <1>1, <3>1
      <4>. QED
        BY <3>1, <4>1, <4>2
    <3>3. w[h] = m - (IF b < m THEN b ELSE m) /\ w[j] = m - (IF a < m THEN a ELSE m)
      BY <1>5, <3>1, <3>2
    <3>4. w[h] = IF d > w[j] THEN 0 ELSE w[j] - d
      <4>. HIDE DEF w
      <4>1. PICK x \in Int, y \in Int : x = w[h] /\ y = w[j]
        BY <1>2, <3>2, <3>3
      <4>2. x = m - (IF b < m THEN b ELSE m) /\ y = m - (IF a < m THEN a ELSE m)
        BY <3>3, <4>1
      <4>3. x = IF d > y THEN 0 ELSE y - d
        BY <1>2, <3>2, <4>2
      <4>. QED
        BY <4>1, <4>3
    <3>. QED
      BY <2>2, <3>1, <3>2, <3>4
  <2>. QED
    BY <2>1, <2>2
<1>7. w = [h \in 0 .. g |-> LeftTurn(w, h)]
  <2>1. \A h \in 0 .. g : w[h] = LeftTurn(w, h)
    BY <1>2, <1>6 DEF LeftTurn, full
  <2>2. w = [h \in 0 .. g |-> w[h]]
    OBVIOUS
  <2>. HIDE DEF w
  <2>. QED
    BY <2>1, <2>2
<1> DEFINE left[h \in 0 .. g] ==
             IF h = 0 THEN block_num
             ELSE LET d == get_data_block_num_per_group(conf, h - 1)
                  IN  IF d > left[h - 1] THEN 0 ELSE left[h - 1] - d
<1>8. left = [h \in 0 .. g |-> LeftTurn(left, h)]
  <2>1. \E f : f = [h \in 0 .. g |-> LeftTurn(f, h)]
    BY <1>7
  <2>. QED
    BY <2>1 DEF LeftTurn
<1>9. DataNum(g) = IF trimmed /\ full(g) > left[g] THEN left[g] ELSE full(g)
  BY DEF DataNum, full
<1>. HIDE DEF left
<1>10. \A h \in 0 .. g : left[h] = LeftTurn(left, h) /\ w[h] = LeftTurn(w, h)
  BY <1>7, <1>8
<1>. HIDE DEF w
<1>11. \A h \in 0 .. g : left[h] = w[h]
  <2> DEFINE bad == {h \in 0 .. g : left[h] # w[h]}
  <2>1. SUFFICES ASSUME bad # {} PROVE FALSE
    OBVIOUS
  <2>2. PICK h \in bad : \A y \in bad : h <= y
    <3>1. bad \subseteq Nat
      OBVIOUS
    <3>. HIDE DEF bad
    <3>. QED
      BY <2>1, <3>1, LeastNumber
  <2>3. h \in 0 .. g /\ left[h] # w[h]
    OBVIOUS
  <2>4. h # 0
    BY <1>10, <2>3 DEF LeftTurn
  <2>5. h - 1 \in 0 .. g /\ h - 1 \notin bad
    <3>. HIDE DEF bad
    <3>. QED
      BY <2>2, <2>3, <2>4
  <2>6. left[h - 1] = w[h - 1]
    BY <2>5
  <2>. QED
    BY <1>10, <2>3, <2>6 DEF LeftTurn
<1>13. g \in 0 .. n /\ g + 1 \in 0 .. n /\ g \in 0 .. g
  BY <1>1
<1>12. PICK a \in Nat, b \in Nat, d \in Nat :
         a = D[g] /\ b = D[g + 1] /\ d = full(g) /\ b = a + d
  <2>1. D[g] \in Nat /\ D[g + 1] \in Nat
    BY <1>1, <1>13
  <2>. QED
    BY <1>4, <2>1
<1>14. left[g] = m - (IF a < m THEN a ELSE m)
  BY <1>5, <1>11, <1>12, <1>13 DEF w
<1>15. M[g] = (IF a < m THEN a ELSE m) /\ M[g + 1] = (IF b < m THEN b ELSE m)
  BY <1>5, <1>12, <1>13
<1>16. b <= conf.k
  <2>1. D[g + 1] <= conf.k
    BY <1>13, LayoutShape
  <2>. QED
    BY <1>12, <2>1
<1>17. DataNum(g) = IF trimmed /\ d > left[g] THEN left[g] ELSE d
  BY <1>9, <1>12
<1>18. CASE trimmed
  <2>1. DataNum(g) = IF d > left[g] THEN left[g] ELSE d
    BY <1>17, <1>18
  <2>. QED
    BY <1>12, <1>14, <1>15, <2>1
<1>19. CASE ~ trimmed
  <2>1. DataNum(g) = d /\ b <= m
    BY <1>2, <1>16, <1>17, <1>19
  <2>. QED
    BY <1>12, <1>15, <2>1
<1>. QED
  BY <1>18, <1>19


\* the reply to an upload of block_num data blocks
Replied ==
  /\ block_num \in Nat /\ block_num <= conf.k
  /\ trimmed \in BOOLEAN /\ (~ trimmed => block_num = conf.k)
  /\ slices = IF trimmed THEN SubsetPlans(block_num) ELSE SetPlans

\* what the three runs of a group are, M being those of its data
ThreeParts(M, G, L, g) ==
  [data   |-> M[g] .. M[g + 1] - 1,
   global |-> G[g] .. G[g + 1] - 1,
   local  |-> L[g] .. L[g + 1] - 1]

\* The client's counts use up what the upload brings to a group, and cut it in
\* its three runs.
LEMMA CountsFit ==
  ASSUME NEW n, NEW D, NEW G, NEW L, Fit(conf), Layout(conf, n, D, G, L),
         block_num \in Nat, block_num <= conf.k, trimmed \in BOOLEAN,
         ~ trimmed => block_num = conf.k,
         NEW M, M = UpTo(D, n, block_num), NEW g \in 0 .. n - 1
  PROVE  /\ Total(Expected(g)) = Cardinality(Brought(g, block_num))
         /\ Total(Expected(g)) # 0 <=> Brought(g, block_num) # {}
         /\ Cut(Brought(g, block_num), Expected(g)) = ThreeParts(M, G, L, g)
<1> DEFINE S == Brought(g, block_num)
<1>1. /\ InTurn(M[g], M[g + 1], G[g], G[g + 1], L[g], L[g + 1])
      /\ S = Runs(M[g], M[g + 1], G[g], G[g + 1], L[g], L[g + 1])
  BY BroughtRuns
<1>. HIDE DEF S
<1>2. PICK m0 \in Nat, m1 \in Nat, e0 \in Nat, e1 \in Nat, l0 \in Nat, l1 \in Nat :
        /\ m0 = M[g] /\ m1 = M[g + 1] /\ e0 = G[g] /\ e1 = G[g + 1]
        /\ l0 = L[g] /\ l1 = L[g + 1] /\ m0 <= m1 /\ e0 <= e1 /\ l0 <= l1
  BY <1>1 DEF InTurn
<1>3. Expected(g) = [data |-> m1 - m0, global |-> e1 - e0, local |-> l1 - l0]
  <2>1. DataNum(g) = m1 - m0
    BY <1>2, DataNumIs
  <2>2. Counted(conf, n, D, G, L, g)
    BY DEF Layout
  <2>3. PICK e, l \in Nat :
          /\ e = get_global_parity_block_num_per_group(conf, g) /\ G[g + 1] = G[g] + e
          /\ l = get_local_parity_block_num_per_group(conf, g) /\ L[g + 1] = L[g] + l
    BY <2>2 DEF Counted
  <2>4. e = e1 - e0 /\ l = l1 - l0
    BY <1>2, <2>3
  <2>. QED
    BY <2>1, <2>3, <2>4 DEF Expected
<1>4. Total(Expected(g)) = (m1 - m0) + (e1 - e0) + (l1 - l0)
  BY <1>3 DEF Total
<1>5. IsFiniteSet(S) /\ Cardinality(S) = (m1 - m0) + (e1 - e0) + (l1 - l0)
  BY <1>1, <1>2, RunsSize
<1>6. Total(Expected(g)) # 0 <=> S # {}
  <2>1. Cardinality(S) = 0 <=> S = {}
    BY <1>5, FS_EmptySet
  <2>. QED
    BY <1>4, <1>5, <2>1
<1>7. /\ Slice(S, 0, m1 - m0) = m0 .. m1 - 1
      /\ Slice(S, m1 - m0, e1 - e0) = e0 .. e1 - 1
      /\ Slice(S, (m1 - m0) + (e1 - e0), l1 - l0) = l0 .. l1 - 1
  <2>1. S = Runs(m0, m1, e0, e1, l0, l1) /\ InTurn(m0, m1, e0, e1, l0, l1)
    BY <1>1, <1>2
  <2>. QED
    BY <2>1, RunsCut
<1>8. Cut(S, Expected(g)) = ThreeParts(M, G, L, g)
  BY <1>2, <1>3, <1>7 DEF Cut, ThreeParts
<1>. QED
  BY <1>4, <1>5, <1>6, <1>8 DEF S

\* K lists, in order, the groups an upload reaches
Reached(n, l, K) ==
  /\ l \in Nat /\ K \in [1 .. l -> 0 .. n - 1]
  /\ \A a, b \in 1 .. l : a < b => K[a] < K[b]
  /\ \A g \in 0 .. n - 1 : Brought(g, block_num) # {} => \E a \in 1 .. l : K[a] = g
  /\ slices = [j \in 1 .. l |-> Brought(K[j], block_num)]
  /\ remove_common_zeros = [j \in 1 .. l |-> Expected(K[j])]

\* Reply and client leave out the same groups.
LEMMA SameGroups ==
  ASSUME NEW n, NEW D, NEW G, NEW L, Fit(conf), Layout(conf, n, D, G, L),
         Replied
  PROVE  \E l, K : Reached(n, l, K)
<1>1. /\ block_num \in Nat /\ block_num <= conf.k
      /\ trimmed \in BOOLEAN /\ (~ trimmed => block_num = conf.k)
      /\ slices = IF trimmed THEN SubsetPlans(block_num) ELSE SetPlans
  BY DEF Replied
<1>2. n \in Nat \ {0} /\ ClientGroups(conf) = n /\ num_groups(conf) = n
  BY LayoutShape, NumGroups
<1>3. Groups = 0 .. n - 1
  BY <1>2 DEF Groups
<1>4. \A g \in 0 .. n - 1 : Total(Expected(g)) # 0 <=> Brought(g, block_num) # {}
  BY <1>1, CountsFit
<1>5. CASE trimmed
  <2> DEFINE S == {g \in Groups : Brought(g, block_num) # {}}
             K == Kept(InOrder(n), S)
  <2>1. {g \in 0 .. ClientGroups(conf) - 1 : Total(Expected(g)) # 0} = S
    BY <1>2, <1>3, <1>4
  <2>2. remove_common_zeros = [j \in 1 .. Len(K) |-> Expected(K[j])]
    BY <1>2, <1>5, <2>1 DEF remove_common_zeros
  <2>3. slices = [j \in 1 .. Len(K) |-> Brought(K[j], block_num)]
    BY <1>1, <1>2, <1>5 DEF SubsetPlans
  <2>4. /\ K \in Seq(0 .. n - 1)
        /\ \A a, b \in 1 .. Len(K) : a < b => K[a] < K[b]
        /\ \A g \in 0 .. n - 1 : g \in S <=> \E a \in 1 .. Len(K) : K[a] = g
    <3>. HIDE DEF S
    <3>. QED
      BY <1>2, KeptGroups
  <2>5. \A g \in 0 .. n - 1 : Brought(g, block_num) # {} => g \in S
    BY <1>3
  <2>. HIDE DEF K, S
  <2>6. Len(K) \in Nat /\ K \in [1 .. Len(K) -> 0 .. n - 1]
    BY <2>4, LenProperties
  <2>7. Reached(n, Len(K), K)
    BY <2>2, <2>3, <2>4, <2>5, <2>6 DEF Reached
  <2>. QED
    BY <2>7
<1>6. CASE ~ trimmed
  <2> DEFINE K == InOrder(n)
  <2>1. Len(K) = n /\ K \in [1 .. n -> 0 .. n - 1] /\ \A j \in 1 .. n : K[j] = j - 1
    BY <1>2 DEF InOrder
  <2>2. remove_common_zeros = [j \in 1 .. n |-> Expected(K[j])]
    <3>1. remove_common_zeros = [j \in 1 .. Len(K) |-> Expected(K[j])]
      BY <1>2, <1>6 DEF remove_common_zeros
    <3>. QED
      BY <2>1, <3>1
  <2>. HIDE DEF K
  <2>3. \A g \in 0 .. n - 1 : group_to_blocks(conf, g) = Brought(g, block_num)
    BY <1>1, <1>6 DEF Brought, IsData
  <2>4. slices = [j \in 1 .. n |-> Brought(K[j], block_num)]
    <3>1. slices = [j \in 1 .. n |-> group_to_blocks(conf, j - 1)]
      BY <1>1, <1>2, <1>6 DEF SetPlans
    <3>2. \A j \in 1 .. n : group_to_blocks(conf, j - 1) = Brought(K[j], block_num)
      BY <1>2, <2>1, <2>3
    <3>. QED
      BY <3>1, <3>2
  <2>5. \A a, b \in 1 .. n : a < b => K[a] < K[b]
    BY <1>2, <2>1
  <2>6. ASSUME NEW g \in 0 .. n - 1 PROVE \E a \in 1 .. n : K[a] = g
    <3>1. g + 1 \in 1 .. n /\ (g + 1) - 1 = g
      BY <1>2
    <3>. QED
      BY <2>1, <3>1
  <2>7. Reached(n, n, K)
    BY <1>2, <2>1, <2>2, <2>4, <2>5, <2>6 DEF Reached
  <2>. QED
    BY <2>7
<1>. QED
  BY <1>1, <1>5, <1>6

\* the runs, by f, of the l groups K lists
RunsOf(f, l, K) == [j \in 1 .. l |-> f[K[j]] .. f[K[j] + 1] - 1]

\* K lists, in order, l of the n groups; those it leaves out have no run
InOrderWhole(n, f, l, K) ==
  /\ n \in Nat /\ f \in [0 .. n -> Nat]
  /\ \A g, h \in 0 .. n : g <= h => f[g] <= f[h]
  /\ l \in Nat /\ K \in [1 .. l -> 0 .. n - 1]
  /\ \A a, b \in 1 .. l : a < b => K[a] < K[b]
  /\ \A g \in 0 .. n - 1 : f[g] < f[g + 1] => \E a \in 1 .. l : K[a] = g

\* the runs of the groups kept adjoin: those left out are empty
LEMMA Adjoining ==
  ASSUME NEW n, NEW f, NEW l, NEW K, InOrderWhole(n, f, l, K)
  PROVE  /\ AscendingRuns(RunsOf(f, l, K))
         /\ Joined(RunsOf(f, l, K)) = f[0] .. f[n] - 1
<1> USE DEF InOrderWhole
<1> DEFINE run == RunsOf(f, l, K)
<1>0. run = [j \in 1 .. l |-> f[K[j]] .. f[K[j] + 1] - 1]
  BY DEF RunsOf
<1>. HIDE DEF run
<1>1. DOMAIN run = 1 .. l
  BY <1>0
<1>2. ASSUME NEW j \in 1 .. l
      PROVE  /\ K[j] \in 0 .. n - 1 /\ K[j] \in 0 .. n /\ K[j] + 1 \in 0 .. n
             /\ f[K[j]] \in Nat /\ f[K[j] + 1] \in Nat
             /\ run[j] = f[K[j]] .. f[K[j] + 1] - 1
             /\ \A x : x \in run[j] <=> x \in Nat /\ f[K[j]] <= x /\ x < f[K[j] + 1]
  <2>1. K[j] \in 0 .. n - 1 /\ K[j] \in 0 .. n /\ K[j] + 1 \in 0 .. n
    OBVIOUS
  <2>2. f[K[j]] \in Nat /\ f[K[j] + 1] \in Nat
    BY <2>1
  <2>3. run[j] = f[K[j]] .. f[K[j] + 1] - 1
    BY <1>0
  <2>4. \A x : x \in run[j] <=> x \in Nat /\ f[K[j]] <= x /\ x < f[K[j] + 1]
    BY <2>2, <2>3, InInterval
  <2>. QED
    BY <2>1, <2>2, <2>3, <2>4
<1>3. ASSUME NEW a \in 1 .. l, NEW b \in 1 .. l, a < b, NEW x \in run[a], NEW y \in run[b]
      PROVE  x < y
  <2>1. x \in Nat /\ x < f[K[a] + 1] /\ f[K[a] + 1] \in Nat
    BY <1>2
  <2>2. y \in Nat /\ f[K[b]] <= y /\ f[K[b]] \in Nat
    BY <1>2
  <2>3. f[K[a] + 1] <= f[K[b]]
    <3>1. K[a] + 1 \in 0 .. n /\ K[b] \in 0 .. n /\ K[a] \in 0 .. n /\ K[a] < K[b]
      BY <1>2, <1>3
    <3>2. K[a] + 1 <= K[b]
      BY <3>1
    <3>. QED
      BY <3>1, <3>2
  <2>4. PICK u \in Nat, v \in Nat : u = f[K[a] + 1] /\ v = f[K[b]]
    BY <2>1, <2>2
  <2>5. x < u /\ u <= v /\ v <= y
    BY <2>1, <2>2, <2>3, <2>4
  <2>. QED
    BY <2>1, <2>2, <2>4, <2>5, SMTT(30)
<1>4. 0 \in 0 .. n /\ n \in 0 .. n /\ f[0] \in Nat /\ f[n] \in Nat
  OBVIOUS
<1>5. ASSUME NEW j \in 1 .. l, NEW x \in run[j] PROVE x \in f[0] .. f[n] - 1
  <2>1. x \in Nat /\ f[K[j]] <= x /\ x < f[K[j] + 1] /\ f[K[j]] \in Nat /\ f[K[j] + 1] \in Nat
    BY <1>2
  <2>2. K[j] \in 0 .. n /\ K[j] + 1 \in 0 .. n
    BY <1>2
  <2>3. f[0] <= f[K[j]] /\ f[K[j] + 1] <= f[n]
    BY <1>4, <2>2
  <2>4. PICK u0 \in Nat, u \in Nat, v \in Nat, w \in Nat :
          u0 = f[0] /\ u = f[K[j]] /\ v = f[K[j] + 1] /\ w = f[n]
    BY <1>4, <2>1
  <2>5. x \in Nat /\ u0 <= x /\ x < w
    <3>1. u0 <= u /\ v <= w
      BY <2>3, <2>4
    <3>2. x \in Nat /\ u <= x /\ x < v
      BY <2>1, <2>4
    <3>. QED
      BY <2>4, <3>1, <3>2, SMTT(30)
  <2>. QED
    BY <2>4, <2>5
<1>6. ASSUME NEW x \in f[0] .. f[n] - 1 PROVE \E j \in 1 .. l : x \in run[j]
  <2>1. x \in Nat /\ f[0] <= x /\ x < f[n]
    BY <1>4
  <2>2. PICK g \in 0 .. n - 1 : f[g] <= x /\ x < f[g + 1]
    BY <2>1, Steps
  <2>3. f[g] \in Nat /\ f[g + 1] \in Nat
    OBVIOUS
  <2>4. f[g] < f[g + 1]
    BY <2>1, <2>2, <2>3
  <2>5. PICK a \in 1 .. l : K[a] = g
    BY <2>4
  <2>6. x \in run[a]
    BY <1>2, <2>1, <2>2, <2>5
  <2>. QED
    BY <2>6
<1>7. AscendingRuns(run)
  BY <1>1, <1>3 DEF AscendingRuns
<1>8. Joined(run) = f[0] .. f[n] - 1
  <2>1. \A x : x \in Joined(run) <=> \E j \in 1 .. l : x \in run[j]
    BY <1>1 DEF Joined
  <2>. QED
    BY <1>5, <1>6, <2>1
<1>. QED
  BY <1>7, <1>8 DEF run


-----------------------------------------------------------------------------
(* The groups a repair asks.                                               *)

\* ids names each of the groups I once
Lists(ids, I) ==
  /\ ids \in Seq(I)
  /\ \A a, b \in 1 .. Len(ids) : a # b => ids[a] # ids[b]
  /\ \A g \in I : \E a \in 1 .. Len(ids) : ids[a] = g

\* A sequence of one lists a set of one.
LEMMA OneListed ==
  ASSUME NEW x
  PROVE  Lists(<<x>>, {x}) /\ Len(<<x>>) = 1
<1>1. <<x>> \in Seq({x}) /\ Len(<<x>>) = 1 /\ <<x>>[1] = x
  OBVIOUS
<1>. QED
  BY <1>1 DEF Lists

\* A list of a set of one is that member.
LEMMA OnlyListed ==
  ASSUME NEW x, NEW ids, Lists(ids, {x})
  PROVE  Len(ids) = 1 /\ ids[1] = x /\ DOMAIN ids = 1 .. 1
<1>1. PICK l \in Nat : l = Len(ids)
  BY LenProperties DEF Lists
<1>2. /\ \A a \in 1 .. l : ids[a] = x
      /\ \A a, b \in 1 .. l : a # b => ids[a] # ids[b]
      /\ \E a \in 1 .. l : ids[a] = x
  <2>1. \A a \in 1 .. l : ids[a] \in {x}
    BY <1>1, ElementOfSeq DEF Lists
  <2>. QED
    BY <1>1, <2>1 DEF Lists
<1>3. l = 1
  <2>1. ASSUME l > 1 PROVE FALSE
    <3>1. 1 \in 1 .. l /\ 2 \in 1 .. l /\ 1 # 2
      BY <1>1, <2>1
    <3>. QED
      BY <1>2, <3>1
  <2>2. l > 0
    BY <1>1, <1>2
  <2>. QED
    BY <1>1, <2>1, <2>2
<1>4. DOMAIN ids = 1 .. Len(ids)
  BY LenProperties DEF Lists
<1>5. ids[1] = x
  <2>1. 1 \in 1 .. l
    BY <1>3
  <2>. QED
    BY <1>2, <2>1
<1>6. Len(ids) = 1
  BY <1>1, <1>3
<1>. QED
  BY <1>4, <1>5, <1>6

\* The groups from a to b, listed in order.
LEMMA IntervalListed ==
  ASSUME NEW a \in Int, NEW b \in Int, a <= b + 1
  PROVE  Lists(Interval(a, b), a .. b) /\ Len(Interval(a, b)) = b - a + 1
<1>1. PICK l \in Nat : l = b - a + 1
  OBVIOUS
<1> DEFINE s == [j \in 1 .. l |-> a + j - 1]
<1>2. Interval(a, b) = s
  BY <1>1 DEF Interval
<1>3. \A j \in 1 .. l : s[j] = a + j - 1 /\ s[j] \in a .. b
  BY <1>1
<1>4. s \in Seq(a .. b) /\ Len(s) = l
  BY <1>3
<1>. HIDE DEF s
<1>5. \A x, y \in 1 .. l : x # y => s[x] # s[y]
  BY <1>3
<1>6. ASSUME NEW g \in a .. b PROVE \E x \in 1 .. l : s[x] = g
  <2>1. PICK x \in 1 .. l : x = g - a + 1
    BY <1>1
  <2>2. s[x] = g
    BY <1>3, <2>1
  <2>. QED
    BY <2>2
<1>. QED
  BY <1>1, <1>2, <1>4, <1>5, <1>6 DEF Lists

\* Lists of two sets apart, joined, list their union.
LEMMA JoinListed ==
  ASSUME NEW I, NEW J, I \intersect J = {}, NEW s, NEW t, Lists(s, I), Lists(t, J)
  PROVE  /\ Lists(s \o t, I \union J)
         /\ Len(s \o t) = Len(s) + Len(t)
         /\ Len(s) \in Nat /\ Len(t) \in Nat
<1> DEFINE u == s \o t
<1>1. s \in Seq(I) /\ t \in Seq(J)
  BY DEF Lists
<1>2. s \in Seq(I \union J) /\ t \in Seq(I \union J)
  BY <1>1, SeqMonotonic
<1>3. PICK l \in Nat, m \in Nat : l = Len(s) /\ m = Len(t)
  BY <1>1, LenProperties
<1>4. /\ u \in Seq(I \union J) /\ Len(u) = l + m
      /\ \A x \in 1 .. l + m : u[x] = IF x <= l THEN s[x] ELSE t[x - l]
  BY <1>2, <1>3, ConcatProperties
<1>. HIDE DEF u
<1>5. ASSUME NEW x \in 1 .. l + m
      PROVE  IF x <= l THEN x \in 1 .. l /\ u[x] = s[x] /\ u[x] \in I
             ELSE x - l \in 1 .. m /\ u[x] = t[x - l] /\ u[x] \in J
  <2>1. CASE x <= l
    <3>1. x \in 1 .. l /\ u[x] = s[x]
      BY <1>3, <1>4, <2>1
    <3>2. s[x] \in I
      BY <1>1, <1>3, <3>1, ElementOfSeq
    <3>. QED
      BY <2>1, <3>1, <3>2
  <2>2. CASE ~ (x <= l)
    <3>1. x - l \in 1 .. m /\ u[x] = t[x - l]
      BY <1>3, <1>4, <2>2
    <3>2. t[x - l] \in J
      BY <1>1, <1>3, <3>1, ElementOfSeq
    <3>. QED
      BY <2>2, <3>1, <3>2
  <2>. QED
    BY <2>1, <2>2
<1>6. ASSUME NEW x \in 1 .. l + m, NEW y \in 1 .. l + m, x # y PROVE u[x] # u[y]
  <2>1. CASE x <= l /\ y <= l
    <3>1. s[x] # s[y]
      BY <1>3, <1>5, <1>6, <2>1 DEF Lists
    <3>. QED
      BY <1>5, <2>1, <3>1
  <2>2. CASE ~ (x <= l) /\ ~ (y <= l)
    <3>1. x - l \in 1 .. m /\ y - l \in 1 .. m /\ x - l # y - l
      BY <1>3, <1>5, <1>6, <2>2
    <3>2. t[x - l] # t[y - l]
      BY <1>3, <3>1 DEF Lists
    <3>. QED
      BY <1>5, <2>2, <3>2
  <2>3. CASE (x <= l /\ ~ (y <= l)) \/ (~ (x <= l) /\ y <= l)
    BY <1>5, <2>3
  <2>. QED
    BY <2>1, <2>2, <2>3
<1>7. ASSUME NEW g \in I \union J PROVE \E x \in 1 .. l + m : u[x] = g
  <2>1. CASE g \in I
    <3>1. PICK x \in 1 .. l : s[x] = g
      BY <1>3, <2>1 DEF Lists
    <3>2. x \in 1 .. l + m /\ u[x] = g
      BY <1>3, <1>4, <3>1
    <3>. QED
      BY <3>2
  <2>2. CASE g \in J
    <3>1. PICK x \in 1 .. m : t[x] = g
      BY <1>3, <2>2 DEF Lists
    <3>2. PICK y \in 1 .. l + m : y = l + x /\ ~ (y <= l) /\ y - l = x
      BY <1>3
    <3>3. u[y] = g
      BY <1>4, <3>1, <3>2
    <3>. QED
      BY <3>3
  <2>. QED
    BY <2>1, <2>2
<1>. QED
  BY <1>3, <1>4, <1>6, <1>7 DEF Lists, u

\* Leaving one out of a list leaves one less.
LEMMA WithoutListed ==
  ASSUME NEW I, NEW ids, Lists(ids, I), NEW x \in I
  PROVE  /\ Lists(Without(ids, x), I \ {x})
         /\ Len(ids) \in Nat /\ Len(Without(ids, x)) = Len(ids) - 1
<1> DEFINE S == {ids[j] : j \in DOMAIN ids} \ {x}
           K == Kept(ids, S)
<1>1. ids \in Seq(I) /\ DOMAIN ids = 1 .. Len(ids)
  BY LenProperties DEF Lists
<1>2. PICK m \in Nat : m = Len(ids)
  BY <1>1, LenProperties
<1>3. /\ \A a \in 1 .. m : ids[a] \in I
      /\ \A a, b \in 1 .. m : a # b => ids[a] # ids[b]
      /\ \A g \in I : \E a \in 1 .. m : ids[a] = g
  BY <1>1, <1>2, ElementOfSeq DEF Lists
<1>4. S = I \ {x}
  BY <1>1, <1>2, <1>3
<1>5. Without(ids, x) = K
  BY DEF Without
<1>. HIDE DEF S
<1>6. K \in Seq(I) /\ \E h : KeptFrom(ids, S, m, K, h)
  BY <1>1, <1>2, KeptAre
<1>7. PICK h : KeptFrom(ids, S, m, K, h)
  BY <1>6
<1>. HIDE DEF K
<1>8. PICK l \in Nat : l = Len(K)
  BY <1>6, LenProperties
<1>9. /\ h \in [1 .. l -> 1 .. m]
      /\ \A a, b \in 1 .. l : a < b => h[a] < h[b]
      /\ \A a \in 1 .. l : K[a] = ids[h[a]] /\ ids[h[a]] \in S
      /\ \A j \in 1 .. m : ids[j] \in S => \E a \in 1 .. l : h[a] = j
  BY <1>7, <1>8 DEF KeptFrom
<1>10. ASSUME NEW a \in 1 .. l, NEW b \in 1 .. l, a # b PROVE h[a] # h[b]
  <2>1. a < b \/ b < a
    BY <1>10
  <2>2. h[a] \in 1 .. m /\ h[b] \in 1 .. m
    BY <1>9
  <2>3. h[a] < h[b] \/ h[b] < h[a]
    BY <1>9, <2>1
  <2>. QED
    BY <2>2, <2>3
<1>11. PICK p \in 1 .. m : ids[p] = x
  BY <1>3
<1>12. \A a \in 1 .. l : h[a] \in (1 .. m) \ {p}
  BY <1>4, <1>9, <1>11
<1>13. \A j \in (1 .. m) \ {p} : \E a \in 1 .. l : h[a] = j
  <2> SUFFICES ASSUME NEW j \in (1 .. m) \ {p} PROVE \E a \in 1 .. l : h[a] = j
    OBVIOUS
  <2>1. ids[j] \in S
    BY <1>3, <1>4, <1>11
  <2>. QED
    BY <1>9, <2>1
<1>14. l = m - 1
  <2>1. h \in Bijection(1 .. l, (1 .. m) \ {p})
    BY <1>9, <1>10, <1>12, <1>13 DEF Bijection, Injection, Surjection, IsInjective
  <2>2. ExistsBijection(1 .. l, (1 .. m) \ {p})
    BY <2>1 DEF ExistsBijection
  <2>3. Cardinality((1 .. m) \ {p}) = l
    BY <2>2, FS_CountingElements
  <2>4. IsFiniteSet(1 .. m) /\ Cardinality(1 .. m) = m
    <3>1. 1 \in Int /\ m \in Int /\ m >= 0
      OBVIOUS
    <3>2. IsFiniteSet(1 .. m) /\ Cardinality(1 .. m) = IF 1 > m THEN 0 ELSE m - 1 + 1
      BY <3>1, FS_Interval
    <3>. QED
      BY <3>2
  <2>5. Cardinality((1 .. m) \ {p}) = Cardinality(1 .. m) - 1
    BY <2>4, FS_RemoveElement
  <2>. QED
    BY <2>3, <2>4, <2>5
<1>15. \A a \in 1 .. l : K[a] \in I \ {x}
  BY <1>4, <1>9
<1>16. K \in Seq(I \ {x})
  BY <1>6, <1>8, <1>15
<1>17. ASSUME NEW a \in 1 .. l, NEW b \in 1 .. l, a # b PROVE K[a] # K[b]
  <2>1. h[a] # h[b]
    BY <1>10, <1>17
  <2>2. h[a] \in 1 .. m /\ h[b] \in 1 .. m /\ K[a] = ids[h[a]] /\ K[b] = ids[h[b]]
    BY <1>9
  <2>. QED
    BY <1>3, <2>1, <2>2
<1>18. ASSUME NEW g \in I \ {x} PROVE \E a \in 1 .. l : K[a] = g
  <2>1. PICK j \in 1 .. m : ids[j] = g
    BY <1>3
  <2>2. PICK a \in 1 .. l : h[a] = j
    BY <1>4, <1>9, <2>1
  <2>. QED
    BY <1>9, <2>1, <2>2
<1>. QED
  BY <1>2, <1>5, <1>8, <1>14, <1>16, <1>17, <1>18 DEF Lists


-----------------------------------------------------------------------------
(* The equations of a local parity and the groups that keep them.          *)

\* The quotient of x is g when x is in the run from g * d.
LEMMA QuotientIs ==
  ASSUME NEW d \in Nat \ {0}, NEW x \in Nat, NEW g \in Nat
  PROVE  x \div d = g <=> g * d <= x /\ x < g * d + d
<1>1. g * d <= x /\ x < g * d + d => x \div d = g
  BY RunOf
<1>2. ASSUME x \div d = g PROVE g * d <= x /\ x < g * d + d
  <2>1. PICK o \in 0 .. d - 1 : o = x % d
    BY Divided
  <2>2. x = g * d + o
    BY <1>2, <2>1, Divided
  <2>3. PICK v \in Nat : v = g * d
    BY Multiples
  <2>. QED
    BY <2>1, <2>2, <2>3
<1>. QED
  BY <1>1, <1>2

\* The quotient of a number below m * d is below m.
LEMMA QuotientBelow ==
  ASSUME NEW d \in Nat \ {0}, NEW x \in Nat, NEW m \in Nat, x < m * d
  PROVE  x \div d \in Nat /\ x \div d < m
<1>1. PICK g \in Nat : g = x \div d
  BY Divided
<1>2. PICK v \in Nat, u \in Nat : v = g * d /\ u = m * d
  BY Multiples
<1>3. v <= x /\ x < u
  BY <1>1, <1>2, QuotientIs
<1>4. m <= g => u <= v
  BY <1>2, Multiples
<1>. QED
  BY <1>1, <1>3, <1>4

\* the blocks of equation l are those of the groups I
KeptBy(c, l, I) ==
  \A b \in Blocks(c) : b \in Equation(c, l) <=> map2group(c, b) \in I

TwoBlocks(c, g) == \E a, b \in group_to_blocks(c, g) : a # b

\* UniLRC: group l keeps equation l.
LEMMA UniEquation ==
  ASSUME NEW c, Fit(c), c.CodeType = "UniLRC", NEW l \in 0 .. c.z - 1
  PROVE  KeptBy(c, l, {l}) /\ TwoBlocks(c, l)
<1>1. PICK k \in Nat, r \in Nat, z \in Nat : k = c.k /\ r = c.r /\ z = c.z
  BY DEF Fit
<1>2. z > 1 /\ k > 0 /\ k % z = 0 /\ r % z = 0
  BY <1>1 DEF Fit, Supported
<1>3. PICK s \in Nat, a \in Nat : s = k \div z /\ a = r \div z /\ k = s * z /\ r = a * z
  BY <1>2, Exactly
<1>4. s > 0
  <2>1. s = 0 => s * z = 0
    OBVIOUS
  <2>. QED
    BY <1>2, <1>3, <2>1
<1>5. PICK h \in Nat : h = l /\ h < z
  BY <1>1
<1>6. PICK v \in Nat, x \in Nat : v = h * a /\ x = h * s
  BY Multiples
<1>7. (h * r) \div z = v
  <2>1. h * (a * z) = (h * a) * z
    OBVIOUS
  <2>2. h * r = v * z + 0 /\ 0 \in 0 .. z - 1 /\ z \in Nat \ {0}
    BY <1>2, <1>3, <1>6, <2>1
  <2>3. (v * z + 0) \div z = v
    BY <2>2, DivUnique
  <2>. QED
    BY <2>2, <2>3
<1>8. v + a <= r
  <2>1. a * z = z * a
    OBVIOUS
  <2>2. CASE a = 0
    BY <1>6, <2>2
  <2>3. CASE a # 0
    <3>1. h * a + a <= z * a
      BY <1>5, <2>3, Multiples
    <3>. QED
      BY <1>3, <1>6, <2>1, <3>1
  <2>. QED
    BY <2>2, <2>3
<1>9. \A b \in Blocks(c) : b \in Nat /\ b < k + r + z
  BY <1>1 DEF Blocks, N
<1>10. EncoderGlobals(c, l) = {b \in Blocks(c) : k + v <= b /\ b < k + v + a}
  BY <1>1, <1>3, <1>5, <1>7, <1>9 DEF EncoderGlobals
<1>11. \A b \in Blocks(c) : b \in Equation(c, l) <=>
         (b < k /\ b \div s = h) \/ (k + v <= b /\ b < k + v + a) \/ b = k + r + h
  BY <1>1, <1>3, <1>5, <1>10 DEF Equation, EncoderRow, IsData, LocalSize
<1>12. ASSUME NEW b \in Blocks(c)
       PROVE  /\ b < k => map2group(c, b) = b \div s
              /\ k <= b /\ b < k + r => map2group(c, b) = (b - k) \div a
              /\ k + r <= b => map2group(c, b) = b - k - r
  <2>1. map2group(c, b) = AzureGroup(c, b)
    BY DEF map2group
  <2>2. b \in Nat
    BY <1>9
  <2>3. /\ IsData(c, b) <=> b < k
        /\ IsGlobal(c, b) <=> k <= b /\ b < k + r
        /\ IsLocal(c, b) <=> k + r <= b
    BY <1>1 DEF IsData, IsGlobal, IsLocal
  <2>4. ASSUME b < k PROVE AzureGroup(c, b) = b \div s
    <3>1. ~ (k <= b /\ b < k + r) /\ ~ (k + r <= b)
      BY <2>2, <2>4
    <3>. QED
      BY <1>1, <1>3, <2>3, <2>4, <3>1 DEF AzureGroup, LocalSize
  <2>5. ASSUME k <= b, b < k + r PROVE AzureGroup(c, b) = (b - k) \div a
    <3>1. ~ (b < k) /\ ~ (k + r <= b)
      BY <2>2, <2>5
    <3>. QED
      BY <1>1, <1>3, <2>3, <2>5, <3>1 DEF AzureGroup
  <2>6. ASSUME k + r <= b PROVE AzureGroup(c, b) = b - k - r
    <3>1. ~ (b < k) /\ ~ (k <= b /\ b < k + r)
      BY <2>2, <2>6
    <3>. QED
      BY <1>1, <2>3, <2>6, <3>1 DEF AzureGroup, LocalId
  <2>. QED
    BY <2>1, <2>4, <2>5, <2>6
<1>13. ASSUME NEW b \in Blocks(c) PROVE b \in Equation(c, l) <=> map2group(c, b) \in {l}
  <2>1. b \in Nat
    BY <1>9
  <2>2. CASE b < k
    BY <1>5, <1>6, <1>11, <1>12, <2>1, <2>2
  <2>3. CASE k <= b /\ b < k + r
    <3>1. a # 0
      <4>1. a = 0 => a * z = 0
        OBVIOUS
      <4>. QED
        BY <1>3, <2>1, <2>3, <4>1
    <3>2. PICK y \in Nat : y = b - k
      BY <2>1, <2>3
    <3>3. y \div a = h <=> v <= y /\ y < v + a
      BY <1>6, <3>1, QuotientIs
    <3>4. b \in Equation(c, l) <=> v <= y /\ y < v + a
      BY <1>11, <2>1, <2>3, <3>2
    <3>5. map2group(c, b) = y \div a
      BY <1>12, <2>3, <3>2
    <3>. QED
      BY <1>5, <3>3, <3>4, <3>5
  <2>4. CASE k + r <= b
    <3>1. b \in Equation(c, l) <=> b = k + r + h
      BY <1>8, <1>11, <2>1, <2>4
    <3>2. map2group(c, b) = b - k - r
      BY <1>12, <2>4
    <3>. QED
      BY <1>5, <2>1, <3>1, <3>2
  <2>. QED
    BY <2>1, <2>2, <2>3, <2>4
<1>14. TwoBlocks(c, l)
  <2>1. x < k /\ x \div s = h
    <3>1. h * s + s <= z * s /\ z * s = s * z
      BY <1>4, <1>5, Multiples
    <3>2. x + s <= k
      BY <1>3, <1>6, <3>1
    <3>3. x \div s = h
      BY <1>4, <1>6, RunOf
    <3>. QED
      BY <1>4, <3>2, <3>3
  <2>2. x \in Blocks(c) /\ k + r + h \in Blocks(c)
    BY <1>1, <1>5, <2>1 DEF Blocks, N
  <2>3. map2group(c, x) = l /\ map2group(c, k + r + h) = l
    BY <1>5, <1>12, <2>1, <2>2
  <2>4. x # k + r + h
    BY <2>1
  <2>. QED
    BY <2>2, <2>3, <2>4 DEF TwoBlocks, group_to_blocks
<1>. QED
  BY <1>13, <1>14 DEF KeptBy

\* AzureLRC: group l < z keeps equation l, and group z the global parities.
LEMMA AzureEquation ==
  ASSUME NEW c, Fit(c), c.CodeType = "AzureLRC", NEW l \in 0 .. c.z - 1
  PROVE  KeptBy(c, l, {l}) /\ TwoBlocks(c, l)
<1>1. PICK k \in Nat, r \in Nat, z \in Nat : k = c.k /\ r = c.r /\ z = c.z
  BY DEF Fit
<1>2. z > 1 /\ k > 0 /\ k % z = 0
  BY <1>1 DEF Fit, Supported
<1>3. PICK s \in Nat : s = k \div z /\ k = s * z
  BY <1>2, Exactly
<1>4. s > 0
  <2>1. s = 0 => s * z = 0
    OBVIOUS
  <2>. QED
    BY <1>2, <1>3, <2>1
<1>5. PICK h \in Nat : h = l /\ h < z
  BY <1>1
<1>6. PICK x \in Nat : x = h * s
  BY Multiples
<1>9. \A b \in Blocks(c) : b \in Nat /\ b < k + r + z
  BY <1>1 DEF Blocks, N
<1>11. \A b \in Blocks(c) : b \in Equation(c, l) <=>
         (b < k /\ b \div s = h) \/ b = k + r + h
  BY <1>1, <1>3, <1>5 DEF Equation, EncoderGlobals, EncoderRow, IsData, LocalSize
<1>12. ASSUME NEW b \in Blocks(c)
       PROVE  /\ b < k => map2group(c, b) = b \div s
              /\ k <= b /\ b < k + r => map2group(c, b) = z
              /\ k + r <= b => map2group(c, b) = b - k - r
  <2>1. map2group(c, b) = AzureGroup(c, b)
    BY DEF map2group
  <2>2. b \in Nat
    BY <1>9
  <2>3. /\ IsData(c, b) <=> b < k
        /\ IsGlobal(c, b) <=> k <= b /\ b < k + r
        /\ IsLocal(c, b) <=> k + r <= b
    BY <1>1 DEF IsData, IsGlobal, IsLocal
  <2>4. ASSUME b < k PROVE AzureGroup(c, b) = b \div s
    <3>1. ~ (k <= b /\ b < k + r) /\ ~ (k + r <= b)
      BY <2>2, <2>4
    <3>. QED
      BY <1>1, <1>3, <2>3, <2>4, <3>1 DEF AzureGroup, LocalSize
  <2>5. ASSUME k <= b, b < k + r PROVE AzureGroup(c, b) = z
    <3>1. ~ (b < k) /\ ~ (k + r <= b)
      BY <2>2, <2>5
    <3>. QED
      BY <1>1, <1>3, <2>3, <2>5, <3>1 DEF AzureGroup
  <2>6. ASSUME k + r <= b PROVE AzureGroup(c, b) = b - k - r
    <3>1. ~ (b < k) /\ ~ (k <= b /\ b < k + r)
      BY <2>2, <2>6
    <3>. QED
      BY <1>1, <2>3, <2>6, <3>1 DEF AzureGroup, LocalId
  <2>. QED
    BY <2>1, <2>4, <2>5, <2>6
<1>13. ASSUME NEW b \in Blocks(c) PROVE b \in Equation(c, l) <=> map2group(c, b) \in {l}
  <2>1. b \in Nat
    BY <1>9
  <2>2. CASE b < k
    BY <1>5, <1>11, <1>12, <2>1, <2>2
  <2>3. CASE k <= b /\ b < k + r
    BY <1>5, <1>11, <1>12, <2>1, <2>3
  <2>4. CASE k + r <= b
    <3>1. b \in Equation(c, l) <=> b = k + r + h
      BY <1>11, <2>1, <2>4
    <3>2. map2group(c, b) = b - k - r
      BY <1>12, <2>4
    <3>. QED
      BY <1>5, <2>1, <3>1, <3>2
  <2>. QED
    BY <2>1, <2>2, <2>3, <2>4
<1>14. TwoBlocks(c, l)
  <2>1. x < k /\ x \div s = h
    <3>1. h * s + s <= z * s /\ z * s = s * z
      BY <1>4, <1>5, Multiples
    <3>2. x + s <= k
      BY <1>3, <1>6, <3>1
    <3>3. x \div s = h
      BY <1>4, <1>6, RunOf
    <3>. QED
      BY <1>4, <3>2, <3>3
  <2>2. x \in Blocks(c) /\ k + r + h \in Blocks(c)
    BY <1>1, <1>5, <2>1 DEF Blocks, N
  <2>3. map2group(c, x) = l /\ map2group(c, k + r + h) = l
    BY <1>5, <1>12, <2>1, <2>2
  <2>4. x # k + r + h
    BY <2>1
  <2>. QED
    BY <2>2, <2>3, <2>4 DEF TwoBlocks, group_to_blocks
<1>. QED
  BY <1>13, <1>14 DEF KeptBy

\* UniformLRC: group l keeps equation l, the last with the global parities.
LEMMA UniformEquation ==
  ASSUME NEW c, Fit(c), c.CodeType = "UniformLRC", NEW l \in 0 .. c.z - 1
  PROVE  KeptBy(c, l, {l}) /\ TwoBlocks(c, l)
<1>1. PICK k, r, z \in Nat \ {0} :
        /\ k = c.k /\ r = c.r /\ z = c.z /\ z > 1 /\ k = (z - 1) * r /\ k + r = z * r
        /\ UniformSmall(c) = r /\ UniformLarger(c) = 0 /\ UniformSmalls(c) = z
  BY UniformNumbers
<1>2. PICK h \in Nat : h = l /\ h < z
  BY <1>1
<1>3. PICK x \in Nat : x = h * r
  BY Multiples
<1>4. \A b \in Blocks(c) : b \in Nat /\ b < k + r + z
  BY <1>1 DEF Blocks, N
<1>5. \A b \in Blocks(c) : map2group(c, b) = UniformGroup(c, b)
  BY DEF map2group
<1>6. ASSUME NEW b \in Nat, b < k + r
      PROVE  b \div r \in Nat /\ b \div r < z /\ UniformGroup(c, b) = b \div r
             /\ (b < k <=> b \div r < z - 1)
  <2>1. PICK g \in Nat : g = b \div r /\ g < z
    BY <1>1, <1>6, QuotientBelow
  <2>2. g * r <= b /\ b < g * r + r
    BY <2>1, QuotientIs
  <2>3. g \in 0 .. c.z - 1
    BY <1>1, <2>1
  <2>5. \A y \in Nat : g * c.r <= y /\ y < g * c.r + c.r =>
          UniformGroup(c, y) = g /\ (y < c.k <=> g < c.z - 1)
    BY <2>3, UniformAt
  <2>4. UniformGroup(c, b) = g /\ (b < c.k <=> g < c.z - 1)
    BY <1>1, <2>2, <2>5
  <2>. QED
    BY <1>1, <2>1, <2>4
<1>7. ASSUME NEW g \in Nat, g < z PROVE UniformGroup(c, k + r + g) = g
  <2>1. g \in 0 .. c.z - 1
    BY <1>1, <1>7
  <2>2. UniformGroup(c, c.k + c.r + g) = g
    BY <2>1, UniformAt
  <2>. QED
    BY <1>1, <2>2
<1>8. EncoderGlobals(c, l) = {b \in Blocks(c) : k <= b /\ b < k + r /\ h = z - 1}
  BY <1>1, <1>2 DEF EncoderGlobals, IsGlobal
<1>9. ASSUME NEW b \in Blocks(c), b < k PROVE EncoderRow(c, b) = b \div r
  <2>1. UniformSmalls(c) * UniformSmall(c) = k + r /\ b < k + r
    BY <1>1, <1>4, <1>9
  <2>. QED
    BY <1>1, <2>1 DEF EncoderRow
<1>10. \A b \in Blocks(c) : b \in Equation(c, l) <=>
         (b < k /\ b \div r = h) \/ (k <= b /\ b < k + r /\ h = z - 1) \/ b = k + r + h
  BY <1>1, <1>2, <1>8, <1>9 DEF Equation, IsData
<1>11. ASSUME NEW b \in Blocks(c) PROVE b \in Equation(c, l) <=> map2group(c, b) \in {l}
  <2>1. b \in Nat /\ b < k + r + z
    BY <1>4
  <2>2. CASE b < k
    BY <1>2, <1>5, <1>6, <1>10, <2>1, <2>2
  <2>3. CASE k <= b /\ b < k + r
    <3>1. PICK g \in Nat : g = b \div r /\ g < z /\ map2group(c, b) = g /\ ~ (g < z - 1)
      BY <1>5, <1>6, <2>1, <2>3
    <3>2. g = z - 1
      BY <3>1
    <3>3. b \in Equation(c, l) <=> h = z - 1
      BY <1>10, <2>1, <2>3
    <3>. QED
      BY <1>2, <3>1, <3>2, <3>3
  <2>4. CASE k + r <= b
    <3>1. PICK g \in Nat : g = b - k - r /\ g < z /\ b = k + r + g
      BY <2>1, <2>4
    <3>2. map2group(c, b) = g
      BY <1>5, <1>7, <3>1
    <3>3. b \in Equation(c, l) <=> b = k + r + h
      BY <1>10, <2>1, <2>4
    <3>. QED
      BY <1>2, <3>1, <3>2, <3>3
  <2>. QED
    BY <2>1, <2>2, <2>3, <2>4
<1>12. TwoBlocks(c, l)
  <2>1. x < k + r /\ x \div r = h
    <3>1. h * r + r <= z * r
      BY <1>1, <1>2, Multiples
    <3>2. x + r <= k + r
      BY <1>1, <1>3, <3>1
    <3>3. x \div r = h
      BY <1>3, RunOf
    <3>. QED
      BY <3>2, <3>3
  <2>2. x \in Blocks(c) /\ k + r + h \in Blocks(c)
    BY <1>1, <1>2, <2>1 DEF Blocks, N
  <2>3. map2group(c, x) = l /\ map2group(c, k + r + h) = l
    BY <1>2, <1>5, <1>6, <1>7, <2>1, <2>2
  <2>4. x # k + r + h
    BY <2>1
  <2>. QED
    BY <2>2, <2>3, <2>4 DEF TwoBlocks, group_to_blocks
<1>. QED
  BY <1>11, <1>12 DEF KeptBy


\* the groups of local group l of an OptimalLRC stripe, and that of the global
\* parities
OptimalGroups(c, l) ==
  (l * PerLocal(c) .. l * PerLocal(c) + PerLocal(c) - 1) \union {c.z * PerLocal(c)}

\* where a block of an OptimalLRC stripe is
LEMMA OptimalPlace ==
  ASSUME NEW c, Fit(c), c.CodeType = "OptimalLRC", NEW b \in Blocks(c)
  PROVE  /\ b \in Nat
         /\ IsData(c, b) => \E l \in 0 .. c.z - 1, e \in 0 .. PerLocal(c) - 1 :
              /\ b \div LocalSize(c) = l /\ (b % LocalSize(c)) \div (c.r + 1) = e
              /\ map2group(c, b) = l * PerLocal(c) + e
         /\ IsGlobal(c, b) => map2group(c, b) = c.z * PerLocal(c)
         /\ IsLocal(c, b) =>
              /\ LocalId(c, b) \in 0 .. c.z - 1
              /\ map2group(c, b) = LocalId(c, b) * PerLocal(c) + (PerLocal(c) - 1)
              /\ map2group(c, b) = (LocalId(c, b) + 1) * PerLocal(c) - 1
<1>1. PICK k, r, z, s, w, q \in Nat \ {0} :
           /\ k = c.k /\ r = c.r /\ z = c.z /\ z > 1 /\ w = r + 1 /\ r > 1
           /\ LocalSize(c) = s /\ k = z * s
           /\ PerLocal(c) = q /\ ClientPerLocal(c) = q
           /\ \E m, o \in Nat : m = (q - 1) * w /\ o < w /\ o > 0 /\ s = m + o /\ s % w = o
           /\ z * q + 1 < c.ClusterNum /\ w < c.DatanodeNumPerCluster
  BY OptimalNumbers
<1>2. b \in Nat /\ b < k + r + z
  <2>1. k = c.k /\ r = c.r /\ z = c.z
    BY <1>1
  <2>. QED
    BY <2>1, BlockKinds
<1>3. map2group(c, b) = OptimalGroup(c, b)
  BY DEF map2group
<1>4. s < q * w
  <2>1. (q - 1) * w + w <= q * w /\ q - 1 \in Nat
    BY Multiples
  <2>. QED
    BY <1>1, <2>1
<1>5. ASSUME IsData(c, b)
      PROVE  \E l \in 0 .. c.z - 1, e \in 0 .. PerLocal(c) - 1 :
               /\ b \div LocalSize(c) = l /\ (b % LocalSize(c)) \div (c.r + 1) = e
               /\ map2group(c, b) = l * PerLocal(c) + e
  <2>1. b < z * s
    BY <1>1, <1>5 DEF IsData
  <2>2. PICK l \in Nat : l = b \div s /\ l < z
    BY <1>2, <2>1, QuotientBelow
  <2>3. PICK y \in Nat : y = b % s /\ y < s
    <3>1. b % s \in 0 .. s - 1
      BY <1>2, Divided
    <3>. QED
      BY <3>1
  <2>4. PICK e \in Nat : e = y \div w /\ e < q
    <3>1. y < q * w
      <4>1. PICK u \in Nat : u = q * w
        BY Multiples
      <4>. QED
        BY <1>4, <2>3, <4>1
    <3>. QED
      BY <3>1, QuotientBelow
  <2>5. OptimalGroup(c, b) = e + l * q
    <3>1. ~ IsGlobal(c, b) /\ ~ IsLocal(c, b)
      BY <1>1, <1>2, <1>5 DEF IsData, IsGlobal, IsLocal
    <3>2. OptimalGroup(c, b) = (b % LocalSize(c)) \div (c.r + 1)
                               + (b \div LocalSize(c)) * PerLocal(c)
      BY <1>5, <3>1 DEF OptimalGroup
    <3>. QED
      BY <1>1, <2>2, <2>3, <2>4, <3>2
  <2>6. e + l * q = l * q + e
    OBVIOUS
  <2>7. l \in 0 .. c.z - 1 /\ e \in 0 .. PerLocal(c) - 1
    BY <1>1, <2>2, <2>4
  <2>8. b \div LocalSize(c) = l /\ (b % LocalSize(c)) \div (c.r + 1) = e
    BY <1>1, <2>2, <2>3, <2>4
  <2>9. map2group(c, b) = l * PerLocal(c) + e
    BY <1>1, <1>3, <2>5, <2>6
  <2>. QED
    BY <2>7, <2>8, <2>9
<1>6. ASSUME IsGlobal(c, b) PROVE map2group(c, b) = c.z * PerLocal(c)
  <2>1. ~ IsData(c, b) /\ ~ IsLocal(c, b)
    BY <1>1, <1>2, <1>6 DEF IsData, IsGlobal, IsLocal
  <2>. QED
    BY <1>3, <1>6, <2>1 DEF OptimalGroup
<1>7. ASSUME IsLocal(c, b)
      PROVE  /\ LocalId(c, b) \in 0 .. c.z - 1
             /\ map2group(c, b) = LocalId(c, b) * PerLocal(c) + (PerLocal(c) - 1)
             /\ map2group(c, b) = (LocalId(c, b) + 1) * PerLocal(c) - 1
  <2>1. ~ IsData(c, b) /\ ~ IsGlobal(c, b)
    BY <1>1, <1>2, <1>7 DEF IsData, IsGlobal, IsLocal
  <2>2. PICK l \in Nat : l = LocalId(c, b) /\ l < z
    <3>1. k = c.k /\ r = c.r
      BY <1>1
    <3>2. k + r <= b
      BY <1>7, <3>1 DEF IsLocal
    <3>3. b - k - r \in Nat /\ b - k - r < z
      BY <1>2, <3>2
    <3>. QED
      BY <3>1, <3>3 DEF LocalId
  <2>3. map2group(c, b) = (l + 1) * q - 1
    BY <1>1, <1>3, <1>7, <2>1, <2>2 DEF OptimalGroup
  <2>4. (l + 1) * q - 1 = l * q + (q - 1)
    OBVIOUS
  <2>. QED
    BY <1>1, <2>2, <2>3, <2>4
<1>. QED
  BY <1>2, <1>5, <1>6, <1>7

\* the groups of two local groups do not meet
LEMMA OptimalApart ==
  ASSUME NEW q \in Nat \ {0}, NEW z \in Nat, NEW l \in 0 .. z - 1, NEW h \in 0 .. z - 1,
         NEW e \in 0 .. q - 1
  PROVE  /\ h * q + e \in Nat /\ h * q + e < z * q
         /\ h * q + e \in l * q .. l * q + q - 1 <=> h = l
<1>1. l \in Nat /\ h \in Nat /\ h < z
  OBVIOUS
<1>2. PICK u \in Nat, v \in Nat, x \in Nat : u = l * q /\ v = h * q /\ x = z * q
  BY <1>1, Multiples
<1>3. PICK y \in Nat : y = h * q + e /\ y = v + e
  BY <1>2
<1>4. y \div q = h
  BY <1>1, <1>3, DivUnique
<1>5. y \div q = l <=> l * q <= y /\ y < l * q + q
  BY <1>1, <1>3, QuotientIs
<1>6. v + q <= x
  BY <1>1, <1>2, Multiples
<1>7. y \in u .. u + q - 1 <=> u <= y /\ y < u + q
  OBVIOUS
<1>. QED
  BY <1>2, <1>3, <1>4, <1>5, <1>6, <1>7

\* OptimalLRC: the groups of local group l, with that of the global parities,
\* keep equation l.
LEMMA OptimalEquation ==
  ASSUME NEW c, Fit(c), c.CodeType = "OptimalLRC", NEW l \in 0 .. c.z - 1
  PROVE  KeptBy(c, l, OptimalGroups(c, l))
<1>1. PICK k, r, z, s, w, q \in Nat \ {0} :
           /\ k = c.k /\ r = c.r /\ z = c.z /\ z > 1 /\ w = r + 1 /\ r > 1
           /\ LocalSize(c) = s /\ k = z * s
           /\ PerLocal(c) = q /\ ClientPerLocal(c) = q
           /\ \E m, o \in Nat : m = (q - 1) * w /\ o < w /\ o > 0 /\ s = m + o /\ s % w = o
           /\ z * q + 1 < c.ClusterNum /\ w < c.DatanodeNumPerCluster
  BY OptimalNumbers
<1>2. \A b \in Blocks(c) : b \in Nat /\ b < k + r + z
  <2>1. k = c.k /\ r = c.r /\ z = c.z
    BY <1>1
  <2>. QED
    BY <2>1, BlockKinds
<1>3. l \in 0 .. z - 1 /\ l \in Nat
  BY <1>1
<1>4. EncoderGlobals(c, l) = {b \in Blocks(c) : IsGlobal(c, b)}
  BY DEF EncoderGlobals
<1>5. \A b \in Blocks(c) : b \in Equation(c, l) <=>
         (IsData(c, b) /\ b \div s = l) \/ IsGlobal(c, b) \/ b = k + r + l
  BY <1>1, <1>4 DEF Equation, EncoderRow
<1>6. OptimalGroups(c, l) = (l * q .. l * q + q - 1) \union {z * q}
  BY <1>1 DEF OptimalGroups
<1>7. ASSUME NEW b \in Blocks(c)
      PROVE  b \in Equation(c, l) <=> map2group(c, b) \in OptimalGroups(c, l)
  <2>1. b \in Nat /\ b < k + r + z
    BY <1>2
  <2>2. CASE IsData(c, b)
    <3>1. PICK h \in 0 .. z - 1, e \in 0 .. q - 1 : b \div s = h /\ map2group(c, b) = h * q + e
      <4>1. \E h \in 0 .. c.z - 1, e \in 0 .. PerLocal(c) - 1 :
              /\ b \div LocalSize(c) = h /\ (b % LocalSize(c)) \div (c.r + 1) = e
              /\ map2group(c, b) = h * PerLocal(c) + e
        BY <2>2, OptimalPlace
      <4>2. \E h \in 0 .. z - 1, e \in 0 .. q - 1 : b \div s = h /\ map2group(c, b) = h * q + e
        BY <1>1, <4>1
      <4>. QED
        BY <4>2
    <3>2. h * q + e < z * q /\ h * q + e \in Nat /\ (h * q + e \in l * q .. l * q + q - 1 <=> h = l)
      BY <1>3, <3>1, OptimalApart
    <3>3. h * q + e # z * q
      <4>1. PICK u \in Nat : u = z * q
        BY Multiples
      <4>. QED
        BY <3>2, <4>1
    <3>4. ~ IsGlobal(c, b) /\ b # k + r + l
      BY <1>1, <1>3, <2>1, <2>2 DEF IsData, IsGlobal
    <3>5. b \in Equation(c, l) <=> h = l
      BY <1>5, <2>2, <3>1, <3>4
    <3>. QED
      BY <1>6, <3>1, <3>2, <3>3, <3>5
  <2>3. CASE IsGlobal(c, b)
    BY <1>1, <1>5, <1>6, <2>3, OptimalPlace
  <2>4. CASE IsLocal(c, b)
    <3>1. PICK h \in 0 .. z - 1 : h = LocalId(c, b) /\ map2group(c, b) = h * q + (q - 1)
      BY <1>1, <2>4, OptimalPlace
    <3>2. PICK e \in 0 .. q - 1 : e = q - 1
      OBVIOUS
    <3>3. h * q + e < z * q /\ h * q + e \in Nat /\ (h * q + e \in l * q .. l * q + q - 1 <=> h = l)
      BY <1>3, OptimalApart
    <3>4. h * q + e # z * q
      <4>1. PICK u \in Nat : u = z * q
        BY Multiples
      <4>. QED
        BY <3>3, <4>1
    <3>5. ~ IsData(c, b) /\ ~ IsGlobal(c, b) /\ (b = k + r + l <=> h = l)
      <4>1. k + r <= b /\ h = b - k - r
        BY <1>1, <2>4, <3>1 DEF IsLocal, LocalId
      <4>2. ~ (b < k) /\ ~ (b < k + r) /\ (b = k + r + l <=> h = l)
        BY <1>3, <2>1, <4>1
      <4>. QED
        BY <1>1, <4>2 DEF IsData, IsGlobal
    <3>6. b \in Equation(c, l) <=> h = l
      BY <1>5, <3>5
    <3>. QED
      BY <1>6, <3>1, <3>2, <3>3, <3>4, <3>6
  <2>5. IsData(c, b) \/ IsGlobal(c, b) \/ IsLocal(c, b)
    BY <1>1, <2>1 DEF IsData, IsGlobal, IsLocal
  <2>. QED
    BY <2>2, <2>3, <2>4, <2>5
<1>. QED
  BY <1>7 DEF KeptBy


\* OptimalLRC names the groups of a local group, and that of the global
\* parities.
LEMMA OptimalIds ==
  ASSUME NEW c, Fit(c), c.CodeType = "OptimalLRC", NEW f \in Blocks(c)
  PROVE  \E l \in 0 .. c.z - 1 :
           /\ Lists(OptimalRecovery(c, f), OptimalGroups(c, l))
           /\ map2group(c, f) \in OptimalGroups(c, l)
<1>1. PICK k, r, z, s, w, q \in Nat \ {0} :
           /\ k = c.k /\ r = c.r /\ z = c.z /\ z > 1 /\ w = r + 1 /\ r > 1
           /\ LocalSize(c) = s /\ k = z * s
           /\ PerLocal(c) = q /\ ClientPerLocal(c) = q
           /\ \E m, o \in Nat : m = (q - 1) * w /\ o < w /\ o > 0 /\ s = m + o /\ s % w = o
           /\ z * q + 1 < c.ClusterNum /\ w < c.DatanodeNumPerCluster
  BY OptimalNumbers
<1>2. \A l : OptimalGroups(c, l) = (l * q .. l * q + q - 1) \union {z * q}
  BY <1>1 DEF OptimalGroups
<1>3. f \in Nat /\ f < k + r + z
  <2>1. k = c.k /\ r = c.r /\ z = c.z
    BY <1>1
  <2>. QED
    BY <2>1, BlockKinds
<1>4. PICK t \in Nat : t = z * q
  BY Multiples
\* the numbers of local group l
<1>5. ASSUME NEW l \in 0 .. z - 1
      PROVE  \E u \in Nat : u = l * q /\ u + q <= t
  <2>1. l \in Nat /\ l < z
    OBVIOUS
  <2>2. PICK u \in Nat : u = l * q
    BY <2>1, Multiples
  <2>3. l * q + q <= z * q
    BY <2>1, Multiples
  <2>. QED
    BY <1>4, <2>2, <2>3
<1>6. CASE IsGlobal(c, f)
  <2>1. 0 \in 0 .. c.z - 1 /\ 0 * q = 0
    BY <1>1
  <2>2. (q * z + 1) \div z = q /\ q * z = t
    <3>1. 1 \in 0 .. z - 1 /\ z \in Nat \ {0}
      BY <1>1
    <3>2. (q * z + 1) \div z = q
      BY <3>1, DivUnique
    <3>3. q * z = z * q
      OBVIOUS
    <3>. QED
      BY <1>4, <3>2, <3>3
  <2>3. OptimalRecovery(c, f) = <<t>> \o Interval(0, q - 1)
    <3>1. ~ IsLocal(c, f) /\ ~ IsData(c, f)
      BY <1>1, <1>3, <1>6 DEF IsData, IsGlobal, IsLocal
    <3>2. OptimalRecovery(c, f) = <<PerLocal(c) * c.z>>
                                  \o Interval(0, (PerLocal(c) * c.z + 1) \div c.z - 1)
      BY <1>6, <3>1 DEF OptimalRecovery
    <3>. QED
      BY <1>1, <2>2, <3>2
  <2>4. q - 1 < t
    <3>1. PICK u \in Nat : u = 0 * q /\ u + q <= t
      BY <1>1, <1>5, <2>1
    <3>. QED
      BY <2>1, <3>1
  <2>5. Lists(<<t>>, {t}) /\ Lists(Interval(0, q - 1), 0 .. q - 1) /\ {t} \intersect (0 .. q - 1) = {}
    <3>1. Lists(<<t>>, {t})
      BY OneListed
    <3>2. 0 \in Int /\ q - 1 \in Int /\ 0 <= (q - 1) + 1
      OBVIOUS
    <3>3. Lists(Interval(0, q - 1), 0 .. q - 1)
      BY <3>2, IntervalListed
    <3>. QED
      BY <2>4, <3>1, <3>3
  <2>6. Lists(<<t>> \o Interval(0, q - 1), {t} \union (0 .. q - 1))
    BY <2>5, JoinListed
  <2>7. OptimalGroups(c, 0) = {t} \union (0 .. q - 1)
    BY <1>2, <1>4, <2>1
  <2>8. map2group(c, f) = t
    BY <1>1, <1>4, <1>6, OptimalPlace
  <2>. QED
    BY <2>1, <2>3, <2>6, <2>7, <2>8
<1>7. CASE IsLocal(c, f)
  <2>1. PICK l \in 0 .. z - 1 :
          /\ l = LocalId(c, f) /\ map2group(c, f) = l * q + (q - 1)
          /\ (l + 1) * q - 1 = l * q + (q - 1)
    BY <1>1, <1>7, OptimalPlace
  <2>2. PICK u \in Nat : u = l * q /\ u + q <= t
    BY <1>5
  <2>3. OptimalRecovery(c, f) = <<u + q - 1>> \o Interval(u, u + q - 2) \o <<t>>
    <3>1. ~ IsGlobal(c, f) /\ ~ IsData(c, f)
      BY <1>1, <1>3, <1>7 DEF IsData, IsGlobal, IsLocal
    <3>2. OptimalRecovery(c, f) = <<(l + 1) * q - 1>> \o Interval(l * q, (l + 1) * q - 2)
                                  \o <<z * q>>
      BY <1>1, <1>7, <2>1, <3>1 DEF OptimalRecovery
    <3>3. (l + 1) * q - 1 = u + q - 1
      BY <2>1, <2>2
    <3>4. (l + 1) * q - 2 = u + q - 2
      <4>1. (l + 1) * q \in Int
        BY Multiples
      <4>. QED
        BY <3>3, <4>1
    <3>. QED
      BY <1>4, <2>2, <3>2, <3>3, <3>4
  <2>4. /\ Lists(<<u + q - 1>>, {u + q - 1}) /\ Lists(<<t>>, {t})
        /\ Lists(Interval(u, u + q - 2), u .. u + q - 2)
    <3>1. Lists(<<u + q - 1>>, {u + q - 1}) /\ Lists(<<t>>, {t})
      BY OneListed
    <3>2. u \in Int /\ u + q - 2 \in Int /\ u <= (u + q - 2) + 1
      OBVIOUS
    <3>3. Lists(Interval(u, u + q - 2), u .. u + q - 2)
      BY <3>2, IntervalListed
    <3>. QED
      BY <3>1, <3>3
  <2>5. {u + q - 1} \intersect (u .. u + q - 2) = {}
    OBVIOUS
  <2>6. Lists(<<u + q - 1>> \o Interval(u, u + q - 2), {u + q - 1} \union (u .. u + q - 2))
    BY <2>4, <2>5, JoinListed
  <2>7. {u + q - 1} \union (u .. u + q - 2) = u .. u + q - 1
    OBVIOUS
  <2>8. (u .. u + q - 1) \intersect {t} = {}
    BY <2>2
  <2>9. Lists(<<u + q - 1>> \o Interval(u, u + q - 2) \o <<t>>, (u .. u + q - 1) \union {t})
    BY <2>4, <2>6, <2>7, <2>8, JoinListed
  <2>10. OptimalGroups(c, l) = (u .. u + q - 1) \union {t}
    BY <1>2, <1>4, <2>2
  <2>11. map2group(c, f) \in u .. u + q - 1
    BY <2>1, <2>2
  <2>12. l \in 0 .. c.z - 1
    BY <1>1
  <2>. QED
    BY <2>3, <2>9, <2>10, <2>11, <2>12
<1>8. CASE IsData(c, f)
  <2>1. PICK l \in 0 .. z - 1, e \in 0 .. q - 1 :
          /\ f \div s = l /\ (f % s) \div w = e /\ map2group(c, f) = l * q + e
    <3>1. \E l \in 0 .. c.z - 1, e \in 0 .. PerLocal(c) - 1 :
            /\ f \div LocalSize(c) = l /\ (f % LocalSize(c)) \div (c.r + 1) = e
            /\ map2group(c, f) = l * PerLocal(c) + e
      BY <1>8, OptimalPlace
    <3>2. \E l \in 0 .. z - 1, e \in 0 .. q - 1 :
            /\ f \div s = l /\ (f % s) \div w = e /\ map2group(c, f) = l * q + e
      BY <1>1, <3>1
    <3>. QED
      BY <3>2
  <2>2. PICK u \in Nat : u = l * q /\ u + q <= t
    BY <1>5
  <2>3. PICK a \in u .. u + q - 1 : a = u + e
    OBVIOUS
  <2>4. (l + 1) * q - 1 = u + q - 1
    <3>1. (l + 1) * q = l * q + q
      OBVIOUS
    <3>. QED
      BY <2>2, <3>1
  <2>5. OptimalRecovery(c, f) =
          <<a>> \o Without(Interval(u, u + q - 1), a) \o <<t>>
    <3>1. ~ IsGlobal(c, f) /\ ~ IsLocal(c, f)
      BY <1>1, <1>3, <1>8 DEF IsData, IsGlobal, IsLocal
    <3>2. OptimalRecovery(c, f) =
            <<l * q + e>> \o Without(Interval(l * q, (l + 1) * q - 1), l * q + e) \o <<z * q>>
      BY <1>1, <1>8, <2>1, <3>1 DEF OptimalRecovery
    <3>. QED
      BY <1>4, <2>2, <2>3, <2>4, <3>2
  <2>6. /\ Lists(<<a>>, {a}) /\ Lists(<<t>>, {t})
        /\ Lists(Interval(u, u + q - 1), u .. u + q - 1)
    <3>1. Lists(<<a>>, {a}) /\ Lists(<<t>>, {t})
      BY OneListed
    <3>2. u \in Int /\ u + q - 1 \in Int /\ u <= (u + q - 1) + 1
      OBVIOUS
    <3>3. Lists(Interval(u, u + q - 1), u .. u + q - 1)
      BY <3>2, IntervalListed
    <3>. QED
      BY <3>1, <3>3
  <2>7. Lists(Without(Interval(u, u + q - 1), a), (u .. u + q - 1) \ {a})
    BY <2>6, WithoutListed
  <2>8. {a} \intersect ((u .. u + q - 1) \ {a}) = {}
        /\ {a} \union ((u .. u + q - 1) \ {a}) = u .. u + q - 1
    OBVIOUS
  <2>9. Lists(<<a>> \o Without(Interval(u, u + q - 1), a), u .. u + q - 1)
    <3>1. Lists(<<a>> \o Without(Interval(u, u + q - 1), a),
                {a} \union ((u .. u + q - 1) \ {a}))
      BY <2>6, <2>7, <2>8, JoinListed
    <3>. QED
      BY <2>8, <3>1
  <2>10. (u .. u + q - 1) \intersect {t} = {}
    BY <2>2
  <2>11. Lists(<<a>> \o Without(Interval(u, u + q - 1), a) \o <<t>>, (u .. u + q - 1) \union {t})
    BY <2>6, <2>9, <2>10, JoinListed
  <2>12. OptimalGroups(c, l) = (u .. u + q - 1) \union {t}
    BY <1>2, <1>4, <2>2
  <2>13. map2group(c, f) = a
    BY <2>1, <2>2, <2>3
  <2>14. l \in 0 .. c.z - 1
    BY <1>1
  <2>. QED
    BY <2>5, <2>11, <2>12, <2>13, <2>14
<1>9. IsData(c, f) \/ IsGlobal(c, f) \/ IsLocal(c, f)
  BY <1>1, <1>3 DEF IsData, IsGlobal, IsLocal
<1>. QED
  BY <1>6, <1>7, <1>8, <1>9

\* UniformLRC names the one group of a local group, for all that it divides by
\* r and the placement by r + 1.
LEMMA UniformIds ==
  ASSUME NEW c, Fit(c), c.CodeType = "UniformLRC", NEW f \in Blocks(c)
  PROVE  /\ map2group(c, f) \in 0 .. c.z - 1
         /\ Lists(UniformRecovery(c, f), {map2group(c, f)})
<1>1. PICK k, r, z \in Nat \ {0} :
        /\ k = c.k /\ r = c.r /\ z = c.z /\ z > 1 /\ k = (z - 1) * r /\ k + r = z * r
        /\ UniformSmall(c) = r /\ UniformLarger(c) = 0 /\ UniformSmalls(c) = z
  BY UniformNumbers
<1>2. f \in Nat /\ f < k + r + z
  BY <1>1 DEF Blocks, N
<1>3. Ceil(r, r) = 1
  <2>1. (1 * r + (r - 1)) \div r = 1
    BY DivUnique
  <2>2. r + r - 1 = 1 * r + (r - 1)
    OBVIOUS
  <2>. QED
    BY <2>1, <2>2 DEF Ceil
<1>4. map2group(c, f) = UniformGroup(c, f)
  BY DEF map2group
<1>5. PICK g \in Nat :
        /\ g < z /\ UniformGroup(c, f) = g
        /\ g = IF IsLocal(c, f) THEN LocalId(c, f) ELSE UniformLocal(c, f)
        /\ ~ IsLocal(c, f) => UniformOffset(c, f) \in Nat /\ UniformOffset(c, f) < r
  <2>1. CASE IsLocal(c, f)
    <3>1. PICK g \in Nat : g = LocalId(c, f) /\ g < z /\ f = k + r + g
      BY <1>1, <1>2, <2>1 DEF IsLocal, LocalId
    <3>2. g \in 0 .. c.z - 1
      BY <1>1, <3>1
    <3>3. UniformGroup(c, c.k + c.r + g) = g
      BY <3>2, UniformAt
    <3>. QED
      BY <1>1, <2>1, <3>1, <3>3
  <2>2. CASE ~ IsLocal(c, f)
    <3>1. f < z * r
      BY <1>1, <1>2, <2>2 DEF IsLocal
    <3>2. PICK g \in Nat : g = f \div r /\ g < z
      BY <1>2, <3>1, QuotientBelow
    <3>3. g * r <= f /\ f < g * r + r
      BY <1>2, <3>2, QuotientIs
    <3>4. g \in 0 .. c.z - 1
      BY <1>1, <3>2
    <3>5. \A y \in Nat : g * c.r <= y /\ y < g * c.r + c.r =>
            UniformLocal(c, y) = g /\ UniformOffset(c, y) = y - g * c.r /\ UniformGroup(c, y) = g
      BY <3>4, UniformAt
    <3>6. UniformLocal(c, f) = g /\ UniformOffset(c, f) = f - g * r /\ UniformGroup(c, f) = g
      BY <1>1, <1>2, <3>3, <3>5
    <3>7. f - g * r \in Nat /\ f - g * r < r
      <4>1. PICK v \in Nat : v = g * r
        BY Multiples
      <4>. QED
        BY <1>2, <3>3, <4>1
    <3>. QED
      BY <2>2, <3>2, <3>6, <3>7
  <2>. QED
    BY <2>1, <2>2
<1>7. \A x : UniformSum(c, g, 1, x) = g
  BY <1>1, <1>5 DEF UniformSum
<1>8. UniformSize(c, g) = r
  BY <1>1, <1>5 DEF UniformSize
<1>9. ~ IsLocal(c, f) => UniformOffset(c, f) \div r = 0
  <2> SUFFICES ASSUME ~ IsLocal(c, f) PROVE UniformOffset(c, f) \div r = 0
    OBVIOUS
  <2>1. PICK o \in Nat : o = UniformOffset(c, f) /\ o < r
    BY <1>5
  <2>. QED
    BY <2>1
<1>10. UniformRecovery(c, f) = <<g>> \o Without(Interval(g, g), g)
  <2>1. g + 1 - 1 = g /\ g + 0 = g
    OBVIOUS
  <2>2. UniformSum(c, g, Ceil(r, r), Ceil(r + 1, r)) = g
    BY <1>3, <1>7
  <2>3. g + Ceil(UniformSize(c, g), r) - 1 = g
    BY <1>3, <1>8
  <2>4. CASE IsLocal(c, f)
    BY <1>1, <1>5, <2>2, <2>3, <2>4 DEF UniformRecovery
  <2>5. CASE ~ IsLocal(c, f)
    BY <1>1, <1>5, <1>9, <2>1, <2>2, <2>3, <2>5 DEF UniformRecovery
  <2>. QED
    BY <2>4, <2>5
<1>11. Lists(Interval(g, g), g .. g) /\ g .. g = {g} /\ Lists(<<g>>, {g})
  <2>1. Lists(<<g>>, {g})
    BY OneListed
  <2>2. g \in Int /\ g <= g + 1 /\ g .. g = {g}
    OBVIOUS
  <2>3. Lists(Interval(g, g), g .. g)
    BY <2>2, IntervalListed
  <2>. QED
    BY <2>1, <2>2, <2>3
<1>12. Lists(Without(Interval(g, g), g), {})
  <2>1. Lists(Without(Interval(g, g), g), {g} \ {g})
    BY <1>11, WithoutListed
  <2>2. {g} \ {g} = {}
    OBVIOUS
  <2>. QED
    BY <2>1, <2>2
<1>13. Lists(<<g>> \o Without(Interval(g, g), g), {g})
  <2>1. Lists(<<g>> \o Without(Interval(g, g), g), {g} \union {})
    BY <1>11, <1>12, JoinListed
  <2>2. {g} \union {} = {g}
    OBVIOUS
  <2>. QED
    BY <2>1, <2>2
<1>. QED
  BY <1>1, <1>4, <1>5, <1>10, <1>13

\* The groups a repair names are those that keep one equation of the lost
\* block, its own among them; for all codes but OptimalLRC it is the only one.
LEMMA NamesEquation ==
  ASSUME NEW c, Fit(c), NEW f \in Blocks(c), ~ (c.CodeType = "AzureLRC" /\ IsGlobal(c, f))
  PROVE  \E l \in 0 .. c.z - 1, I \in SUBSET (0 .. num_groups(c) - 1) :
           /\ Lists(get_recovery_group_ids(c, f), I)
           /\ map2group(c, f) \in I /\ KeptBy(c, l, I)
           /\ c.CodeType # "OptimalLRC" =>
                I = {map2group(c, f)} /\ TwoBlocks(c, map2group(c, f))
<1>1. PICK n, D, G, L : Layout(c, n, D, G, L)
  BY Laid
<1>2. num_groups(c) = n /\ n = ClientGroups(c) /\ n \in Nat /\ map2group(c, f) \in 0 .. n - 1
  BY <1>1, LayoutShape, NumGroups, InGroup
<1> DEFINE g == map2group(c, f)
<1>3. {g} \in SUBSET (0 .. num_groups(c) - 1)
  BY <1>2
<1>4. CASE c.CodeType = "UniLRC"
  <2>1. n = c.z
    BY <1>2, <1>4 DEF ClientGroups
  <2>2. g \in 0 .. c.z - 1
    BY <1>2, <2>1
  <2>3. get_recovery_group_ids(c, f) = <<g>>
    BY <1>4 DEF get_recovery_group_ids, map2group
  <2>. QED
    BY <1>3, <1>4, <2>2, <2>3, OneListed, UniEquation
<1>5. CASE c.CodeType = "AzureLRC"
  <2>1. g \in 0 .. c.z - 1
    <3>1. PICK k \in Nat, r \in Nat, z \in Nat : k = c.k /\ r = c.r /\ z = c.z
      BY DEF Fit
    <3>2. z > 1 /\ k > 0 /\ k % z = 0
      BY <1>5, <3>1 DEF Fit, Supported
    <3>3. PICK s \in Nat : s = k \div z /\ k = s * z
      BY <3>2, Exactly
    <3>4. s > 0
      <4>1. s = 0 => s * z = 0
        OBVIOUS
      <4>. QED
        BY <3>2, <3>3, <4>1
    <3>5. f \in Nat /\ f < k + r + z
      BY <3>1 DEF Blocks, N
    <3>6. ~ IsGlobal(c, f) /\ g = AzureGroup(c, f)
      BY <1>5 DEF map2group
    <3>7. CASE IsData(c, f)
      <4>0. f < k /\ ~ IsGlobal(c, f) /\ ~ IsLocal(c, f)
        BY <3>1, <3>5, <3>7 DEF IsData, IsGlobal, IsLocal
      <4>1. g = f \div s /\ f < k
        BY <3>1, <3>3, <3>6, <3>7, <4>0 DEF AzureGroup, LocalSize
      <4>2. f < z * s
        <5>1. s * z = z * s
          OBVIOUS
        <5>. QED
          BY <3>3, <4>1, <5>1
      <4>3. f \div s \in Nat /\ f \div s < z
        BY <3>4, <3>5, <4>2, QuotientBelow
      <4>. QED
        BY <3>1, <4>1, <4>3
    <3>8. CASE ~ IsData(c, f)
      <4>1. k + r <= f /\ IsLocal(c, f)
        BY <3>1, <3>5, <3>6, <3>8 DEF IsData, IsGlobal, IsLocal
      <4>2. g = f - k - r
        BY <3>1, <3>6, <3>8, <4>1 DEF AzureGroup, LocalId
      <4>. QED
        BY <3>1, <3>5, <4>1, <4>2
    <3>. QED
      BY <3>7, <3>8
  <2>2. get_recovery_group_ids(c, f) = <<g>>
    BY <1>5 DEF get_recovery_group_ids, map2group
  <2>. QED
    BY <1>3, <1>5, <2>1, <2>2, OneListed, AzureEquation
<1>6. CASE c.CodeType = "UniformLRC"
  <2>1. g \in 0 .. c.z - 1 /\ Lists(UniformRecovery(c, f), {g})
    BY <1>6, UniformIds
  <2>2. get_recovery_group_ids(c, f) = UniformRecovery(c, f)
    BY <1>6 DEF get_recovery_group_ids
  <2>. QED
    BY <1>3, <1>6, <2>1, <2>2, UniformEquation
<1>7. CASE c.CodeType = "OptimalLRC"
  <2>1. PICK l \in 0 .. c.z - 1 : /\ Lists(OptimalRecovery(c, f), OptimalGroups(c, l))
                                  /\ map2group(c, f) \in OptimalGroups(c, l)
    BY <1>7, OptimalIds
  <2>2. get_recovery_group_ids(c, f) = OptimalRecovery(c, f)
    BY <1>7 DEF get_recovery_group_ids
  <2>3. KeptBy(c, l, OptimalGroups(c, l))
    BY <1>7, OptimalEquation
  <2>4. OptimalGroups(c, l) \in SUBSET (0 .. num_groups(c) - 1)
    <3>1. PICK z, q \in Nat \ {0} : z = c.z /\ PerLocal(c) = q /\ ClientPerLocal(c) = q
      <4>1. PICK k, r, z, s, w, q \in Nat \ {0} :
               /\ k = c.k /\ r = c.r /\ z = c.z /\ z > 1 /\ w = r + 1 /\ r > 1
               /\ LocalSize(c) = s /\ k = z * s
               /\ PerLocal(c) = q /\ ClientPerLocal(c) = q
               /\ \E m, o \in Nat : m = (q - 1) * w /\ o < w /\ o > 0 /\ s = m + o /\ s % w = o
               /\ z * q + 1 < c.ClusterNum /\ w < c.DatanodeNumPerCluster
        BY <1>7, OptimalNumbers
      <4>. QED
        BY <4>1
    <3>2. PICK t \in Nat : t = z * q /\ n = t + 1
      <4>1. ClientGroups(c) = z * q + 1
        BY <1>7, <3>1 DEF ClientGroups
      <4>. QED
        BY <1>2, <4>1, Multiples
    <3>3. l \in Nat /\ l < z
      BY <3>1
    <3>4. PICK u \in Nat : u = l * q
      BY <3>3, Multiples
    <3>5. l * q + q <= z * q
      BY <3>3, Multiples
    <3>6. u + q <= t
      BY <3>2, <3>4, <3>5
    <3>7. OptimalGroups(c, l) = (u .. u + q - 1) \union {t}
      BY <3>1, <3>2, <3>4 DEF OptimalGroups
    <3>. QED
      BY <1>2, <3>2, <3>6, <3>7
  <2>. QED
    BY <1>7, <2>1, <2>2, <2>3, <2>4
<1>8. c.CodeType \in {"UniLRC", "AzureLRC", "OptimalLRC", "UniformLRC"}
  BY DEF Fit, CodeTypes
<1>. QED
  BY <1>4, <1>5, <1>6, <1>7, <1>8


\* The groups a repair of a global parity of an AzureLRC stripe names: all but
\* group 0.
LEMMA AzureIds ==
  ASSUME NEW c, Fit(c), c.CodeType = "AzureLRC", NEW f \in Blocks(c), IsGlobal(c, f)
  PROVE  /\ c.z \in Nat /\ c.z > 1 /\ num_groups(c) = c.z + 1 /\ map2group(c, f) = c.z
         /\ get_recovery_group_ids(c, f) = Interval(1, c.z)
         /\ Lists(get_recovery_group_ids(c, f), 1 .. c.z)
<1>1. PICK n, D, G, L : Layout(c, n, D, G, L)
  BY Laid
<1>2. num_groups(c) = n /\ n = ClientGroups(c)
  BY <1>1, LayoutShape, NumGroups
<1>3. num_groups(c) = c.z + 1
  BY <1>2 DEF ClientGroups
<1>4. PICK k \in Nat, r \in Nat, z \in Nat : k = c.k /\ r = c.r /\ z = c.z /\ z > 1
  BY DEF Fit, Supported
<1>5. ~ IsData(c, f) /\ ~ IsLocal(c, f)
  <2>1. f \in Nat
    BY <1>4 DEF Blocks, N
  <2>. QED
    BY <1>4, <2>1 DEF IsData, IsGlobal, IsLocal
<1>6. map2group(c, f) = c.z
  BY <1>5 DEF map2group, AzureGroup
<1>7. get_recovery_group_ids(c, f) = Interval(1, c.z)
  BY DEF get_recovery_group_ids
<1>8. Lists(Interval(1, z), 1 .. z)
  <2>1. 1 \in Int /\ z \in Int /\ 1 <= z + 1
    OBVIOUS
  <2>. QED
    BY <2>1, IntervalListed
<1>. QED
  BY <1>3, <1>4, <1>6, <1>7, <1>8

\* Every group a repair names is in the stripe, that of the lost block among
\* them.
LEMMA GroupsNamed ==
  ASSUME NEW c, Fit(c), NEW f \in Blocks(c)
  PROVE  \E I \in SUBSET (0 .. num_groups(c) - 1) :
           Lists(get_recovery_group_ids(c, f), I) /\ map2group(c, f) \in I
<1>1. CASE c.CodeType = "AzureLRC" /\ IsGlobal(c, f)
  <2>1. PICK z \in Nat : z = c.z /\ z > 1 /\ num_groups(c) = z + 1
    BY <1>1, AzureIds
  <2>2. 1 .. z \in SUBSET (0 .. num_groups(c) - 1) /\ z \in 1 .. z
    BY <2>1
  <2>3. Lists(get_recovery_group_ids(c, f), 1 .. z) /\ map2group(c, f) = z
    BY <1>1, <2>1, AzureIds
  <2>. QED
    BY <2>2, <2>3
<1>2. CASE ~ (c.CodeType = "AzureLRC" /\ IsGlobal(c, f))
  <2>1. PICK l \in 0 .. c.z - 1, I \in SUBSET (0 .. num_groups(c) - 1) :
           /\ Lists(get_recovery_group_ids(c, f), I)
           /\ map2group(c, f) \in I /\ KeptBy(c, l, I)
           /\ c.CodeType # "OptimalLRC" =>
                I = {map2group(c, f)} /\ TwoBlocks(c, map2group(c, f))
    BY <1>2, NamesEquation
  <2>. QED
    BY <2>1
<1>. QED
  BY <1>1, <1>2

\* A repair asks no proxy for a group that is not there.
LEMMA NamesGroups ==
  ASSUME Fit(conf), NEW f \in Blocks(conf)
  PROVE  \A j \in DOMAIN get_recovery_group_ids(conf, f) :
           get_recovery_group_ids(conf, f)[j] \in Groups
<1>1. PICK I \in SUBSET (0 .. num_groups(conf) - 1) :
        Lists(get_recovery_group_ids(conf, f), I) /\ map2group(conf, f) \in I
  BY GroupsNamed
<1>2. get_recovery_group_ids(conf, f) \in Seq(I)
  BY <1>1 DEF Lists
<1>3. \A j \in DOMAIN get_recovery_group_ids(conf, f) : get_recovery_group_ids(conf, f)[j] \in I
  BY <1>2
<1>. QED
  BY <1>1, <1>3 DEF Groups


\* group g is given a block
GivenBlock(M, G, L, g) == M[g] < M[g + 1] \/ G[g] < G[g + 1] \/ L[g] < L[g + 1]

\* K lists, in order, l groups, those given a block among them; ps is their
\* three runs
HandedIn(n, M, G, L, l, K, ps) ==
  /\ l \in Nat /\ K \in [1 .. l -> 0 .. n - 1]
  /\ \A a, b \in 1 .. l : a < b => K[a] < K[b]
  /\ \A g \in 0 .. n - 1 : GivenBlock(M, G, L, g) => \E a \in 1 .. l : K[a] = g
  /\ ps = [j \in 1 .. l |-> ThreeParts(M, G, L, K[j])]

\* what the encoder is handed when m data blocks are uploaded: the three runs
\* of every group that is given a block, the groups in order
Handed(c, m, ps) ==
  \E n, D, G, L, l, K :
    Layout(c, n, D, G, L) /\ HandedIn(n, UpTo(D, n, m), G, L, l, K, ps)

\* The client's counts fit the reply, and what it hands to the encoder is the
\* three runs of every group reached.
LEMMA CutFits ==
  ASSUME Fit(conf), Replied, CutSlices
  PROVE  /\ pc' = "encoded" /\ Handed(conf, block_num, parts')
         /\ Len(parts') = Len(slices) /\ Len(slices) \in Nat
<1>1. PICK n, D, G, L : Layout(conf, n, D, G, L)
  BY Laid
<1>2. PICK l, K : Reached(n, l, K)
  BY <1>1, SameGroups
<1> DEFINE M == UpTo(D, n, block_num)
<1>3. /\ block_num \in Nat /\ block_num <= conf.k /\ trimmed \in BOOLEAN
      /\ ~ trimmed => block_num = conf.k
  BY DEF Replied
<1>4. ASSUME NEW g \in 0 .. n - 1
      PROVE  /\ Total(Expected(g)) = Cardinality(Brought(g, block_num))
             /\ Total(Expected(g)) # 0 <=> Brought(g, block_num) # {}
             /\ Cut(Brought(g, block_num), Expected(g)) = ThreeParts(M, G, L, g)
  BY <1>1, <1>3, CountsFit
<1>5. /\ l \in Nat /\ K \in [1 .. l -> 0 .. n - 1]
      /\ \A a, b \in 1 .. l : a < b => K[a] < K[b]
      /\ \A g \in 0 .. n - 1 : Brought(g, block_num) # {} => \E a \in 1 .. l : K[a] = g
      /\ slices = [j \in 1 .. l |-> Brought(K[j], block_num)]
      /\ remove_common_zeros = [j \in 1 .. l |-> Expected(K[j])]
  BY <1>2 DEF Reached
<1>6. /\ DOMAIN slices = 1 .. l /\ Len(slices) = l
      /\ Len(remove_common_zeros) = l
  BY <1>5
<1>7. ASSUME NEW j \in DOMAIN slices
      PROVE  /\ j <= Len(remove_common_zeros)
             /\ Total(remove_common_zeros[j]) = Cardinality(slices[j])
             /\ Cut(slices[j], remove_common_zeros[j]) = ThreeParts(M, G, L, K[j])
  <2>1. K[j] \in 0 .. n - 1 /\ slices[j] = Brought(K[j], block_num)
        /\ remove_common_zeros[j] = Expected(K[j])
    BY <1>5, <1>6
  <2>. QED
    BY <1>4, <1>5, <1>6, <2>1
<1>8. {j \in DOMAIN slices : ~ (/\ j <= Len(remove_common_zeros)
                                /\ Total(remove_common_zeros[j]) = Cardinality(slices[j]))} = {}
  BY <1>7
<1>9. /\ parts' = [j \in DOMAIN slices |-> Cut(slices[j], remove_common_zeros[j])]
      /\ pc' = "encoded"
  BY <1>8 DEF CutSlices
<1>10. parts' = [j \in 1 .. l |-> ThreeParts(M, G, L, K[j])]
  BY <1>6, <1>7, <1>9
<1>11. ASSUME NEW g \in 0 .. n - 1,
              GivenBlock(M, G, L, g)
       PROVE  \E a \in 1 .. l : K[a] = g
  <2>1. /\ InTurn(M[g], M[g + 1], G[g], G[g + 1], L[g], L[g + 1])
        /\ Brought(g, block_num) = Runs(M[g], M[g + 1], G[g], G[g + 1], L[g], L[g + 1])
    BY <1>1, <1>3, BroughtRuns
  <2>. HIDE DEF M
  <2>2. PICK x \in {M[g], G[g], L[g]} : x \in Brought(g, block_num)
    <3>1. \A y : y \in Brought(g, block_num) <=>
            /\ y \in Nat
            /\ (M[g] <= y /\ y < M[g + 1]) \/ (G[g] <= y /\ y < G[g + 1])
               \/ (L[g] <= y /\ y < L[g + 1])
      BY <2>1, InRuns
    <3>2. M[g] \in Nat /\ G[g] \in Nat /\ L[g] \in Nat
      BY <2>1 DEF InTurn
    <3>. QED
      BY <1>11, <3>1, <3>2 DEF GivenBlock
  <2>. QED
    BY <1>5, <2>2
<1>12. Handed(conf, block_num, parts')
  <2>. HIDE DEF M
  <2>1. M = UpTo(D, n, block_num)
    BY DEF M
  <2>2. HandedIn(n, M, G, L, l, K, parts')
    BY <1>5, <1>10, <1>11 DEF HandedIn
  <2>3. HandedIn(n, UpTo(D, n, block_num), G, L, l, K, parts')
    BY <2>1, <2>2
  <2>. QED
    BY <1>1, <2>3 DEF Handed
<1>13. Len(parts') = Len(slices)
  BY <1>5, <1>6, <1>10
<1>. QED
  BY <1>5, <1>6, <1>9, <1>12, <1>13


\* what an upload and a repair leave behind; nothing aborts and no empty vector
\* is read
UploadInv ==
  /\ pc \in {"start", "configured", "placing", "placed", "replied", "encoded",
             "stored", "reading", "repairing"}
  /\ trimmed \in BOOLEAN
  /\ pc = "start" => block_num = 0 /\ failed = 0
  /\ pc # "start" => block_num \in Nat /\ block_num <= conf.k /\ failed \in Blocks(conf)
  /\ pc \notin {"replied", "encoded"} => slices = <<>>
  /\ \A j \in DOMAIN slices : slices[j] \subseteq Blocks(conf)
  /\ pc = "replied" => Replied
  /\ pc = "encoded" => Handed(conf, block_num, parts) /\ Len(parts) = Len(slices)
  /\ pc # "encoded" => parts = <<>>

\* The reply of either upload is as Replied says, and of blocks of the stripe.
LEMMA RepliesSo ==
  ASSUME Fit(conf), trimmed \in BOOLEAN, pc = "placed", parts = <<>>,
         \/ UploadSet
         \/ \E m \in SubsetSizes : UploadSubset(m)
  PROVE  /\ pc' = "replied" /\ Replied' /\ parts' = <<>> /\ conf' = conf /\ failed' = failed
         /\ \A j \in DOMAIN slices' : slices'[j] \subseteq Blocks(conf)
<1>1. conf.k \in Nat
  BY DEF Fit
<1>2. ASSUME UploadSet
      PROVE  /\ pc' = "replied" /\ Replied' /\ parts' = <<>> /\ conf' = conf /\ failed' = failed
             /\ \A j \in DOMAIN slices' : slices'[j] \subseteq Blocks(conf)
  <2>1. /\ pc' = "replied" /\ block_num' = conf.k /\ trimmed' = FALSE /\ slices' = SetPlans
        /\ conf' = conf /\ parts' = <<>> /\ failed' = failed
    BY <1>2 DEF UploadSet
  <2>2. SetPlans' = SetPlans
    BY <2>1 DEF SetPlans
  <2>5. block_num' \in Nat /\ block_num' <= conf'.k /\ block_num' = conf'.k
    BY <1>1, <2>1
  <2>6. ~ trimmed' /\ trimmed' \in BOOLEAN /\ slices' = SetPlans'
    BY <2>1, <2>2
  <2>7. slices' = IF trimmed' THEN SubsetPlans(block_num)' ELSE SetPlans'
    BY <2>6
  <2>3. Replied'
    BY <2>5, <2>6, <2>7 DEF Replied
  <2>4. \A j \in DOMAIN SetPlans : SetPlans[j] \subseteq Blocks(conf)
    BY DEF SetPlans, group_to_blocks
  <2>. QED
    BY <2>1, <2>3, <2>4
<1>3. ASSUME NEW m \in SubsetSizes, UploadSubset(m)
      PROVE  /\ pc' = "replied" /\ Replied' /\ parts' = <<>> /\ conf' = conf /\ failed' = failed
             /\ \A j \in DOMAIN slices' : slices'[j] \subseteq Blocks(conf)
  <2>1. /\ pc' = "replied" /\ block_num' = m /\ trimmed' = TRUE /\ slices' = SubsetPlans(m)
        /\ conf' = conf /\ parts' = <<>> /\ m <= conf.k /\ failed' = failed
    BY <1>3 DEF UploadSubset
  <2>2. SubsetPlans(block_num)' = SubsetPlans(m)
    BY <2>1 DEF SubsetPlans, Groups, Brought
  <2>3. m \in Nat
    BY FilesAssumption
  <2>4. Replied'
    BY <1>1, <2>1, <2>2, <2>3 DEF Replied
  <2>5. \A j \in DOMAIN SubsetPlans(m) : SubsetPlans(m)[j] \subseteq Blocks(conf)
    BY DEF SubsetPlans, Brought, group_to_blocks
  <2>. QED
    BY <2>1, <2>4, <2>5
<1>. QED
  BY <1>2, <1>3

\* Every step keeps what is known of an upload: the replies are those of the
\* plans, and the cut of the client fits them.
LEMMA UploadStep ==
  ASSUME ConfInv, UploadInv, [Next]_vars
  PROVE  UploadInv'
<1> USE DEF UploadInv
<1>1. pc # "start" => Fit(conf)
  BY DEF ConfInv
<1>2. ConfInv'
  BY ConfStep
<1>3. ASSUME NEW file \in Files, LoadConfig(file) PROVE UploadInv'
  <2>1. Fit(conf)'
    BY <1>2, <1>3 DEF ConfInv, LoadConfig
  <2>2. conf'.k \in Nat /\ 0 <= conf'.k /\ 0 \in Blocks(conf')
    <3>1. PICK k \in Nat, r \in Nat, z \in Nat : k = conf'.k /\ r = conf'.r /\ z = conf'.z /\ k > 0
      BY <2>1 DEF Fit, Supported
    <3>. QED
      BY <3>1 DEF Blocks, N
  <2>3. slices = <<>> /\ slices' = slices
    BY <1>3 DEF LoadConfig
  <2>4. \A j \in DOMAIN slices' : slices'[j] \subseteq Blocks(conf')
    BY <2>3
  <2>. QED
    BY <1>3, <2>2, <2>3, <2>4 DEF LoadConfig
<1>4. ASSUME NEW s \in StripeIds, StartStripe(s) PROVE UploadInv'
  BY <1>4 DEF StartStripe
<1>5. ASSUME PlaceBlock PROVE UploadInv'
  BY <1>5 DEF PlaceBlock
<1>6. ASSUME UploadSet \/ \E m \in SubsetSizes : UploadSubset(m) PROVE UploadInv'
  <2>1. pc = "placed" /\ Fit(conf)
    BY <1>1, <1>6 DEF UploadSet, UploadSubset
  <2>2. /\ pc' = "replied" /\ Replied' /\ parts' = <<>> /\ conf' = conf /\ failed' = failed
        /\ \A j \in DOMAIN slices' : slices'[j] \subseteq Blocks(conf)
    BY <1>6, <2>1, RepliesSo
  <2>3. block_num' \in Nat /\ block_num' <= conf'.k /\ trimmed' \in BOOLEAN
    BY <2>2 DEF Replied
  <2>. QED
    BY <2>1, <2>2, <2>3
<1>7. ASSUME CutSlices PROVE UploadInv'
  <2>1. pc = "replied" /\ Fit(conf) /\ Replied
    BY <1>1, <1>7 DEF CutSlices
  <2>2. /\ pc' = "encoded" /\ Handed(conf, block_num, parts')
        /\ Len(parts') = Len(slices) /\ Len(slices) \in Nat
    BY <1>7, <2>1, CutFits
  <2>3. UNCHANGED <<conf, block_num, trimmed, slices, failed>>
    BY <1>7 DEF CutSlices
  <2>. QED
    BY <2>1, <2>2, <2>3
<1>8. ASSUME StoreStripe PROVE UploadInv'
  <2>1. conf.k \in Nat /\ 0 <= conf.k
    <3>1. conf.k \in Nat
      BY <1>1, <1>8 DEF Fit, StoreStripe
    <3>. QED
      BY <3>1
  <2>2. pc' = "stored" /\ slices' = <<>> /\ parts' = <<>> /\ block_num' = 0
        /\ UNCHANGED <<conf, trimmed, failed>>
    BY <1>8 DEF StoreStripe
  <2>3. \A j \in DOMAIN slices' : slices'[j] \subseteq Blocks(conf')
    BY <2>2
  <2>. QED
    BY <1>8, <2>1, <2>2, <2>3 DEF StoreStripe
<1>9. ASSUME GetStripe PROVE UploadInv'
  BY <1>9 DEF GetStripe
<1>10. ASSUME NEW f \in 0 .. (IF conf = NoFile THEN 0 ELSE N(conf) - 1), RecoverBlock(f)
       PROVE  UploadInv'
  <2>1. pc = "stored" /\ Fit(conf)
    BY <1>1, <1>10 DEF RecoverBlock
  <2>2. conf # NoFile
    <3>1. NoFile.CodeType = "none"
      BY DEF NoFile
    <3>2. conf.CodeType \in {"UniLRC", "AzureLRC", "OptimalLRC", "UniformLRC"}
      BY <2>1 DEF Fit, CodeTypes
    <3>. QED
      BY <3>1, <3>2
  <2>3. f \in Blocks(conf)
    BY <1>10, <2>2 DEF Blocks
  <2>4. \A j \in DOMAIN get_recovery_group_ids(conf, f) :
          get_recovery_group_ids(conf, f)[j] \in Groups
    BY <2>1, <2>3, NamesGroups
  <2>5. /\ pc' = "repairing" /\ failed' = f
        /\ UNCHANGED <<conf, block_num, trimmed, slices, parts>>
    BY <1>10, <2>4 DEF RecoverBlock
  <2>. QED
    BY <2>1, <2>3, <2>5
<1>11. ASSUME UNCHANGED vars PROVE UploadInv'
  <2>1. UNCHANGED <<conf, pc, block_num, trimmed, slices, parts, failed>>
    BY <1>11 DEF vars
  <2>2. SetPlans' = SetPlans
    BY <2>1 DEF SetPlans
  <2>3. SubsetPlans(block_num)' = SubsetPlans(block_num)
    BY <2>1 DEF SubsetPlans, Groups, Brought
  <2>4. Replied => Replied'
    BY <2>1, <2>2, <2>3 DEF Replied
  <2>. QED
    BY <2>1, <2>4
<1>. QED
  BY <1>3, <1>4, <1>5, <1>6, <1>7, <1>8, <1>9, <1>10, <1>11 DEF Next, Done

\* An upload never aborts, and a repair never reads an empty vector.
THEOREM UploadHolds == Spec => [](ConfInv /\ PlaceInv /\ UploadInv)
<1>1. Init => UploadInv
  <2> SUFFICES ASSUME Init PROVE UploadInv
    OBVIOUS
  <2>1. slices = <<>> /\ parts = <<>> /\ pc = "start" /\ trimmed = FALSE
        /\ block_num = 0 /\ failed = 0
    BY DEF Init
  <2>2. \A j \in DOMAIN slices : slices[j] \subseteq Blocks(conf)
    BY <2>1
  <2>. QED
    BY <2>1, <2>2 DEF UploadInv
<1>2. ConfInv /\ UploadInv /\ [Next]_vars => UploadInv'
  BY UploadStep
<1>. QED
  BY <1>1, <1>2, PlacementHolds, PTL DEF Spec


\* The runs of the data up to m, like those of all of it, are in order, and end
\* at m.
LEMMA UpToShape ==
  ASSUME NEW n \in Nat, NEW D \in [0 .. n -> Nat], NEW k \in Nat, D[0] = 0, D[n] = k,
         \A g, h \in 0 .. n : g <= h => D[g] <= D[h],
         NEW m \in Nat, m <= k
  PROVE  /\ UpTo(D, n, m) \in [0 .. n -> Nat]
         /\ UpTo(D, n, m)[0] = 0 /\ UpTo(D, n, m)[n] = m
         /\ \A g, h \in 0 .. n : g <= h => UpTo(D, n, m)[g] <= UpTo(D, n, m)[h]
<1>1. \A g \in 0 .. n : /\ D[g] \in Nat
                        /\ UpTo(D, n, m)[g] = IF D[g] < m THEN D[g] ELSE m
  BY DEF UpTo
<1>2. UpTo(D, n, m) \in [0 .. n -> Nat]
  BY DEF UpTo
<1>3. UpTo(D, n, m)[0] = 0 /\ UpTo(D, n, m)[n] = m
  <2>1. 0 \in 0 .. n /\ n \in 0 .. n
    OBVIOUS
  <2>. QED
    BY <1>1, <2>1
<1>4. ASSUME NEW g \in 0 .. n, NEW h \in 0 .. n, g <= h
      PROVE  UpTo(D, n, m)[g] <= UpTo(D, n, m)[h]
  <2>1. D[g] <= D[h]
    BY <1>4
  <2>. QED
    BY <1>1, <2>1
<1>. QED
  BY <1>2, <1>3, <1>4

\* What the encoder is handed is the blocks of each kind in order.
LEMMA HandedInOrder ==
  ASSUME Fit(conf), NEW m \in Nat, m <= conf.k, Handed(conf, m, parts)
  PROVE  LET data   == [j \in DOMAIN parts |-> parts[j].data]
             global == [j \in DOMAIN parts |-> parts[j].global]
             local  == [j \in DOMAIN parts |-> parts[j].local]
         IN  /\ AscendingRuns(data)   /\ Joined(data) = 0 .. m - 1
             /\ AscendingRuns(global) /\ Joined(global) = {b \in Blocks(conf) : IsGlobal(conf, b)}
             /\ AscendingRuns(local)  /\ Joined(local) = {b \in Blocks(conf) : IsLocal(conf, b)}
<1>1. PICK n, D, G, L, l, K : Layout(conf, n, D, G, L) /\ HandedIn(n, UpTo(D, n, m), G, L, l, K, parts)
  BY DEF Handed
<1>2. PICK M : M = UpTo(D, n, m)
  OBVIOUS
<1>3. /\ n \in Nat \ {0}
      /\ conf.k \in Nat /\ conf.r \in Nat /\ conf.z \in Nat /\ N(conf) = conf.k + conf.r + conf.z
      /\ D \in [0 .. n -> Nat] /\ G \in [0 .. n -> Nat] /\ L \in [0 .. n -> Nat]
      /\ \A g, h \in 0 .. n : g <= h => D[g] <= D[h] /\ G[g] <= G[h] /\ L[g] <= L[h]
  BY <1>1, LayoutShape
<1>4. /\ D[0] = 0 /\ D[n] = conf.k
      /\ G[0] = conf.k /\ G[n] = conf.k + conf.r
      /\ L[0] = conf.k + conf.r /\ L[n] = conf.k + conf.r + conf.z
  BY <1>1 DEF Layout
<1>5. /\ M \in [0 .. n -> Nat] /\ M[0] = 0 /\ M[n] = m
      /\ \A g, h \in 0 .. n : g <= h => M[g] <= M[h]
  <2>1. n \in Nat /\ D \in [0 .. n -> Nat] /\ conf.k \in Nat
    BY <1>3
  <2>2. \A g, h \in 0 .. n : g <= h => D[g] <= D[h]
    BY <1>3
  <2>3. D[0] = 0 /\ D[n] = conf.k
    BY <1>4
  <2>4. /\ UpTo(D, n, m) \in [0 .. n -> Nat]
        /\ UpTo(D, n, m)[0] = 0 /\ UpTo(D, n, m)[n] = m
        /\ \A g, h \in 0 .. n : g <= h => UpTo(D, n, m)[g] <= UpTo(D, n, m)[h]
    BY <2>1, <2>2, <2>3, UpToShape
  <2>. QED
    BY <1>2, <2>4
<1>6. /\ l \in Nat /\ K \in [1 .. l -> 0 .. n - 1]
      /\ \A a, b \in 1 .. l : a < b => K[a] < K[b]
      /\ \A g \in 0 .. n - 1 : M[g] < M[g + 1] \/ G[g] < G[g + 1] \/ L[g] < L[g + 1]
                                 => \E a \in 1 .. l : K[a] = g
      /\ parts = [j \in 1 .. l |-> ThreeParts(M, G, L, K[j])]
  BY <1>1, <1>2 DEF HandedIn, GivenBlock
<1>13. /\ n \in Nat /\ l \in Nat /\ K \in [1 .. l -> 0 .. n - 1]
       /\ \A a, b \in 1 .. l : a < b => K[a] < K[b]
  BY <1>3, <1>6
<1>7. DOMAIN parts = 1 .. l
  BY <1>6
<1>8. \A j \in 1 .. l : /\ parts[j].data = M[K[j]] .. M[K[j] + 1] - 1
                        /\ parts[j].global = G[K[j]] .. G[K[j] + 1] - 1
                        /\ parts[j].local = L[K[j]] .. L[K[j] + 1] - 1
  BY <1>6 DEF ThreeParts
<1> DEFINE data   == [j \in DOMAIN parts |-> parts[j].data]
           global == [j \in DOMAIN parts |-> parts[j].global]
           local  == [j \in DOMAIN parts |-> parts[j].local]
<1>9. /\ data = [j \in 1 .. l |-> M[K[j]] .. M[K[j] + 1] - 1]
      /\ global = [j \in 1 .. l |-> G[K[j]] .. G[K[j] + 1] - 1]
      /\ local = [j \in 1 .. l |-> L[K[j]] .. L[K[j] + 1] - 1]
  BY <1>7, <1>8
<1>. HIDE DEF data, global, local
<1>10. AscendingRuns(data) /\ Joined(data) = 0 .. m - 1
  <2>1. \A g \in 0 .. n - 1 : M[g] < M[g + 1] => \E a \in 1 .. l : K[a] = g
    BY <1>6
  <2>2. AscendingRuns(data) /\ Joined(data) = M[0] .. M[n] - 1
    <3>1. data = RunsOf(M, l, K)
      BY <1>9 DEF RunsOf
    <3>2. M \in [0 .. n -> Nat] /\ \A g, h \in 0 .. n : g <= h => M[g] <= M[h]
      BY <1>5
    <3>. QED
      BY <1>13, <2>1, <3>1, <3>2, Adjoining DEF InOrderWhole
  <2>. QED
    BY <1>5, <2>2
<1>11. AscendingRuns(global) /\ Joined(global) = {b \in Blocks(conf) : IsGlobal(conf, b)}
  <2>1. \A g \in 0 .. n - 1 : G[g] < G[g + 1] => \E a \in 1 .. l : K[a] = g
    BY <1>6
  <2>2. \A g, h \in 0 .. n : g <= h => G[g] <= G[h]
    BY <1>3
  <2>3. AscendingRuns(global) /\ Joined(global) = G[0] .. G[n] - 1
    <3>1. global = RunsOf(G, l, K)
      BY <1>9 DEF RunsOf
    <3>2. G \in [0 .. n -> Nat]
      BY <1>3
    <3>. QED
      BY <1>13, <2>1, <2>2, <3>1, <3>2, Adjoining DEF InOrderWhole
  <2>4. G[0] .. G[n] - 1 = {b \in Blocks(conf) : IsGlobal(conf, b)}
    <3>1. PICK k \in Nat, r \in Nat, z \in Nat :
            /\ k = conf.k /\ r = conf.r /\ N(conf) = k + r + z /\ G[0] = k /\ G[n] = k + r
      BY <1>3, <1>4
    <3>2. \A b : b \in k .. k + r - 1 <=> b \in 0 .. k + r + z - 1 /\ k <= b /\ b < k + r
      OBVIOUS
    <3>. QED
      BY <3>1, <3>2 DEF Blocks, IsGlobal
  <2>. QED
    BY <2>3, <2>4
<1>12. AscendingRuns(local) /\ Joined(local) = {b \in Blocks(conf) : IsLocal(conf, b)}
  <2>1. \A g \in 0 .. n - 1 : L[g] < L[g + 1] => \E a \in 1 .. l : K[a] = g
    BY <1>6
  <2>2. \A g, h \in 0 .. n : g <= h => L[g] <= L[h]
    BY <1>3
  <2>3. AscendingRuns(local) /\ Joined(local) = L[0] .. L[n] - 1
    <3>1. local = RunsOf(L, l, K)
      BY <1>9 DEF RunsOf
    <3>2. L \in [0 .. n -> Nat]
      BY <1>3
    <3>. QED
      BY <1>13, <2>1, <2>2, <3>1, <3>2, Adjoining DEF InOrderWhole
  <2>4. L[0] .. L[n] - 1 = {b \in Blocks(conf) : IsLocal(conf, b)}
    <3>1. PICK k \in Nat, r \in Nat, z \in Nat :
            /\ k = conf.k /\ r = conf.r /\ N(conf) = k + r + z
            /\ L[0] = k + r /\ L[n] = k + r + z
      BY <1>3, <1>4
    <3>2. \A b : b \in k + r .. k + r + z - 1 <=> b \in 0 .. k + r + z - 1 /\ k + r <= b
      OBVIOUS
    <3>. QED
      BY <3>1, <3>2 DEF Blocks, IsLocal
  <2>. QED
    BY <2>3, <2>4
<1>. QED
  BY <1>10, <1>11, <1>12 DEF data, global, local

\* The client's counts use up every slice of the reply, whatever number of data
\* blocks is brought, and the pointers it hands to the encoder, joined over the
\* slices, are the blocks of each kind in order.
THEOREM CutAgreesHolds == Spec => []CutAgrees
<1>1. ConfInv /\ UploadInv => CutAgrees
  <2> SUFFICES ASSUME ConfInv, UploadInv PROVE CutAgrees
    OBVIOUS
  <2>1. pc \notin {"aborted", "undefined"}
    BY DEF UploadInv
  <2>2. CASE pc = "encoded"
    <3>1. /\ Fit(conf) /\ block_num \in Nat /\ block_num <= conf.k
          /\ Handed(conf, block_num, parts)
      BY <2>2 DEF ConfInv, UploadInv
    <3>. QED
      BY <2>1, <3>1, HandedInOrder DEF CutAgrees
  <2>3. CASE pc # "encoded"
    BY <2>1, <2>3 DEF CutAgrees
  <2>. QED
    BY <2>2, <2>3
<1>. QED
  BY <1>1, UploadHolds, PTL

\* No cluster is asked for more nodes than it has, every block of the reply is
\* one of the stripe, and the client cuts as many slices as it is sent.
THEOREM TypeOKHolds == Spec => []TypeOK
<1>1. ConfInv /\ PlaceInv /\ UploadInv => TypeOK
  <2> SUFFICES ASSUME ConfInv, PlaceInv, UploadInv PROVE TypeOK
    OBVIOUS
  <2>1. /\ pc \in {"start", "configured", "placing", "placed", "replied", "encoded",
                   "stored", "reading", "repairing", "aborted", "undefined"}
        /\ trimmed \in BOOLEAN
        /\ \A j \in DOMAIN slices : slices[j] \subseteq Blocks(conf)
    BY DEF UploadInv
  <2>2. Len(parts) \in {0, Len(slices)}
    <3>1. Len(<<>>) = 0
      OBVIOUS
    <3>. QED
      BY <3>1 DEF UploadInv
  <2>3. pc # "start" => conf \in {loadConfig(file) : file \in Files}
    BY DEF ConfInv
  <2>4. ASSUME pc \notin {"start", "configured"}
        PROVE  /\ i \in 0 .. N(conf)
               /\ t_cluster_id \in 0 .. conf.ClusterNum - 1
               /\ used \in [0 .. conf.ClusterNum - 1 -> 0 .. conf.DatanodeNumPerCluster]
               /\ block_num \in 0 .. conf.k
               /\ failed \in Blocks(conf)
    <3>1. PICK k \in Nat, r \in Nat, z \in Nat, nodes \in Nat, clusters \in Nat :
            /\ k = conf.k /\ r = conf.r /\ z = conf.z
            /\ nodes = conf.DatanodeNumPerCluster /\ clusters = conf.ClusterNum
      BY <2>4 DEF ConfInv, Fit
    <3>2. Fit(conf)
      BY <2>4 DEF ConfInv
    <3>3. /\ t_cluster_id \in 0 .. conf.ClusterNum - 1
          /\ i \in Nat /\ i <= N(conf)
          /\ used \in [0 .. conf.ClusterNum - 1 -> Nat]
          /\ \A cl \in 0 .. conf.ClusterNum - 1 : used[cl] = Cardinality(PlacedOn(cl))
      BY <2>4 DEF PlaceInv
    <3>4. \A cl \in 0 .. conf.ClusterNum - 1 :
            used[cl] \in Nat /\ used[cl] < conf.DatanodeNumPerCluster
      BY <3>2, <3>3, FewPlaced
    <3>5. used \in [0 .. conf.ClusterNum - 1 -> 0 .. conf.DatanodeNumPerCluster]
      BY <3>1, <3>3, <3>4
    <3>6. block_num \in 0 .. conf.k /\ failed \in Blocks(conf)
      BY <2>4, <3>1 DEF UploadInv
    <3>7. i \in 0 .. N(conf)
      <4>1. N(conf) \in Nat
        BY <3>1 DEF N
      <4>. QED
        BY <3>3, <4>1
    <3>. QED
      BY <3>3, <3>5, <3>6, <3>7
  <2>. QED
    BY <2>1, <2>2, <2>3, <2>4 DEF TypeOK
<1>. QED
  BY <1>1, UploadHolds, PTL


-----------------------------------------------------------------------------
(* What a repair reads.                                                    *)

RepairInv == pc = "repairing" => requests = Requests(failed)

\* A repair keeps the requests it was given.
LEMMA RepairStep ==
  ASSUME RepairInv, [Next]_vars
  PROVE  RepairInv'
<1>1. ASSUME NEW f \in 0 .. (IF conf = NoFile THEN 0 ELSE N(conf) - 1), RecoverBlock(f)
      PROVE  RepairInv'
  <2>1. CASE pc' = "repairing"
    <3>1. requests' = Requests(f) /\ conf' = conf /\ failed' = f
      BY <1>1, <2>1 DEF RecoverBlock
    <3>2. Requests(failed)' = Requests(f)
      BY <3>1 DEF Requests, HelperReads, DestReads
    <3>. QED
      BY <3>1, <3>2 DEF RepairInv
  <2>. QED
    BY <2>1 DEF RepairInv
<1>2. ASSUME UNCHANGED vars PROVE RepairInv'
  <2>1. requests' = requests /\ conf' = conf /\ failed' = failed /\ pc' = pc
    BY <1>2 DEF vars
  <2>2. Requests(failed)' = Requests(failed)
    BY <2>1 DEF Requests, HelperReads, DestReads
  <2>. QED
    BY <2>1, <2>2 DEF RepairInv
<1>3. ASSUME \/ \E file \in Files : LoadConfig(file)
             \/ \E s \in StripeIds : StartStripe(s)
             \/ PlaceBlock \/ UploadSet
             \/ \E m \in SubsetSizes : UploadSubset(m)
             \/ CutSlices \/ StoreStripe \/ GetStripe
      PROVE  RepairInv'
  <2>1. pc' # "repairing"
    BY <1>3 DEF LoadConfig, StartStripe, PlaceBlock, UploadSet, UploadSubset, CutSlices,
                StoreStripe, GetStripe
  <2>. QED
    BY <2>1 DEF RepairInv
<1>. QED
  BY <1>1, <1>2, <1>3 DEF Next, Done

\* the blocks a repair of f reads in group g
Asked(f, g) ==
  IF Len(get_recovery_group_ids(conf, f)) = 1 THEN group_to_blocks(conf, g) \ {f}
  ELSE IF g = map2group(conf, f) THEN DestReads(g, f) ELSE HelperReads(g, f)

\* Every group named is asked once, the destination last.
LEMMA AllAsked ==
  ASSUME NEW f, NEW I, Lists(get_recovery_group_ids(conf, f), I), map2group(conf, f) \in I
  PROVE  \E at : /\ Lists(at, I) /\ Len(at) = Len(get_recovery_group_ids(conf, f))
                 /\ Len(at) \in Nat
                 /\ Requests(f) = [j \in 1 .. Len(at) |-> Asked(f, at[j])]
<1> DEFINE ids     == get_recovery_group_ids(conf, f)
           dest    == map2group(conf, f)
           helpers == Without(ids, dest)
<1>1. Lists(ids, I) /\ dest \in I
  OBVIOUS
<1>2. CASE Len(ids) = 1
  <2>1. Requests(f) = <<group_to_blocks(conf, ids[1]) \ {f}>>
    BY <1>2 DEF Requests
  <2>2. \A g : Asked(f, g) = group_to_blocks(conf, g) \ {f}
    BY <1>2 DEF Asked
  <2>. HIDE DEF ids
  <2>3. Requests(f) = [j \in 1 .. Len(ids) |-> Asked(f, ids[j])]
    <3>1. <<group_to_blocks(conf, ids[1]) \ {f}>> = [j \in 1 .. 1 |-> group_to_blocks(conf, ids[j]) \ {f}]
      OBVIOUS
    <3>. QED
      BY <1>2, <2>1, <2>2, <3>1
  <2>4. Len(ids) \in Nat
    BY <1>2
  <2>5. \E at : /\ Lists(at, I) /\ Len(at) = Len(ids) /\ Len(at) \in Nat
                /\ Requests(f) = [j \in 1 .. Len(at) |-> Asked(f, at[j])]
    BY <1>1, <2>3, <2>4
  <2>. QED
    BY <2>5 DEF ids
<1>3. CASE Len(ids) # 1
  <2> DEFINE at   == helpers \o <<dest>>
             sent == [j \in 1 .. Len(helpers) |-> HelperReads(helpers[j], f)]
             last == DestReads(dest, f)
  <2>1. Requests(f) = sent \o <<last>>
    BY <1>3 DEF Requests
  <2>2. ASSUME NEW g
        PROVE  Asked(f, g) = IF g = dest THEN last ELSE HelperReads(g, f)
    BY <1>3 DEF Asked
  <2>. HIDE DEF ids, dest, last
  <2>3. /\ Lists(helpers, I \ {dest}) /\ Len(ids) \in Nat /\ Len(helpers) = Len(ids) - 1
    BY <1>1, WithoutListed
  <2>4. Lists(<<dest>>, {dest}) /\ Len(<<dest>>) = 1
    BY OneListed
  <2>. HIDE DEF helpers
  <2>5. Lists(at, (I \ {dest}) \union {dest}) /\ Len(at) = Len(helpers) + 1 /\ Len(helpers) \in Nat
    BY <2>3, <2>4, JoinListed
  <2>6. (I \ {dest}) \union {dest} = I
    BY <1>1
  <2>7. helpers \in Seq(I \ {dest}) /\ \A j \in 1 .. Len(helpers) : helpers[j] # dest
    BY <2>3 DEF Lists
  <2>8. /\ \A j \in 1 .. Len(helpers) : at[j] = helpers[j]
        /\ at[Len(helpers) + 1] = dest
    <3>1. helpers \in Seq(I) /\ <<dest>> \in Seq(I)
      BY <1>1, <2>7
    <3>. QED
      BY <3>1, ConcatProperties
  <2>9. /\ Len(sent) = Len(helpers)
        /\ \A j \in 1 .. Len(helpers) : sent[j] = HelperReads(helpers[j], f)
        /\ \A j \in 1 .. Len(helpers) : sent[j] \in {sent[h] : h \in 1 .. Len(helpers)}
    BY <2>5
  <2>10. sent \in Seq({sent[h] : h \in 1 .. Len(helpers)} \union {last})
    BY <2>5
  <2>. HIDE DEF at, sent
  <2>11. /\ Len(sent \o <<last>>) = Len(helpers) + 1
         /\ \A j \in 1 .. Len(helpers) : (sent \o <<last>>)[j] = sent[j]
         /\ (sent \o <<last>>)[Len(helpers) + 1] = last
         /\ sent \o <<last>> \in Seq({sent[h] : h \in 1 .. Len(helpers)} \union {last})
    <3>1. <<last>> \in Seq({sent[h] : h \in 1 .. Len(helpers)} \union {last})
      OBVIOUS
    <3>. QED
      BY <2>5, <2>9, <2>10, <3>1, ConcatProperties
  <2>12. ASSUME NEW j \in 1 .. Len(at) PROVE (sent \o <<last>>)[j] = Asked(f, at[j])
    <3>1. CASE j \in 1 .. Len(helpers)
      BY <2>2, <2>7, <2>8, <2>9, <2>11, <3>1
    <3>2. CASE j = Len(helpers) + 1
      BY <2>2, <2>8, <2>11, <3>2
    <3>3. PICK h \in Nat : h = Len(helpers) /\ Len(at) = h + 1
      BY <2>5
    <3>4. j \in 1 .. h \/ j = h + 1
      BY <3>3
    <3>. QED
      BY <3>1, <3>2, <3>3, <3>4
  <2>13. Requests(f) = [j \in 1 .. Len(at) |-> Asked(f, at[j])]
    <3>1. sent \o <<last>> = [j \in 1 .. Len(at) |-> (sent \o <<last>>)[j]]
      BY <2>5, <2>11
    <3>. QED
      BY <2>1, <2>12, <3>1
  <2>14. Lists(at, I)
    BY <2>5, <2>6
  <2>15. Len(at) = Len(ids)
    <3>1. PICK h \in Nat, q \in Nat : h = Len(helpers) /\ q = Len(ids) /\ h = q - 1
      BY <2>3, <2>5
    <3>2. Len(at) = h + 1
      BY <2>5, <3>1
    <3>. QED
      BY <3>1, <3>2
  <2>16. \E s : /\ Lists(s, I) /\ Len(s) = Len(ids) /\ Len(s) \in Nat
                /\ Requests(f) = [j \in 1 .. Len(s) |-> Asked(f, s[j])]
    BY <2>3, <2>13, <2>14, <2>15
  <2>. QED
    BY <2>16 DEF ids
<1>. QED
  BY <1>2, <1>3


\* Whatever is read in a group is of that group, and is not the lost block.
LEMMA AskedOfGroup ==
  ASSUME NEW f, NEW g
  PROVE  Asked(f, g) \subseteq group_to_blocks(conf, g) \ {f}
<1>1. HelperReads(g, f) \subseteq group_to_blocks(conf, g) \ {f}
  BY DEF HelperReads, Slice
<1>2. DestReads(g, f) \subseteq group_to_blocks(conf, g) \ {f}
  BY DEF DestReads, Slice
<1>. QED
  BY <1>1, <1>2 DEF Asked

\* A repair reads no block twice, and waits for as many parts as are sent.
LEMMA ReadsJoined ==
  ASSUME NEW f, NEW I, Lists(get_recovery_group_ids(conf, f), I), map2group(conf, f) \in I,
         requests = Requests(f)
  PROVE  /\ ReadOnce
         /\ Len(requests) = CrossRackNum(f) + 1
         /\ \A x : x \in RepairReads <=> \E g \in I : x \in Asked(f, g)
         /\ \A j \in DOMAIN requests : \E g \in I : requests[j] = Asked(f, g)
<1>1. PICK at : /\ Lists(at, I) /\ Len(at) = Len(get_recovery_group_ids(conf, f))
                /\ Len(at) \in Nat
                /\ Requests(f) = [j \in 1 .. Len(at) |-> Asked(f, at[j])]
  BY AllAsked
<1>2. PICK l \in Nat : l = Len(at)
  BY <1>1
<1>3. /\ at \in Seq(I)
      /\ \A a, b \in 1 .. l : a # b => at[a] # at[b]
      /\ \A g \in I : \E a \in 1 .. l : at[a] = g
  BY <1>1, <1>2 DEF Lists
<1>4. \A j \in 1 .. l : at[j] \in I
  BY <1>2, <1>3
<1>5. requests = [j \in 1 .. l |-> Asked(f, at[j])]
  BY <1>1, <1>2
<1>6. DOMAIN requests = 1 .. l /\ \A j \in 1 .. l : requests[j] = Asked(f, at[j])
  BY <1>5
<1>7. Len(requests) = l
  BY <1>5
<1>8. Len(requests) = CrossRackNum(f) + 1
  BY <1>1, <1>2, <1>7 DEF CrossRackNum
<1>9. ASSUME NEW a \in 1 .. l, NEW b \in 1 .. l, a # b
      PROVE  requests[a] \cap requests[b] = {}
  <2>1. at[a] # at[b]
    BY <1>3, <1>9
  <2>2. /\ requests[a] \subseteq group_to_blocks(conf, at[a])
        /\ requests[b] \subseteq group_to_blocks(conf, at[b])
    BY <1>6, AskedOfGroup
  <2>. QED
    BY <2>1, <2>2 DEF group_to_blocks
<1>10. \A x : x \in RepairReads <=> \E j \in 1 .. l : x \in Asked(f, at[j])
  BY <1>6 DEF RepairReads, Joined
<1>11. \A x : x \in RepairReads <=> \E g \in I : x \in Asked(f, g)
  BY <1>3, <1>4, <1>10
<1>12. ReadOnce
  BY <1>6, <1>9 DEF ReadOnce
<1>. QED
  BY <1>4, <1>6, <1>8, <1>11, <1>12

\* But for a global parity of AzureLRC, a repair reads the other blocks of one
\* equation of the lost block.
LEMMA EquationRead ==
  ASSUME Fit(conf), NEW f \in Blocks(conf), requests = Requests(f),
         ~ (conf.CodeType = "AzureLRC" /\ IsGlobal(conf, f))
  PROVE  /\ ReadOnce
         /\ Len(requests) = CrossRackNum(f) + 1
         /\ \E l \in 0 .. conf.z - 1 :
              f \in Equation(conf, l) /\ RepairReads = Equation(conf, l) \ {f}
         /\ conf.CodeType # "OptimalLRC" => UsesCoefficients
<1>1. PICK l \in 0 .. conf.z - 1, I \in SUBSET (0 .. num_groups(conf) - 1) :
           /\ Lists(get_recovery_group_ids(conf, f), I)
           /\ map2group(conf, f) \in I /\ KeptBy(conf, l, I)
           /\ conf.CodeType # "OptimalLRC" =>
                I = {map2group(conf, f)} /\ TwoBlocks(conf, map2group(conf, f))
  BY NamesEquation
<1>2. /\ ReadOnce
      /\ Len(requests) = CrossRackNum(f) + 1
      /\ \A x : x \in RepairReads <=> \E g \in I : x \in Asked(f, g)
      /\ \A j \in DOMAIN requests : \E g \in I : requests[j] = Asked(f, g)
  BY <1>1, ReadsJoined
<1>3. ASSUME conf.CodeType # "OptimalLRC"
      PROVE  Len(get_recovery_group_ids(conf, f)) = 1
  <2>1. Lists(get_recovery_group_ids(conf, f), {map2group(conf, f)})
    BY <1>1, <1>3
  <2>. QED
    BY <2>1, OnlyListed
<1>4. ASSUME NEW g \in I PROVE Asked(f, g) = group_to_blocks(conf, g) \ {f}
  <2>1. CASE conf.CodeType # "OptimalLRC"
    BY <1>3, <2>1 DEF Asked
  <2>2. CASE conf.CodeType = "OptimalLRC"
    BY <2>2 DEF Asked, HelperReads, DestReads
  <2>. QED
    BY <2>1, <2>2
<1>5. \A b \in Blocks(conf) : b \in Equation(conf, l) <=> map2group(conf, b) \in I
  BY <1>1 DEF KeptBy
<1>6. Equation(conf, l) \subseteq Blocks(conf)
  <2>1. PICK k \in Nat, r \in Nat, z \in Nat : k = conf.k /\ r = conf.r /\ z = conf.z
    BY DEF Fit
  <2>2. conf.k + conf.r + l \in Blocks(conf)
    BY <2>1 DEF Blocks, N
  <2>3. EncoderGlobals(conf, l) \subseteq Blocks(conf)
    <3>1. conf.CodeType \in {"UniLRC", "AzureLRC", "OptimalLRC", "UniformLRC"}
      BY DEF Fit, CodeTypes
    <3>. QED
      BY <3>1 DEF EncoderGlobals
  <2>. QED
    BY <2>2, <2>3 DEF Equation
<1>7. RepairReads = Equation(conf, l) \ {f}
  <2>1. \A x : x \in RepairReads <=> \E g \in I : x \in group_to_blocks(conf, g) /\ x # f
    <3>1. \A x : x \in RepairReads <=> \E g \in I : x \in Asked(f, g)
      BY <1>2
    <3>2. \A g \in I : \A x : x \in Asked(f, g) <=> x \in group_to_blocks(conf, g) /\ x # f
      BY <1>4
    <3>. QED
      BY <3>1, <3>2
  <2>2. \A x : x \in RepairReads <=> x \in Blocks(conf) /\ map2group(conf, x) \in I /\ x # f
    BY <2>1 DEF group_to_blocks
  <2>3. \A x : x \in RepairReads <=> x \in Equation(conf, l) /\ x # f
    BY <1>5, <1>6, <2>2
  <2>. QED
    BY <2>3
<1>8. f \in Equation(conf, l)
  BY <1>1, <1>5
<1>9. ASSUME conf.CodeType # "OptimalLRC" PROVE UsesCoefficients
  <2>1. conf.CodeType \in {"UniLRC", "AzureLRC", "UniformLRC"}
    BY <1>9 DEF Fit, CodeTypes
  <2>2. \A reads, b : DecoderCoef(conf, reads, b) = EncoderCoef(conf, b)
    BY <2>1 DEF DecoderCoef, EncoderCoef
  <2>3. ASSUME NEW j \in DOMAIN requests PROVE requests[j] # {}
    <3>1. requests[j] = group_to_blocks(conf, map2group(conf, f)) \ {f}
      BY <1>1, <1>2, <1>4, <1>9
    <3>. QED
      BY <1>1, <1>9, <3>1 DEF TwoBlocks
  <2>. QED
    BY <2>2, <2>3 DEF UsesCoefficients
<1>. QED
  BY <1>2, <1>7, <1>8, <1>9

\* A run, and a run less one of its numbers, as a set of three runs.
LEMMA RunLess ==
  ASSUME NEW a \in Nat, NEW b \in Nat, NEW f \in Nat, a <= f, f < b
  PROVE  /\ InTurn(a, f, f + 1, b, b, b)
         /\ \A y : y \in Runs(a, f, f + 1, b, b, b) <=> y \in Nat /\ a <= y /\ y < b /\ y # f
         /\ \A x \in Runs(a, f, f + 1, b, b, b) :
              Rank(Runs(a, f, f + 1, b, b, b), x) = IF x < f THEN x - a ELSE x - a - 1
<1>1. InTurn(a, f, f + 1, b, b, b)
  BY DEF InTurn
<1>2. \A y : y \in Runs(a, f, f + 1, b, b, b) <=>
        y \in Nat /\ ((a <= y /\ y < f) \/ (f + 1 <= y /\ y < b) \/ (b <= y /\ y < b))
  BY <1>1, InRuns
<1>3. \A y : y \in Runs(a, f, f + 1, b, b, b) <=> y \in Nat /\ a <= y /\ y < b /\ y # f
  BY <1>2
<1>4. ASSUME NEW x \in Runs(a, f, f + 1, b, b, b)
      PROVE  Rank(Runs(a, f, f + 1, b, b, b), x) = IF x < f THEN x - a ELSE x - a - 1
  <2>1. x \in Nat /\ a <= x /\ x < b /\ x # f
    BY <1>3
  <2>2. /\ x < f => Rank(Runs(a, f, f + 1, b, b, b), x) = x - a
        /\ f <= x /\ x < b => Rank(Runs(a, f, f + 1, b, b, b), x) = (f - a) + (x - (f + 1))
    BY <1>1, RunsRank
  <2>. QED
    BY <2>1, <2>2
<1>. QED
  BY <1>1, <1>3, <1>4

\* The first n of a run of n numbers are all of it.
LEMMA WholeRun ==
  ASSUME NEW a \in Nat, NEW b \in Nat, NEW S, \A y : y \in S <=> y \in Nat /\ a <= y /\ y < b, a <= b
  PROVE  Slice(S, 0, b - a) = S
<1>1. InTurn(a, b, b, b, b, b)
  BY DEF InTurn
<1>2. \A y : y \in Runs(a, b, b, b, b, b) <=>
        y \in Nat /\ ((a <= y /\ y < b) \/ (b <= y /\ y < b) \/ (b <= y /\ y < b))
  BY <1>1, InRuns
<1>3. S = Runs(a, b, b, b, b, b)
  BY <1>2
<1>4. Slice(S, 0, b - a) = a .. b - 1
  BY <1>1, <1>3, RunsCut
<1>5. \A y : y \in a .. b - 1 <=> y \in S
  BY InInterval
<1>. QED
  BY <1>4, <1>5


\* where a block of an AzureLRC stripe is
LEMMA AzureAt ==
  ASSUME NEW c, Fit(c), c.CodeType = "AzureLRC", NEW b \in Blocks(c)
  PROVE  /\ b \in Nat /\ b < c.k + c.r + c.z
         /\ b < c.k => map2group(c, b) = b \div LocalSize(c)
         /\ c.k <= b /\ b < c.k + c.r => map2group(c, b) = c.z
         /\ c.k + c.r <= b => map2group(c, b) = b - c.k - c.r
<1>1. PICK k \in Nat, r \in Nat, z \in Nat : k = c.k /\ r = c.r /\ z = c.z
  BY DEF Fit
<1>2. b \in Nat /\ b < k + r + z
  BY <1>1 DEF Blocks, N
<1>3. map2group(c, b) = AzureGroup(c, b)
  BY DEF map2group
<1>4. /\ IsData(c, b) <=> b < k
      /\ IsGlobal(c, b) <=> k <= b /\ b < k + r
      /\ IsLocal(c, b) <=> k + r <= b
  BY <1>1 DEF IsData, IsGlobal, IsLocal
<1>5. ASSUME b < k PROVE AzureGroup(c, b) = b \div LocalSize(c)
  <2>1. ~ (k <= b /\ b < k + r) /\ ~ (k + r <= b)
    BY <1>2, <1>5
  <2>. QED
    BY <1>4, <1>5, <2>1 DEF AzureGroup
<1>6. ASSUME k <= b, b < k + r PROVE AzureGroup(c, b) = z
  <2>1. ~ (b < k) /\ ~ (k + r <= b)
    BY <1>2, <1>6
  <2>. QED
    BY <1>1, <1>4, <1>6, <2>1 DEF AzureGroup
<1>7. ASSUME k + r <= b PROVE AzureGroup(c, b) = b - k - r
  <2>1. ~ (b < k) /\ ~ (k <= b /\ b < k + r)
    BY <1>2, <1>7
  <2>. QED
    BY <1>1, <1>4, <1>7, <2>1 DEF AzureGroup, LocalId
<1>. QED
  BY <1>1, <1>2, <1>3, <1>5, <1>6, <1>7

\* The first n of the numbers from a to b less f.
LEMMA FirstLess ==
  ASSUME NEW a \in Nat, NEW b \in Nat, NEW f \in Nat, a <= f, f < b, NEW n \in Nat, NEW S,
         \A y : y \in S <=> y \in Nat /\ a <= y /\ y < b /\ y # f
  PROVE  \A x : x \in Slice(S, 0, n) <=>
           /\ x \in Nat /\ a <= x /\ x < b /\ x # f
           /\ IF x < f THEN x < a + n ELSE x < a + n + 1
<1>1. /\ \A y : y \in Runs(a, f, f + 1, b, b, b) <=> y \in Nat /\ a <= y /\ y < b /\ y # f
      /\ \A x \in Runs(a, f, f + 1, b, b, b) :
           Rank(Runs(a, f, f + 1, b, b, b), x) = IF x < f THEN x - a ELSE x - a - 1
  BY RunLess
<1>2. S = Runs(a, f, f + 1, b, b, b)
  BY <1>1
<1>3. \A x \in S : Rank(S, x) = IF x < f THEN x - a ELSE x - a - 1
  BY <1>1, <1>2
<1>4. \A x : x \in Slice(S, 0, n) <=> x \in S /\ Rank(S, x) >= 0 /\ Rank(S, x) < 0 + n
  BY DEF Slice
<1>5. ASSUME NEW x \in S
      PROVE  Rank(S, x) >= 0 /\ Rank(S, x) < 0 + n <=>
               (IF x < f THEN x < a + n ELSE x < a + n + 1)
  <2>1. x \in Nat /\ a <= x /\ x < b /\ x # f
    BY <1>5
  <2>2. PICK q \in Int : q = Rank(S, x) /\ q = IF x < f THEN x - a ELSE x - a - 1
    BY <1>3, <2>1
  <2>3. CASE x < f
    BY <2>1, <2>2, <2>3
  <2>4. CASE ~ (x < f)
    BY <2>1, <2>2, <2>4
  <2>. QED
    BY <2>3, <2>4
<1>. QED
  BY <1>4, <1>5

\* k numbers from s on, f and the local parities left out
FirstRows(k, r, s, f) ==
  {x \in Nat : /\ s <= x /\ x < k + r /\ x # f
               /\ IF x < f THEN x < s + k ELSE x < s + k + 1}

\* The rows AzureLRC's decoder inverts are k.
LEMMA RowsAreK ==
  ASSUME NEW k \in Nat, NEW r \in Nat, NEW s \in Nat, s <= k, s < r,
         NEW f \in Nat, k <= f, f < k + r
  PROVE  Cardinality(FirstRows(k, r, s, f)) = k
<1>0. PICK R : R = FirstRows(k, r, s, f)
  OBVIOUS
<1>3. \A x : x \in R <=> /\ x \in Nat /\ s <= x /\ x < k + r /\ x # f
                         /\ IF x < f THEN x < s + k ELSE x < s + k + 1
  BY <1>0 DEF FirstRows
<1>1. CASE f <= k + s
  <2>1. PICK e \in Nat : e = k + s + 1
    OBVIOUS
  <2>2. /\ InTurn(s, f, f + 1, e, e, e)
        /\ \A y : y \in Runs(s, f, f + 1, e, e, e) <=> y \in Nat /\ s <= y /\ y < e /\ y # f
    <3>1. s <= f /\ f < e
      BY <1>1, <2>1
    <3>. QED
      BY <3>1, RunLess
  <2>3. \A x : x \in R <=> x \in Nat /\ s <= x /\ x < e /\ x # f
    BY <1>1, <1>3, <2>1
  <2>4. R = Runs(s, f, f + 1, e, e, e)
    BY <2>2, <2>3
  <2>5. /\ IsFiniteSet(R)
        /\ Cardinality(R) = (f - s) + (e - (f + 1)) + (e - e)
    BY <2>2, <2>4, RunsSize
  <2>. QED
    BY <1>0, <2>1, <2>5
<1>2. CASE f > k + s
  <2>1. PICK e \in Nat : e = k + s
    OBVIOUS
  <2>2. \A x : x \in R <=> x \in Nat /\ s <= x /\ x < e
    BY <1>2, <1>3, <2>1
  <2>3. \A x : x \in s .. e - 1 <=> x \in Nat /\ s <= x /\ x < e
    BY InInterval
  <2>4. R = s .. e - 1
    BY <2>2, <2>3
  <2>5. IsFiniteSet(s .. e - 1) /\ Cardinality(s .. e - 1) = e - s
    <3>1. s <= e
      BY <2>1
    <3>. QED
      BY <3>1, IntervalSize
  <2>. QED
    BY <1>0, <2>1, <2>4, <2>5
<1>. QED
  BY <1>0, <1>1, <1>2

\* A repair of a global parity of AzureLRC reads the k rows the decoder inverts.
LEMMA GlobalRead ==
  ASSUME Fit(conf), NEW f \in Blocks(conf), requests = Requests(f),
         conf.CodeType = "AzureLRC", IsGlobal(conf, f)
  PROVE  /\ ReadOnce
         /\ Len(requests) = CrossRackNum(f) + 1
         /\ RepairReads = AzureRows(conf, f) /\ Cardinality(RepairReads) = conf.k
         /\ UsesCoefficients
<1>1. PICK k \in Nat, r \in Nat, z \in Nat : k = conf.k /\ r = conf.r /\ z = conf.z
  BY DEF Fit
<1>2. z > 1 /\ k > 0 /\ k % z = 0 /\ r > LocalSize(conf)
  BY <1>1 DEF Fit, Supported
<1>3. PICK s \in Nat : s = k \div z /\ k = s * z
  BY <1>2, Exactly
<1>4. s > 0
  <2>1. s = 0 => s * z = 0
    OBVIOUS
  <2>. QED
    BY <1>2, <1>3, <2>1
<1>5. LocalSize(conf) = s /\ s < r
  BY <1>1, <1>2, <1>3 DEF LocalSize
<1>6. k = z * s /\ s <= k
  <2>1. s * z = z * s
    OBVIOUS
  <2>2. 1 * s <= z * s /\ 1 * s = s
    BY <1>2, <1>4, Multiples
  <2>. QED
    BY <1>3, <2>1, <2>2
<1>7. f \in Nat /\ k <= f /\ f < k + r
  BY <1>1 DEF Blocks, N, IsGlobal
<1>8. /\ map2group(conf, f) = z
      /\ get_recovery_group_ids(conf, f) = Interval(1, z)
      /\ Lists(get_recovery_group_ids(conf, f), 1 .. z)
  BY <1>1, AzureIds
<1>9. Len(get_recovery_group_ids(conf, f)) # 1
  <2>1. 1 \in Int /\ z \in Int /\ 1 <= z + 1
    OBVIOUS
  <2>2. Len(Interval(1, z)) = z - 1 + 1
    BY <2>1, IntervalListed
  <2>3. Len(get_recovery_group_ids(conf, f)) = Len(Interval(1, z))
    BY <1>8
  <2>4. z - 1 + 1 = z
    OBVIOUS
  <2>. QED
    <3>1. Len(Interval(1, z)) = z
      BY <2>2, <2>4
    <3>2. z # 1
      BY <1>2
    <3>. QED
      BY <2>3, <3>1, <3>2
<1>10. z \in 1 .. z
  BY <1>2
<1>11. /\ ReadOnce
       /\ Len(requests) = CrossRackNum(f) + 1
       /\ \A x : x \in RepairReads <=> \E g \in 1 .. z : x \in Asked(f, g)
       /\ \A j \in DOMAIN requests : \E g \in 1 .. z : requests[j] = Asked(f, g)
  <2>1. map2group(conf, f) \in 1 .. z
    BY <1>8, <1>10
  <2>. QED
    BY <1>8, <2>1, ReadsJoined
<1>12. ASSUME NEW b \in Blocks(conf)
       PROVE  /\ b \in Nat /\ b < k + r + z
              /\ b < k => map2group(conf, b) = b \div s
              /\ k <= b /\ b < k + r => map2group(conf, b) = z
              /\ k + r <= b => map2group(conf, b) = b - k - r
              /\ IsLocal(conf, b) <=> k + r <= b
  BY <1>1, <1>5, AzureAt DEF IsLocal
<1>13. \A b \in Nat : b < k + r + z => b \in Blocks(conf)
  BY <1>1 DEF Blocks, N
\* a helper: the data of its group
<1>14. ASSUME NEW g \in 1 .. z - 1
       PROVE  \E a \in Nat : /\ a = g * s /\ s <= a /\ a + s <= k
                             /\ \A x : x \in Asked(f, g) <=> x \in Nat /\ a <= x /\ x < a + s
  <2>0. g \in Nat /\ 1 <= g /\ g < z
    OBVIOUS
  <2>1. PICK a \in Nat : a = g * s
    BY <2>0, Multiples
  <2>2. s <= a /\ a + s <= k
    <3>1. 1 * s <= g * s /\ 1 * s = s
      BY <1>4, <2>0, Multiples
    <3>2. g * s + s <= z * s
      BY <1>4, <2>0, Multiples
    <3>. QED
      BY <1>6, <2>1, <3>1, <3>2
  <2> DEFINE T == {b \in group_to_blocks(conf, g) \ {f} : ~ IsLocal(conf, b)}
  <2>3. Asked(f, g) = Slice(T, 0, s)
    BY <1>5, <1>8, <1>9, <2>0 DEF Asked, HelperReads
  <2>4. ASSUME NEW y PROVE y \in T <=> y \in Nat /\ a <= y /\ y < a + s
    <3>1. ASSUME y \in T PROVE y \in Nat /\ a <= y /\ y < a + s
      <4>1. y \in Blocks(conf) /\ map2group(conf, y) = g /\ ~ IsLocal(conf, y)
        BY <3>1 DEF group_to_blocks
      <4>2. y \in Nat /\ y < k + r
        BY <1>12, <4>1
      <4>3. y < k
        BY <1>12, <2>0, <4>1, <4>2
      <4>4. y \div s = g
        BY <1>12, <4>1, <4>3
      <4>5. g * s <= y /\ y < g * s + s
        BY <1>4, <2>0, <4>2, <4>4, QuotientIs
      <4>. QED
        BY <2>1, <4>2, <4>5
    <3>2. ASSUME y \in Nat, a <= y, y < a + s PROVE y \in T
      <4>1. y < k /\ y # f /\ y < k + r + z /\ ~ (k + r <= y)
        BY <1>7, <2>2, <3>2
      <4>2. y \in Blocks(conf)
        BY <1>13, <3>2, <4>1
      <4>3. y \div s = g
        BY <1>4, <2>0, <2>1, <3>2, QuotientIs
      <4>4. map2group(conf, y) = g /\ ~ IsLocal(conf, y)
        BY <1>12, <4>1, <4>2, <4>3
      <4>. QED
        BY <4>1, <4>2, <4>4 DEF group_to_blocks
    <3>. QED
      BY <3>1, <3>2
  <2>. HIDE DEF T
  <2>5. Slice(T, 0, s) = T
    <3>1. PICK e \in Nat : e = a + s /\ a <= e /\ e - a = s
      OBVIOUS
    <3>2. \A y : y \in T <=> y \in Nat /\ a <= y /\ y < e
      BY <2>4, <3>1
    <3>3. Slice(T, 0, e - a) = T
      BY <3>1, <3>2, WholeRun
    <3>. QED
      BY <3>1, <3>3
  <2>. QED
    BY <2>1, <2>2, <2>3, <2>4, <2>5
\* the destination: the first of the other global parities
<1>15. \A x : x \in Asked(f, z) <=> /\ x \in Nat /\ k <= x /\ x < k + r /\ x # f
                                    /\ IF x < f THEN x < k + s ELSE x < k + s + 1
  <2> DEFINE T == group_to_blocks(conf, z) \ {f}
  <2>1. Asked(f, z) = Slice(T, 0, s)
    BY <1>5, <1>8, <1>9 DEF Asked, DestReads
  <2>2. ASSUME NEW y PROVE y \in T <=> y \in Nat /\ k <= y /\ y < k + r /\ y # f
    <3>1. ASSUME y \in T PROVE y \in Nat /\ k <= y /\ y < k + r /\ y # f
      <4>1. y \in Blocks(conf) /\ map2group(conf, y) = z /\ y # f
        BY <3>1 DEF group_to_blocks
      <4>2. y \in Nat /\ y < k + r + z
        BY <1>12, <4>1
      <4>3. ~ (y < k)
        <5> SUFFICES ASSUME y < k PROVE FALSE
          OBVIOUS
        <5>1. y \div s = z
          BY <1>12, <4>1
        <5>2. y < z * s
          BY <1>6
        <5>3. y \div s < z /\ y \div s \in Nat
          BY <1>4, <4>2, <5>2, QuotientBelow
        <5>. QED
          BY <5>1, <5>3
      <4>4. ~ (k + r <= y)
        BY <1>12, <4>1, <4>2
      <4>. QED
        BY <4>1, <4>2, <4>3, <4>4
    <3>2. ASSUME y \in Nat, k <= y, y < k + r, y # f PROVE y \in T
      <4>1. y < k + r + z
        BY <3>2
      <4>2. y \in Blocks(conf)
        BY <1>13, <3>2, <4>1
      <4>3. map2group(conf, y) = z
        BY <1>12, <3>2, <4>2
      <4>. QED
        BY <3>2, <4>2, <4>3 DEF group_to_blocks
    <3>. QED
      BY <3>1, <3>2
  <2>. HIDE DEF T
  <2>3. PICK e \in Nat : e = k + r
    OBVIOUS
  <2>4. \A y : y \in T <=> y \in Nat /\ k <= y /\ y < e /\ y # f
    BY <2>2, <2>3
  <2>5. \A x : x \in Slice(T, 0, s) <=>
          /\ x \in Nat /\ k <= x /\ x < e /\ x # f
          /\ IF x < f THEN x < k + s ELSE x < k + s + 1
    BY <1>7, <2>3, <2>4, FirstLess
  <2>. QED
    BY <2>1, <2>3, <2>5
<1>16. ASSUME NEW x
       PROVE  x \in RepairReads <=> (x \in Nat /\ s <= x /\ x < k) \/ x \in Asked(f, z)
  <2>1. ASSUME x \in RepairReads PROVE (x \in Nat /\ s <= x /\ x < k) \/ x \in Asked(f, z)
    <3>1. PICK g \in 1 .. z : x \in Asked(f, g)
      BY <1>11, <2>1
    <3>2. CASE g = z
      BY <3>1, <3>2
    <3>3. CASE g # z
      <4>1. g \in 1 .. z - 1
        BY <3>3
      <4>2. PICK a \in Nat : /\ a = g * s /\ s <= a /\ a + s <= k
                             /\ \A y : y \in Asked(f, g) <=> y \in Nat /\ a <= y /\ y < a + s
        BY <1>14, <4>1
      <4>. QED
        BY <3>1, <4>2
    <3>. QED
      BY <3>2, <3>3
  <2>2. ASSUME x \in Nat, s <= x, x < k PROVE x \in RepairReads
    <3>1. PICK g \in Nat : g = x \div s /\ g < z
      BY <1>4, <1>6, <2>2, QuotientBelow
    <3>2. g * s <= x /\ x < g * s + s
      BY <1>4, <2>2, <3>1, QuotientIs
    <3>3. g # 0
      <4>1. g = 0 => g * s = 0
        OBVIOUS
      <4>. QED
        BY <2>2, <3>2, <4>1
    <3>4. g \in 1 .. z - 1 /\ g \in 1 .. z
      BY <3>1, <3>3
    <3>5. PICK a \in Nat : /\ a = g * s /\ s <= a /\ a + s <= k
                           /\ \A y : y \in Asked(f, g) <=> y \in Nat /\ a <= y /\ y < a + s
      BY <1>14, <3>4
    <3>6. x \in Asked(f, g)
      BY <2>2, <3>2, <3>5
    <3>. QED
      BY <1>11, <3>4, <3>6
  <2>3. ASSUME x \in Asked(f, z) PROVE x \in RepairReads
    BY <1>10, <1>11, <2>3
  <2>. QED
    BY <2>1, <2>2, <2>3
<1>17. \A x : x \in AzureRows(conf, f) <=>
         /\ x \in Nat /\ s <= x /\ x < k + r /\ x # f
         /\ IF x < f THEN x < s + k ELSE x < s + k + 1
  <2> DEFINE T == {b \in Blocks(conf) : b >= LocalSize(conf) /\ ~ IsLocal(conf, b) /\ b # f}
  <2>1. AzureRows(conf, f) = Slice(T, 0, k)
    BY <1>1 DEF AzureRows
  <2>2. PICK e \in Nat : e = k + r
    OBVIOUS
  <2>3. ASSUME NEW y PROVE y \in T <=> y \in Nat /\ s <= y /\ y < e /\ y # f
    <3>1. y \in T => y \in Nat /\ s <= y /\ y < e /\ y # f
      BY <1>5, <1>12, <2>2
    <3>2. ASSUME y \in Nat, s <= y, y < e, y # f PROVE y \in T
      <4>1. y < k + r + z /\ ~ (k + r <= y)
        BY <2>2, <3>2
      <4>2. y \in Blocks(conf)
        BY <1>13, <3>2, <4>1
      <4>. QED
        BY <1>5, <1>12, <3>2, <4>1, <4>2
    <3>. QED
      BY <3>1, <3>2
  <2>. HIDE DEF T
  <2>4. s <= f /\ f < e
    BY <1>6, <1>7, <2>2
  <2>5. \A x : x \in Slice(T, 0, k) <=>
          /\ x \in Nat /\ s <= x /\ x < e /\ x # f
          /\ IF x < f THEN x < s + k ELSE x < s + k + 1
    BY <1>7, <2>3, <2>4, FirstLess
  <2>. QED
    BY <2>1, <2>2, <2>5
<1>18. RepairReads = AzureRows(conf, f)
  <2>1. ASSUME NEW x PROVE x \in RepairReads <=> x \in AzureRows(conf, f)
    <3>1. x \in RepairReads <=>
            \/ x \in Nat /\ s <= x /\ x < k
            \/ /\ x \in Nat /\ k <= x /\ x < k + r /\ x # f
               /\ IF x < f THEN x < k + s ELSE x < k + s + 1
      BY <1>15, <1>16
    <3>2. x \in AzureRows(conf, f) <=>
            /\ x \in Nat /\ s <= x /\ x < k + r /\ x # f
            /\ IF x < f THEN x < s + k ELSE x < s + k + 1
      BY <1>17
    <3>3. CASE x \in Nat /\ x < k
      BY <1>7, <3>1, <3>2, <3>3
    <3>4. CASE x \in Nat /\ k <= x
      BY <1>6, <3>1, <3>2, <3>4
    <3>5. CASE x \notin Nat
      BY <3>1, <3>2, <3>5
    <3>. QED
      BY <3>3, <3>4, <3>5
  <2>. QED
    BY <2>1
<1>19. Cardinality(RepairReads) = conf.k
  <2>1. Cardinality(AzureRows(conf, f)) = k
    <3>1. \A x : x \in AzureRows(conf, f) <=> x \in FirstRows(k, r, s, f)
      BY <1>17 DEF FirstRows
    <3>2. AzureRows(conf, f) = FirstRows(k, r, s, f)
      BY <3>1
    <3>3. s <= k /\ s < r /\ f \in Nat /\ k <= f /\ f < k + r
      BY <1>5, <1>6, <1>7
    <3>. QED
      BY <3>2, <3>3, RowsAreK
  <2>. QED
    BY <1>1, <1>18, <2>1
<1>20. UsesCoefficients
  <2>1. \A reads, b : DecoderCoef(conf, reads, b) = EncoderCoef(conf, b)
    BY DEF DecoderCoef, EncoderCoef
  <2>2. ASSUME NEW g \in 1 .. z PROVE Asked(f, g) # {}
    <3>1. CASE g = z
      <4>1. CASE f = k
        <5>1. k + 1 \in Asked(f, z)
          BY <1>4, <1>5, <1>15, <4>1
        <5>. QED
          BY <3>1, <5>1
      <4>2. CASE f # k
        <5>1. k \in Asked(f, z)
          BY <1>4, <1>5, <1>7, <1>15, <4>2
        <5>. QED
          BY <3>1, <5>1
      <4>. QED
        BY <4>1, <4>2
    <3>2. CASE g # z
      <4>1. g \in 1 .. z - 1
        BY <3>2
      <4>2. PICK a \in Nat : /\ a = g * s /\ s <= a /\ a + s <= k
                             /\ \A y : y \in Asked(f, g) <=> y \in Nat /\ a <= y /\ y < a + s
        BY <1>14, <4>1
      <4>3. a \in Asked(f, g)
        BY <1>4, <4>2
      <4>. QED
        BY <4>3
    <3>. QED
      BY <3>1, <3>2
  <2>3. \A j \in DOMAIN requests : requests[j] # {}
    BY <1>11, <2>2
  <2>. QED
    BY <2>1, <2>3 DEF UsesCoefficients
<1>. QED
  BY <1>11, <1>18, <1>19, <1>20

\* A repair reads the other blocks of one local equation of the lost block, or
\* for a global parity of AzureLRC the k rows its decoder inverts; it reads each
\* once, waits for as many parts as are sent, and decodes every part with the
\* coefficients it was encoded with, but for OptimalLRC.
THEOREM RepairReadsEquationHolds == Spec => []RepairReadsEquation
<1>1. Init => RepairInv
  BY DEF Init, RepairInv
<1>2. RepairInv /\ [Next]_vars => RepairInv'
  BY RepairStep
<1>3. ConfInv /\ UploadInv /\ RepairInv => RepairReadsEquation
  <2> SUFFICES ASSUME ConfInv, UploadInv, RepairInv, pc = "repairing"
               PROVE  RepairReadsEquation
    BY DEF RepairReadsEquation
  <2>1. Fit(conf) /\ failed \in Blocks(conf) /\ requests = Requests(failed)
    BY DEF ConfInv, UploadInv, RepairInv
  <2>2. CASE AzureGlobal
    <3>1. /\ ReadOnce
          /\ Len(requests) = CrossRackNum(failed) + 1
          /\ RepairReads = AzureRows(conf, failed) /\ Cardinality(RepairReads) = conf.k
          /\ UsesCoefficients
      BY <2>1, <2>2, GlobalRead DEF AzureGlobal
    <3>. QED
      BY <2>2, <3>1 DEF RepairReadsEquation
  <2>3. CASE ~ AzureGlobal
    <3>1. /\ ReadOnce
          /\ Len(requests) = CrossRackNum(failed) + 1
          /\ \E l \in 0 .. conf.z - 1 :
               failed \in Equation(conf, l) /\ RepairReads = Equation(conf, l) \ {failed}
          /\ conf.CodeType # "OptimalLRC" => UsesCoefficients
      BY <2>1, <2>3, EquationRead DEF AzureGlobal
    <3>. QED
      BY <2>3, <3>1 DEF RepairReadsEquation
  <2>. QED
    BY <2>2, <2>3
<1>. QED
  BY <1>1, <1>2, <1>3, UploadHolds, PTL DEF Spec
=============================================================================
