----------------------------- MODULE LrcLayout -----------------------------
(***************************************************************************)
(* The arithmetic of a stripe: four locally repairable codes, and for each *)
(* the formulas that must agree on which block is where.  The coordinator  *)
(* maps blocks to groups and names the groups a repair reads; the client   *)
(* cuts its buffer by formulas of its own; the encoder builds the local    *)
(* equations and the decoder assumes their coefficients.                   *)
(*                                                                         *)
(* A configuration c is a record of code type, k, r, z and the cluster     *)
(* sizes.  Blocks 0 .. k-1 hold data, k .. k+r-1 global parity, the last   *)
(* z local parity.                                                         *)
(***************************************************************************)
EXTENDS Integers, Sequences, FiniteSets

Ceil(a, b) == (a + b - 1) \div b
Interval(a, b) == [j \in 1 .. b - a + 1 |-> a + j - 1]

\* the members of a sequence that are in S, in their order
Kept(s, S) ==
  LET upTo[j \in 0 .. Len(s)] ==
        IF j = 0 THEN <<>>
        ELSE IF s[j] \in S THEN Append(upTo[j - 1], s[j]) ELSE upTo[j - 1]
  IN  upTo[Len(s)]
Without(s, x) == Kept(s, {s[j] : j \in DOMAIN s} \ {x})

\* the n smallest of a set of numbers, and the part of it from rank a on
Rank(S, x)      == Cardinality({y \in S : y < x})
Slice(S, a, n)  == {x \in S : Rank(S, x) >= a /\ Rank(S, x) < a + n}

N(c)         == c.k + c.r + c.z
Blocks(c)    == 0 .. N(c) - 1
IsData(c, b)   == b < c.k
IsGlobal(c, b) == c.k <= b /\ b < c.k + c.r
IsLocal(c, b)  == c.k + c.r <= b
LocalId(c, b)  == b - c.k - c.r

-----------------------------------------------------------------------------
(* Configuration.                                                          *)

\* a UniLRC file gives alpha and z only
loadConfig(file) ==
  IF file.CodeType = "UniLRC"
  THEN [file EXCEPT !.k = file.alpha * file.z * file.z - file.alpha * file.z,
                    !.r = file.alpha * file.z]
  ELSE file

\* groups of one local group of the given size
UniformGroupsIn(c, size) == Ceil(size, c.r + 1)
UniformSmall(c)  == (c.k + c.r) \div c.z   \* local_group_size, before the last ones
UniformLarger(c) == (c.k + c.r) % c.z      \* larger_local_group_num
UniformSmalls(c) == c.z - UniformLarger(c)

NodesUncheckedBug(c)    == c.ClusterNum > 2 * c.z + 1
ClustersUncheckedBug(c) == c.DatanodeNumPerCluster > N(c) \div c.z
validateConfig(c) ==
  CASE c.CodeType = "UniLRC" ->
         c.DatanodeNumPerCluster > N(c) \div c.z /\ c.ClusterNum > c.z
    [] c.CodeType = "AzureLRC" ->
         c.DatanodeNumPerCluster > c.k \div c.z + 1 /\ c.ClusterNum > c.z + 1
    [] c.CodeType = "OptimalLRC" ->
         /\ c.DatanodeNumPerCluster > c.r + 1
         /\ c.ClusterNum > Ceil(c.k, c.z * (c.r + 1)) * c.z + 1
    [] c.CodeType = "UniformLRC" ->
         /\ c.DatanodeNumPerCluster > c.r
         /\ c.ClusterNum > UniformGroupsIn(c, UniformSmall(c) + 1) * UniformLarger(c)
                           + UniformGroupsIn(c, UniformSmall(c)) * UniformSmalls(c)

-----------------------------------------------------------------------------
(* Coordinator: map2group of a block.                                      *)

LocalSize(c) == c.k \div c.z                     \* local_group_size
PerLocal(c)  == Ceil(LocalSize(c), c.r + 1)      \* group_num_of_one_local_group

OptimalGroup(c, b) ==
  CASE IsData(c, b)   -> (b % LocalSize(c)) \div (c.r + 1)
                         + (b \div LocalSize(c)) * PerLocal(c)
    [] IsGlobal(c, b) -> c.z * PerLocal(c)
    [] IsLocal(c, b)  -> (LocalId(c, b) + 1) * PerLocal(c) - 1

AzureGroup(c, b) ==
  CASE IsData(c, b)   -> b \div LocalSize(c)
    [] IsGlobal(c, b) -> IF c.CodeType = "UniLRC" THEN (b - c.k) \div (c.r \div c.z) ELSE c.z
    [] IsLocal(c, b)  -> LocalId(c, b)

\* The k + r first blocks are dealt to z local groups, the smaller ones first,
\* and each local group is cut in groups of r + 1.
UniformLocal(c, b) ==
  LET edge == UniformSmalls(c) * UniformSmall(c) IN
  IF b < edge THEN b \div UniformSmall(c)
              ELSE UniformSmalls(c) + (b - edge) \div (UniformSmall(c) + 1)
UniformSize(c, l) == IF l < UniformSmalls(c) THEN UniformSmall(c) ELSE UniformSmall(c) + 1
\* the sum over the local groups before l, given what a smaller and a larger
\* one count for
UniformSum(c, l, small, larger) ==
  IF l <= UniformSmalls(c)
  THEN l * small
  ELSE UniformSmalls(c) * small + (l - UniformSmalls(c)) * larger
UniformOffset(c, b) ==
  b - UniformSum(c, UniformLocal(c, b), UniformSmall(c), UniformSmall(c) + 1)
UniformFirst(c, l)  ==
  UniformSum(c, l, UniformGroupsIn(c, UniformSmall(c)), UniformGroupsIn(c, UniformSmall(c) + 1))

UniformGroup(c, b) ==
  IF IsLocal(c, b)
  THEN UniformFirst(c, LocalId(c, b) + 1) - 1
  ELSE UniformFirst(c, UniformLocal(c, b)) + UniformOffset(c, b) \div (c.r + 1)

map2group(c, b) ==
  CASE c.CodeType = "OptimalLRC" -> OptimalGroup(c, b)
    [] c.CodeType = "UniformLRC" -> UniformGroup(c, b)
    [] OTHER                     -> AzureGroup(c, b)

group_to_blocks(c, g) == {b \in Blocks(c) : map2group(c, b) = g}
num_groups(c) == Cardinality({map2group(c, b) : b \in Blocks(c)})

-----------------------------------------------------------------------------
(* Client: how many blocks of each kind the slice of a group holds.        *)

\* the client's own group_num_of_one_local_group
ClientPerLocal(c) == LocalSize(c) \div (c.r + 1) + 1

ClientGroups(c) ==
  CASE c.CodeType = "AzureLRC"   -> c.z + 1
    [] c.CodeType = "OptimalLRC" -> c.z * ClientPerLocal(c) + 1
    [] OTHER                     -> c.z

LastGroup(c, i)   == i = ClientGroups(c) - 1
EndsLocal(c, i)   == (i + 1) % ClientPerLocal(c) = 0

get_data_block_num_per_group(c, i) ==
  CASE c.CodeType = "UniLRC" -> LocalSize(c)
    [] LastGroup(c, i) /\ c.CodeType # "UniLRC" -> 0
    [] ~LastGroup(c, i) /\ c.CodeType = "AzureLRC"   -> LocalSize(c)
    [] ~LastGroup(c, i) /\ c.CodeType = "UniformLRC" -> (c.k + c.r) \div c.z
    [] ~LastGroup(c, i) /\ c.CodeType = "OptimalLRC" ->
         IF EndsLocal(c, i) THEN LocalSize(c) % (c.r + 1) ELSE c.r + 1

get_global_parity_block_num_per_group(c, i) ==
  CASE c.CodeType = "UniLRC" -> c.r \div c.z
    [] c.CodeType # "UniLRC" /\ LastGroup(c, i)  -> c.r
    [] c.CodeType # "UniLRC" /\ ~LastGroup(c, i) -> 0

get_local_parity_block_num_per_group(c, i) ==
  CASE c.CodeType \in {"UniLRC", "UniformLRC"} -> 1
    [] c.CodeType = "AzureLRC"   -> IF LastGroup(c, i) THEN 0 ELSE 1
    [] c.CodeType = "OptimalLRC" -> IF ~LastGroup(c, i) /\ EndsLocal(c, i) THEN 1 ELSE 0

-----------------------------------------------------------------------------
(* Coordinator: the groups a repair of block f reads, in order.            *)

OptimalNoGlobalBug(c, f) ==
  LET q == ClientPerLocal(c)
      l == IF IsData(c, f) THEN f \div LocalSize(c) ELSE LocalId(c, f)
  IN  IF IsGlobal(c, f) THEN <<c.z * q>> ELSE Interval(l * q, (l + 1) * q - 1)

OptimalRecovery(c, f) ==
  LET q     == ClientPerLocal(c)
      l     == IF IsData(c, f) THEN f \div LocalSize(c) ELSE LocalId(c, f)
      first == l * q + (f % LocalSize(c)) \div (c.r + 1)
  IN  CASE IsGlobal(c, f) -> <<PerLocal(c) * c.z>>
                             \o Interval(0, (PerLocal(c) * c.z + 1) \div c.z - 1)
        [] IsLocal(c, f)  -> <<(l + 1) * q - 1>> \o Interval(l * q, (l + 1) * q - 2)
                             \o <<c.z * q>>
        [] IsData(c, f)   -> <<first>> \o Without(Interval(l * q, (l + 1) * q - 1), first)
                             \o <<c.z * q>>

\* divides by r where the placement divides by r + 1
UniformRecovery(c, f) ==
  LET l     == IF IsLocal(c, f) THEN LocalId(c, f) ELSE UniformLocal(c, f)
      base  == UniformSum(c, l, Ceil(UniformSmall(c), c.r), Ceil(UniformSmall(c) + 1, c.r))
      last  == base + Ceil(UniformSize(c, l), c.r) - 1
      first == IF IsLocal(c, f) THEN last ELSE base + UniformOffset(c, f) \div c.r
  IN  <<first>> \o Without(Interval(base, last), first)

get_recovery_group_ids(c, f) ==
  CASE c.CodeType = "OptimalLRC" -> OptimalRecovery(c, f)
    [] c.CodeType = "UniformLRC" -> UniformRecovery(c, f)
    [] c.CodeType = "AzureLRC" /\ IsGlobal(c, f) -> Interval(1, c.z)
    [] OTHER -> <<AzureGroup(c, f)>>

-----------------------------------------------------------------------------
(* Encoder and decoder.  A coefficient is 1, an entry of local_vector, or  *)
(* whatever lies beyond the end of local_vector.                           *)

One           == <<"one">>
localVector(c, b) == IF IsData(c, b) THEN <<"local_vector", b>> ELSE <<"beyond", b>>

\* the row of the local parity a data block is added to
EncoderRow(c, j) ==
  IF c.CodeType = "UniformLRC"
  THEN LET edge == UniformSmalls(c) * UniformSmall(c) IN
       IF j < edge THEN j \div UniformSmall(c)
                   ELSE edge + (j - edge) \div (UniformSmall(c) + 1)
  ELSE j \div LocalSize(c)

\* the global parities a local parity covers
EncoderGlobals(c, l) ==
  CASE c.CodeType = "UniLRC"     -> {b \in Blocks(c) : /\ b >= c.k + (l * c.r) \div c.z
                                                       /\ b < c.k + (l * c.r) \div c.z + c.r \div c.z}
    [] c.CodeType = "OptimalLRC" -> {b \in Blocks(c) : IsGlobal(c, b)}
    [] c.CodeType = "UniformLRC" -> {b \in Blocks(c) : IsGlobal(c, b) /\ l = c.z - 1}
    [] c.CodeType = "AzureLRC"   -> {}

\* the blocks whose weighted sum is zero by the definition of local parity l
Equation(c, l) ==
  {b \in Blocks(c) : IsData(c, b) /\ EncoderRow(c, b) = l}
  \union EncoderGlobals(c, l) \union {c.k + c.r + l}
EncoderCoef(c, b) ==
  IF c.CodeType \in {"OptimalLRC", "UniformLRC"} /\ IsData(c, b)
  THEN localVector(c, b) ELSE One

\* decode_azure_lrc rebuilds a global parity from the k first rows after row
\* k / z, the lost one left out
AzureRows(c, f) == Slice({b \in Blocks(c) : b >= LocalSize(c) /\ ~IsLocal(c, b) /\ b # f}, 0, c.k)

\* the coefficient a decoder gives block b when it reads the blocks reads
DecoderCoef(c, reads, b) ==
  CASE c.CodeType = "OptimalLRC" ->
         IF \A x \in reads : ~IsData(c, x) THEN One ELSE localVector(c, b)
    [] c.CodeType = "UniformLRC" -> IF IsData(c, b) THEN localVector(c, b) ELSE One
    [] OTHER -> One
=============================================================================
