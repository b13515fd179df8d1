--------------------------- MODULE ObjectPlacement ---------------------------
(***************************************************************************)
(* generate_placement: where the stripe of an object goes.  The blocks of  *)
(* a local group are cut into chunks of g_m + 1, a chunk to a cluster; the *)
(* global parities have a cluster of their own, which takes the local      *)
(* parities too when the chunks are full.  Stripes are put into merge      *)
(* groups of x, and the placement of a stripe depends on the group: at     *)
(* random (Ran), away from the stripes of its group (DIS), on the same     *)
(* clusters (AGG), or on the same clusters for what merging rewrites and   *)
(* away from them for the rest (OPT).                                      *)
(*                                                                         *)
(* A chunk is named by its first block, the global parities by k.  Nodes   *)
(* are left out: a node of the cluster that holds no block of the stripe   *)
(* is drawn for each block.                                                *)
(***************************************************************************)
EXTENDS Integers, FiniteSets

CONSTANTS
  Schemas,     \* the values of m_encode_parameters a client may set
  ClusterNums, \* the numbers of clusters of the system
  MaxStripes   \* bound: the stripes of a placement between two setParameter

VARIABLES
  m_num_of_Clusters,
  m_encode_parameters,
  m_merge_groups,     \* the sets of stripes placed together, in order of creation
  m_free_clusters,    \* the clusters DIS and OPT draw from
  m_agg_start_cid,    \* the first cluster AGG and OPT share
  map2cluster         \* of the blocks of each stripe

vars == <<m_num_of_Clusters, m_encode_parameters, m_merge_groups,
          m_free_clusters, m_agg_start_cid, map2cluster>>

Placements == {"Ran", "DIS", "AGG", "OPT"}

ceil(x, y) == (x + y - 1) \div y

\* SetParameterByGrpc lets a schema pass; l divides k, which it does not ask:
\* otherwise the last k % l data blocks have a group and no cluster
Legal(s) ==
  LET m == s.b % (s.g_m + 1)
  IN  /\ s.b = s.k \div s.l
      /\ s.encodetype = "Azure_LRC" /\ m # 0 => s.g_m % m = 0
      /\ s.k % s.l = 0

\* the chunks of the local groups, by their first block
Chunks(s)   == {j \in 0 .. s.k - 1 : (j % s.b) % (s.g_m + 1) = 0}
GroupOf(s, j) == j \div s.b
LastChunk(s, i) == CHOOSE j \in Chunks(s) : GroupOf(s, j) = i /\ j + s.g_m + 1 >= (i + 1) * s.b
\* the local parity of a group goes with its last chunk unless that is full
PartialChunk(s, j) ==
  LET i == GroupOf(s, j) IN j = LastChunk(s, i) /\ j + s.g_m + 1 # (i + 1) * s.b
Full(s) == s.b % (s.g_m + 1) = 0

ParityUncountedBug(s) == ceil(s.b, s.g_m + 1) * s.l
required_cluster_num(s) ==
  (ceil(s.b + 1, s.g_m + 1) * s.l) + 1 - (IF Full(s) THEN s.l ELSE 0)

\* the clusters the stripes of a merge group share
agg_clusters_num(s) ==
  CASE s.m_placement = "AGG" -> required_cluster_num(s)
    [] s.m_placement = "OPT" -> IF Full(s) THEN 1 ELSE s.l + 1
    [] OTHER -> 0

\* with fewer clusters rand_num is asked for a number below 0 or 1 and has
\* none, or randomly_select_a_cluster draws for ever
Fits(s, clusters) ==
  clusters >= required_cluster_num(s) /\ clusters > agg_clusters_num(s)

ASSUME PlacementAssumption ==
  /\ ClusterNums \subseteq Nat /\ MaxStripes \in [Placements -> Nat]
  /\ \A s \in Schemas :
       /\ s.k \in Nat \ {0} /\ s.l \in 1 .. s.k /\ s.g_m \in Nat /\ s.b \in Nat \ {0}
       /\ s.x \in Nat \ {0} /\ s.m_placement \in Placements
       /\ s.encodetype \in {"Azure_LRC", "Optimal_Cauchy_LRC"}

Blocks(s)  == 0 .. s.k + s.g_m + s.l - 1
Globals(s) == s.k .. s.k + s.g_m - 1
Stripes    == DOMAIN map2cluster

-----------------------------------------------------------------------------
(* The merge group of a stripe.                                            *)

NewestGroup == m_merge_groups[Cardinality(DOMAIN m_merge_groups)]

\* no group yet, or the newest is full
NoOpenGroup(s) == m_merge_groups = <<>> \/ Cardinality(NewestGroup) = s.x

\* DIS and OPT start another group when the free clusters do not suffice
FreeShort(s) ==
  /\ s.m_placement \in {"DIS", "OPT"}
  /\ \/ Cardinality(m_free_clusters) < required_cluster_num(s) - agg_clusters_num(s)
     \/ m_free_clusters = {}

KeepGroupBug(s) == NoOpenGroup(s)
NewGroup(s) == NoOpenGroup(s) \/ FreeShort(s)

Grouped(s, id) ==
  LET last == Cardinality(DOMAIN m_merge_groups)
  IN  IF NewGroup(s)
      THEN [n \in 1 .. last + 1 |-> IF n > last THEN {id} ELSE m_merge_groups[n]]
      ELSE [m_merge_groups EXCEPT ![last] = @ \union {id}]

\* rand_num(m_num_of_Clusters - agg_clusters_num): the last start is never drawn
AggStarts(s) ==
  IF s.m_placement \in {"AGG", "OPT"} /\ NewGroup(s)
  THEN 0 .. m_num_of_Clusters - agg_clusters_num(s) - 1 ELSE {m_agg_start_cid}

\* the list the stripe draws from
FreeClusters(s, start) ==
  CASE s.m_placement = "Ran" -> 0 .. m_num_of_Clusters - 1
    [] s.m_placement = "AGG" -> {}
    [] OTHER -> IF FreeShort(s) \/ NoOpenGroup(s)
                THEN (0 .. m_num_of_Clusters - 1)
                       \ (start .. start + agg_clusters_num(s) - 1)
                ELSE m_free_clusters

-----------------------------------------------------------------------------
(* The clusters of a stripe: a function over its chunks and k.             *)

Parts(s) == Chunks(s) \union {s.k}

\* the parts whose cluster is drawn
Drawn(s) ==
  CASE s.m_placement = "AGG" -> {}
    [] s.m_placement = "OPT" -> {j \in Chunks(s) : ~PartialChunk(s, j)}
    [] OTHER -> Parts(s)

\* drawn without putting back; from a list that is too short the draw reads
\* past its end, here a cluster past the last
Draws(parts, free) ==
  IF Cardinality(parts) <= Cardinality(free)
  THEN {d \in [parts -> free] : \A p, q \in parts : p # q => d[p] # d[q]}
  ELSE {[p \in parts |-> m_num_of_Clusters]}

\* AGG counts the clusters up from the start; the first full last chunk makes
\* the next cluster that of the global parities
NoStepBug(s, start) ==
  LET before(j) == Cardinality({c \in Chunks(s) : c < j})
  IN  [p \in Parts(s) |->
         IF p = s.k THEN start + before(IF Full(s) THEN s.b ELSE s.k) ELSE start + before(p)]
AggSite(s, start) ==
  LET before(j) == Cardinality({c \in Chunks(s) : c < j})
  IN  [p \in Parts(s) |->
         IF p = s.k THEN start + before(IF Full(s) THEN s.b ELSE s.k)
         ELSE start + before(p) + (IF Full(s) /\ p >= s.b THEN 1 ELSE 0)]

\* OPT puts the last chunk of group i i clusters after the start, and the
\* global parities at the end of the region
OptSite(s, start) ==
  [p \in Parts(s) \ Drawn(s) |->
     IF p = s.k THEN start + agg_clusters_num(s) - 1 ELSE start + GroupOf(s, p)]

Sites(s, start) ==
  LET shared == IF s.m_placement = "AGG" THEN AggSite(s, start) ELSE OptSite(s, start)
  IN  {[p \in Parts(s) |-> IF p \in Drawn(s) THEN d[p] ELSE shared[p]] :
         d \in Draws(Drawn(s), FreeClusters(s, start))}

\* the part a block belongs to
PartOf(s, o) ==
  CASE o < s.k -> o - ((o % s.b) % (s.g_m + 1))
    [] o \in Globals(s) -> s.k
    [] OTHER -> LET j == LastChunk(s, o - s.k - s.g_m)
                IN  IF PartialChunk(s, j) THEN j ELSE s.k

-----------------------------------------------------------------------------
Cleared ==
  [groups |-> <<>>, free |-> {}, start |-> 0, placed |-> <<>>]

Init ==
  /\ m_num_of_Clusters \in ClusterNums
  /\ m_encode_parameters \in {s \in Schemas : Legal(s) /\ Fits(s, m_num_of_Clusters)}
  /\ m_merge_groups = Cleared.groups /\ m_free_clusters = Cleared.free
  /\ m_agg_start_cid = Cleared.start /\ map2cluster = Cleared.placed

setParameter(s) ==
  /\ Legal(s) /\ Fits(s, m_num_of_Clusters)
  /\ m_encode_parameters' = s
  /\ m_merge_groups' = Cleared.groups /\ m_free_clusters' = Cleared.free
  /\ m_agg_start_cid' = Cleared.start /\ map2cluster' = Cleared.placed
  /\ UNCHANGED m_num_of_Clusters

generate_placement ==
  LET s  == m_encode_parameters
      id == Cardinality(Stripes) + 1
  IN  /\ id <= MaxStripes[s.m_placement]
      /\ \E start \in AggStarts(s) : \E site \in Sites(s, start) :
           /\ m_agg_start_cid' = start
           /\ m_merge_groups' = Grouped(s, id)
           /\ m_free_clusters' = IF s.m_placement \in {"DIS", "OPT"}
                                 THEN FreeClusters(s, start) \ {site[p] : p \in Drawn(s)}
                                 ELSE m_free_clusters
           /\ map2cluster' = [t \in 1 .. id |->
                IF t = id THEN [o \in Blocks(s) |-> site[PartOf(s, o)]] ELSE map2cluster[t]]
      /\ UNCHANGED <<m_num_of_Clusters, m_encode_parameters>>

Next == generate_placement \/ \E s \in Schemas : setParameter(s)

Spec == Init /\ [][Next]_vars

-----------------------------------------------------------------------------
ClustersOf(t) == {map2cluster[t][o] : o \in DOMAIN map2cluster[t]}

\* TypeOK: among the rest, every block is placed on a cluster of the system:
\* the free list is never drawn from when empty and the shared region never
\* runs past the last cluster (generate_placement counts the clusters by a
\* formula before its loops take them).
TypeOK ==
  /\ m_num_of_Clusters \in ClusterNums /\ m_encode_parameters \in Schemas
  /\ m_free_clusters \subseteq 0 .. m_num_of_Clusters - 1
  /\ m_agg_start_cid \in 0 .. m_num_of_Clusters - 1
  /\ UNION {m_merge_groups[n] : n \in DOMAIN m_merge_groups} = Stripes
  /\ \A t \in Stripes : ClustersOf(t) \subseteq 0 .. m_num_of_Clusters - 1

\* Blocks that are lost can be computed from the others when each local parity
\* stands for one block of its group and the g_m global parities for the rest.
Decodable(s, lost) ==
  LET ofGroup(i) == Cardinality({o \in lost : \/ o < s.k /\ GroupOf(s, o) = i
                                              \/ o = s.k + s.g_m + i})
      beyond == UNION {{i} \X (2 .. ofGroup(i)) : i \in 0 .. s.l - 1}
  IN  Cardinality(beyond) + Cardinality(lost \intersect Globals(s)) <= s.g_m

\* SurvivesClusterLoss: the loss of one cluster costs no stripe: what
\* generate_placement puts on a cluster can be computed from the rest,
\* whatever the placement and the stripes of its merge group.  As everywhere
\* here, for schemas that are Legal (l divides k) and a system that Fits.
SurvivesClusterLoss ==
  \A t \in Stripes : \A c \in ClustersOf(t) :
    Decodable(m_encode_parameters, {o \in DOMAIN map2cluster[t] : map2cluster[t][o] = c})

\* MergeGroupShape: two stripes of a merge group share no cluster under DIS,
\* every cluster under AGG, and under OPT the clusters of parities and of what
\* is stored with them, and only these; a group never exceeds
\* x_stripepermergegroup.
MergeGroupShape ==
  LET s == m_encode_parameters
      shares(t, u) == {o \in Blocks(s) : map2cluster[t][o] \in ClustersOf(u)}
      alike(t, u) == {o \in Blocks(s) : map2cluster[t][o] = map2cluster[u][o]}
  IN  \A n \in DOMAIN m_merge_groups :
        /\ Cardinality(m_merge_groups[n]) <= s.x
        /\ \A t, u \in m_merge_groups[n] : t # u =>
             CASE s.m_placement = "Ran" -> TRUE
               [] s.m_placement = "DIS" -> shares(t, u) = {}
               [] s.m_placement = "AGG" -> alike(t, u) = Blocks(s)
               [] OTHER -> LET parities == s.k .. s.k + s.g_m + s.l - 1
                               together == {PartOf(s, o) : o \in parities}
                               these == {o \in Blocks(s) : PartOf(s, o) \in together}
                           IN  shares(t, u) = these /\ these \subseteq alike(t, u)
=============================================================================
