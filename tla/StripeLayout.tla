---------------------------- MODULE StripeLayout ----------------------------
(***************************************************************************)
(* One stripe laid out: the configuration is loaded and validated, the     *)
(* coordinator gives every block a group, a cluster and a node, the client *)
(* cuts its buffer along the reply of an upload and encodes, and a repair  *)
(* of a lost block reads the groups get_recovery_group_ids names.  The     *)
(* concurrent half of an upload is in SetPath; here one thread runs, and   *)
(* what matters is that the formulas of LrcLayout fit together.            *)
(***************************************************************************)
EXTENDS LrcLayout

CONSTANTS
  Files,      \* the configuration files considered
  StripeIds,  \* the values m_cur_stripe_id may have
  SubsetSizes \* bound: the block counts sub_set is called with

(* What the formulas need beyond what validateConfig asks for: two local   *)
(* groups or more, all alike, and room for the largest group.  The client  *)
(* counts one more group than the coordinator when r + 1 divides k / z,    *)
(* and counts one group per local group of a UniformLRC stripe, the last   *)
(* all parity.                                                             *)
Supported(c) ==
  /\ c.z > 1 /\ c.k > 0
  /\ c.CodeType # "UniformLRC" => c.k % c.z = 0
  /\ c.CodeType = "UniLRC" => c.r % c.z = 0
  /\ c.CodeType = "AzureLRC" => /\ c.r > LocalSize(c)
                                /\ c.DatanodeNumPerCluster > c.r
  /\ c.CodeType = "OptimalLRC" => /\ c.r > 1
                                  /\ LocalSize(c) % (c.r + 1) # 0
  /\ c.CodeType = "UniformLRC" => /\ c.k = c.r * (c.z - 1)
                                  /\ c.DatanodeNumPerCluster > c.r + 1

CodeTypes == {"UniLRC", "AzureLRC", "OptimalLRC", "UniformLRC"}

ASSUME FilesAssumption ==
  /\ \A file \in Files :
       /\ file \in [CodeType : CodeTypes, alpha : Nat, k : Nat, r : Nat, z : Nat,
                    DatanodeNumPerCluster : Nat, ClusterNum : Nat]
       /\ Supported(loadConfig(file))
  /\ StripeIds \subseteq Nat /\ SubsetSizes \subseteq Nat

NoFile == [CodeType |-> "none"]

VARIABLES
  conf,       \* m_sys_config
  pc,         \* what the stripe is at
  i,          \* the loop over the blocks of the stripe
  t_cluster_id,  \* the cluster of group 0, round robin
  used,       \* per cluster, the nodes that hold a block of the stripe
  block_num,  \* the data blocks an upload brings
  trimmed,    \* whether it is a sub_set
  slices,     \* the reply: the blocks of every append plan
  parts,      \* the client's cut: data, global and local pointers of a slice
  failed,     \* the block under repair
  requests    \* a read or a repair: per proxy asked, the blocks it reads

vars == <<conf, pc, i, t_cluster_id, used, block_num, trimmed, slices, parts,
          failed, requests>>

Init ==
  /\ conf = NoFile /\ pc = "start" /\ i = 0 /\ t_cluster_id = 0
  /\ used = <<>> /\ block_num = 0 /\ trimmed = FALSE
  /\ slices = <<>> /\ parts = <<>>
  /\ failed = 0 /\ requests = <<>>

\* Operators named ...Bug are slips a later change could make: none of them is
\* used here, each stands before the definition it would replace.
cluster(g) == (t_cluster_id + g) % conf.ClusterNum
Groups     == 0 .. num_groups(conf) - 1
\* randomly_select_a_node loops until it meets a node without the stripe
HasNode(g) == used[cluster(g)] < conf.DatanodeNumPerCluster

LoadConfig(file) ==
  /\ pc = "start"
  /\ conf' = loadConfig(file)
  /\ validateConfig(conf')
  /\ pc' = "configured"
  /\ UNCHANGED <<i, t_cluster_id, used, block_num, trimmed, slices, parts, failed, requests>>

NoWrapBug(stripe_id)    == stripe_id
FirstCluster(stripe_id) == stripe_id % conf.ClusterNum

StartStripe(stripe_id) ==
  /\ pc = "configured"
  /\ t_cluster_id' = FirstCluster(stripe_id)
  /\ used' = [cl \in 0 .. conf.ClusterNum - 1 |-> 0]
  /\ i' = 0
  /\ pc' = "placing"
  /\ UNCHANGED <<conf, block_num, trimmed, slices, parts, failed, requests>>

\* one turn of the placement loop; the nodes of a cluster are alike
PlaceBlock ==
  LET g == map2group(conf, i) IN
  /\ pc = "placing"
  /\ HasNode(g)
  /\ used' = [used EXCEPT ![cluster(g)] = @ + 1]
  /\ i' = i + 1
  /\ pc' = IF i' = N(conf) THEN "placed" ELSE "placing"
  /\ UNCHANGED <<conf, t_cluster_id, block_num, trimmed, slices, parts, failed, requests>>

-----------------------------------------------------------------------------
(* Upload.                                                                 *)

InOrder(n) == [j \in 1 .. n |-> j - 1]   \* the groups, in the order of the loops

\* generate_add_plans: every group
SetPlans == [j \in 1 .. num_groups(conf) |-> group_to_blocks(conf, j - 1)]

\* generate_sub_add_plans: parities and the data blocks brought; a group left
\* with nothing gets no plan
Brought(g, m) == {b \in group_to_blocks(conf, g) : IsData(conf, b) => b < m}
SubsetPlans(m) ==
  LET kept == Kept(InOrder(num_groups(conf)), {g \in Groups : Brought(g, m) # {}})
  IN  [j \in 1 .. Len(kept) |-> Brought(kept[j], m)]

UploadSet ==
  /\ pc = "placed"
  /\ block_num' = conf.k /\ trimmed' = FALSE
  /\ slices' = SetPlans
  /\ pc' = "replied"
  /\ UNCHANGED <<conf, i, t_cluster_id, used, parts, failed, requests>>

UploadSubset(m) ==
  /\ pc = "placed" /\ m <= conf.k
  /\ block_num' = m /\ trimmed' = TRUE
  /\ slices' = SubsetPlans(m)
  /\ pc' = "replied"
  /\ UNCHANGED <<conf, i, t_cluster_id, used, parts, failed, requests>>

\* What the client expects of group g: for a sub_set the data counts are taken
\* off the blocks still to come.
DataNum(g) ==
  LET full == get_data_block_num_per_group(conf, g)
      left[h \in 0 .. g] ==
        IF h = 0 THEN block_num
        ELSE LET d == get_data_block_num_per_group(conf, h - 1)
             IN  IF d > left[h - 1] THEN 0 ELSE left[h - 1] - d
  IN  IF trimmed /\ full > left[g] THEN left[g] ELSE full

Expected(g) == [data   |-> DataNum(g),
                global |-> get_global_parity_block_num_per_group(conf, g),
                local  |-> get_local_parity_block_num_per_group(conf, g)]
Total(e) == e.data + e.global + e.local

\* remove_common_zeros, called for a sub_set only
remove_common_zeros ==
  LET all  == InOrder(ClientGroups(conf))
      kept == IF trimmed
              THEN Kept(all, {g \in 0 .. ClientGroups(conf) - 1 : Total(Expected(g)) # 0})
              ELSE all
  IN  [j \in 1 .. Len(kept) |-> Expected(kept[j])]

\* a slice cut in three runs: data first, then global, then local parity
LocalsFirstBug(S, e) ==
  [data   |-> Slice(S, 0, e.data),
   local  |-> Slice(S, e.data, e.local),
   global |-> Slice(S, e.data + e.local, e.global)]
Cut(S, e) ==
  [data   |-> Slice(S, 0, e.data),
   global |-> Slice(S, e.data, e.global),
   local  |-> Slice(S, e.data + e.global, e.local)]

\* split_for_set_data_and_parity: splitCharPointer asserts that the counts use
\* up the slice; a slice beyond the counts is read out of range.
CutSlices ==
  LET counts == remove_common_zeros
      fits(j) == j <= Len(counts) /\ Total(counts[j]) = Cardinality(slices[j])
      bad    == {j \in DOMAIN slices : ~fits(j)}
      first  == CHOOSE j \in bad : \A h \in bad : j <= h
  IN
  /\ pc = "replied"
  /\ IF bad = {}
     THEN /\ parts' = [j \in DOMAIN slices |-> Cut(slices[j], counts[j])]
          /\ pc' = "encoded"
     ELSE /\ pc' = IF first <= Len(counts) THEN "aborted" ELSE "undefined"
          /\ UNCHANGED parts
  /\ UNCHANGED <<conf, i, t_cluster_id, used, block_num, trimmed, slices, failed, requests>>

\* the slices are stored; SetPath has how
StoreStripe ==
  /\ pc = "encoded" /\ ~trimmed
  /\ pc' = "stored"
  /\ slices' = <<>> /\ parts' = <<>> /\ block_num' = 0
  /\ UNCHANGED <<conf, i, t_cluster_id, used, trimmed, failed, requests>>

-----------------------------------------------------------------------------
(* Read of a whole stripe: getStripe.                                      *)

\* every group but the last, which only a UniLRC stripe keeps data in
EveryGroupBug == 0 .. num_groups(conf) - 1
DataGroups    == 0 .. num_groups(conf) - (IF conf.CodeType = "UniLRC" THEN 1 ELSE 2)

GetStripe ==
  /\ pc = "stored"
  /\ requests' = [j \in 1 .. Cardinality(DataGroups) |->
                   {b \in group_to_blocks(conf, j - 1) : IsData(conf, b)}]
  /\ pc' = "reading"
  /\ UNCHANGED <<conf, i, t_cluster_id, used, block_num, trimmed, slices, parts, failed>>

-----------------------------------------------------------------------------
(* Repair of one block: recovery_one_block.                                *)

\* A helper leaves out local parities of an AzureLRC stripe, and both it and
\* the destination stop at k / z blocks.
HelperReads(g, f) ==
  LET S == group_to_blocks(conf, g) \ {f} IN
  IF conf.CodeType = "AzureLRC"
  THEN Slice({b \in S : ~IsLocal(conf, b)}, 0, LocalSize(conf)) ELSE S
DestReads(g, f) ==
  LET S == group_to_blocks(conf, g) \ {f} IN
  IF conf.CodeType = "AzureLRC" THEN Slice(S, 0, LocalSize(conf)) ELSE S

\* with one group its own proxy repairs the block; otherwise every other group
\* sends its part to the proxy of the block's group
Requests(f) ==
  LET ids     == get_recovery_group_ids(conf, f)
      dest    == map2group(conf, f)
      helpers == Without(ids, dest)
  IN  IF Len(ids) = 1 THEN <<group_to_blocks(conf, ids[1]) \ {f}>>
      ELSE [j \in 1 .. Len(helpers) |-> HelperReads(helpers[j], f)]
           \o <<DestReads(dest, f)>>

\* cross_rack_num: the parts the destination waits for
CrossRackNum(f) == Len(get_recovery_group_ids(conf, f)) - 1

RepairGroup(f) ==
  LET ids == get_recovery_group_ids(conf, f) IN
  IF Len(ids) = 1 THEN ids[1] ELSE map2group(conf, f)

\* a group that is not in the stripe makes get_cluster_id_by_group_id read an
\* empty vector
RecoverBlock(f) ==
  LET ids == get_recovery_group_ids(conf, f) IN
  /\ pc = "stored"
  /\ failed' = f
  /\ IF \A j \in DOMAIN ids : ids[j] \in Groups
     THEN /\ HasNode(RepairGroup(f))
          /\ requests' = Requests(f)
          /\ pc' = "repairing"
     ELSE /\ pc' = "undefined"
          /\ UNCHANGED requests
  /\ UNCHANGED <<conf, i, t_cluster_id, used, block_num, trimmed, slices, parts>>

Done ==
  /\ \/ pc \in {"reading", "repairing", "aborted", "undefined"}
     \/ pc = "encoded" /\ trimmed
  /\ UNCHANGED vars

Next ==
  \/ \E file \in Files : LoadConfig(file)
  \/ \E s \in StripeIds : StartStripe(s)
  \/ PlaceBlock
  \/ UploadSet
  \/ \E m \in SubsetSizes : UploadSubset(m)
  \/ CutSlices
  \/ StoreStripe
  \/ GetStripe
  \/ \E f \in 0 .. (IF conf = NoFile THEN 0 ELSE N(conf) - 1) : RecoverBlock(f)
  \/ Done

Spec == Init /\ [][Next]_vars
-----------------------------------------------------------------------------
(* Properties.                                                             *)

TypeOK ==
  /\ pc \in {"start", "configured", "placing", "placed", "replied", "encoded",
             "stored", "reading", "repairing", "aborted", "undefined"}
  /\ pc # "start" => conf \in {loadConfig(file) : file \in Files}
  /\ pc \notin {"start", "configured"} =>
       /\ i \in 0 .. N(conf)
       /\ t_cluster_id \in 0 .. conf.ClusterNum - 1
       /\ used \in [0 .. conf.ClusterNum - 1 -> 0 .. conf.DatanodeNumPerCluster]
       /\ block_num \in 0 .. conf.k
       /\ failed \in Blocks(conf)
  /\ trimmed \in BOOLEAN
  /\ \A j \in DOMAIN slices : slices[j] \subseteq Blocks(conf)
  /\ Len(parts) \in {0, Len(slices)}

\* Every block finds a node of its cluster that does not hold the stripe, and
\* so does the replacement of any block of the stored stripe:
\* randomly_select_a_node returns.
NodeLeft ==
  /\ pc = "placing" => HasNode(map2group(conf, i))
  /\ pc = "stored"  => \A g \in Groups : HasNode(g)

\* Two groups of a stripe never share a cluster: the loss of a cluster is the
\* loss of one group.
GroupsApart ==
  pc = "placed" =>
    \A g, h \in Groups : g # h => cluster(g) # cluster(h)

AscendingRuns(run) ==
  \A a, b \in DOMAIN run : a < b => \A x \in run[a], y \in run[b] : x < y
Joined(run) == UNION {run[j] : j \in DOMAIN run}

\* The client's counts use up every slice of the reply (the assertion of
\* splitCharPointer holds and no count is read out of range), and the pointers
\* it hands to the encoder, joined over the slices, are the blocks in order:
\* pointer j of the data is block j, as the plans the proxies follow store it,
\* and likewise for both kinds of parity.
CutAgrees ==
  /\ pc \notin {"aborted", "undefined"}
  /\ pc = "encoded" =>
       LET data   == [j \in DOMAIN parts |-> parts[j].data]
           global == [j \in DOMAIN parts |-> parts[j].global]
           local  == [j \in DOMAIN parts |-> parts[j].local]
       IN  /\ AscendingRuns(data)   /\ Joined(data) = 0 .. block_num - 1
           /\ AscendingRuns(global) /\ Joined(global) = {b \in Blocks(conf) : IsGlobal(conf, b)}
           /\ AscendingRuns(local)  /\ Joined(local) = {b \in Blocks(conf) : IsLocal(conf, b)}

RepairReads == Joined(requests)
ReadOnce == \A a, b \in DOMAIN requests : a # b => requests[a] \cap requests[b] = {}

\* A read of the stripe asks for the k data blocks, each once, for the client
\* opens k accepting threads whatever is asked for; and no proxy is asked for
\* none, for getBlocks looks at its first block.
GetReadsData ==
  pc = "reading" =>
    /\ ReadOnce /\ RepairReads = 0 .. conf.k - 1
    /\ \A j \in DOMAIN requests : requests[j] # {}

AzureGlobal == conf.CodeType = "AzureLRC" /\ IsGlobal(conf, failed)

\* every part is decoded with the coefficients the encoder gave its blocks
UsesCoefficients ==
  \A j \in DOMAIN requests :
    /\ requests[j] # {}
    /\ \A b \in requests[j] : DecoderCoef(conf, requests[j], b) = EncoderCoef(conf, b)

\* A repair reads the other blocks of one local equation of the lost block,
\* each once (for a global parity of AzureLRC, the k rows its decoder inverts),
\* the destination waits for as many parts as are sent, and every part, which-
\* ever mix of data and parity it is, is decoded as it was encoded.  The last
\* is not so for OptimalLRC: a part of data and its local parity takes the
\* parity's coefficient from beyond local_vector (encoder.cpp 552-560, decode_optimal_lrc).
RepairReadsEquation ==
  pc = "repairing" =>
    /\ ReadOnce
    /\ Len(requests) = CrossRackNum(failed) + 1
    /\ IF AzureGlobal
       THEN RepairReads = AzureRows(conf, failed) /\ Cardinality(RepairReads) = conf.k
       ELSE \E l \in 0 .. conf.z - 1 :
              failed \in Equation(conf, l) /\ RepairReads = Equation(conf, l) \ {failed}
    /\ conf.CodeType # "OptimalLRC" => UsesCoefficients
=============================================================================
