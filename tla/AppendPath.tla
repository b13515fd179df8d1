----------------------------- MODULE AppendPath -----------------------------
(***************************************************************************)
(* Appends to a stripe: the coordinator's uploadAppendValue, the proxies'  *)
(* append_and_save, and at the datanodes the detached threads of           *)
(* handleAppend and handleMergeParity.                                     *)
(*                                                                         *)
(* Calls of clients come one at a time, so that a proxy has one thread and *)
(* one connection (SetPath has what happens when it has two); what outlives*)
(* the call, and meets the next, are the threads of the datanodes.  An     *)
(* append handler waits for any connection to its node and writes what     *)
(* comes at the end of its block's file; the offset it was given only      *)
(* tells it whether to create the file.                                    *)
(***************************************************************************)
EXTENDS AppendPlan, Sequences

CONSTANTS
  Clients,
  Nodes,
  Watched,     \* the blocks whose files are followed
  AppendModes, \* the values AppendMode may have
  Sizes,       \* bound: the sizes a client appends
  MaxAppends,  \* bound: the appends of a run
  MaxResets,   \* bound: the calls of setParameter
  MaxLate,     \* bound: the slices of a node still to be written
  None

ASSUME AppendAssumption ==
  /\ Watched \subseteq Blocks
  /\ AppendModes \subseteq Modes
  /\ Sizes \subseteq 1 .. StripeSize
  /\ {MaxAppends, MaxResets, MaxLate} \subseteq Nat

VARIABLES
  mode,               \* AppendMode of the configuration
  m_cur_stripe_id,
  m_cur_offset_table, \* per client, its stripe and the offset reached
  m_stripe_table,     \* map2node of the watched blocks of a stripe
  request,            \* the append that is running
  group,              \* the proxy's append_and_save, per group
  waiting,            \* slices whose handler has not written
  backlog,            \* slices whose bytes no handler has taken
  merging,            \* threads of handleMergeParity
  file,               \* the files of a node, as the pieces written
  ended,              \* processes ended, by what; the coordinator is one
  appends,            \* appends asked for
  resets              \* calls of setParameter

vars == <<mode, m_cur_stripe_id, m_cur_offset_table, m_stripe_table, request,
          group, waiting, backlog, merging, file, ended, appends, resets>>

StripeIds == 0 .. MaxAppends - 1
Groups    == 0 .. z - 1
Files     == StripeIds \X Watched
Placements == {p \in [Watched -> Nodes] : \A b, c \in Watched : b # c => p[b] # p[c]}
Coordinator == "coordinator"
Requests == [no : 1 .. MaxAppends, stripe : StripeIds,
             offset : 0 .. StripeSize - 1, size : 1 .. StripeSize]
Ends == [why : {"no stripe", "no file", "no record"}]
        \union [why : {"file exists"}, at : Files, no : 1 .. MaxAppends]

ASSUME NamesAssumption ==
  /\ None \notin Placements \union Requests \union Ends
  /\ Coordinator \notin Nodes

Init ==
  /\ mode \in AppendModes
  /\ m_cur_stripe_id = 0
  /\ m_cur_offset_table = [c \in Clients |-> None]
  /\ m_stripe_table = [id \in StripeIds |-> None]
  /\ request = None
  /\ group = [i \in Groups |-> "none"]
  /\ waiting = {} /\ backlog = {} /\ merging = {}
  /\ file = [n \in Nodes |-> [f \in Files |-> <<>>]]
  /\ ended = [p \in Nodes \union {Coordinator} |-> None]
  /\ appends = 0 /\ resets = 0

-----------------------------------------------------------------------------
(* Coordinator.                                                            *)

\* a client without an entry starts a stripe
OffsetEntry(c) ==
  IF m_cur_offset_table[c] = None
  THEN [stripe |-> m_cur_stripe_id, offset |-> 0] ELSE m_cur_offset_table[c]

NotErasedBug(entry, size) == [entry EXCEPT !.offset = (@ + size) % StripeSize]
\* the entry of a full stripe is erased: the next append starts another
AdvancedEntry(entry, size) ==
  IF entry.offset + size = StripeSize THEN None ELSE [entry EXCEPT !.offset = @ + size]

\* a stripe is placed by its first append; one that is no longer in the table
\* comes out of operator[] with k = 0, and generateAppendPlan asserts
UploadAppendValue(c, size) ==
  LET entry == OffsetEntry(c) IN
  /\ ended[Coordinator] = None
  /\ request = None /\ appends < MaxAppends
  /\ entry.offset + size <= StripeSize
  /\ appends' = appends + 1
  /\ m_cur_stripe_id' = m_cur_stripe_id + (IF m_cur_offset_table[c] = None THEN 1 ELSE 0)
  /\ IF entry.offset > 0 /\ m_stripe_table[entry.stripe] = None
     THEN /\ ended' = [ended EXCEPT ![Coordinator] = [why |-> "no stripe"]]
          /\ UNCHANGED <<m_cur_offset_table, m_stripe_table, request>>
     ELSE /\ \E placed \in IF entry.offset = 0 THEN Placements
                           ELSE {m_stripe_table[entry.stripe]} :
               m_stripe_table' = [m_stripe_table EXCEPT ![entry.stripe] = placed]
          /\ request' = [no |-> appends', stripe |-> entry.stripe,
                         offset |-> entry.offset, size |-> size]
          /\ m_cur_offset_table' =
               [m_cur_offset_table EXCEPT ![c] = AdvancedEntry(entry, size)]
          /\ UNCHANGED ended
  /\ UNCHANGED <<mode, group, waiting, backlog, merging, file, resets>>

\* the tables are cleared, the offsets of the clients are not; of interest only
\* where an append follows
setParameter ==
  /\ ended[Coordinator] = None
  /\ request = None /\ resets < MaxResets /\ appends \in 1 .. MaxAppends - 1
  /\ resets' = resets + 1
  /\ m_cur_stripe_id' = 0
  /\ m_stripe_table' = [id \in StripeIds |-> None]
  /\ UNCHANGED <<mode, m_cur_offset_table, request, group, waiting, backlog,
                 merging, file, ended, appends>>

-----------------------------------------------------------------------------
(* Proxy: append_and_save of a group.                                      *)

Slice(b) ==
  LET s == SliceOf(mode, request.offset, request.size, b)
  IN  [no |-> request.no, file |-> <<request.stripe, b>>,
       node |-> m_stripe_table[request.stripe][b],
       offset |-> s.offset, size |-> s.size,
       serialized |-> is_serialized(request.offset, request.size)]

\* handleAppend starts the handler, the connection follows; a node that has
\* ended takes neither
Slices(i) ==
  {s \in {Slice(b) : b \in Watched \cap PlanBlocks(request.offset, request.size, i)} :
     ended[s.node] = None}

\* the data came from the client, is cut, and one sender per slice has joined
SendSlices(i) ==
  /\ request # None /\ group[i] = "none"
  /\ \A n \in Nodes :
       Cardinality({h \in waiting \union Slices(i) : h.node = n}) <= MaxLate
  /\ group' = [group EXCEPT ![i] = "sent"]
  /\ waiting' = waiting \union Slices(i)
  /\ backlog' = backlog \union Slices(i)
  /\ UNCHANGED <<mode, m_cur_stripe_id, m_cur_offset_table, m_stripe_table,
                 request, merging, file, ended, appends, resets>>

\* MergeParityOnDatanode refuses REP_MODE and is caught
Merges(i) ==
  IF is_merge_parity(request.offset, request.size) /\ mode # "REP_MODE"
  THEN {[file |-> s.file, node |-> s.node, read |-> None] :
          s \in {t \in Slices(i) : t.file[2] \notin DataBlocks}}
  ELSE {}

UnsentBug(i)   == group[i] \in {"none", "sent"}
SlicesSent(i)  == group[i] = "sent"

\* the merge is started and the append reported, whatever the handlers do
MergeAndReport(i) ==
  /\ request # None /\ SlicesSent(i)
  /\ group' = [group EXCEPT ![i] = "committed"]
  /\ merging' = merging \union Merges(i)
  /\ UNCHANGED <<mode, m_cur_stripe_id, m_cur_offset_table, m_stripe_table,
                 request, waiting, backlog, file, ended, appends, resets>>

\* async_append_to_proxies: the client waits for the commit of every group
Acknowledge ==
  /\ request # None /\ \A i \in Groups : group[i] = "committed"
  /\ request' = None
  /\ group' = [i \in Groups |-> "none"]
  /\ UNCHANGED <<mode, m_cur_stripe_id, m_cur_offset_table, m_stripe_table,
                 waiting, backlog, merging, file, ended, appends, resets>>

-----------------------------------------------------------------------------
(* Datanode.                                                               *)

Piece(h, c) == [kind |-> IF h.serialized \/ h.file[2] \in DataBlocks THEN "slice" ELSE "raw",
                own |-> h, from |-> c]
Pieces(n, f) == {file[n][f][j] : j \in DOMAIN file[n][f]}

\* the process ends by an assertion or an exit, and its threads with it
EndNode(n, why) ==
  /\ ended' = [ended EXCEPT ![n] = why]
  /\ waiting' = {h \in waiting : h.node # n}
  /\ backlog' = {c \in backlog : c.node # n}
  /\ merging' = {m \in merging : m.node # n}
  /\ UNCHANGED file

\* handler h writes the bytes of connection c behind what its file holds; a
\* data block's file must not be there yet at offset 0
WriteSlice(h, c) ==
  /\ c.node = h.node
  /\ IF h.file[2] \in DataBlocks /\ h.offset = 0 /\ file[h.node][h.file] # <<>>
     THEN EndNode(h.node, [why |-> "file exists", at |-> h.file, no |-> h.no])
     ELSE /\ file' = [file EXCEPT ![h.node][h.file] = Append(@, Piece(h, c))]
          /\ waiting' = waiting \ {h} /\ backlog' = backlog \ {c}
          /\ UNCHANGED <<merging, ended>>
  /\ UNCHANGED <<mode, m_cur_stripe_id, m_cur_offset_table, m_stripe_table,
                 request, group, appends, resets>>

Late(m) == {h \in waiting : h.node = m.node /\ h.file = m.file}

\* handleMergeParity reads the records of the file; what is no record is taken
\* for one, with whatever offset and size its bytes give: an assertion fails,
\* the sum is garbage, or the allocation throws before the file is touched
ReadRecords(m) ==
  LET pieces == Pieces(m.node, m.file) IN
  /\ m.read = None
  /\ IF \A p \in pieces : p.kind = "slice"
     THEN IF pieces = {} THEN EndNode(m.node, [why |-> "no file"])
          ELSE /\ merging' = (merging \ {m}) \union
                    {[m EXCEPT !.read = [slices |-> pieces, late |-> Late(m)]]}
               /\ UNCHANGED <<waiting, backlog, file, ended>>
     ELSE \/ EndNode(m.node, [why |-> "no record"])
          \/ /\ merging' = merging \ {m}
             /\ \/ file' = [file EXCEPT ![m.node][m.file] = <<[kind |-> "garbage"]>>]
                \/ UNCHANGED file
             /\ UNCHANGED <<waiting, backlog, ended>>
  /\ UNCHANGED <<mode, m_cur_stripe_id, m_cur_offset_table, m_stripe_table,
                 request, group, appends, resets>>

\* the file is truncated and the sum of the records written: a record that
\* came in between is lost
WriteMerged(m) ==
  /\ m.read # None
  /\ merging' = merging \ {m}
  /\ file' = [file EXCEPT ![m.node][m.file] =
       <<[kind |-> "merged", slices |-> m.read.slices, late |-> m.read.late]>>]
  /\ UNCHANGED <<mode, m_cur_stripe_id, m_cur_offset_table, m_stripe_table,
                 request, group, waiting, backlog, ended, appends, resets>>

-----------------------------------------------------------------------------
Finished ==
  /\ request = None /\ waiting = {} /\ merging = {}
  /\ appends = MaxAppends \/ ended[Coordinator] # None
  /\ UNCHANGED vars

Next ==
  \/ \E c \in Clients, size \in Sizes : UploadAppendValue(c, size)
  \/ setParameter
  \/ \E i \in Groups : SendSlices(i) \/ MergeAndReport(i)
  \/ Acknowledge
  \/ \E h \in waiting, c \in backlog : WriteSlice(h, c)
  \/ \E m \in merging : ReadRecords(m) \/ WriteMerged(m)
  \/ Finished

Spec == Init /\ [][Next]_vars
-----------------------------------------------------------------------------
(* Properties.                                                             *)

TypeOK ==
  /\ mode \in AppendModes
  /\ m_cur_stripe_id \in 0 .. MaxAppends
  /\ m_cur_offset_table \in
       [Clients -> {None} \union [stripe : StripeIds, offset : 1 .. StripeSize - 1]]
  /\ m_stripe_table \in [StripeIds -> Placements \union {None}]
  /\ request # None => request \in Requests /\ request.offset + request.size <= StripeSize
  /\ group \in [Groups -> {"none", "sent", "committed"}]
  /\ \A s \in waiting \union backlog : s.node \in Nodes /\ s.file \in Files /\ s.size > 0
  /\ \A m \in merging : m.node \in Nodes /\ m.file[2] \notin DataBlocks
  /\ ended \in [Nodes \union {Coordinator} -> {None} \union Ends]

\* Whatever append a client may make of a stripe, in any mode: its slices are
\* the places of its bytes and no other, the parity slice covers them within
\* the block, and proxy and client cut exactly what the coordinator counted.
\* A fact of the formulas, so the states before the first append will do.
SlicesAreBytes ==
  appends = 0 =>
    \A off \in 0 .. StripeSize - 1 : \A size \in 1 .. StripeSize - off :
      /\ TilesData(off, size)
      /\ \A m \in Modes :
           /\ m # "REP_MODE" => CoversParity(m, off, size)
           /\ \A i \in Groups : /\ SizesAddUp(m, off, size, i)
                                /\ m # "REP_MODE" => ClientAgrees(m, off, size, i)

\* The node runs, its handlers wrote what they were called for, in the order of
\* the appends, and none of the block's that came before is still waiting.
Undisturbed(n, f) ==
  LET pieces == file[n][f] IN
  /\ ended[n] = None
  /\ \A j \in DOMAIN pieces : pieces[j].own = pieces[j].from
  /\ \A j, l \in DOMAIN pieces : j < l => pieces[j].own.no < pieces[l].own.no
  /\ \A h \in Late([node |-> n, file |-> f]), j \in DOMAIN pieces : h.no > pieces[j].own.no
\* where piece j was written: the first at 0, every other where the last one ends
WrittenAt(pieces, j) ==
  IF j = 1 THEN 0 ELSE pieces[j - 1].own.offset + pieces[j - 1].own.size
MergedRegion(p) ==
  (UNION {Region(q.own) : q \in p.slices}) \union (UNION {Region(h) : h \in p.late})

\* While the tables are not cleared: the file of a data block that nothing
\* disturbed has every slice at the offset the plan gave it, though handlers
\* write at the end; and a merged parity is the sum of slices that, with those
\* that came too late for it, cover the block, so none of the stripe's appends
\* is forgotten and no merge comes before the last of them was sent.
FilesInOrder ==
  resets = 0 =>
    \A n \in Nodes, f \in Files :
      /\ f[2] \in DataBlocks /\ Undisturbed(n, f) =>
           \A j \in DOMAIN file[n][f] : file[n][f][j].own.offset = WrittenAt(file[n][f], j)
      /\ \A p \in Pieces(n, f) :
           p.kind = "merged" => MergedRegion(p) = 0 .. BlockSize - 1

\* No process ends, and no parity turns to garbage, by an append alone, but for
\* two races: a later append's handler created the file of a data block first,
\* or a merge came before any record was written.  Everything else takes a
\* setParameter, which hands out stripe ids again and leaves clients in the
\* middle of stripes that are gone.
EndsExplained ==
  resets = 0 =>
    /\ ended[Coordinator] = None
    /\ \A n \in Nodes :
         \/ ended[n] = None
         \/ ended[n].why = "no file"
         \/ /\ ended[n].why = "file exists"
            /\ \A p \in Pieces(n, ended[n].at) : p.own.no > ended[n].no
    /\ \A n \in Nodes, f \in Files : \A p \in Pieces(n, f) : p.kind # "garbage"
=============================================================================
