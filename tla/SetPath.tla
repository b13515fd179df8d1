------------------------------ MODULE SetPath ------------------------------
(***************************************************************************)
(* The path of a stripe write: Client::set and Client::sub_set, the        *)
(* coordinator's uploadSetValue and uploadSubsetValue, the proxies'        *)
(* scheduleAppend2Datanode, the datanodes' handleAppend, and the commit    *)
(* protocol (reportCommitAbort, checkCommitAbort) that ends it.            *)
(*                                                                         *)
(* An upload places the blocks of its stripe one after the other, outside  *)
(* m_mutex: it selects a node, then records the stripe there, and the      *)
(* coordinator's process ends by an assertion when another upload with the *)
(* same stripe id came between.  Then the upload sends one append plan per *)
(* group to the proxy of the group's cluster.  The proxy answers the plan  *)
(* with a detached thread that waits in accept() on the one data socket of *)
(* the proxy; a connection carries bytes and no key, so a thread takes     *)
(* whichever connection comes.  The same happens once more between the     *)
(* proxy and each datanode.                                                *)
(***************************************************************************)
EXTENDS Naturals, FiniteSets

CONSTANTS
  Ops,          \* the uploads the clients issue, one stripe each
  Clients,
  ClientOf,     \* the client of an upload; a client runs its uploads in turn
  Blocks,       \* the block ids of a stripe, placed in their order
  NumGroups,    \* the groups of a stripe are 0 .. NumGroups - 1
  GroupOf,      \* map2group
  Requests,     \* the sets of blocks an upload may write: all, or a subset
  ClusterNum,   \* the clusters are 0 .. ClusterNum - 1, one proxy in each
  Nodes,
  ClusterOfNode,
  MaxDown,      \* bound: how many datanodes may crash
  None

Groups   == 0 .. NumGroups - 1
Clusters == 0 .. ClusterNum - 1

ASSUME GroupsAssumption ==
  /\ NumGroups \in Nat \ {0}
  /\ ClusterNum \in Nat \ {0}
  /\ NumGroups <= ClusterNum
  /\ GroupOf \in [Blocks -> Groups]
ASSUME BlocksAssumption == Blocks \subseteq Nat
ASSUME RequestsAssumption == Requests \subseteq SUBSET Blocks
ASSUME ClientsAssumption == ClientOf \in [Ops -> Clients]
ASSUME NodesAssumption == ClusterOfNode \in [Nodes -> Clusters]
ASSUME NoneAssumption ==
  /\ None \notin Ops \X Groups
  /\ None \notin Ops \X Blocks
  /\ None \notin Nodes

Slices == Ops \X Groups   \* one group's part of an upload, cut by the client
Copies == Ops \X Blocks   \* one block of an upload on its way to a datanode
Keys   == Nat \X Groups   \* append keys, "stripe_group"

VARIABLES
  \* coordinator
  coordinator,              \* its process, "up" or "aborted"
  m_cur_stripe_id,
  m_object_commit_table,    \* the keys committed
  m_object_updating_table,  \* the keys whose ObjectInfo awaits its commit
  blank,                    \* committed keys whose ObjectInfo is the default one
  m_stripe_table,           \* the stripe ids recorded
  nodeStripes,              \* Node::stripes, the stripes a node was chosen for
  pc,                       \* the upload: the client and its handler
  stripe,                   \* t_stripe.stripe_id, local to the handler
  request,                  \* the blocks the upload writes
  selected,                 \* t_node_id, the node selected and not yet recorded
  map2node,                 \* the nodes of the upload's blocks, as far as placed
  notify,                   \* the notify_proxies_ready threads
  \* client
  send,                     \* the async_append_to_proxies threads
  \* proxies
  backlog,                  \* connected slices no thread has accepted
  thread,                   \* the append_and_save threads
  got,                      \* the slice a thread accepted
  sender,                   \* the append_to_datanode threads
  \* datanodes
  down,                     \* crashed datanodes
  dnBacklog,                \* connected copies no handler has accepted
  handler,                  \* the detached handleAppend threads
  dnGot                     \* the copy a handler accepted

coordVars  == <<coordinator, m_cur_stripe_id, m_object_commit_table,
                m_object_updating_table, blank, m_stripe_table, nodeStripes>>
placeVars  == <<selected, map2node>>
uploadVars == <<pc, stripe, request, placeVars, notify>>
proxyVars  == <<backlog, thread, got, sender>>
nodeVars   == <<down, dnBacklog, handler, dnGot>>
vars       == <<coordVars, uploadVars, send, proxyVars, nodeVars>>

-----------------------------------------------------------------------------
\* Operators named ...Bug are slips a later change could make: none of them is
\* used here, each stands before the definition it would replace.
KeySwappedBug(x) == <<x[2], stripe[x[1]]>>
Key(x)     == <<stripe[x[1]], x[2]>>
\* round robin: the stripe id chooses the cluster of group 0
map2cluster(s, g) == (s + g) % ClusterNum
Cluster(x) == map2cluster(stripe[x[1]], x[2])
SliceOf(c) == <<c[1], GroupOf[c[2]]>>
NodeOf(c)  == map2node[c[1]][c[2]]

\* groups left without a block get no plan
PlanGroups(o) == {GroupOf[b] : b \in request[o]}
PlanBlocks(x) == {b \in request[x[1]] : GroupOf[b] = x[2]}

\* the block whose turn it is in the loop that places the stripe
NextBlock(o, b) ==
  map2node[o][b] = None /\ \A c \in Blocks : c < b => map2node[o][c] # None

\* the nodes of a block's cluster not yet selected for a stripe with this id
FreeNodes(s, b) ==
  {n \in Nodes : /\ ClusterOfNode[n] = map2cluster(s, GroupOf[b])
                 /\ s \notin nodeStripes[n]}

Init ==
  /\ coordinator = "up" /\ m_cur_stripe_id = 0
  /\ m_object_commit_table = {} /\ m_object_updating_table = {} /\ blank = {}
  /\ m_stripe_table = {}
  /\ nodeStripes = [n \in Nodes |-> {}]
  /\ pc = [o \in Ops |-> "idle"]
  /\ stripe = [o \in Ops |-> 0]
  /\ request = [o \in Ops |-> {}]
  /\ selected = [o \in Ops |-> None]
  /\ map2node = [o \in Ops |-> [b \in Blocks |-> None]]
  /\ notify = [x \in Slices |-> "none"]
  /\ send = [x \in Slices |-> "none"]
  /\ backlog = {}
  /\ thread = [x \in Slices |-> "none"]
  /\ got = [x \in Slices |-> None]
  /\ sender = [c \in Copies |-> "none"]
  /\ down = {} /\ dnBacklog = {}
  /\ handler = [c \in Copies |-> "none"]
  /\ dnGot = [c \in Copies |-> None]

-----------------------------------------------------------------------------
(* Coordinator: the handler of an upload.                                  *)

\* m_cur_stripe_id++ runs outside m_mutex in concurrent handlers: a data race,
\* whose outcome is that of a separate read and write.
ReadStripeId(o) ==
  /\ coordinator = "up" /\ pc[o] = "idle"
  /\ \A p \in Ops : ClientOf[p] = ClientOf[o] => pc[p] \in {"idle", "acked", "failed"}
  /\ pc' = [pc EXCEPT ![o] = "reading"]
  /\ stripe' = [stripe EXCEPT ![o] = m_cur_stripe_id]
  /\ request' \in {[request EXCEPT ![o] = r] : r \in Requests}
  /\ UNCHANGED <<coordVars, placeVars, notify, send, proxyVars, nodeVars>>

WriteStripeId(o) ==
  /\ coordinator = "up" /\ pc[o] = "reading"
  /\ m_cur_stripe_id' = stripe[o] + 1
  /\ pc' = [pc EXCEPT ![o] = "placing"]
  /\ UNCHANGED <<coordinator, m_object_commit_table, m_object_updating_table, blank,
                 m_stripe_table, nodeStripes, stripe, request, placeVars, notify,
                 send, proxyVars, nodeVars>>

\* randomly_select_a_node draws until a node is free: without one it never
\* returns and the action is disabled
SelectNode(o) ==
  /\ coordinator = "up" /\ pc[o] = "placing" /\ selected[o] = None
  /\ \E b \in Blocks :
       /\ NextBlock(o, b)
       /\ selected' \in {[selected EXCEPT ![o] = n] : n \in FreeNodes(stripe[o], b)}
  /\ UNCHANGED <<coordVars, pc, stripe, request, map2node, notify, send, proxyVars,
                 nodeVars>>

\* update_stripe_info_in_node: the node keeps the stripe, the loop goes on
RecordNode(o) ==
  /\ coordinator = "up" /\ pc[o] = "placing" /\ selected[o] # None
  /\ stripe[o] \notin nodeStripes[selected[o]]
  /\ nodeStripes' = [nodeStripes EXCEPT ![selected[o]] = @ \union {stripe[o]}]
  /\ \E b \in Blocks :
       /\ NextBlock(o, b)
       /\ map2node' = [map2node EXCEPT ![o][b] = selected[o]]
       /\ pc' = IF \A c \in Blocks \ {b} : map2node[o][c] # None
                THEN [pc EXCEPT ![o] = "placed"] ELSE pc
  /\ selected' = [selected EXCEPT ![o] = None]
  /\ UNCHANGED <<coordinator, m_cur_stripe_id, m_object_commit_table,
                 m_object_updating_table, blank, m_stripe_table, stripe, request,
                 notify, send, proxyVars, nodeVars>>

\* its assertion, when another upload recorded the same id there meanwhile
AbortCoordinator(o) ==
  /\ coordinator = "up" /\ pc[o] = "placing" /\ selected[o] # None
  /\ stripe[o] \in nodeStripes[selected[o]]
  /\ coordinator' = "aborted"
  /\ UNCHANGED <<m_cur_stripe_id, m_object_commit_table, m_object_updating_table, blank,
                 m_stripe_table, nodeStripes, uploadVars, send, proxyVars, nodeVars>>

ClearedBug(x) == {}
Forgotten(x)  == m_object_commit_table \ {Key(x)}

\* one turn of the loop that forgets an earlier commit of the plans' keys
EraseCommit(o, g) ==
  LET x == <<o, g>> IN
  /\ coordinator = "up" /\ pc[o] = "placed" /\ g \in PlanGroups(o)
  /\ notify[x] = "none"
  /\ notify' = [notify EXCEPT ![x] = "erased"]
  /\ m_object_commit_table' = Forgotten(x)
  /\ blank' = blank \ {Key(x)}
  /\ UNCHANGED <<coordinator, m_cur_stripe_id, m_object_updating_table, m_stripe_table,
                 nodeStripes, pc, stripe, request, placeVars, send, proxyVars, nodeVars>>

\* notify_proxies_ready calls the proxy, whose scheduleAppend2Datanode starts
\* the detached accept thread and returns at once.  A call on its way when the
\* coordinator ends may still be served.
ScheduleAppend(o, g) ==
  LET x == <<o, g>> IN
  /\ \A h \in PlanGroups(o) : notify[<<o, h>>] # "none"
  /\ notify[x] = "erased"
  /\ notify' = [notify EXCEPT ![x] = "called"]
  /\ thread' = [thread EXCEPT ![x] = "accepting"]
  /\ UNCHANGED <<coordVars, pc, stripe, request, placeVars, send, backlog, got,
                 sender, nodeVars>>

\* the rest of notify_proxies_ready, after the call returned
NoteUpdating(o, g) ==
  LET x == <<o, g>> IN
  /\ coordinator = "up" /\ notify[x] = "called"
  /\ notify' = [notify EXCEPT ![x] = "noted"]
  /\ m_object_updating_table' = m_object_updating_table \union {Key(x)}
  /\ UNCHANGED <<coordinator, m_cur_stripe_id, m_object_commit_table, blank,
                 m_stripe_table, nodeStripes, pc, stripe, request, placeVars, send,
                 proxyVars, nodeVars>>

NotifiersDetachedBug(o) == \A g \in PlanGroups(o) : notify[<<o, g>>] # "none"
NotifiersJoined(o)      == \A g \in PlanGroups(o) : notify[<<o, g>>] = "noted"

UnrecordedBug(o) == m_stripe_table
Recorded(o)      == m_stripe_table \union {stripe[o]}

\* the notify threads joined: record the stripe, answer the client
ReplyUpload(o) ==
  /\ coordinator = "up" /\ pc[o] = "placed"
  /\ NotifiersJoined(o)
  /\ m_stripe_table' = Recorded(o)
  /\ pc' = [pc EXCEPT ![o] = "replied"]
  /\ UNCHANGED <<coordinator, m_cur_stripe_id, m_object_commit_table,
                 m_object_updating_table, blank, nodeStripes, stripe, request, placeVars,
                 notify, send, proxyVars, nodeVars>>

-----------------------------------------------------------------------------
(* Client: one async_append_to_proxies thread per group.                   *)

\* the coordinator is gone before it answered: the call fails, set() returns false
FailUpload(o) ==
  /\ coordinator = "aborted" /\ pc[o] \in {"reading", "placing", "placed"}
  /\ pc' = [pc EXCEPT ![o] = "failed"]
  /\ UNCHANGED <<coordVars, stripe, request, placeVars, notify, send, proxyVars, nodeVars>>

\* connect, write the slice, close, then call checkCommitAbort
SendSlice(o, g) ==
  LET x == <<o, g>> IN
  /\ pc[o] = "replied" /\ g \in PlanGroups(o)
  /\ send[x] = "none"
  /\ send' = [send EXCEPT ![x] = "sent"]
  /\ backlog' = backlog \union {x}
  /\ UNCHANGED <<coordVars, uploadVars, thread, got, sender, nodeVars>>

AnsweredEarlyBug(x) == TRUE
Committed(x)        == Key(x) \in m_object_commit_table

\* checkCommitAbort returns once the key is in the commit table
CheckCommit(o, g) ==
  LET x == <<o, g>> IN
  /\ coordinator = "up" /\ send[x] = "sent"
  /\ Committed(x)
  /\ send' = [send EXCEPT ![x] = "acked"]
  /\ UNCHANGED <<coordVars, uploadVars, proxyVars, nodeVars>>

\* its call fails when the coordinator is gone: the thread ends without a commit
FailCheck(o, g) ==
  LET x == <<o, g>> IN
  /\ coordinator = "aborted" /\ send[x] = "sent"
  /\ send' = [send EXCEPT ![x] = "failed"]
  /\ UNCHANGED <<coordVars, uploadVars, proxyVars, nodeVars>>

AnyAckedBug(o) == \E g \in PlanGroups(o) : send[<<o, g>>] = "acked"
AllAcked(o)    == \A g \in PlanGroups(o) : send[<<o, g>>] = "acked"

\* all threads joined with if_commit_arr all true: set() returns true
FinishSet(o) ==
  /\ pc[o] = "replied"
  /\ AllAcked(o)
  /\ pc' = [pc EXCEPT ![o] = "acked"]
  /\ UNCHANGED <<coordVars, stripe, request, placeVars, notify, send, proxyVars, nodeVars>>

\* all threads joined and one of them saw no commit: set() returns false
FailSet(o) ==
  /\ pc[o] = "replied"
  /\ \A g \in PlanGroups(o) : send[<<o, g>>] \in {"acked", "failed"}
  /\ \E g \in PlanGroups(o) : send[<<o, g>>] = "failed"
  /\ pc' = [pc EXCEPT ![o] = "failed"]
  /\ UNCHANGED <<coordVars, stripe, request, placeVars, notify, send, proxyVars, nodeVars>>

-----------------------------------------------------------------------------
(* Proxy: the append_and_save thread of a plan.                            *)

\* acceptor.accept and asio::read: any connection of this proxy will do
AcceptSlice(x, y) ==
  /\ thread[x] = "accepting"
  /\ y \in backlog /\ Cluster(y) = Cluster(x)
  /\ thread' = [thread EXCEPT ![x] = "sending"]
  /\ got' = [got EXCEPT ![x] = y]
  /\ backlog' = backlog \ {y}
  /\ UNCHANGED <<coordVars, uploadVars, send, sender, nodeVars>>

\* a call to a datanode that is down fails and returns; it does not hang
HangsBug(c) == NodeOf(c) \notin down
Returns(c)  == TRUE

\* AppendToDatanode, the call: handleAppend starts a detached thread and
\* returns; a failed call is not noticed
HandleAppend(c) ==
  /\ thread[SliceOf(c)] = "sending" /\ c[2] \in request[c[1]]
  /\ sender[c] = "none" /\ Returns(c)
  /\ sender' = [sender EXCEPT ![c] = "called"]
  /\ handler' = IF NodeOf(c) \in down THEN handler
                                      ELSE [handler EXCEPT ![c] = "accepting"]
  /\ UNCHANGED <<coordVars, uploadVars, send, backlog, thread, got, down,
                 dnBacklog, dnGot>>

\* AppendToDatanode, the data: connect, write, close; errors are ignored
SendBlock(c) ==
  /\ sender[c] = "called"
  /\ sender' = [sender EXCEPT ![c] = "sent"]
  /\ dnBacklog' = IF NodeOf(c) \in down THEN dnBacklog ELSE dnBacklog \union {c}
  /\ UNCHANGED <<coordVars, uploadVars, send, backlog, thread, got, down,
                 handler, dnGot>>

SendersDetachedBug(x) == TRUE
SendersJoined(x) == \A b \in PlanBlocks(x) : sender[<<x[1], b>>] = "sent"

\* The senders joined, the thread reports.  reportCommitAbort moves the entry
\* of the updating table to the commit table; operator[] makes a default one
\* when it is missing.
ReportCommit(x) ==
  /\ coordinator = "up" /\ thread[x] = "sending"
  /\ SendersJoined(x)
  /\ thread' = [thread EXCEPT ![x] = "reported"]
  /\ m_object_commit_table' = m_object_commit_table \union {Key(x)}
  /\ blank' = IF Key(x) \in m_object_updating_table THEN blank \ {Key(x)}
                                                    ELSE blank \union {Key(x)}
  /\ m_object_updating_table' = m_object_updating_table \ {Key(x)}
  /\ UNCHANGED <<coordinator, m_cur_stripe_id, m_stripe_table, nodeStripes, uploadVars,
                 send, backlog, got, sender, nodeVars>>

\* the call fails, is logged at most, and the thread ends
FailReport(x) ==
  /\ coordinator = "aborted" /\ thread[x] = "sending"
  /\ SendersJoined(x)
  /\ thread' = [thread EXCEPT ![x] = "unreported"]
  /\ UNCHANGED <<coordVars, uploadVars, send, backlog, got, sender, nodeVars>>

-----------------------------------------------------------------------------
(* Datanode: the detached thread of handleAppend.                          *)

AcceptBlock(c, d) ==
  /\ handler[c] = "accepting"
  /\ d \in dnBacklog /\ NodeOf(d) = NodeOf(c)
  /\ handler' = [handler EXCEPT ![c] = "writing"]
  /\ dnGot' = [dnGot EXCEPT ![c] = d]
  /\ dnBacklog' = dnBacklog \ {d}
  /\ UNCHANGED <<coordVars, uploadVars, send, proxyVars, down>>

\* the file named by the plan's block key gets the bytes the handler read
WriteBlock(c) ==
  /\ handler[c] = "writing"
  /\ handler' = [handler EXCEPT ![c] = "stored"]
  /\ UNCHANGED <<coordVars, uploadVars, send, proxyVars, down, dnBacklog, dnGot>>

\* a crash loses the node's threads and connections and keeps its files
CrashNode(n) ==
  /\ n \notin down /\ Cardinality(down) < MaxDown
  /\ down' = down \union {n}
  /\ dnBacklog' = {c \in dnBacklog : NodeOf(c) # n}
  /\ handler' = [c \in Copies |->
       IF handler[c] \in {"accepting", "writing"} /\ NodeOf(c) = n
       THEN "lost" ELSE handler[c]]
  /\ UNCHANGED <<coordVars, uploadVars, send, proxyVars, dnGot>>

-----------------------------------------------------------------------------
Handler(o) ==
  \/ ReadStripeId(o) \/ WriteStripeId(o)
  \/ SelectNode(o) \/ RecordNode(o) \/ AbortCoordinator(o) \/ ReplyUpload(o)
  \/ \E g \in Groups : EraseCommit(o, g) \/ ScheduleAppend(o, g) \/ NoteUpdating(o, g)

Client(o) ==
  \/ \E g \in Groups : SendSlice(o, g) \/ CheckCommit(o, g) \/ FailCheck(o, g)
  \/ FinishSet(o) \/ FailSet(o) \/ FailUpload(o)

Proxy(x) ==
  \/ \E y \in backlog : AcceptSlice(x, y)
  \/ ReportCommit(x) \/ FailReport(x)

Datanode(c) ==
  \/ HandleAppend(c) \/ SendBlock(c)
  \/ \E d \in dnBacklog : AcceptBlock(c, d)
  \/ WriteBlock(c)

\* the loop of randomly_select_a_node draws for ever
Starved(o) ==
  /\ coordinator = "up" /\ pc[o] = "placing" /\ selected[o] = None
  /\ \E b \in Blocks : NextBlock(o, b) /\ FreeNodes(stripe[o], b) = {}

\* nothing to do: every upload returned or draws for ever (one the client did
\* not begin cannot, once the coordinator is gone) and every handler finished
Finished ==
  /\ \A o \in Ops : \/ pc[o] \in {"acked", "failed"}
                    \/ Starved(o)
                    \/ pc[o] = "idle" /\ coordinator = "aborted"
  /\ \A c \in Copies : handler[c] \in {"none", "stored", "lost"}
  /\ UNCHANGED vars

Next ==
  \/ \E o \in Ops : Handler(o) \/ Client(o)
  \/ \E x \in Slices : Proxy(x)
  \/ \E c \in Copies : Datanode(c)
  \/ \E n \in Nodes : CrashNode(n)
  \/ Finished

\* Threads that can run do run; clients need not start an upload, no node has
\* to crash, and a call that was on its way need not arrive.
Fairness ==
  /\ \A o \in Ops :
       /\ WF_vars(WriteStripeId(o)) /\ WF_vars(SelectNode(o)) /\ WF_vars(RecordNode(o))
       /\ WF_vars(AbortCoordinator(o)) /\ WF_vars(ReplyUpload(o))
       /\ WF_vars(FinishSet(o)) /\ WF_vars(FailSet(o)) /\ WF_vars(FailUpload(o))
       /\ \A g \in Groups :
            /\ WF_vars(EraseCommit(o, g)) /\ WF_vars(NoteUpdating(o, g))
            /\ WF_vars(coordinator = "up" /\ ScheduleAppend(o, g))
            /\ WF_vars(SendSlice(o, g))
            /\ WF_vars(CheckCommit(o, g)) /\ WF_vars(FailCheck(o, g))
  /\ \A x \in Slices :
       /\ WF_vars(\E y \in backlog : AcceptSlice(x, y))
       /\ WF_vars(ReportCommit(x)) /\ WF_vars(FailReport(x))
  /\ \A c \in Copies :
       /\ WF_vars(HandleAppend(c)) /\ WF_vars(SendBlock(c)) /\ WF_vars(WriteBlock(c))
       /\ WF_vars(\E d \in dnBacklog : AcceptBlock(c, d))

Spec     == Init /\ [][Next]_vars
FairSpec == Spec /\ Fairness

-----------------------------------------------------------------------------
(* Properties.                                                             *)

Phases == {"idle", "reading", "placing", "placed", "replied", "acked", "failed"}

TypeOK ==
  /\ coordinator \in {"up", "aborted"}
  /\ m_cur_stripe_id \in Nat
  /\ m_object_commit_table \subseteq Keys /\ m_object_updating_table \subseteq Keys
  /\ blank \subseteq m_object_commit_table
  /\ m_stripe_table \subseteq Nat
  /\ nodeStripes \in [Nodes -> SUBSET Nat]
  /\ pc \in [Ops -> Phases]
  /\ stripe \in [Ops -> Nat]
  /\ request \in [Ops -> SUBSET Blocks]
  /\ selected \in [Ops -> Nodes \union {None}]
  /\ map2node \in [Ops -> [Blocks -> Nodes \union {None}]]
  /\ notify \in [Slices -> {"none", "erased", "called", "noted"}]
  /\ send \in [Slices -> {"none", "sent", "acked", "failed"}]
  /\ backlog \subseteq Slices
  /\ thread \in [Slices -> {"none", "accepting", "sending", "reported", "unreported"}]
  /\ got \in [Slices -> Slices \union {None}]
  /\ sender \in [Copies -> {"none", "called", "sent"}]
  /\ down \subseteq Nodes
  /\ dnBacklog \subseteq Copies
  /\ handler \in [Copies -> {"none", "accepting", "writing", "stored", "lost"}]
  /\ dnGot \in [Copies -> Copies \union {None}]

OneClient == \A o, p \in Ops : ClientOf[o] = ClientOf[p]

(* A key is committed only after a thread that serves the key has handed   *)
(* every block of its plan to a datanode: append_and_save joins its        *)
(* senders before it reports.  Holds whatever the clients do, two uploads  *)
(* with one stripe id included.                                            *)
CommitAfterHandoff ==
  \A k \in m_object_commit_table : \E o \in Ops :
    /\ pc[o] \notin {"idle", "reading"} /\ stripe[o] = k[1]
    /\ \A b \in PlanBlocks(<<o, k[2]>>) : sender[<<o, b>>] = "sent"

(* No connection waits at a data socket without a thread to take it: at    *)
(* every proxy, and at every datanode that is up, at least as many threads *)
(* wait in accept() as there are connections in the backlog.  It rests on  *)
(* the order "plan first, data second" of uploadSetValue's reply and of    *)
(* AppendToDatanode, across uploads that swap each other's connections.    *)
ConnectionsHaveTakers ==
  /\ \A k \in Clusters :
       Cardinality({x \in backlog : Cluster(x) = k}) <=
       Cardinality({x \in Slices : thread[x] = "accepting" /\ Cluster(x) = k})
  /\ \A n \in Nodes \ down :
       Cardinality({c \in dnBacklog : NodeOf(c) = n}) <=
       Cardinality({c \in Copies : handler[c] = "accepting" /\ NodeOf(c) = n})

(* A proxy thread stores the bytes of its own plan: the slice it accepted  *)
(* is the one the client cut for the plan's key.                           *)
SliceToItsPlan == \A x \in Slices : got[x] \in {x, None}

(* With one client, the keyless connections of the proxies never mix: the  *)
(* groups of a stripe lie in different clusters and the client waits for   *)
(* every commit before its next upload.                                    *)
OneClientSliceToItsPlan == OneClient => SliceToItsPlan

(* With one client, a commit never overtakes notify_proxies_ready: the     *)
(* entry reportCommitAbort moves is there, so no committed key has the     *)
(* default ObjectInfo.                                                     *)
OneClientCommitHasInfo == OneClient => blank = {}

(* With one client, the stripe is in the stripe table before any datanode  *)
(* holds or awaits one of its blocks: a block file always has metadata.    *)
OneClientFilesHaveMetadata ==
  OneClient => \A c \in Copies : handler[c] # "none" => stripe[c[1]] \in m_stripe_table

(* With one client, what set() reported as written stays committed and has *)
(* left the updating table, through every later upload's erase of keys and *)
(* reports.                                                                *)
OneClientAckedStaysCommitted ==
  OneClient => \A o \in Ops : pc[o] = "acked" =>
    \A g \in PlanGroups(o) :
      /\ Key(<<o, g>>) \in m_object_commit_table
      /\ Key(<<o, g>>) \notin m_object_updating_table

\* two uploads drew one stripe id
IdShared ==
  \E o, p \in Ops : o # p /\ pc[o] # "idle" /\ pc[p] # "idle" /\ stripe[o] = stripe[p]

(* Every upload that began returns success to its client, whatever         *)
(* datanodes crash and however the connections are mixed, unless two       *)
(* uploads drew one stripe id: then both may select one node, the          *)
(* assertion ends the coordinator and the uploads that need it return      *)
(* false, or one of them finds its cluster without a free node and draws   *)
(* for ever.                                                               *)
SetReturns ==
  \A o \in Ops : (pc[o] = "reading") ~>
    \/ pc[o] = "acked"
    \/ IdShared /\ (Starved(o) \/ (pc[o] = "failed" /\ coordinator = "aborted"))

(* Every block of an acknowledged upload reaches a file in the end, unless *)
(* its datanode crashed or the coordinator aborted.                        *)
AckedBlocksSettle ==
  \A o \in Ops : \A b \in Blocks :
    (pc[o] = "acked" /\ b \in request[o]) ~>
      \/ handler[<<o, b>>] = "stored"
      \/ NodeOf(<<o, b>>) \in down
      \/ coordinator = "aborted"

\* the abstract view: what an upload promises to its client
absPhase == [o \in Ops |-> IF pc[o] \in {"idle", "acked"} THEN pc[o] ELSE "uploading"]
absPlanned == [o \in Ops |-> IF pc[o] = "idle" THEN {} ELSE PlanGroups(o)]
absCommitted ==
  {x \in Slices : /\ pc[x[1]] \notin {"idle", "reading"} /\ x[2] \in PlanGroups(x[1])
                  /\ Key(x) \in m_object_commit_table}

Contract == INSTANCE SetContract WITH
  phase <- absPhase, planned <- absPlanned, committed <- absCommitted,
  Plans <- {{GroupOf[b] : b \in r} : r \in Requests}

(* With one client the protocol implements SetContract: groups commit one  *)
(* by one, never before the upload began, never twice undone, and the      *)
(* client hears of success only when all of them are committed.            *)
ImplementsContract == Contract!Spec

-----------------------------------------------------------------------------
(* What the repository's documents say and the code does not do.           *)

(* doc/Prototype Design.md:34, "After all the block are saved, reports ACK *)
(* to coordinator": every block of an acknowledged upload is in its file.  *)
AckedIsSaved ==
  \A o \in Ops : pc[o] = "acked" =>
    \A b \in request[o] : handler[<<o, b>>] = "stored"

(* doc/Prototype Design.md:34, "places each block of the stripe to the     *)
(* data node specified by the data placement scheme": the file of a block  *)
(* holds that block's bytes.                                               *)
BlockInItsFile ==
  \A c \in Copies : handler[c] = "stored" =>
    dnGot[c] = c /\ got[SliceOf(c)] = SliceOf(c)
=============================================================================
