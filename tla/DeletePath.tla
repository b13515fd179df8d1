----------------------------- MODULE DeletePath -----------------------------
(***************************************************************************)
(* Deletion: Client::delete_key, delete_stripe and delete_all_stripes, the *)
(* coordinator's delByKey, delByStripe and listStripes, the proxy's        *)
(* deleteBlock, the datanode's handleDelete, and the DEL branches of       *)
(* reportCommitAbort and checkCommitAbort.                                 *)
(*                                                                         *)
(* The coordinator notes the deletion under its mutex, looks the blocks up *)
(* without it, and hands them to one proxy, whose detached thread has the  *)
(* files removed and then reports; only the report changes the tables and  *)
(* wakes the clients that wait.                                            *)
(***************************************************************************)
EXTENDS Naturals, FiniteSets

CONSTANTS
  Clients,
  Wanted,      \* per client: what it will delete, stripes and keys
  Lists,       \* the clients that call delete_all_stripes
  Stripes,     \* the stripes stored when the clients start
  Blocks,      \* their blocks
  map2stripe,  \* map2stripe of a block
  map2node,    \* map2node of a block
  map2key,     \* per stripe: the key its blocks carry; an upload of a stripe
               \* writes the id of its client there, which is no key: None
  Keys,
  Committed,   \* per key of m_object_commit_table: its stripe
  Late,        \* blocks whose append handler has yet to write the file
  Nodes,
  MaxDown,     \* bound: how many datanodes crash
  None

Targets == ({"stripe"} \X Stripes) \union ({"key"} \X Keys)
Jobs    == Clients \X Targets

ASSUME DeleteAssumption ==
  /\ IsFiniteSet(Clients)
  /\ Wanted \in [Clients -> SUBSET Targets] /\ Lists \subseteq Clients
  /\ \A c \in Lists : Wanted[c] = {}
  /\ map2stripe \in [Blocks -> Stripes] /\ map2node \in [Blocks -> Nodes]
  /\ \A s \in Stripes : \E b \in Blocks : map2stripe[b] = s
  /\ map2key \in [Stripes -> Keys \union {None}] /\ None \notin Keys
  /\ DOMAIN Committed \subseteq Keys /\ Committed \in [DOMAIN Committed -> Stripes]
  /\ \A s \in Stripes : map2key[s] # None =>
       map2key[s] \in DOMAIN Committed /\ Committed[map2key[s]] = s
  /\ Late \subseteq Blocks

VARIABLES
  \* coordinator
  coordinator,             \* "up" or "crashed"
  m_mutex,                 \* "free", or "leaked" by a handler that threw
  m_object_commit_table,
  m_object_updating_table,
  m_stripe_deleting_table, \* how often a stripe is in it
  m_stripe_table,          \* the stripes in it
  stripeBlocks,            \* Stripe::blocks of them all
  clusterBlocks,           \* Cluster::blocks of them all
  nodeStripes,             \* Node::stripes
  \* clients, each with the handler of its call
  todo,                    \* what the client has still to delete
  doing,                   \* what it is deleting
  pc,
  found,                   \* the blocks the handler reads, without the mutex
  raced,                   \* was m_stripe_table changed since it began to read
  done,                    \* what deletions returned true for
  called,                  \* history: what any client began to delete
  \* proxies: the detached delete_blocks threads
  job,
  left,                    \* the blocks whose sender has yet to return
  \* datanodes
  files, late, down

coordVars  == <<coordinator, m_mutex, m_object_commit_table, m_object_updating_table,
                m_stripe_deleting_table, m_stripe_table, stripeBlocks, clusterBlocks,
                nodeStripes>>
clientVars == <<todo, doing, pc, found, raced, done, called>>
proxyVars  == <<job, left>>
nodeVars   == <<files, late, down>>
vars       == <<coordVars, clientVars, proxyVars, nodeVars>>

-----------------------------------------------------------------------------
isKey(t)    == t[1] = "key"
StripeOf(t) == IF isKey(t) THEN Committed[t[2]] ELSE t[2]

\* the blocks that match a target: map2key == key, map2stripe == stripe_id
Matches(b, t) == IF isKey(t) THEN map2key[map2stripe[b]] = t[2] ELSE map2stripe[b] = t[2]

Init ==
  /\ coordinator = "up" /\ m_mutex = "free"
  /\ m_object_commit_table = DOMAIN Committed /\ m_object_updating_table = {}
  /\ m_stripe_deleting_table = [s \in Stripes |-> 0]
  /\ m_stripe_table = Stripes
  /\ stripeBlocks = Blocks /\ clusterBlocks = Blocks
  /\ nodeStripes = [n \in Nodes |-> {map2stripe[b] : b \in {d \in Blocks : map2node[d] = n}}]
  /\ todo = Wanted
  /\ doing = [c \in Clients |-> None]
  /\ pc = [c \in Clients |-> IF c \in Lists THEN "asking" ELSE "idle"]
  /\ found = [c \in Clients |-> {}]
  /\ raced = [c \in Clients |-> FALSE]
  /\ done = [c \in Clients |-> {}] /\ called = {}
  /\ job = [j \in Jobs |-> "none"] /\ left = [j \in Jobs |-> {}]
  /\ files = Blocks \ Late /\ late = Late /\ down = {}

-----------------------------------------------------------------------------
(* Client.                                                                 *)

\* The mutex a thread may take.  A process that crashed takes no calls.
Lockable == coordinator = "up" /\ m_mutex = "free"

\* the next of the client's calls
Delete(c, t) ==
  /\ pc[c] = "idle" /\ t \in todo[c]
  /\ todo' = [todo EXCEPT ![c] = @ \ {t}]
  /\ doing' = [doing EXCEPT ![c] = t]
  /\ pc' = [pc EXCEPT ![c] = "calling"]
  /\ called' = called \union {t}
  /\ UNCHANGED <<coordVars, found, raced, done, proxyVars, nodeVars>>

\* a call to a coordinator that crashed fails; the client goes on to the next
FailCall(c) ==
  /\ coordinator = "crashed" /\ pc[c] # "idle"
  /\ pc' = [pc EXCEPT ![c] = "idle"]
  /\ todo' = IF pc[c] \in {"asking", "listing"} THEN [todo EXCEPT ![c] = {}] ELSE todo
  /\ UNCHANGED <<coordVars, doing, found, raced, done, called, proxyVars, nodeVars>>

-----------------------------------------------------------------------------
(* Coordinator: listStripes, delByKey, delByStripe.                        *)

\* listStripes walks m_stripe_table without the mutex
BeginList(c) ==
  /\ pc[c] = "asking" /\ coordinator = "up"
  /\ todo' = [todo EXCEPT ![c] = {"stripe"} \X m_stripe_table]
  /\ raced' = [raced EXCEPT ![c] = FALSE]
  /\ pc' = [pc EXCEPT ![c] = "listing"]
  /\ UNCHANGED <<coordVars, doing, found, done, called, proxyVars, nodeVars>>

Crash ==
  /\ coordinator' = "crashed"
  /\ UNCHANGED <<m_mutex, m_object_commit_table, m_object_updating_table,
                 m_stripe_deleting_table, m_stripe_table, stripeBlocks,
                 clusterBlocks, nodeStripes>>

\* a walk over a map another thread changed misses stripes or crashes
EndList(c) ==
  /\ pc[c] = "listing" /\ coordinator = "up"
  /\ \/ /\ \E ids \in IF raced[c] THEN SUBSET todo[c] ELSE {todo[c]} :
             todo' = [todo EXCEPT ![c] = ids]
        /\ pc' = [pc EXCEPT ![c] = "idle"]
        /\ UNCHANGED coordVars
     \/ raced[c] /\ Crash /\ UNCHANGED <<todo, pc>>
  /\ UNCHANGED <<doing, found, raced, done, called, proxyVars, nodeVars>>

\* at(key) throws between lock() and unlock(): the handler returns, the mutex
\* stays locked, and the client goes on to ask for the commit
MarkKey(c) ==
  LET k == doing[c][2] IN
  /\ pc[c] = "calling" /\ isKey(doing[c]) /\ Lockable
  /\ IF k \in m_object_commit_table
     THEN /\ m_object_updating_table' = m_object_updating_table \union {k}
          /\ pc' = [pc EXCEPT ![c] = "looking"]
          /\ UNCHANGED m_mutex
     ELSE /\ m_mutex' = "leaked"
          /\ pc' = [pc EXCEPT ![c] = "checking"]
          /\ UNCHANGED m_object_updating_table
  /\ UNCHANGED <<coordinator, m_object_commit_table, m_stripe_deleting_table,
                 m_stripe_table, stripeBlocks, clusterBlocks, nodeStripes, todo,
                 doing, found, raced, done, called, proxyVars, nodeVars>>

MarkStripe(c) ==
  /\ pc[c] = "calling" /\ ~isKey(doing[c]) /\ Lockable
  /\ m_stripe_deleting_table' = [m_stripe_deleting_table EXCEPT ![doing[c][2]] = @ + 1]
  /\ pc' = [pc EXCEPT ![c] = "looking"]
  /\ UNCHANGED <<coordinator, m_mutex, m_object_commit_table, m_object_updating_table,
                 m_stripe_table, stripeBlocks, clusterBlocks, nodeStripes, todo,
                 doing, found, raced, done, called, proxyVars, nodeVars>>

\* the threads that read m_stripe_table at this moment
Reading == {c \in Clients : pc[c] \in {"listing", "scanning"}}
RaceWith(others) == raced' = [c \in Clients |-> raced[c] \/ c \in others]

\* Stripe &t_stripe = m_stripe_table[id], without the mutex; an id that is not
\* there is inserted, with no blocks
LookUp(c) ==
  LET t == doing[c] IN
  /\ pc[c] = "looking" /\ coordinator = "up"
  /\ m_stripe_table' = m_stripe_table \union {StripeOf(t)}
  /\ found' = [found EXCEPT ![c] =
       {b \in stripeBlocks : map2stripe[b] = StripeOf(t) /\ Matches(b, t)}]
  /\ RaceWith(IF StripeOf(t) \in m_stripe_table THEN {} ELSE Reading)
  /\ pc' = [pc EXCEPT ![c] = "scanning"]
  /\ UNCHANGED <<coordinator, m_mutex, m_object_commit_table, m_object_updating_table,
                 m_stripe_deleting_table, stripeBlocks, clusterBlocks, nodeStripes,
                 todo, doing, done, called, proxyVars, nodeVars>>

\* What the loop over t_stripe.blocks collects.  When another thread changed
\* the table since: nothing, or, its own stripe erased, any of the blocks.
Scanned(c) ==
  IF ~raced[c] THEN {found[c]}
  ELSE {found[c], {}} \union (IF found[c] \subseteq stripeBlocks THEN {} ELSE SUBSET found[c])

\* The proxy of one of their clusters gets the blocks and starts a thread.
\* With no block the cluster is drawn from an empty set: the process crashes.
SendDelete(c) ==
  LET j == <<c, doing[c]>> IN
  /\ pc[c] = "scanning" /\ coordinator = "up"
  /\ \E bs \in Scanned(c) :
       IF bs = {} THEN Crash /\ UNCHANGED <<pc, job, left>>
       ELSE /\ job' = [job EXCEPT ![j] = "deleting"]
            /\ left' = [left EXCEPT ![j] = bs]
            /\ pc' = [pc EXCEPT ![c] = "checking"]
            /\ UNCHANGED coordVars
  /\ found' = [found EXCEPT ![c] = {}]
  /\ raced' = [raced EXCEPT ![c] = FALSE]
  /\ UNCHANGED <<todo, doing, done, called, nodeVars>>

-----------------------------------------------------------------------------
(* Proxy and datanode: deleteBlock, handleDelete.                          *)

handleDelete(b) == IF map2node[b] \in down THEN files ELSE files \ {b}

\* the caller does not notice a node that is down
DelInDatanode(j, b) ==
  /\ job[j] = "deleting" /\ b \in left[j]
  /\ left' = [left EXCEPT ![j] = @ \ {b}]
  /\ files' = handleDelete(b)
  /\ UNCHANGED <<coordVars, clientVars, job, late, down>>

\* an append handler that was still to write makes the file, deleted or not
WriteLate(b) ==
  /\ b \in late
  /\ late' = late \ {b}
  /\ files' = files \union {b}
  /\ UNCHANGED <<coordVars, clientVars, proxyVars, down>>

CrashNode(n) ==
  /\ n \notin down /\ Cardinality(down) < MaxDown
  /\ down' = down \union {n}
  /\ late' = {b \in late : map2node[b] # n}
  /\ UNCHANGED <<coordVars, clientVars, proxyVars, files>>

SendersDetachedBug(j) == TRUE
SendersJoined(j)      == left[j] = {}

-----------------------------------------------------------------------------
(* Coordinator: the DEL branches of reportCommitAbort, checkCommitAbort.   *)

SilentBug == pc
NotifyAll == [c \in Clients |-> IF pc[c] = "asleep" THEN "checking" ELSE pc[c]]

\* Operators named ...Bug are slips a later change could make: none of them is
\* used here, each stands before the definition it would replace.
KeepClusterBug(t)  == clusterBlocks
ClearClusterBug(t) == {}
ClusterWithout(t)  == {b \in clusterBlocks : ~Matches(b, t)}

\* The key is gone from both tables and its blocks from stripe and clusters.
\* The counter of a node stands at two for its one block, so taking one off
\* leaves the stripe in the node.
ReportKey(j) ==
  LET t == j[2]
      s == StripeOf(t)
      blocks == {b \in stripeBlocks : ~Matches(b, t)}
  IN
  /\ isKey(t) /\ t[2] \in m_object_commit_table
  /\ m_object_commit_table' = m_object_commit_table \ {t[2]}
  /\ m_object_updating_table' = m_object_updating_table \ {t[2]}
  /\ stripeBlocks' = blocks
  /\ m_stripe_table' = IF \E b \in blocks : map2stripe[b] = s
                       THEN m_stripe_table \union {s} ELSE m_stripe_table \ {s}
  /\ clusterBlocks' = ClusterWithout(t)
  /\ pc' = NotifyAll /\ RaceWith(Reading)
  /\ UNCHANGED <<m_stripe_deleting_table, nodeStripes>>

\* at(key) throws when the key went with its stripe: the handler returns
ReportUnknown(j) ==
  /\ isKey(j[2]) /\ j[2][2] \notin m_object_commit_table
  /\ UNCHANGED <<m_object_commit_table, m_object_updating_table, m_stripe_deleting_table,
                 m_stripe_table, stripeBlocks, clusterBlocks, nodeStripes, pc, raced>>

NeverErasedBug(s) == m_stripe_deleting_table
OneEntryLess(s)   == [m_stripe_deleting_table EXCEPT ![s] = IF @ = 0 THEN 0 ELSE @ - 1]

ReportStripe(j) ==
  LET t == j[2]
      s == t[2]
      listed == {map2stripe[b] : b \in clusterBlocks}
  IN
  /\ ~isKey(t)
  /\ m_stripe_deleting_table' = OneEntryLess(s)
  /\ m_stripe_table' = m_stripe_table \ {s}
  /\ stripeBlocks' = {b \in stripeBlocks : map2stripe[b] # s}
  /\ clusterBlocks' = ClusterWithout(t)
  /\ nodeStripes' = [n \in Nodes |-> nodeStripes[n] \ {s}]
  /\ m_object_commit_table' = IF s \in listed THEN m_object_commit_table \ {map2key[s]}
                                               ELSE m_object_commit_table
  /\ pc' = NotifyAll /\ RaceWith(Reading)
  /\ UNCHANGED m_object_updating_table

\* the report of a thread whose senders joined
Report(j) ==
  /\ job[j] = "deleting" /\ SendersJoined(j)
  /\ Lockable
  /\ ReportKey(j) \/ ReportUnknown(j) \/ ReportStripe(j)
  /\ job' = [job EXCEPT ![j] = "reported"]
  /\ UNCHANGED <<coordinator, m_mutex, todo, doing, found, done, called, left, nodeVars>>

\* there is nobody to report to
FailReport(j) ==
  /\ job[j] = "deleting" /\ SendersJoined(j) /\ coordinator = "crashed"
  /\ job' = [job EXCEPT ![j] = "reported"]
  /\ UNCHANGED <<coordVars, clientVars, left, nodeVars>>

Ended(t) == IF isKey(t) THEN t[2] \notin m_object_commit_table
                        ELSE m_stripe_deleting_table[t[2]] = 0

\* a turn of the loop of checkCommitAbort, up to the next cv.wait
CheckCommitAbort(c) ==
  /\ pc[c] = "checking" /\ Lockable
  /\ IF Ended(doing[c])
     THEN /\ done' = [done EXCEPT ![c] = @ \union {doing[c]}]
          /\ pc' = [pc EXCEPT ![c] = "idle"]
     ELSE pc' = [pc EXCEPT ![c] = "asleep"] /\ UNCHANGED done
  /\ UNCHANGED <<coordVars, todo, doing, found, raced, called, proxyVars, nodeVars>>

-----------------------------------------------------------------------------
Calling(c) ==
  \/ FailCall(c) \/ BeginList(c) \/ EndList(c) \/ MarkKey(c) \/ MarkStripe(c)
  \/ LookUp(c) \/ SendDelete(c) \/ CheckCommitAbort(c)

Deleting(j) == (\E b \in Blocks : DelInDatanode(j, b)) \/ Report(j) \/ FailReport(j)

Next ==
  \/ \E c \in Clients : Calling(c) \/ \E t \in Targets : Delete(c, t)
  \/ \E j \in Jobs : Deleting(j)
  \/ \E b \in Blocks : WriteLate(b)
  \/ \E n \in Nodes : CrashNode(n)

Spec == Init /\ [][Next]_vars

\* a thread that can run does run; m_mutex is not contended for ever
Fairness == /\ \A c \in Clients : WF_vars(Calling(c))
            /\ \A j \in Jobs : WF_vars(Deleting(j))

FairSpec == Spec /\ Fairness

-----------------------------------------------------------------------------
(* Properties.                                                             *)

\* the deletions of a stripe that are noted and not reported
Pending(s) ==
  {c \in Clients : doing[c] = <<"stripe", s>> /\ pc[c] \in {"looking", "scanning"}}
    \union {c \in Clients : job[<<c, <<"stripe", s>>>>] = "deleting"}

EntriesCounted ==
  coordinator = "up" =>
    \A s \in Stripes : m_stripe_deleting_table[s] = Cardinality(Pending(s))

TypeOK ==
  /\ EntriesCounted
  /\ coordinator \in {"up", "crashed"} /\ m_mutex \in {"free", "leaked"}
  /\ m_object_commit_table \subseteq DOMAIN Committed
  /\ m_object_updating_table \subseteq DOMAIN Committed
  /\ m_stripe_deleting_table \in [Stripes -> Nat]
  /\ m_stripe_table \subseteq Stripes
  /\ stripeBlocks \subseteq Blocks /\ clusterBlocks \subseteq Blocks
  /\ nodeStripes \in [Nodes -> SUBSET Stripes]
  /\ todo \in [Clients -> SUBSET Targets] /\ doing \in [Clients -> Targets \union {None}]
  /\ pc \in [Clients -> {"idle", "asking", "listing", "calling", "looking", "scanning",
                         "checking", "asleep"}]
  /\ found \in [Clients -> SUBSET Blocks] /\ raced \in [Clients -> BOOLEAN]
  /\ done \in [Clients -> SUBSET Targets] /\ called \subseteq Targets
  /\ job \in [Jobs -> {"none", "deleting", "reported"}] /\ left \in [Jobs -> SUBSET Blocks]
  /\ files \subseteq Blocks /\ late \subseteq Late /\ down \subseteq Nodes

\* A deletion that returned true is done, whoever else deletes the same stripe
\* or key at the same time: no table has the blocks, the key is not committed,
\* and no node that is up has a file, except one an append writes later.
DeletedIsGone ==
  \A c \in Clients : \A t \in done[c] : \A b \in Blocks : Matches(b, t) =>
    /\ b \notin stripeBlocks \union clusterBlocks
    /\ map2key[map2stripe[b]] \notin m_object_commit_table
    /\ b \in files => map2node[b] \in down \/ b \in Late

\* What nobody began to delete keeps its blocks in both tables, its files and
\* its key, whatever is deleted beside it.
OthersKept ==
  \A b \in Blocks : (\A t \in called : ~Matches(b, t)) =>
    /\ b \in stripeBlocks \intersect clusterBlocks
    /\ b \in files \union late \/ map2node[b] \in down
    /\ map2key[map2stripe[b]] \in m_object_commit_table \union {None}

\* The stripes' own block lists and the clusters' agree, under two deletions of
\* one stripe as well, by key and by id.
TablesAgree ==
  /\ stripeBlocks = clusterBlocks
  /\ \A b \in stripeBlocks : map2stripe[b] \in m_stripe_table

\* Every call to delete returns, unless a handler threw with the mutex locked,
\* as delByKey does for a key that is not committed, or not any more.
DeleteReturns ==
  \A c \in Clients : (pc[c] # "idle") ~> (pc[c] = "idle" \/ m_mutex = "leaked")
=============================================================================
