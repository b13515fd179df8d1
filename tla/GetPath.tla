------------------------------ MODULE GetPath ------------------------------
(***************************************************************************)
(* Reading blocks: Client::get and Client::get_blocks, the coordinator's   *)
(* getStripe and getBlocks, the proxies' getBlocks and, through            *)
(* DatanodeIO, the datanodes' handleGet.                                   *)
(*                                                                         *)
(* The client opens one accepting thread per block and the proxies connect *)
(* to it, one connection per block.  getBlocks starts a thread to read a   *)
(* block, sends the block's buffer to the client in the same turn of the   *)
(* loop, and joins the threads at the end.                                 *)
(***************************************************************************)
EXTENDS DatanodeIO

CONSTANTS
  Gets,       \* the reads, numbered
  ClientOf,   \* the client of a read; a client runs its reads in turn
  Wanted,     \* the blocks of a read
  WholeStripe, \* the reads made by get, the others by get_blocks
  ClusterOf,  \* map2cluster of a block
  map2node,   \* map2node of a block
  Missing,    \* blocks placed but never written: sub_set brought fewer
  Late        \* acknowledged blocks whose handleAppend has yet to accept

Reads     == UNION {{<<"get", o, b>> : b \in Wanted[o]} : o \in Gets}
Appends   == {<<"append", 0, b>> : b \in Late}
GetTransfers == Reads \union Appends

ASSUME GetsAssumption ==
  /\ Transfers = GetTransfers
  /\ Gets \subseteq Nat
  /\ Wanted \in [Gets -> SUBSET Blocks]
  /\ Blocks \subseteq Nat /\ IsFiniteSet(Blocks)
  /\ map2node \in [Blocks -> Nodes]

VARIABLES
  pc,         \* the read at the client
  proxy,      \* getBlocks of a read at the proxy of a cluster
  connected,  \* connections to the client no thread has accepted
  carried,    \* what getBlocks wrote to the client for a block
  received    \* the connections the client's threads read, per read

getVars == <<pc, proxy, connected, carried, received>>
vars    == <<ioVars, getVars>>

Clusters       == {ClusterOf[b] : b \in Blocks}
ClustersOf(o)  == {ClusterOf[b] : b \in Wanted[o]}
Part(o, cl)    == {t \in Reads : request(t) = o /\ ClusterOf[block(t)] = cl}

Init ==
  /\ IOInit(map2node, Appends, Missing)
  /\ pc = [o \in Gets |-> "idle"]
  /\ proxy = [o \in Gets |-> [cl \in Clusters |-> "none"]]
  /\ connected = {}
  /\ carried = [t \in Reads |-> None]
  /\ received = [o \in Gets |-> {}]

-----------------------------------------------------------------------------
(* Client and coordinator.                                                 *)

AskBlocks(o) ==
  /\ pc[o] = "idle"
  /\ \A p \in Gets : ClientOf[p] = ClientOf[o] => pc[p] \in {"idle", "returned"}
  /\ pc' = [pc EXCEPT ![o] = "waiting"]
  /\ UNCHANGED <<ioVars, proxy, connected, carried, received>>

\* one thread of the coordinator per cluster that holds a block
CallProxy(o, cl) ==
  /\ pc[o] # "idle" /\ cl \in ClustersOf(o)
  /\ proxy[o][cl] = "none"
  /\ proxy' = [proxy EXCEPT ![o][cl] = "reading"]
  /\ UNCHANGED <<ioVars, pc, connected, carried, received>>

\* one accepting thread of the client per block
KThreadsBug(o) == Cardinality(Blocks)
Threads(o)     == Cardinality(Wanted[o])

\* a thread stores what came under the block id that came with it
ReceiveBlock(o, t) ==
  /\ pc[o] = "waiting"
  /\ Cardinality(received[o]) < Threads(o)
  /\ t \in connected /\ ClientOf[request(t)] = ClientOf[o]
  /\ received' = [received EXCEPT ![o] = @ \union {t}]
  /\ connected' = connected \ {t}
  /\ UNCHANGED <<ioVars, pc, proxy, carried>>

FirstJoinedBug(o) == received[o] # {}
AllReceived(o)    == Cardinality(received[o]) = Threads(o)
\* getBlocks of the coordinator joins its threads, getStripe detaches them
ProxiesReturned(o) == \A cl \in ClustersOf(o) : proxy[o][cl] = "joined"

ReturnData(o) ==
  /\ pc[o] = "waiting"
  /\ AllReceived(o)
  /\ o \notin WholeStripe => ProxiesReturned(o)
  /\ pc' = [pc EXCEPT ![o] = "returned"]
  /\ UNCHANGED <<ioVars, proxy, connected, carried, received>>

-----------------------------------------------------------------------------
(* Proxy: getBlocks.                                                       *)

\* the thread of the next block starts when the ones before it were written
StartReader(t) ==
  LET o == request(t) cl == ClusterOf[block(t)] IN
  /\ proxy[o][cl] = "reading"
  /\ \A u \in Part(o, cl) : block(u) < block(t) => carried[u] # None
  /\ StartTransfer(t, map2node[block(t)], Garbage)
  /\ UNCHANGED getVars

\* the buffer as it is: filled if the thread happens to have ended
NoOffsetBug(t) ==
  LET part == Part(request(t), ClusterOf[block(t)])
      u == CHOOSE u \in part : \A w \in part : block(u) <= block(w)
  IN  IF call[u] = "done" THEN buf[u] ELSE Garbage
Buffer(t) == IF call[t] = "done" THEN buf[t] ELSE Garbage

WriteToClient(t) ==
  /\ call[t] # "none" /\ carried[t] = None
  /\ carried' = [carried EXCEPT ![t] = Buffer(t)]
  /\ connected' = connected \union {t}
  /\ UNCHANGED <<ioVars, pc, proxy, received>>

ReadersJoined(o, cl) == \A t \in Part(o, cl) : carried[t] # None /\ call[t] = "done"

\* the threads joined, the buffer freed
JoinReaders(o, cl) ==
  /\ proxy[o][cl] = "reading"
  /\ ReadersJoined(o, cl)
  /\ proxy' = [proxy EXCEPT ![o][cl] = "joined"]
  /\ UNCHANGED <<ioVars, pc, connected, carried, received>>

-----------------------------------------------------------------------------
Get(o) ==
  \/ AskBlocks(o) \/ ReturnData(o)
  \/ \E cl \in Clusters : CallProxy(o, cl) \/ JoinReaders(o, cl)
  \/ \E t \in Reads : ReceiveBlock(o, t)

\* an append handler accepted the connection of a reader: both read for ever,
\* and the proxy does not join the reader
Stuck(o) == \E t \in Reads : /\ request(t) = o
                             /\ \E h \in Appends : handler[h] = "serving" /\ met[h] = t

\* every read returned, or is stuck, or waits for its client's stuck one
Finished ==
  /\ \A o \in Gets : \/ pc[o] = "returned" /\ ProxiesReturned(o)
                     \/ Stuck(o)
                     \/ pc[o] = "idle" /\ \E p \in Gets : ClientOf[p] = ClientOf[o] /\ Stuck(p)
  /\ UNCHANGED vars

Next ==
  \/ \E o \in Gets : Get(o)
  \/ \E t \in Reads : StartReader(t) \/ WriteToClient(t)
  \/ IONext /\ UNCHANGED getVars
  \/ Finished

Spec == Init /\ [][Next]_vars

\* threads that can run do run; clients need not read, nodes need not crash
Fairness ==
  /\ \A o \in Gets :
       /\ WF_vars(ReturnData(o))
       /\ WF_vars(\E t \in Reads : ReceiveBlock(o, t))
       /\ \A cl \in Clusters : WF_vars(CallProxy(o, cl)) /\ WF_vars(JoinReaders(o, cl))
  /\ \A t \in Reads : WF_vars(StartReader(t)) /\ WF_vars(WriteToClient(t))
  /\ \A t \in Transfers : WF_vars(Transfer(t) /\ UNCHANGED getVars)

FairSpec == Spec /\ Fairness
-----------------------------------------------------------------------------
(* Properties.                                                             *)

TypeOK ==
  /\ IOTypeOK
  /\ pc \in [Gets -> {"idle", "waiting", "returned"}]
  /\ proxy \in [Gets -> [Clusters -> {"none", "reading", "joined"}]]
  /\ connected \subseteq Reads
  /\ carried \in [Reads -> Content \union {None}]
  /\ received \in [Gets -> SUBSET Reads]

\* The block ids that come with the bytes are relative to one read, and say
\* nothing of which: a read never takes a connection meant for another read of
\* its client, because it takes as many as its proxies make.
OwnBlocks == \A o \in Gets : \A t \in received[o] : request(t) = o

\* Whatever the client gets of a block, it is that block's own bytes or what
\* nobody wrote, when no other transfer used the block's node.
NodeUnshared(t) == \A u \in Transfers \ {t} : at[u] # at[t]
AloneIsRight ==
  \A t \in Reads : carried[t] # None /\ NodeUnshared(t) =>
    carried[t] \in {block(t), Garbage}

\* Every read returns to its client, whatever datanodes crash and whatever
\* connections and handlers swap, unless it is a get_blocks, which joins its
\* readers, and the handler of an acknowledged append accepted the connection of
\* one of them.  A get never waits for its readers and always returns.
GetReturns ==
  \A o \in Gets : (pc[o] = "waiting") ~>
    \/ pc[o] = "returned"
    \/ o \notin WholeStripe /\ Stuck(o)

-----------------------------------------------------------------------------
(* What the repository's documents say and the code does not do.           *)

(* doc/Prototype Design.md:43, "the selected proxy read all the data       *)
(* blocks from data nodes and splice": what the client gets of a block     *)
(* whose node is up is that block.                                         *)
BytesAreStored ==
  \A o \in Gets : pc[o] = "returned" =>
    \A t \in received[o] :
      map2node[block(t)] \notin down /\ block(t) \notin Missing => carried[t] = block(t)
=============================================================================
