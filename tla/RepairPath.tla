----------------------------- MODULE RepairPath -----------------------------
(***************************************************************************)
(* Repair of a block: Client::recovery, recovery_full_node,                *)
(* get_degraded_read_block and get_degraded_read_blocks, the coordinator's *)
(* recovery_one_block, degraded_read_one_block and its loop over several   *)
(* blocks, the proxies' degradedRead, recovery and degradedRead2Client     *)
(* and, through DatanodeIO, the datanodes' handleGet and handleRecovery.   *)
(*                                                                         *)
(* Every proxy of a repair reads its group's blocks and decodes them to a  *)
(* part.  The helpers connect to the destination and send theirs; the      *)
(* destination accepts as many connections as there are helpers, whoever   *)
(* made them, adds the parts up, and sends the block to a replacement node *)
(* or to the client.  Which groups hold which blocks is in StripeLayout.   *)
(***************************************************************************)
EXTENDS DatanodeIO

CONSTANTS
  Repairs,    \* the repairs, numbered
  Degraded,   \* those that send the block to the client and store nothing
  ClientOf,   \* the client of a repair; a client runs its repairs in turn, and
              \* fullNodeRecovery those of a node's blocks
  Batch,      \* the repairs one call of get_degraded_read_blocks asks for, in order
  Together,   \* bound: the sets of repairs one behaviour may ask for
  Failed,     \* failed_block_id of a repair
  Dest,       \* the cluster of its dest_group_id
  Sources,    \* per repair: the blocks its proxies read, by cluster
  Spare,      \* the nodes randomly_select_a_node may choose for a repair
  map2node,   \* map2node of a block
  Missing     \* blocks placed but never written: sub_set brought fewer

Asked(o)   == DOMAIN Sources[o]
Helpers(o) == Asked(o) \ {Dest[o]}
SourcesOf(o) == UNION {Sources[o][cl] : cl \in Asked(o)}

Gets(o)    == {<<"get", o, b>> : b \in SourcesOf(o)}
Save(o)    == <<"recover", o, Failed[o]>>
RepairTransfers == (UNION {Gets(o) : o \in Repairs}) \union {Save(o) : o \in Repairs \ Degraded}

ASSUME RepairsAssumption ==
  /\ Transfers = RepairTransfers
  /\ Batch \subseteq Degraded /\ Degraded \subseteq Repairs /\ Repairs \subseteq Nat
  /\ \A o, p \in Batch : ClientOf[o] = ClientOf[p]
  /\ Together \subseteq SUBSET Repairs
  /\ \A S \in Together : Batch \subseteq S \/ Batch \intersect S = {}
  /\ \A o \in Repairs :
       /\ Failed[o] \in Blocks /\ Dest[o] \in Asked(o)
       /\ SourcesOf(o) \subseteq Blocks \ {Failed[o]}
       /\ Spare[o] \subseteq Nodes \ MayCrash /\ Spare[o] # {}
  /\ map2node \in [Blocks -> Nodes]

\* the blocks of a stripe are on nodes of their own, and
\* randomly_select_a_node takes one without the stripe
ASSUME NodesAssumption ==
  \A o \in Repairs : \A a, b \in SourcesOf(o) \union {Failed[o]} :
    /\ map2node[a] = map2node[b] => a = b
    /\ map2node[a] \notin Spare[o]

ASSUME FiniteAssumption ==
  IsFiniteSet(Repairs) /\ IsFiniteSet(Blocks)
  /\ IsFiniteSet(UNION {Asked(o) : o \in Repairs})

VARIABLES
  pc,          \* the repair at the client and the coordinator
  proxy,       \* the call of a repair at the proxy of a cluster
  replacement, \* replaced_node of a repair
  part,        \* the part a proxy decoded: of which repair and cluster, or wrong
  waiting,     \* parts sent to a destination that no thread has accepted
  taken,       \* cross_rack_bufs: the parts the destination accepted
  toClient,    \* connections to the client of degraded reads
  got,         \* what the client of a degraded read received
  alone        \* history: the repairs no other repair ran beside

codeVars   == <<pc, proxy, replacement, part, waiting, taken, toClient, got>>
repairVars == <<codeVars, alone>>
vars       == <<ioVars, repairVars>>

Calls == {<<o, cl>> : o \in Repairs, cl \in UNION {Asked(p) : p \in Repairs}}
Call(o, cl) == <<o, cl>>

Init ==
  /\ IOInit(map2node, {}, Missing)
  /\ pc = [o \in Repairs |-> "idle"]
  /\ proxy = [c \in Calls |-> "none"]
  /\ replacement = [o \in Repairs |-> None]
  /\ part = [c \in Calls |-> None]
  /\ waiting = {}
  /\ taken = [o \in Repairs |-> {}]
  /\ toClient = {}
  /\ got = [o \in Repairs |-> None]
  /\ alone = Repairs

-----------------------------------------------------------------------------
(* Client and coordinator.                                                 *)

AnyJoinedBug(o) == \E cl \in Asked(o) : proxy[Call(o, cl)] = "done"
AllJoined(o)    == \A cl \in Asked(o) : proxy[Call(o, cl)] = "done"

\* the repairs one call of the client asks for
CallOf(o) == IF o \in Batch THEN Batch ELSE {o}
Began(o)  == pc[o] # "idle"

\* a client makes one call after the other; the coordinator goes on to the next
\* block of a call when the proxies of the one before have joined
AskRepair(o) ==
  /\ ~Began(o)
  /\ \E S \in Together : {o} \union {p \in Repairs : Began(p)} \subseteq S
  /\ \A p \in CallOf(o) : p < o => Began(p) /\ AllJoined(p)
  /\ \A p \in Repairs \ CallOf(o) : ClientOf[p] = ClientOf[o] => pc[p] # "running"
  /\ pc' = [pc EXCEPT ![o] = "running"]
  /\ LET others == {p \in Repairs : pc[p] = "running" /\ ~AllJoined(p)}
     IN  alone' = IF others = {} THEN alone ELSE alone \ (others \union {o})
  /\ UNCHANGED <<ioVars, proxy, replacement, part, waiting, taken, toClient, got>>

\* one thread of the coordinator per group; the destination's chooses the
\* replacement, and the tables do not learn of it
CallProxy(o, cl) ==
  /\ pc[o] = "running" /\ cl \in Asked(o)
  /\ proxy[Call(o, cl)] = "none"
  /\ proxy' = [proxy EXCEPT ![Call(o, cl)] = "reading"]
  /\ IF cl = Dest[o] /\ o \notin Degraded
     THEN \E n \in Spare[o] : replacement' = [replacement EXCEPT ![o] = n]
     ELSE UNCHANGED replacement
  /\ UNCHANGED <<ioVars, pc, part, waiting, taken, toClient, got, alone>>

\* a client of degraded reads waits for the bytes of its blocks and for the call
ReturnRepairs(o) ==
  /\ pc[o] = "running"
  /\ \A p \in CallOf(o) : Began(p) /\ AllJoined(p) /\ (p \in Degraded => got[p] # None)
  /\ pc' = [p \in Repairs |-> IF p \in CallOf(o) THEN "returned" ELSE pc[p]]
  /\ UNCHANGED <<ioVars, proxy, replacement, part, waiting, taken, toClient, got, alone>>

WhicheverBug(o, c) == o \in CallOf(c[1])
\* a connection of a call for several blocks says which of them it brings
BroughtFor(o, c) == IF o \in Batch THEN c[1] = o ELSE ClientOf[c[1]] = ClientOf[o]

\* what a connection brings; a call for several blocks waits from its beginning
ReceiveBlock(o, c) ==
  /\ o \in Degraded /\ got[o] = None
  /\ \E p \in CallOf(o) : pc[p] = "running"
  /\ c \in toClient /\ BroughtFor(o, c)
  /\ got' = [got EXCEPT ![o] = c[2]]
  /\ toClient' = toClient \ {c}
  /\ UNCHANGED <<ioVars, pc, proxy, replacement, part, waiting, taken, alone>>

-----------------------------------------------------------------------------
(* Proxy: degradedRead, recovery, degradedRead2Client.                     *)

StartReader(t) ==
  LET o == request(t) IN
  /\ kind(t) = "get"
  /\ \E cl \in Asked(o) : block(t) \in Sources[o][cl] /\ proxy[Call(o, cl)] = "reading"
  /\ StartTransfer(t, map2node[block(t)], Garbage)
  /\ UNCHANGED repairVars

ReadersJoined(o, cl) == \A b \in Sources[o][cl] : call[<<"get", o, b>>] = "done"

\* the part is right when each buffer is its block; no status is ever false
Decoded(o, cl) ==
  IF \A b \in Sources[o][cl] : buf[<<"get", o, b>>] = b THEN Call(o, cl) ELSE Garbage

\* degradedRead ends with its part in the destination's socket
SendPart(o, cl) ==
  /\ cl \in Helpers(o) /\ proxy[Call(o, cl)] = "reading"
  /\ ReadersJoined(o, cl)
  /\ part' = [part EXCEPT ![Call(o, cl)] = Decoded(o, cl)]
  /\ waiting' = waiting \union {Call(o, cl)}
  /\ proxy' = [proxy EXCEPT ![Call(o, cl)] = "done"]
  /\ UNCHANGED <<ioVars, pc, replacement, taken, toClient, got, alone>>

DecodeOwn(o) ==
  LET c == Call(o, Dest[o]) IN
  /\ proxy[c] = "reading"
  /\ ReadersJoined(o, Dest[o])
  /\ part' = [part EXCEPT ![c] = Decoded(o, Dest[o])]
  /\ proxy' = [proxy EXCEPT ![c] = "collecting"]
  /\ UNCHANGED <<ioVars, pc, replacement, waiting, taken, toClient, got, alone>>

OneTooManyBug(o) == Cardinality(Asked(o))
CrossRackNum(o)  == Cardinality(Asked(o)) - 1

TakePart(o, c) ==
  /\ proxy[Call(o, Dest[o])] = "collecting"
  /\ Cardinality(taken[o]) < CrossRackNum(o)
  /\ c \in waiting /\ Dest[c[1]] = Dest[o]
  /\ taken' = [taken EXCEPT ![o] = @ \union {c}]
  /\ waiting' = waiting \ {c}
  /\ UNCHANGED <<ioVars, pc, proxy, replacement, part, toClient, got, alone>>

\* the sum of the parts is the block when each part is right and all are there
Rebuilt(o) ==
  IF {part[c] : c \in taken[o]} \union {part[Call(o, Dest[o])]}
     = {Call(o, cl) : cl \in Asked(o)}
  THEN Failed[o] ELSE Garbage

Collected(o) ==
  proxy[Call(o, Dest[o])] = "collecting" /\ Cardinality(taken[o]) = CrossRackNum(o)

\* RecoveryToDatanode starts
SendToNode(o) ==
  /\ o \notin Degraded /\ Collected(o)
  /\ StartTransfer(Save(o), replacement[o], Rebuilt(o))
  /\ proxy' = [proxy EXCEPT ![Call(o, Dest[o])] = "saving"]
  /\ UNCHANGED <<pc, replacement, part, waiting, taken, toClient, got, alone>>

Saved(o) ==
  /\ proxy[Call(o, Dest[o])] = "saving" /\ call[Save(o)] = "done"
  /\ proxy' = [proxy EXCEPT ![Call(o, Dest[o])] = "done"]
  /\ UNCHANGED <<ioVars, pc, replacement, part, waiting, taken, toClient, got, alone>>

SendToClient(o) ==
  /\ o \in Degraded /\ Collected(o)
  /\ toClient' = toClient \union {<<o, Rebuilt(o)>>}
  /\ proxy' = [proxy EXCEPT ![Call(o, Dest[o])] = "done"]
  /\ UNCHANGED <<ioVars, pc, replacement, part, waiting, taken, got, alone>>

-----------------------------------------------------------------------------
Receive(o) == \E c \in toClient : ReceiveBlock(o, c)

\* the steps of the call to a proxy; only one of them is ever possible
ProxyCall(o, cl) ==
  \/ CallProxy(o, cl) \/ SendPart(o, cl)
  \/ /\ cl = Dest[o]
     /\ \/ DecodeOwn(o) \/ \E c \in waiting : TakePart(o, c)
        \/ SendToClient(o) \/ SendToNode(o) \/ Saved(o)

Repair(o) ==
  \/ AskRepair(o) \/ ReturnRepairs(o) \/ Receive(o)
  \/ \E cl \in Asked(o) : ProxyCall(o, cl)

\* a reader's thread at the proxy and the handler it called
Thread(t) == StartReader(t) \/ (Transfer(t) /\ UNCHANGED repairVars)

\* the next block of a call that has begun
GoOn(o) == (\E p \in CallOf(o) : Began(p)) /\ AskRepair(o)

Finished ==
  /\ {o \in Repairs : pc[o] = "returned"} \in Together
  /\ UNCHANGED vars

Next ==
  \/ \E o \in Repairs : Repair(o)
  \/ \E t \in Transfers : Thread(t)
  \/ (\E n \in Nodes : CrashNode(n)) /\ UNCHANGED repairVars
  \/ Finished

Spec == Init /\ [][Next]_vars

\* threads that can run do run; clients need not ask, nodes need not crash
Fairness ==
  /\ \A o \in Repairs : /\ WF_vars(ReturnRepairs(o)) /\ WF_vars(Receive(o))
                        /\ \A cl \in Asked(o) : WF_vars(ProxyCall(o, cl))
  /\ \A o \in Batch : WF_vars(GoOn(o))
  /\ \A t \in Transfers : WF_vars(Thread(t))

FairSpec == Spec /\ Fairness
-----------------------------------------------------------------------------
(* Properties.                                                             *)

TypeOK ==
  /\ IOTypeOK
  /\ pc \in [Repairs -> {"idle", "running", "returned"}]
  /\ proxy \in [Calls -> {"none", "reading", "collecting", "saving", "done"}]
  /\ replacement \in [Repairs -> Nodes \union {None}]
  /\ part \in [Calls -> Calls \union {Garbage, None}]
  /\ waiting \subseteq Calls
  /\ taken \in [Repairs -> SUBSET Calls]
  /\ \A o \in Repairs : Cardinality(taken[o]) <= Cardinality(Helpers(o))
  /\ toClient \subseteq Repairs \X Content
  /\ got \in [Repairs -> Content \union {None}]
  /\ alone \subseteq Repairs

SourcesUp(o) == \A b \in SourcesOf(o) : map2node[b] \notin down /\ b \notin Missing

\* A connection to a destination names no repair.  A repair no other runs
\* beside adds up its own parts all the same, whatever ran before it.
OwnParts == \A o \in alone : \A c \in taken[o] : c[1] = o

\* When recovery or a block's turn in recovery_full_node returns, the
\* replacement has the block in its file, or what came of a source that was
\* down, or of a repair beside it; it is not still to be written.  Only another
\* repair of the block to the same node writes the file again.
SavedBy(o) == {p \in Repairs : Failed[p] = Failed[o] /\ replacement[p] = replacement[o]}
RepairedIsSaved ==
  \A o \in Repairs \ Degraded : pc[o] = "returned" =>
    LET saved == file[replacement[o]][Failed[o]] IN
    /\ saved # None
    /\ (\A p \in SavedBy(o) : p \in alone /\ SourcesUp(p)) => saved = Failed[o]

\* A degraded read gives its client the lost block when the nodes it reads
\* are up, whatever repairs came before it and none runs beside it.
DegradedIsOriginal ==
  \A o \in Degraded \intersect alone : pc[o] = "returned" /\ SourcesUp(o) => got[o] = Failed[o]

\* Every repair that began returns, whatever node it reads from crashes
\* and whatever other repair takes its parts, as long as no node is at once
\* read from and repaired to.
RepairReturns == \A o \in Repairs : (pc[o] = "running") ~> (pc[o] = "returned")
=============================================================================
