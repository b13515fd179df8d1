--------------------------- MODULE GetPathProofs ---------------------------
(***************************************************************************)
(* Proofs about GetPath, for any reads, clients, blocks, clusters and      *)
(* datanodes, any number of crashes and of appends yet to be written.      *)
(***************************************************************************)
EXTENDS GetPath, FiniteSetTheorems, TLAPS

-----------------------------------------------------------------------------
(* The invariant of the data socket.                                       *)

\* The invariant of the socket holds when only transfers that run have connected.
LEMMA IOInvInit ==
  ASSUME NEW placed \in [Blocks -> Nodes], NEW running \in SUBSET Transfers, NEW absent,
         IOInit(placed, running, absent)
  PROVE  IOInv
<1>1. IOTypeOK
  BY TransfersAssumption DEF IOInit, IOTypeOK, Content
<1>2. NotBegun
  BY TransfersAssumption DEF IOInit, NotBegun
<1>3. Paired
  BY DEF IOInit, Paired
<1>. QED
  BY <1>1, <1>2, <1>3 DEF IOInv

\* no step of the socket moves a transfer or begins one
LEMMA IOFrame ==
  ASSUME IOInv, IONext
  PROVE  /\ at' = at
         /\ \A t \in Transfers : call'[t] = "none" <=> call[t] = "none"
         /\ down \subseteq down'
<1>1. ASSUME NEW t \in Transfers, CallNode(t) \/ Connect(t) \/ FinishRepair(t)
      PROVE  at' = at /\ down' = down
             /\ \A u \in Transfers : call'[u] = "none" <=> call[u] = "none"
  BY <1>1 DEF CallNode, Connect, FinishRepair, IOInv, IOTypeOK
<1>2. ASSUME NEW t \in Transfers, NEW c \in backlog, Accept(t, c)
      PROVE  at' = at /\ down' = down /\ call' = call
  BY <1>2 DEF Accept
<1>3. ASSUME NEW t \in Transfers, WriteFile(t)
      PROVE  at' = at /\ down' = down /\ call' = call
  BY <1>3 DEF WriteFile
<1>4. ASSUME NEW t \in Transfers, SendFile(t)
      PROVE  at' = at /\ down' = down
             /\ \A u \in Transfers : call'[u] = "none" <=> call[u] = "none"
  BY <1>4 DEF SendFile, IOInv, IOTypeOK, Paired
<1>5. ASSUME NEW n \in Nodes, CrashNode(n)
      PROVE  at' = at /\ down \subseteq down'
             /\ \A u \in Transfers : call'[u] = "none" <=> call[u] = "none"
  BY <1>5 DEF CrashNode, IOInv, IOTypeOK
<1>. QED
  BY <1>1, <1>2, <1>3, <1>4, <1>5 DEF IONext, Transfer

\* Beginning a transfer that has not begun keeps the invariant of the socket.
LEMMA StartTransferInv ==
  ASSUME IOInv, NEW t \in Transfers, NEW n \in Nodes, NEW bytes \in Content,
         StartTransfer(t, n, bytes)
  PROVE  IOInv'
<1> USE DEF IOInv, StartTransfer
<1>1. IOTypeOK'
  BY DEF IOTypeOK
<1>2. NotBegun'
  BY DEF NotBegun, IOTypeOK
<1>3. Paired'
  BY DEF NotBegun, Paired, IOTypeOK
<1>. QED
  BY <1>1, <1>2, <1>3

\* The steps of the socket, and crashes, leave its state well-typed: what a
\* handler reads is the content of a file or garbage, what it writes a buffer.
LEMMA IOTypeStays ==
  ASSUME IOInv, IONext
  PROVE  IOTypeOK'
<1> USE DEF IOInv
<1>1. ASSUME NEW t \in Transfers, CallNode(t) PROVE IOTypeOK'
  <2>1. block(t) \in Blocks /\ at[t] \in Nodes
    BY <1>1, TransfersAssumption DEF CallNode, NotBegun, IOTypeOK
  <2>2. FileRead(t) \in Content
    BY <2>1 DEF FileRead, IOTypeOK, Content
  <2>. QED
    BY <1>1, <2>2 DEF CallNode, IOTypeOK
<1>2. ASSUME NEW t \in Transfers, Connect(t) PROVE IOTypeOK'
  BY <1>2 DEF Connect, IOTypeOK
<1>3. ASSUME NEW t \in Transfers, FinishRepair(t) PROVE IOTypeOK'
  BY <1>3 DEF FinishRepair, IOTypeOK
<1>4. ASSUME NEW t \in Transfers, NEW c \in backlog, Accept(t, c) PROVE IOTypeOK'
  BY <1>4 DEF Accept, IOTypeOK
<1>5. ASSUME NEW t \in Transfers, WriteFile(t) PROVE IOTypeOK'
  <2>1. buf[met[t]] \in Content
    BY <1>5 DEF WriteFile, Paired, IOTypeOK
  <2>2. file' \in [Nodes -> [Blocks -> Content \union {None}]]
    BY <1>5, <2>1 DEF WriteFile, IOTypeOK
  <2>. QED
    BY <1>5, <2>2 DEF WriteFile, IOTypeOK
<1>6. ASSUME NEW t \in Transfers, SendFile(t) PROVE IOTypeOK'
  BY <1>6 DEF SendFile, IOTypeOK
<1>7. ASSUME NEW n \in Nodes, CrashNode(n) PROVE IOTypeOK'
  BY <1>7 DEF CrashNode, IOTypeOK
<1>. QED
  BY <1>1, <1>2, <1>3, <1>4, <1>5, <1>6, <1>7 DEF IONext, Transfer

\* The steps of the socket keep its invariant: no connection is accepted twice.
LEMMA IONextInv ==
  ASSUME IOInv, IONext
  PROVE  IOInv'
<1> USE DEF IOInv
<1>1. IOTypeOK'
  BY IOTypeStays
<1>2. ASSUME NEW t \in Transfers, CallNode(t) PROVE NotBegun' /\ Paired'
  BY <1>2 DEF CallNode, NotBegun, Paired, IOTypeOK
<1>3. ASSUME NEW t \in Transfers, Connect(t) PROVE NotBegun' /\ Paired'
  BY <1>3 DEF Connect, NotBegun, Paired, IOTypeOK
<1>4. ASSUME NEW t \in Transfers, FinishRepair(t) PROVE NotBegun' /\ Paired'
  BY <1>4 DEF FinishRepair, NotBegun, Paired, IOTypeOK
<1>5. ASSUME NEW t \in Transfers, NEW c \in backlog, Accept(t, c) PROVE NotBegun' /\ Paired'
  BY <1>5 DEF Accept, NotBegun, Paired, IOTypeOK
<1>6. ASSUME NEW t \in Transfers, WriteFile(t) PROVE NotBegun' /\ Paired'
  BY <1>6 DEF WriteFile, NotBegun, Paired, IOTypeOK
<1>7. ASSUME NEW t \in Transfers, SendFile(t) PROVE NotBegun' /\ Paired'
  BY <1>7 DEF SendFile, NotBegun, Paired, IOTypeOK
<1>8. ASSUME NEW n \in Nodes, CrashNode(n) PROVE NotBegun' /\ Paired'
  BY <1>8 DEF CrashNode, NotBegun, Paired, IOTypeOK
<1>. QED
  BY <1>1, <1>2, <1>3, <1>4, <1>5, <1>6, <1>7, <1>8 DEF IONext, Transfer

-----------------------------------------------------------------------------
(* Type correctness.                                                       *)

\* A transfer is the read of one block by one get, or an append of the background.
LEMMA TransferShape ==
  /\ \A t \in Reads : /\ t \in Transfers /\ kind(t) = "get"
                      /\ request(t) \in Gets /\ block(t) \in Wanted[request(t)]
                      /\ t = <<"get", request(t), block(t)>>
  /\ \A t \in Transfers : block(t) \in Blocks /\ ClusterOf[block(t)] \in Clusters
  /\ \A t \in Transfers : kind(t) = "get" <=> t \in Reads
  /\ \A t \in Transfers : kind(t) # "get" <=> t \in Appends
  /\ Appends \subseteq Transfers
<1>1. \A t \in Reads : t \in Transfers /\ kind(t) = "get" /\ request(t) \in Gets
                        /\ block(t) \in Wanted[request(t)]
                        /\ t = <<"get", request(t), block(t)>>
  BY GetsAssumption DEF Reads, GetTransfers, kind, request, block
<1>2. \A t \in Appends : t \in Transfers /\ kind(t) = "append"
  BY GetsAssumption DEF Appends, GetTransfers, kind
<1>3. \A t \in Transfers : block(t) \in Blocks /\ ClusterOf[block(t)] \in Clusters
  BY TransfersAssumption DEF Clusters
<1>. QED
  BY <1>1, <1>2, <1>3, GetsAssumption DEF GetTransfers

\* the invariant of the socket with the types of the read path
TypedIO == TypeOK /\ IOInv

\* At the start the socket carries the running appends alone.
LEMMA InitTypedIO ==
  ASSUME Init
  PROVE  TypedIO
<1>1. Appends \subseteq Transfers
  BY GetsAssumption DEF GetTransfers
<1>2. IOInv
  BY <1>1, IOInvInit, GetsAssumption DEF Init
<1>. QED
  BY <1>2 DEF Init, TypedIO, TypeOK, IOInv

\* Reads, proxies and datanodes keep the types and the invariant of the socket.
LEMMA StepTypedIO ==
  ASSUME TypedIO, [Next]_vars
  PROVE  TypedIO'
<1> USE DEF TypedIO, TypeOK
<1>1. ASSUME NEW o \in Gets, Get(o)
      PROVE  TypedIO'
  <2>1. IOInv'
    BY <1>1 DEF Get, AskBlocks, CallProxy, ReceiveBlock, ReturnData, JoinReaders,
                ioVars, IOInv, IOTypeOK, NotBegun, Paired
  <2>2. ASSUME AskBlocks(o) \/ ReturnData(o) PROVE TypedIO'
    BY <2>1, <2>2 DEF AskBlocks, ReturnData, IOInv
  <2>3. ASSUME NEW cl \in Clusters, CallProxy(o, cl) \/ JoinReaders(o, cl) PROVE TypedIO'
    <3>1. proxy' \in [Gets -> [Clusters -> {"none", "reading", "joined"}]]
      BY <2>3 DEF CallProxy, JoinReaders
    <3>. QED
      BY <2>1, <2>3, <3>1 DEF CallProxy, JoinReaders, IOInv
  <2>4. ASSUME NEW t \in Reads, ReceiveBlock(o, t) PROVE TypedIO'
    BY <2>1, <2>4 DEF ReceiveBlock, IOInv
  <2>. QED
    BY <1>1, <2>2, <2>3, <2>4 DEF Get
<1>2. ASSUME NEW t \in Reads, StartReader(t)
      PROVE  TypedIO'
  <2>1. map2node[block(t)] \in Nodes /\ t \in Transfers
    BY TransferShape, GetsAssumption
  <2>2. IOInv'
    BY <1>2, <2>1, StartTransferInv DEF StartReader, Content
  <2>. QED
    BY <1>2, <2>2 DEF StartReader, getVars, IOInv
<1>3. ASSUME NEW t \in Reads, WriteToClient(t)
      PROVE  TypedIO'
  <2>1. IOInv'
    BY <1>3 DEF WriteToClient, ioVars, IOInv, IOTypeOK, NotBegun, Paired
  <2>2. Buffer(t) \in Content
    BY TransferShape DEF Buffer, IOTypeOK, Content
  <2>. QED
    BY <1>3, <2>1, <2>2 DEF WriteToClient, IOInv
<1>4. ASSUME IONext, UNCHANGED getVars
      PROVE  TypedIO'
  BY <1>4, IONextInv DEF getVars, IOInv
<1>5. ASSUME UNCHANGED vars
      PROVE  TypedIO'
  BY <1>5 DEF vars, ioVars, getVars, IOInv, IOTypeOK, NotBegun, Paired
<1>. QED
  BY <1>1, <1>2, <1>3, <1>4, <1>5 DEF Next, Finished

\* The state is typed, and the datanodes' sockets keep their invariant.
THEOREM TypedIOHolds == Spec => []TypedIO
<1>. QED
  BY InitTypedIO, StepTypedIO, PTL DEF Spec

(* Every thread of a read is at one of its program points, and what is     *)
(* read, carried and stored is the content of a block or what nobody       *)
(* wrote.                                                                  *)
THEOREM TypeCorrect == Spec => []TypeOK
<1>1. TypedIO => TypeOK
  BY DEF TypedIO
<1>. QED
  BY <1>1, TypedIOHolds, PTL

-----------------------------------------------------------------------------
(* A client's read takes the connections of its own proxies.               *)

Begun(t) == call[t] # "none"

\* a block is read and written for a call of its proxy, a read has its proxies
\* called after it was asked
Proxied ==
  /\ \A t \in Reads : Begun(t) => proxy[request(t)][ClusterOf[block(t)]] # "none"
  /\ \A t \in Reads : carried[t] # None => Begun(t)
  /\ \A t \in connected : carried[t] # None
  /\ \A o \in Gets : pc[o] = "idle" => \A cl \in Clusters : proxy[o][cl] = "none"

\* what was received was written for the read, and once
Received ==
  \A o \in Gets : \A t \in received[o] :
    request(t) = o /\ carried[t] # None /\ t \notin connected

\* a read that returned has as many connections as it has blocks
Counted ==
  \A o \in Gets : pc[o] = "returned" => Cardinality(received[o]) = Threads(o)

\* a client runs its reads in turn
InTurn ==
  \A o, p \in Gets :
    pc[o] = "waiting" /\ pc[p] = "waiting" /\ ClientOf[o] = ClientOf[p] => o = p

OwnInv == TypedIO /\ Proxied /\ Received /\ Counted /\ InTurn

\* a read that returned has received all its connections
LEMMA ReturnedHasAll ==
  ASSUME TypedIO, Received, Counted, NEW t \in Reads, pc[request(t)] = "returned"
  PROVE  t \in received[request(t)]
<1> DEFINE o == request(t)
           Own == {u \in Reads : request(u) = o}
           Named == {<<"get", o, b>> : b \in Wanted[o]}
           name == [b \in Wanted[o] |-> <<"get", o, b>>]
<1>1. o \in Gets /\ t \in Own
  BY TransferShape
<1>2. IsFiniteSet(Wanted[o])
  BY <1>1, GetsAssumption, FS_Subset
<1>3. Own \subseteq Named
  BY TransferShape
<1>4. IsFiniteSet(Named) /\ Cardinality(Named) <= Cardinality(Wanted[o])
  <2>1. name \in Surjection(Wanted[o], Named)
    BY DEF Surjection
  <2>. QED
    BY <1>2, <2>1, FS_Surjection
<1>5. received[o] \subseteq Own
  BY <1>1 DEF Received, TypedIO, TypeOK
<1>6. IsFiniteSet(Own) /\ Cardinality(Own) <= Cardinality(Wanted[o])
      /\ Cardinality(Own) \in Nat /\ Cardinality(Wanted[o]) \in Nat
  BY <1>2, <1>3, <1>4, FS_Subset, FS_CardinalityType
<1>7. Cardinality(received[o]) = Cardinality(Wanted[o])
  BY <1>1 DEF Counted, Threads
<1>8. Cardinality(received[o]) <= Cardinality(Own)
      /\ (Cardinality(received[o]) = Cardinality(Own) => received[o] = Own)
  BY <1>5, <1>6, FS_Subset
<1>. QED
  BY <1>1, <1>6, <1>7, <1>8

\* No client has a connection before it reads.
LEMMA InitOwn ==
  ASSUME Init
  PROVE  OwnInv
<1>1. Proxied
  <2>1. \A t \in Reads : call[t] = "none"
    BY TransferShape DEF Init, IOInit
  <2>. QED
    BY <2>1 DEF Init, Proxied, Begun
<1>2. Received /\ Counted /\ InTurn
  BY DEF Init, Received, Counted, InTurn
<1>. QED
  BY <1>1, <1>2, InitTypedIO DEF OwnInv

\* A client takes the connections of its own proxies, and all of them before it
\* returns.
LEMMA StepOwn ==
  ASSUME OwnInv, [Next]_vars
  PROVE  OwnInv'
<1> USE DEF OwnInv
<1>0. TypedIO'
  BY StepTypedIO
<1>1. ASSUME NEW o \in Gets, AskBlocks(o)
      PROVE  OwnInv'
  BY <1>0, <1>1 DEF AskBlocks, ioVars, Proxied, Begun, Received, Counted, InTurn, Threads,
                    TypedIO, TypeOK
<1>2. ASSUME NEW o \in Gets, ReturnData(o)
      PROVE  OwnInv'
  BY <1>0, <1>2 DEF ReturnData, AllReceived, ioVars, Proxied, Begun, Received, Counted,
                    InTurn, Threads, TypedIO, TypeOK
<1>3. ASSUME NEW o \in Gets, NEW cl \in Clusters, CallProxy(o, cl) \/ JoinReaders(o, cl)
      PROVE  OwnInv'
  <2>1. /\ UNCHANGED <<ioVars, pc, connected, carried, received>> /\ pc[o] # "idle"
        /\ \A p \in Gets : \A k \in Clusters : proxy[p][k] # "none" => proxy'[p][k] # "none"
        /\ \A p \in Gets \ {o} : proxy'[p] = proxy[p]
    BY <1>3 DEF CallProxy, JoinReaders, Proxied, TypedIO, TypeOK
  <2>2. Proxied'
    <3>1. \A t \in Reads : proxy[request(t)][ClusterOf[block(t)]] # "none"
                            => proxy'[request(t)][ClusterOf[block(t)]] # "none"
      BY <2>1, TransferShape
    <3>2. \A p \in Gets : pc'[p] = "idle" => \A k \in Clusters : proxy'[p][k] = "none"
      <4> TAKE p \in Gets
      <4>1. CASE p = o
        BY <2>1, <4>1
      <4>2. CASE p # o
        BY <2>1, <4>2 DEF Proxied
      <4>. QED
        BY <4>1, <4>2
    <3>3. call' = call
      BY <2>1 DEF ioVars
    <3>. QED
      BY <2>1, <3>1, <3>2, <3>3 DEF Proxied, Begun
  <2>3. Received' /\ Counted' /\ InTurn'
    BY <2>1 DEF Received, Counted, InTurn, Threads
  <2>. QED
    BY <1>0, <2>2, <2>3
<1>4. ASSUME NEW o \in Gets, NEW t \in Reads, ReceiveBlock(o, t)
      PROVE  OwnInv'
  <2> DEFINE p == request(t)
  <2>1. p \in Gets /\ pc[p] # "idle"
    BY <1>4, TransferShape DEF ReceiveBlock, Proxied
  <2>2. pc[p] # "returned"
    BY <1>4, <2>1, ReturnedHasAll DEF ReceiveBlock, Received
  <2>3. p = o
    BY <1>4, <2>1, <2>2 DEF ReceiveBlock, InTurn, TypedIO, TypeOK
  <2>4. Received'
    BY <1>4, <2>3 DEF ReceiveBlock, Received, Proxied, TypedIO, TypeOK
  <2>5. Proxied' /\ Counted' /\ InTurn'
    BY <1>4 DEF ReceiveBlock, Proxied, Begun, Counted, InTurn, Threads, ioVars, TypedIO, TypeOK
  <2>. QED
    BY <1>0, <2>4, <2>5
<1>5. ASSUME NEW t \in Reads, StartReader(t)
      PROVE  OwnInv'
  BY <1>0, <1>5, TransferShape
  DEF StartReader, StartTransfer, getVars, Proxied, Begun, Received, Counted, InTurn, Threads,
      TypedIO, TypeOK, IOTypeOK
<1>6. ASSUME NEW t \in Reads, WriteToClient(t)
      PROVE  OwnInv'
  <2>1. Buffer(t) # None
    BY TransferShape, TransfersAssumption DEF Buffer, TypedIO, TypeOK, IOTypeOK, Content
  <2>. QED
    BY <1>0, <1>6, <2>1
    DEF WriteToClient, ioVars, Proxied, Begun, Received, Counted, InTurn, Threads,
        TypedIO, TypeOK
<1>7. ASSUME IONext, UNCHANGED getVars
      PROVE  OwnInv'
  <2>1. \A t \in Transfers : call'[t] = "none" <=> call[t] = "none"
    BY <1>7, IOFrame DEF TypedIO
  <2>. QED
    BY <1>0, <1>7, <2>1, TransferShape
    DEF getVars, Proxied, Begun, Received, Counted, InTurn, Threads
<1>8. ASSUME UNCHANGED vars
      PROVE  OwnInv'
  BY <1>0, <1>8
  DEF vars, ioVars, getVars, Proxied, Begun, Received, Counted, InTurn, Threads
<1>. QED
  BY <1>1, <1>2, <1>3, <1>4, <1>5, <1>6, <1>7, <1>8 DEF Next, Get, Finished

(* The connections to a client name no read, and a read takes only those   *)
(* its own proxies make: an earlier read has taken all of its own when it  *)
(* returns, and a later one is not asked before.                           *)
THEOREM OwnBlocksHolds == Spec => []OwnBlocks
<1>1. OwnInv => OwnBlocks
  BY DEF OwnInv, Received, OwnBlocks
<1>. QED
  BY <1>1, InitOwn, StepOwn, PTL DEF Spec

-----------------------------------------------------------------------------
(* A block whose node serves no other transfer.                            *)

\* no append brings bytes to the node
OnlyReads(n) == \A u \in Appends : at[u] # n

\* the files of such a node have the bytes they are named for
FilesOwn ==
  \A n \in Nodes : OnlyReads(n) => \A b \in Blocks : file[n][b] \in {b, None}

\* what is read, got and written of a block whose transfer has the node alone
BytesOwn ==
  \A t \in Reads : Begun(t) /\ NodeUnshared(t) =>
    /\ page[t] \in {block(t), Garbage}
    /\ buf[t] \in {block(t), Garbage}
    /\ carried[t] \in {block(t), Garbage, None}

AloneInv == OwnInv /\ FilesOwn /\ BytesOwn

\* transfers only come to a node
LEMMA UnsharedBefore ==
  ASSUME TypedIO, [Next]_vars, NEW t \in Reads, Begun(t), NodeUnshared(t)'
  PROVE  NodeUnshared(t) /\ at'[t] = at[t]
<1>0. t \in Transfers
  BY TransferShape
<1>1. \A u \in Transfers : at'[u] = at[u] \/ (at[u] = None /\ call[u] = "none")
  <2>1. CASE \E u \in Reads : StartReader(u)
    BY <2>1, TransferShape
    DEF StartReader, StartTransfer, TypedIO, TypeOK, IOTypeOK, IOInv, NotBegun
  <2>2. CASE UNCHANGED ioVars
    BY <2>2 DEF ioVars
  <2>3. CASE IONext
    BY <2>3, IOFrame DEF TypedIO
  <2>. QED
    BY <2>1, <2>2, <2>3
    DEF Next, Get, AskBlocks, ReturnData, CallProxy, JoinReaders, ReceiveBlock,
        WriteToClient, Finished, vars
<1>2. at'[t] = at[t] /\ at[t] # None
  BY <1>0, <1>1, TransfersAssumption DEF Begun, TypedIO, IOInv, NotBegun
<1>. QED
  BY <1>1, <1>2 DEF NodeUnshared

\* The files of no read are touched at the start but by appends under way.
LEMMA InitAlone ==
  ASSUME Init
  PROVE  AloneInv
<1>1. FilesOwn
  BY DEF Init, IOInit, FilesOwn
<1>2. BytesOwn
  <2>1. \A t \in Reads : call[t] = "none"
    BY TransferShape DEF Init, IOInit
  <2>. QED
    BY <2>1 DEF BytesOwn, Begun
<1>. QED
  BY <1>1, <1>2, InitOwn DEF AloneInv

\* What comes to a block nobody else transfers is its file, unless its node crashed.
LEMMA StepAlone ==
  ASSUME AloneInv, [Next]_vars
  PROVE  AloneInv'
<1> USE DEF AloneInv
<1>0. OwnInv' /\ TypedIO /\ TypedIO'
  BY StepOwn DEF OwnInv
<1>. USE TransferShape DEF TypedIO, TypeOK, IOTypeOK
<1>1. ASSUME UNCHANGED ioVars, UNCHANGED carried
      PROVE  AloneInv'
  <2>1. FilesOwn'
    BY <1>1 DEF ioVars, FilesOwn, OnlyReads
  <2>2. BytesOwn'
    BY <1>1 DEF ioVars, BytesOwn, Begun, NodeUnshared
  <2>. QED
    BY <1>0, <2>1, <2>2
<1>2. ASSUME NEW t \in Reads, StartReader(t)
      PROVE  AloneInv'
  <2> DEFINE n == map2node[block(t)]
  <2>1. /\ at' = [at EXCEPT ![t] = n] /\ buf' = [buf EXCEPT ![t] = Garbage]
        /\ call' = [call EXCEPT ![t] = "started"] /\ call[t] = "none"
        /\ UNCHANGED <<page, file, carried>>
    BY <1>2 DEF StartReader, StartTransfer, getVars
  <2>2. page[t] = Garbage /\ carried[t] = None
    BY <1>0, <2>1 DEF IOInv, NotBegun, OwnInv, Proxied, Begun
  <2>3. FilesOwn'
    <3>1. \A u \in Appends : at'[u] = at[u]
      BY <1>0, <2>1
    <3>. QED
      BY <2>1, <3>1 DEF FilesOwn, OnlyReads
  <2>4. BytesOwn'
    <3> SUFFICES ASSUME NEW u \in Reads, Begun(u)', NodeUnshared(u)'
                 PROVE  /\ page'[u] \in {block(u), Garbage}
                        /\ buf'[u] \in {block(u), Garbage}
                        /\ carried'[u] \in {block(u), Garbage, None}
      BY DEF BytesOwn
    <3>1. CASE u = t
      BY <1>0, <2>1, <2>2, <3>1
    <3>2. CASE u # t
      <4>1. Begun(u)
        BY <1>0, <2>1, <3>2 DEF Begun
      <4>2. NodeUnshared(u)
        BY <1>0, <4>1, UnsharedBefore
      <4>. QED
        BY <1>0, <2>1, <3>2, <4>1, <4>2 DEF BytesOwn
    <3>. QED
      BY <3>1, <3>2
  <2>. QED
    BY <1>0, <2>3, <2>4
<1>3. ASSUME NEW t \in Reads, WriteToClient(t)
      PROVE  AloneInv'
  <2>1. FilesOwn'
    BY <1>3 DEF WriteToClient, ioVars, FilesOwn, OnlyReads
  <2>2. BytesOwn'
    BY <1>0, <1>3 DEF WriteToClient, Buffer, ioVars, BytesOwn, Begun, NodeUnshared
  <2>. QED
    BY <1>0, <2>1, <2>2
<1>4. ASSUME IONext, UNCHANGED getVars
      PROVE  AloneInv'
  <2>1. at' = at /\ \A u \in Transfers : call'[u] = "none" <=> call[u] = "none"
    BY <1>0, <1>4, IOFrame
  <2>2. carried' = carried
    BY <1>4 DEF getVars
  <2>3. ASSUME UNCHANGED <<page, buf, file>>
        PROVE  AloneInv'
    BY <1>0, <2>1, <2>2, <2>3
    DEF FilesOwn, OnlyReads, GetTransfers, BytesOwn, Begun, NodeUnshared
  <2>4. ASSUME NEW h \in Transfers, CallNode(h)
        PROVE  AloneInv'
    <3>1. FilesOwn' /\ UNCHANGED <<buf, file>>
      BY <2>1, <2>4 DEF CallNode, FilesOwn, OnlyReads, GetTransfers
    <3>2. BytesOwn'
      <4> SUFFICES ASSUME NEW u \in Reads, Begun(u), NodeUnshared(u)
                   PROVE  page'[u] \in {block(u), Garbage}
        BY <2>1, <2>2, <3>1 DEF BytesOwn, Begun, NodeUnshared
      <4>1. CASE u = h
        <5>1. at[h] \in Nodes
          BY <1>0, <4>1 DEF Begun, IOInv, NotBegun
        <5>2. OnlyReads(at[h])
          BY <1>0, <4>1, GetsAssumption DEF NodeUnshared, OnlyReads, GetTransfers
        <5>3. FileRead(h) \in {block(h), Garbage}
          BY <1>0, <5>1, <5>2 DEF FileRead, FilesOwn
        <5>. QED
          BY <1>0, <2>4, <4>1, <5>3 DEF CallNode
      <4>2. CASE u # h
        BY <1>0, <2>4, <4>2 DEF CallNode, BytesOwn
      <4>. QED
        BY <4>1, <4>2
    <3>. QED
      BY <1>0, <3>1, <3>2
  <2>5. ASSUME NEW h \in Transfers, WriteFile(h)
        PROVE  AloneInv'
    <3>1. h \in Appends /\ at[h] \in Nodes /\ UNCHANGED <<page, buf>>
      BY <1>0, <2>5 DEF WriteFile, IOInv, NotBegun
    <3>2. FilesOwn'
      <4> SUFFICES ASSUME NEW n \in Nodes, OnlyReads(n)
                   PROVE  file'[n] = file[n]
        BY <2>1 DEF FilesOwn, OnlyReads
      <4>1. at[h] # n
        BY <3>1 DEF OnlyReads
      <4>. QED
        BY <1>0, <2>5, <4>1 DEF WriteFile
    <3>3. BytesOwn'
      BY <2>1, <2>2, <3>1 DEF BytesOwn, Begun, NodeUnshared
    <3>. QED
      BY <1>0, <3>2, <3>3
  <2>6. ASSUME NEW h \in Transfers, SendFile(h)
        PROVE  AloneInv'
    <3>1. UNCHANGED <<page, file>> /\ met[h] \in Transfers /\ at[met[h]] = at[h]
          /\ (kind(met[h]) = "get" => buf' = [buf EXCEPT ![met[h]] = page[h]])
          /\ (kind(met[h]) # "get" => buf' = buf) /\ kind(h) = "get"
      BY <1>0, <2>6 DEF SendFile, IOInv, Paired
    <3>2. FilesOwn'
      BY <2>1, <3>1 DEF FilesOwn, OnlyReads
    <3>3. BytesOwn'
      <4> SUFFICES ASSUME NEW u \in Reads, Begun(u), NodeUnshared(u)
                   PROVE  buf'[u] \in {block(u), Garbage}
        BY <2>1, <2>2, <3>1 DEF BytesOwn, Begun, NodeUnshared
      <4>1. CASE u = met[h]
        BY <1>0, <3>1, <4>1 DEF BytesOwn, NodeUnshared
      <4>2. CASE u # met[h]
        BY <1>0, <3>1, <4>2 DEF BytesOwn
      <4>. QED
        BY <4>1, <4>2
    <3>. QED
      BY <1>0, <3>2, <3>3
  <2>. QED
    BY <1>4, <2>3, <2>4, <2>5, <2>6
    DEF IONext, Transfer, Connect, FinishRepair, Accept, CrashNode
<1>. QED
  BY <1>1, <1>2, <1>3, <1>4
  DEF Next, Get, AskBlocks, ReturnData, CallProxy, JoinReaders, ReceiveBlock, Finished,
      vars, getVars

(* What the client gets of a block whose node served no other transfer is  *)
(* the block's own bytes or what nobody wrote, whatever else is read and   *)
(* appended, and whatever crashes.                                         *)
THEOREM AloneIsRightHolds == Spec => []AloneIsRight
<1>1. AloneInv => AloneIsRight
  <2> SUFFICES ASSUME AloneInv, NEW t \in Reads, carried[t] # None, NodeUnshared(t)
               PROVE  carried[t] \in {block(t), Garbage}
    BY DEF AloneIsRight
  <2>1. Begun(t)
    BY DEF AloneInv, OwnInv, Proxied
  <2>. QED
    BY <2>1 DEF AloneInv, BytesOwn
<1>. QED
  BY <1>1, InitAlone, StepAlone, PTL DEF Spec
=============================================================================
