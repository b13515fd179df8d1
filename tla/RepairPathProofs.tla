-------------------------- MODULE RepairPathProofs --------------------------
(***************************************************************************)
(* Proofs about RepairPath, for any repairs, clients, clusters, datanodes  *)
(* and crashes, and any schedule of the proxies' and datanodes' threads.   *)
(***************************************************************************)
EXTENDS RepairPath, FiniteSetTheorems, TLAPS, Integers

-----------------------------------------------------------------------------
(* The invariant of the data socket.                                       *)

\* The invariant of the socket holds when only transfers that run have connected.
LEMMA IOInvInit ==
  ASSUME NEW placed \in [Blocks -> Nodes], NEW running \in SUBSET Transfers, NEW absent,
         IOInit(placed, running, absent)
  PROVE  IOInv
<1>1. IOTypeOK
  BY TransfersAssumption DEF IOInit, IOTypeOK, Content
<1>2. NotBegun
  BY TransfersAssumption DEF IOInit, NotBegun
<1>3. Paired
  BY DEF IOInit, Paired
<1>. QED
  BY <1>1, <1>2, <1>3 DEF IOInv

\* no step of the socket moves a transfer or begins one
LEMMA IOFrame ==
  ASSUME IOInv, IONext
  PROVE  /\ at' = at
         /\ \A t \in Transfers : call'[t] = "none" <=> call[t] = "none"
         /\ down \subseteq down'
<1>1. ASSUME NEW t \in Transfers, CallNode(t) \/ Connect(t) \/ FinishRepair(t)
      PROVE  at' = at /\ down' = down
             /\ \A u \in Transfers : call'[u] = "none" <=> call[u] = "none"
  BY <1>1 DEF CallNode, Connect, FinishRepair, IOInv, IOTypeOK
<1>2. ASSUME NEW t \in Transfers, NEW c \in backlog, Accept(t, c)
      PROVE  at' = at /\ down' = down /\ call' = call
  BY <1>2 DEF Accept
<1>3. ASSUME NEW t \in Transfers, WriteFile(t)
      PROVE  at' = at /\ down' = down /\ call' = call
  BY <1>3 DEF WriteFile
<1>4. ASSUME NEW t \in Transfers, SendFile(t)
      PROVE  at' = at /\ down' = down
             /\ \A u \in Transfers : call'[u] = "none" <=> call[u] = "none"
  BY <1>4 DEF SendFile, IOInv, IOTypeOK, Paired
<1>5. ASSUME NEW n \in Nodes, CrashNode(n)
      PROVE  at' = at /\ down \subseteq down'
             /\ \A u \in Transfers : call'[u] = "none" <=> call[u] = "none"
  BY <1>5 DEF CrashNode, IOInv, IOTypeOK
<1>. QED
  BY <1>1, <1>2, <1>3, <1>4, <1>5 DEF IONext, Transfer

\* Beginning a transfer that has not begun keeps the invariant of the socket.
LEMMA StartTransferInv ==
  ASSUME IOInv, NEW t \in Transfers, NEW n \in Nodes, NEW bytes \in Content,
         StartTransfer(t, n, bytes)
  PROVE  IOInv'
<1> USE DEF IOInv, StartTransfer
<1>1. IOTypeOK'
  BY DEF IOTypeOK
<1>2. NotBegun'
  BY DEF NotBegun, IOTypeOK
<1>3. Paired'
  BY DEF NotBegun, Paired, IOTypeOK
<1>. QED
  BY <1>1, <1>2, <1>3

\* The steps of the socket, and crashes, leave its state well-typed: what a
\* handler reads is the content of a file or garbage, what it writes a buffer.
LEMMA IOTypeStays ==
  ASSUME IOInv, IONext
  PROVE  IOTypeOK'
<1> USE DEF IOInv
<1>1. ASSUME NEW t \in Transfers, CallNode(t) PROVE IOTypeOK'
  <2>1. block(t) \in Blocks /\ at[t] \in Nodes
    BY <1>1, TransfersAssumption DEF CallNode, NotBegun, IOTypeOK
  <2>2. FileRead(t) \in Content
    BY <2>1 DEF FileRead, IOTypeOK, Content
  <2>. QED
    BY <1>1, <2>2 DEF CallNode, IOTypeOK
<1>2. ASSUME NEW t \in Transfers, Connect(t) PROVE IOTypeOK'
  BY <1>2 DEF Connect, IOTypeOK
<1>3. ASSUME NEW t \in Transfers, FinishRepair(t) PROVE IOTypeOK'
  BY <1>3 DEF FinishRepair, IOTypeOK
<1>4. ASSUME NEW t \in Transfers, NEW c \in backlog, Accept(t, c) PROVE IOTypeOK'
  BY <1>4 DEF Accept, IOTypeOK
<1>5. ASSUME NEW t \in Transfers, WriteFile(t) PROVE IOTypeOK'
  <2>1. buf[met[t]] \in Content
    BY <1>5 DEF WriteFile, Paired, IOTypeOK
  <2>2. file' \in [Nodes -> [Blocks -> Content \union {None}]]
    BY <1>5, <2>1 DEF WriteFile, IOTypeOK
  <2>. QED
    BY <1>5, <2>2 DEF WriteFile, IOTypeOK
<1>6. ASSUME NEW t \in Transfers, SendFile(t) PROVE IOTypeOK'
  BY <1>6 DEF SendFile, IOTypeOK
<1>7. ASSUME NEW n \in Nodes, CrashNode(n) PROVE IOTypeOK'
  BY <1>7 DEF CrashNode, IOTypeOK
<1>. QED
  BY <1>1, <1>2, <1>3, <1>4, <1>5, <1>6, <1>7 DEF IONext, Transfer

\* The steps of the socket keep its invariant: no connection is accepted twice.
LEMMA IONextInv ==
  ASSUME IOInv, IONext
  PROVE  IOInv'
<1> USE DEF IOInv
<1>1. IOTypeOK'
  BY IOTypeStays
<1>2. ASSUME NEW t \in Transfers, CallNode(t) PROVE NotBegun' /\ Paired'
  BY <1>2 DEF CallNode, NotBegun, Paired, IOTypeOK
<1>3. ASSUME NEW t \in Transfers, Connect(t) PROVE NotBegun' /\ Paired'
  BY <1>3 DEF Connect, NotBegun, Paired, IOTypeOK
<1>4. ASSUME NEW t \in Transfers, FinishRepair(t) PROVE NotBegun' /\ Paired'
  BY <1>4 DEF FinishRepair, NotBegun, Paired, IOTypeOK
<1>5. ASSUME NEW t \in Transfers, NEW c \in backlog, Accept(t, c) PROVE NotBegun' /\ Paired'
  BY <1>5 DEF Accept, NotBegun, Paired, IOTypeOK
<1>6. ASSUME NEW t \in Transfers, WriteFile(t) PROVE NotBegun' /\ Paired'
  BY <1>6 DEF WriteFile, NotBegun, Paired, IOTypeOK
<1>7. ASSUME NEW t \in Transfers, SendFile(t) PROVE NotBegun' /\ Paired'
  BY <1>7 DEF SendFile, NotBegun, Paired, IOTypeOK
<1>8. ASSUME NEW n \in Nodes, CrashNode(n) PROVE NotBegun' /\ Paired'
  BY <1>8 DEF CrashNode, NotBegun, Paired, IOTypeOK
<1>. QED
  BY <1>1, <1>2, <1>3, <1>4, <1>5, <1>6, <1>7, <1>8 DEF IONext, Transfer

-----------------------------------------------------------------------------
(* What a transfer that ended has done.                                    *)

\* On a node that is up, the reader of a get ends when a handler has sent to it,
\* and a repair when its handler has written.  What a handler of a get sent is
\* what its reader has.
Served ==
  /\ down \subseteq MayCrash
  /\ \A t \in Transfers :
       /\ call[t] = "done" /\ at[t] \notin down =>
            /\ kind(t) = "get" => \E h \in Transfers : handler[h] = "done" /\ met[h] = t
            /\ kind(t) = "recover" => handler[t] = "done"
       /\ handler[t] = "done" =>
            IF kind(t) = "get"
            THEN kind(met[t]) = "get" => buf[met[t]] = page[t]
            ELSE kind(met[t]) # "get" /\ file[at[t]][block(t)] # None

\* Where only appends run, no get and no repair has ended.
LEMMA ServedInit ==
  ASSUME NEW placed \in [Blocks -> Nodes], NEW running \in SUBSET Transfers, NEW absent,
         IOInit(placed, running, absent), \A t \in running : kind(t) = "append"
  PROVE  Served
BY DEF IOInit, Served

\* Beginning a transfer ends none.
LEMMA StartTransferServed ==
  ASSUME IOInv, Served, NEW t \in Transfers, NEW n \in Nodes, NEW bytes \in Content,
         StartTransfer(t, n, bytes)
  PROVE  Served'
<1>1. \A h \in Transfers : handler[h] = "done" => h # t /\ met[h] # t /\ met[h] \in Transfers
  BY DEF StartTransfer, IOInv, NotBegun, Paired
<1>. QED
  BY <1>1 DEF StartTransfer, IOInv, IOTypeOK, Served

\* Each step of the socket ends a get as a handler sends, a repair as its own
\* handler writes.
LEMMA IONextServed ==
  ASSUME IOInv, Served, IONext
  PROVE  Served'
<1> USE DEF IOInv, IOTypeOK
<1>0. \A h \in Transfers : handler[h] \in {"serving", "done"} =>
        met[h] \in Transfers /\ at[h] \in Nodes /\ at[met[h]] = at[h] /\ block(h) \in Blocks
  BY TransfersAssumption DEF NotBegun, Paired
<1>1. ASSUME NEW t \in Transfers, CallNode(t) PROVE Served'
  BY <1>0, <1>1 DEF CallNode, Served
<1>2. ASSUME NEW t \in Transfers, Connect(t) PROVE Served'
  BY <1>0, <1>2 DEF Connect, Served
<1>3. ASSUME NEW t \in Transfers, FinishRepair(t) PROVE Served'
  BY <1>0, <1>3 DEF FinishRepair, RepairJoined, Served
<1>4. ASSUME NEW t \in Transfers, NEW c \in backlog, Accept(t, c) PROVE Served'
  BY <1>0, <1>4 DEF Accept, Served
<1>5. ASSUME NEW t \in Transfers, WriteFile(t) PROVE Served'
  <2>1. buf[met[t]] # None
    BY <1>0, <1>5, TransfersAssumption DEF WriteFile
  <2>2. \A n \in Nodes, b \in Blocks : file[n][b] # None => file'[n][b] # None
    BY <1>0, <1>5, <2>1 DEF WriteFile
  <2>3. file'[at[t]][block(t)] # None
    BY <1>0, <1>5, <2>1 DEF WriteFile
  <2>4. /\ UNCHANGED <<at, call, buf, page, met, backlog, down>>
        /\ handler' = [handler EXCEPT ![t] = "done"] /\ handler[t] = "serving"
        /\ kind(t) # "get" /\ kind(met[t]) # "get"
    BY <1>5 DEF WriteFile
  <2>. QED
    BY <1>0, <2>2, <2>3, <2>4 DEF Served
<1>6. ASSUME NEW t \in Transfers, SendFile(t) PROVE Served'
  <2>1. /\ UNCHANGED <<at, page, met, backlog, file, down>>
        /\ handler' = [handler EXCEPT ![t] = "done"]
        /\ kind(t) = "get" /\ met[t] \in Transfers /\ handler[t] = "serving"
    BY <1>0, <1>6 DEF SendFile
  <2>2. \A h \in Transfers : handler[h] = "done" => met[h] # met[t]
    BY <2>1 DEF Paired
  <2>3. CASE kind(met[t]) = "get"
    BY <1>0, <1>6, <2>1, <2>2, <2>3 DEF SendFile, Served
  <2>4. CASE kind(met[t]) # "get"
    BY <1>0, <1>6, <2>1, <2>4 DEF SendFile, Served
  <2>. QED
    BY <2>3, <2>4
<1>7. ASSUME NEW n \in Nodes, CrashNode(n) PROVE Served'
  BY <1>0, <1>7 DEF CrashNode, Served
<1>. QED
  BY <1>1, <1>2, <1>3, <1>4, <1>5, <1>6, <1>7 DEF IONext, Transfer

(* When all reads and repairs at a node that is up have ended, the handlers *)
(* they called have ended too and nobody waits to be accepted: each repair's *)
(* handler wrote what another repair, or its own, brought, so the handlers  *)
(* left for the reads are as many as the reads.                             *)
LEMMA QuietNode ==
  ASSUME IOInv, Served, IsFiniteSet(Transfers), NEW n \in Nodes \ down,
         \A t \in Transfers :
           at[t] = n => call[t] = "done" /\ kind(t) \in {"get", "recover"}
  PROVE  \A t \in Transfers : at[t] = n =>
           /\ handler[t] = "done"
           /\ \E h \in Transfers : at[h] = n /\ handler[h] = "done" /\ met[h] = t
<1> DEFINE R == {t \in Transfers : at[t] = n /\ kind(t) = "recover"}
           G == {t \in Transfers : at[t] = n /\ kind(t) = "get"}
           K == {h \in G : handler[h] = "done" /\ met[h] \in G}
           r == [h \in R |-> met[h]]
           k == [h \in K |-> met[h]]
<1>1. IsFiniteSet(R) /\ IsFiniteSet(G)
  BY FS_Subset
<1>2. \A h \in Transfers : handler[h] = "done" =>
        /\ met[h] \in Transfers /\ at[met[h]] = at[h]
        /\ \A g \in Transfers : handler[g] = "done" /\ met[g] = met[h] => g = h
  BY DEF IOInv, Paired
<1>3. \A h \in R : handler[h] = "done" /\ met[h] \in R
  BY <1>2 DEF Served
<1>4. r \in Surjection(R, R)
  <2>1. r \in Injection(R, R)
    BY <1>2, <1>3 DEF Injection, IsInjective
  <2>. QED
    BY <1>1, <2>1, FS_Injection
<1>5. \A t \in R : \E h \in R : handler[h] = "done" /\ met[h] = t
  BY <1>3, <1>4 DEF Surjection
<1>6. \A t \in G : \E h \in K : met[h] = t
  BY <1>2, <1>3 DEF Served
<1>7. k \in Surjection(K, G)
  BY <1>6 DEF Surjection
<1>8. K = G
  <2>1. IsFiniteSet(K) /\ Cardinality(K) <= Cardinality(G)
        /\ (Cardinality(G) = Cardinality(K) => G = K)
    BY <1>1, FS_Subset
  <2>2. Cardinality(G) <= Cardinality(K)
    BY <1>7, <2>1, FS_Surjection
  <2>3. Cardinality(K) \in Nat /\ Cardinality(G) \in Nat
    BY <1>1, <2>1, FS_CardinalityType
  <2>. QED
    BY <2>1, <2>2, <2>3
<1>. QED
  BY <1>3, <1>5, <1>6, <1>8

\* The invariants are about the state of the socket alone.
LEMMA IOStutter ==
  ASSUME IOInv, UNCHANGED ioVars
  PROVE  IOInv' /\ (Served => Served')
BY DEF ioVars, IOInv, IOTypeOK, NotBegun, Paired, Served

\* what has ended stays ended
LEMMA IOEnded ==
  ASSUME IOInv, IONext, NEW t \in Transfers
  PROVE  /\ call[t] = "done" => call'[t] = "done"
         /\ handler[t] = "done" => handler'[t] = "done" /\ met'[t] = met[t]
<1> USE DEF IOInv, IOTypeOK
<1>1. ASSUME NEW u \in Transfers, CallNode(u) \/ Connect(u) \/ FinishRepair(u)
      PROVE  /\ call[t] = "done" => call'[t] = "done"
             /\ handler[t] = "done" => handler'[t] = "done" /\ met'[t] = met[t]
  BY <1>1 DEF CallNode, Connect, FinishRepair
<1>2. ASSUME NEW u \in Transfers, (\E c \in backlog : Accept(u, c)) \/ WriteFile(u)
      PROVE  /\ call[t] = "done" => call'[t] = "done"
             /\ handler[t] = "done" => handler'[t] = "done" /\ met'[t] = met[t]
  BY <1>2 DEF Accept, WriteFile
<1>3. ASSUME NEW u \in Transfers, SendFile(u)
      PROVE  /\ call[t] = "done" => call'[t] = "done"
             /\ handler[t] = "done" => handler'[t] = "done" /\ met'[t] = met[t]
  BY <1>3 DEF SendFile
<1>4. ASSUME NEW n \in Nodes, CrashNode(n)
      PROVE  /\ call[t] = "done" => call'[t] = "done"
             /\ handler[t] = "done" => handler'[t] = "done" /\ met'[t] = met[t]
  BY <1>4 DEF CrashNode
<1>. QED
  BY <1>1, <1>2, <1>3, <1>4 DEF IONext, Transfer

\* a handler comes to serve by accepting a connection, which came to the backlog
\* from a transfer that had just begun
LEMMA IOMeets ==
  ASSUME IOInv, IONext, NEW t \in Transfers
  PROVE  /\ handler'[t] \in {"serving", "done"} =>
              \/ handler[t] \in {"serving", "done"} /\ met'[t] = met[t]
              \/ \E c \in backlog : at[c] = at[t] /\ met'[t] = c
         /\ t \in backlog' => t \in backlog \/ call[t] = "started"
         /\ handler[t] # "none" => page'[t] = page[t]
         /\ kind(t) # "get" => buf'[t] = buf[t]
<1> DEFINE Goal ==
             /\ handler'[t] \in {"serving", "done"} =>
                  \/ handler[t] \in {"serving", "done"} /\ met'[t] = met[t]
                  \/ \E c \in backlog : at[c] = at[t] /\ met'[t] = c
             /\ t \in backlog' => t \in backlog \/ call[t] = "started"
             /\ handler[t] # "none" => page'[t] = page[t]
             /\ kind(t) # "get" => buf'[t] = buf[t]
<1> USE DEF IOInv, IOTypeOK
<1>1. ASSUME NEW u \in Transfers, CallNode(u) \/ Connect(u) \/ FinishRepair(u)
      PROVE  Goal
  BY <1>1 DEF CallNode, Connect, FinishRepair
<1>2. ASSUME NEW u \in Transfers, NEW c \in backlog, Accept(u, c)
      PROVE  Goal
  BY <1>2 DEF Accept
<1>3. ASSUME NEW u \in Transfers, WriteFile(u) \/ SendFile(u)
      PROVE  Goal
  BY <1>3 DEF WriteFile, SendFile
<1>4. ASSUME NEW n \in Nodes, CrashNode(n)
      PROVE  Goal
  BY <1>4 DEF CrashNode
<1>. QED
  BY <1>1, <1>2, <1>3, <1>4 DEF IONext, Transfer

\* a file changes where a handler that brings bytes writes what it met
LEMMA IOWrites ==
  ASSUME IOInv, IONext, NEW n \in Nodes, NEW b \in Blocks, file'[n][b] # file[n][b]
  PROVE  \E h \in Transfers :
           /\ handler[h] = "serving" /\ kind(h) # "get" /\ met[h] \in Transfers
           /\ at[h] = n /\ block(h) = b /\ file'[n][b] = buf[met[h]]
           /\ UNCHANGED <<call, buf, down>>
<1> USE DEF IOInv, IOTypeOK
<1>1. PICK h \in Transfers : WriteFile(h)
  BY DEF IONext, Transfer, CallNode, Connect, FinishRepair, Accept, SendFile, CrashNode
<1>2. at[h] \in Nodes /\ block(h) \in Blocks /\ met[h] \in Transfers
  BY <1>1, TransfersAssumption DEF WriteFile, NotBegun, Paired
<1>. QED
  BY <1>1, <1>2 DEF WriteFile

-----------------------------------------------------------------------------
(* The shape of calls and transfers.                                       *)

\* A repair asks its destination and its helpers, by one call each.
LEMMA CallShape ==
  /\ \A o \in Repairs : /\ Dest[o] \in Asked(o) /\ Helpers(o) \subseteq Asked(o)
                        /\ Asked(o) = Helpers(o) \union {Dest[o]} /\ Dest[o] \notin Helpers(o)
  /\ \A o \in Repairs : \A cl \in Asked(o) : Call(o, cl) \in Calls
  /\ \A c \in Calls : c[1] \in Repairs /\ c = Call(c[1], c[2])
  /\ \A o, cl : Call(o, cl)[1] = o /\ Call(o, cl)[2] = cl
BY RepairsAssumption DEF Calls, Call, Helpers

\* A transfer reads a source of a repair or saves its block.
LEMMA TransferShape ==
  /\ \A t \in Transfers : /\ request(t) \in Repairs /\ kind(t) \in {"get", "recover"}
                          /\ block(t) \in Blocks
  /\ \A t \in Transfers : kind(t) = "get" =>
       block(t) \in SourcesOf(request(t)) /\ t = <<"get", request(t), block(t)>>
  /\ \A t \in Transfers : kind(t) = "recover" =>
       request(t) \in Repairs \ Degraded /\ t = Save(request(t))
  /\ \A o \in Repairs \ Degraded : /\ Save(o) \in Transfers /\ request(Save(o)) = o
                                   /\ kind(Save(o)) = "recover" /\ block(Save(o)) = Failed[o]
  /\ \A o \in Repairs : \A cl \in Asked(o) : \A b \in Sources[o][cl] :
       /\ <<"get", o, b>> \in Transfers /\ b \in SourcesOf(o)
       /\ request(<<"get", o, b>>) = o /\ kind(<<"get", o, b>>) = "get"
       /\ block(<<"get", o, b>>) = b
<1>1. \A t : t \in Transfers <=>
        \/ \E o \in Repairs : \E b \in SourcesOf(o) : t = <<"get", o, b>>
        \/ \E o \in Repairs \ Degraded : t = <<"recover", o, Failed[o]>>
  <2> DEFINE Reads == UNION {Gets(o) : o \in Repairs}
             Saves == {Save(o) : o \in Repairs \ Degraded}
  <2>1. \A t : t \in Reads <=> \E o \in Repairs : \E b \in SourcesOf(o) : t = <<"get", o, b>>
    BY DEF Gets
  <2>2. \A t : t \in Saves <=> \E o \in Repairs \ Degraded : t = <<"recover", o, Failed[o]>>
    BY DEF Save
  <2>3. Transfers = RepairTransfers
    BY RepairsAssumption
  <2>4. RepairTransfers = Reads \union Saves
    BY DEF RepairTransfers
  <2> HIDE DEF Reads, Saves
  <2>. QED
    BY <2>1, <2>2, <2>3, <2>4
<1>2. \A o \in Repairs : \A cl \in Asked(o) : \A b \in Sources[o][cl] : b \in SourcesOf(o)
  BY DEF SourcesOf
<1>. USE DEF kind, request, block, Save
<1>3. \A o \in Repairs : \A b \in SourcesOf(o) :
        <<"get", o, b>> \in Transfers
  BY <1>1
<1>4. \A o \in Repairs \ Degraded : Save(o) \in Transfers
  BY <1>1
<1>5. ASSUME NEW t \in Transfers
      PROVE  /\ request(t) \in Repairs /\ kind(t) \in {"get", "recover"}
             /\ kind(t) = "get" =>
                  block(t) \in SourcesOf(request(t)) /\ t = <<"get", request(t), block(t)>>
             /\ kind(t) = "recover" =>
                  request(t) \in Repairs \ Degraded /\ t = Save(request(t))
  BY <1>1, RepairsAssumption
<1>. QED
  BY <1>2, <1>3, <1>4, <1>5, TransfersAssumption

\* A repair has finitely many helpers, as many as cross_rack_num says.
LEMMA Finite ==
  /\ IsFiniteSet(Transfers) /\ IsFiniteSet(Calls)
  /\ \A o \in Repairs : /\ IsFiniteSet(Asked(o)) /\ IsFiniteSet(Helpers(o))
                        /\ CrossRackNum(o) = Cardinality(Helpers(o))
                        /\ CrossRackNum(o) \in Nat
<1> DEFINE All == UNION {Asked(o) : o \in Repairs}
<1>1. IsFiniteSet(Transfers)
  <2> DEFINE T == {"get", "recover"} \X (Repairs \X Blocks)
             f == [t \in Transfers |-> <<kind(t), <<request(t), block(t)>>>>]
  <2>1. IsFiniteSet(T)
    <3>1. IsFiniteSet({"get", "recover"})
      <4>1. IsFiniteSet({"get"} \union {"recover"})
        BY FS_Singleton, FS_AddElement
      <4>2. {"get"} \union {"recover"} = {"get", "recover"}
        OBVIOUS
      <4>. QED
        BY <4>1, <4>2
    <3>. QED
      BY <3>1, FiniteAssumption, FS_Product
  <2>2. f \in Injection(Transfers, T)
    <3>1. f \in [Transfers -> T]
      BY TransferShape
    <3>2. \A t \in Transfers : t = <<kind(t), request(t), block(t)>>
      BY TransferShape DEF Save, kind, block
    <3>. QED
      BY <3>1, <3>2 DEF Injection, IsInjective
  <2>. QED
    BY <2>1, <2>2, FS_Injection
<1>2. IsFiniteSet(Calls)
  <2>1. Calls = Repairs \X All
    BY DEF Calls
  <2>. QED
    BY <2>1, FiniteAssumption, FS_Product
<1>3. ASSUME NEW o \in Repairs
      PROVE  /\ IsFiniteSet(Asked(o)) /\ IsFiniteSet(Helpers(o))
             /\ CrossRackNum(o) = Cardinality(Helpers(o)) /\ CrossRackNum(o) \in Nat
  <2>1. IsFiniteSet(Asked(o))
    BY FiniteAssumption, FS_Subset
  <2>2. IsFiniteSet(Helpers(o)) /\ Cardinality(Helpers(o)) = Cardinality(Asked(o)) - 1
    BY <2>1, FS_RemoveElement, RepairsAssumption DEF Helpers
  <2>. QED
    BY <2>1, <2>2, FS_CardinalityType DEF CrossRackNum
<1>. QED
  BY <1>1, <1>2, <1>3

-----------------------------------------------------------------------------
(* Type correctness, with the socket's invariant and the replacements.     *)

Begun(t)    == call[t] # "none"
Sent(o, cl) == proxy[Call(o, cl)] \notin {"none", "reading"}

Replaced ==
  \A o \in Repairs :
    /\ replacement[o] # None => o \notin Degraded /\ replacement[o] \in Spare[o]
    /\ o \notin Degraded => (replacement[o] = None <=> proxy[Call(o, Dest[o])] = "none")
TypedIO ==
  /\ TypeOK /\ IOInv /\ Served /\ Replaced
  /\ \A o \in Repairs : IsFiniteSet(taken[o])

\* Before the repairs the socket is idle.
LEMMA InitTypedIO ==
  ASSUME Init
  PROVE  TypedIO
<1>1. IOInv /\ Served
  BY IOInvInit, ServedInit, RepairsAssumption DEF Init
<1>2. TypeOK
  <2>1. \A o \in Repairs : taken[o] = {} /\ Cardinality(taken[o]) = 0
    BY FS_EmptySet DEF Init
  <2>2. \A o \in Repairs : Cardinality(taken[o]) <= Cardinality(Helpers(o))
    BY <2>1, Finite
  <2>. QED
    BY <1>1, <2>2 DEF Init, TypeOK, IOInv
<1>3. Replaced
  BY CallShape DEF Init, Replaced
<1>. QED
  BY <1>1, <1>2, <1>3, FS_EmptySet DEF TypedIO, Init

\* Repairs, their threads and the datanodes keep the types, the invariants of the
\* socket and the replacement node that was chosen.
LEMMA StepTypedIO ==
  ASSUME TypedIO, [Next]_vars
  PROVE  TypedIO'
<1> USE CallShape DEF TypedIO, TypeOK
<1>0. ASSUME UNCHANGED ioVars PROVE IOInv' /\ Served' /\ IOTypeOK'
  BY <1>0, IOStutter DEF IOInv
<1>1. ASSUME NEW o \in Repairs, AskRepair(o)
      PROVE  TypedIO'
  BY <1>0, <1>1 DEF AskRepair, Replaced
<1>2. ASSUME NEW o \in Repairs, NEW cl \in Asked(o), CallProxy(o, cl)
      PROVE  TypedIO'
  <2>1. replacement' \in [Repairs -> Nodes \union {None}]
    BY <1>2, RepairsAssumption DEF CallProxy
  <2>2. Replaced'
    <3>1. CASE cl = Dest[o] /\ o \notin Degraded
      <4>1. \E n \in Spare[o] : replacement' = [replacement EXCEPT ![o] = n]
        BY <1>2, <3>1 DEF CallProxy
      <4>2. None \notin Spare[o]
        BY RepairsAssumption, TransfersAssumption
      <4>. QED
        BY <1>2, <3>1, <4>1, <4>2 DEF CallProxy, Replaced
    <3>2. CASE ~(cl = Dest[o] /\ o \notin Degraded)
      BY <1>2, <3>2 DEF CallProxy, Replaced
    <3>. QED
      BY <3>1, <3>2
  <2>. QED
    BY <1>0, <1>2, <2>1, <2>2 DEF CallProxy
<1>3. ASSUME NEW o \in Repairs, ReturnRepairs(o)
      PROVE  TypedIO'
  BY <1>0, <1>3 DEF ReturnRepairs, Replaced
<1>4. ASSUME NEW o \in Repairs, NEW c \in toClient, ReceiveBlock(o, c)
      PROVE  TypedIO'
  BY <1>0, <1>4 DEF ReceiveBlock, Replaced
<1>5. ASSUME NEW t \in Transfers, StartReader(t)
      PROVE  TypedIO'
  <2>1. map2node[block(t)] \in Nodes
    BY TransferShape, RepairsAssumption
  <2>2. IOInv' /\ Served'
    BY <1>5, <2>1, StartTransferInv, StartTransferServed DEF StartReader, Content
  <2>. QED
    BY <1>5, <2>2 DEF StartReader, repairVars, codeVars, Replaced, IOInv
<1>6. ASSUME NEW o \in Repairs, NEW cl \in Asked(o), SendPart(o, cl)
      PROVE  TypedIO'
  BY <1>0, <1>6 DEF SendPart, Decoded, Replaced
<1>7. ASSUME NEW o \in Repairs, DecodeOwn(o)
      PROVE  TypedIO'
  BY <1>0, <1>7 DEF DecodeOwn, Decoded, Replaced
<1>8. ASSUME NEW o \in Repairs, NEW c \in waiting, TakePart(o, c)
      PROVE  TypedIO'
  <2> DEFINE more == taken[o] \union {c}
  <2>1. IsFiniteSet(taken[o]) /\ Cardinality(taken[o]) \in Nat
    BY FS_CardinalityType
  <2>2. IsFiniteSet(more)
        /\ (Cardinality(more) = Cardinality(taken[o])
            \/ Cardinality(more) = Cardinality(taken[o]) + 1)
    BY ZenonT(30), <2>1, FS_AddElement
  <2>3. Cardinality(more) <= Cardinality(Helpers(o))
    BY <1>8, <2>1, <2>2, Finite DEF TakePart
  <2>4. taken' = [taken EXCEPT ![o] = more] /\ more \in SUBSET Calls
    BY <1>8 DEF TakePart
  <2>5. \A p \in Repairs : IsFiniteSet(taken'[p])
                           /\ Cardinality(taken'[p]) <= Cardinality(Helpers(p))
    BY <2>2, <2>3, <2>4
  <2>6. taken' \in [Repairs -> SUBSET Calls]
    BY <2>4
  <2>. QED
    BY <1>0, <1>8, <2>5, <2>6 DEF TakePart, Replaced
<1>9. ASSUME NEW o \in Repairs, SendToNode(o)
      PROVE  TypedIO'
  <2>1. Rebuilt(o) \in Content
    BY RepairsAssumption DEF Rebuilt, Content
  <2>2. replacement[o] \in Nodes /\ Save(o) \in Transfers
    BY <1>9, TransferShape DEF SendToNode, Collected, Replaced
  <2>3. IOInv' /\ Served'
    BY <1>9, <2>1, <2>2, StartTransferInv, StartTransferServed DEF SendToNode
  <2>. QED
    BY <1>9, <2>3 DEF SendToNode, Collected, Replaced, IOInv
<1>10. ASSUME NEW o \in Repairs, Saved(o)
      PROVE  TypedIO'
  BY <1>0, <1>10 DEF Saved, Replaced
<1>11. ASSUME NEW o \in Repairs, SendToClient(o)
      PROVE  TypedIO'
  <2>1. Rebuilt(o) \in Content
    BY RepairsAssumption DEF Rebuilt, Content
  <2>. QED
    BY <1>0, <1>11, <2>1 DEF SendToClient, Collected, Replaced
<1>12. ASSUME IONext, UNCHANGED repairVars
      PROVE  TypedIO'
  BY <1>12, IONextInv, IONextServed DEF repairVars, codeVars, Replaced, IOInv
<1>13. ASSUME UNCHANGED vars
      PROVE  TypedIO'
  BY <1>0, <1>13 DEF vars, repairVars, codeVars, Replaced
<1>. QED
  BY <1>1, <1>2, <1>3, <1>4, <1>5, <1>6, <1>7, <1>8, <1>9, <1>10, <1>11, <1>12, <1>13
  DEF Next, Repair, ProxyCall, Receive, Thread, Finished, IONext

(* Every repair, call and thread is at one of its program points, and no   *)
(* destination accepts more parts than the repair has helpers.             *)
THEOREM TypeCorrect == Spec => []TypeOK
<1>1. TypedIO => TypeOK
  BY DEF TypedIO
<1>. QED
  BY <1>1, InitTypedIO, StepTypedIO, PTL DEF Spec

-----------------------------------------------------------------------------
(* What a repair has done at each point.                                   *)

\* calls are made for a repair that runs, a proxy decodes after its readers have
\* joined, and the destination ends after its block was written
Phased ==
  \A o \in Repairs :
    /\ pc[o] = "idle" => \A cl \in Asked(o) : proxy[Call(o, cl)] = "none"
    /\ pc[o] = "returned" => AllJoined(o)
    /\ \A cl \in Helpers(o) : proxy[Call(o, cl)] \in {"none", "reading", "done"}
    /\ o \in Degraded => proxy[Call(o, Dest[o])] # "saving"
    /\ \A cl \in Asked(o) : Sent(o, cl) => ReadersJoined(o, cl)
    /\ o \notin Degraded /\ proxy[Call(o, Dest[o])] = "done" => call[Save(o)] = "done"

\* which node a transfer goes to, and when it begins
Reached ==
  \A t \in Transfers : Begun(t) =>
    LET o == request(t) IN
    /\ Began(o)
    /\ kind(t) = "get" => at[t] = map2node[block(t)]
    /\ kind(t) = "recover" =>
         at[t] = replacement[o] /\ proxy[Call(o, Dest[o])] \in {"saving", "done"}

PhaseInv == TypedIO /\ Phased /\ Reached

\* all transfers of a repair whose proxies have joined have ended
LEMMA Ended ==
  ASSUME PhaseInv, NEW o \in Repairs, AllJoined(o),
         NEW t \in Transfers, request(t) = o
  PROVE  call[t] = "done"
<1>1. CASE kind(t) = "get"
  <2>1. PICK cl \in Asked(o) : block(t) \in Sources[o][cl] /\ t = <<"get", o, block(t)>>
    BY <1>1, TransferShape DEF SourcesOf
  <2>2. ReadersJoined(o, cl)
    BY DEF PhaseInv, Phased, Sent, AllJoined
  <2>. QED
    BY <2>1, <2>2 DEF ReadersJoined
<1>2. CASE kind(t) = "recover"
  BY <1>2, TransferShape, CallShape DEF PhaseInv, Phased, AllJoined
<1>. QED
  BY <1>1, <1>2, TransferShape

\* a repair that began and has not joined runs
LEMMA Running ==
  ASSUME PhaseInv, NEW o \in Repairs, NEW cl \in Asked(o),
         proxy[Call(o, cl)] \notin {"none", "done"}
  PROVE  pc[o] = "running" /\ ~AllJoined(o)
BY DEF PhaseInv, Phased, AllJoined, TypedIO, TypeOK

\* No repair has begun a transfer at the start.
LEMMA InitPhase ==
  ASSUME Init
  PROVE  PhaseInv
<1>1. \A o \in Repairs : \A cl \in Asked(o) : proxy[Call(o, cl)] = "none"
  BY CallShape DEF Init
<1>2. Phased
  BY <1>1, CallShape DEF Phased, Sent, Init
<1>3. Reached
  BY DEF Reached, Begun, Init, IOInit
<1>. QED
  BY <1>2, <1>3, InitTypedIO DEF PhaseInv

\* calls that ended stay ended, calls not made are made by their own step only
LEMMA PhaseFrame ==
  ASSUME PhaseInv, UNCHANGED <<pc, proxy, replacement>>,
         \A t \in Transfers : (call[t] = "done" => call'[t] = "done")
                              /\ (call'[t] = "none" <=> call[t] = "none"),
         at' = at
  PROVE  Phased' /\ Reached'
<1>1. \A o \in Repairs : \A cl \in Asked(o) : ReadersJoined(o, cl) => ReadersJoined(o, cl)'
  <2> SUFFICES ASSUME NEW o \in Repairs, NEW cl \in Asked(o), ReadersJoined(o, cl),
                      NEW b \in Sources[o][cl]
               PROVE  call'[<<"get", o, b>>] = "done"
    BY DEF ReadersJoined
  <2>1. <<"get", o, b>> \in Transfers
    BY TransferShape
  <2>. QED
    BY <2>1 DEF ReadersJoined
<1>2. Phased'
  <2> SUFFICES ASSUME NEW o \in Repairs
               PROVE  (/\ pc[o] = "idle" => \A cl \in Asked(o) : proxy[Call(o, cl)] = "none"
                       /\ pc[o] = "returned" => AllJoined(o)
                       /\ \A cl \in Helpers(o) : proxy[Call(o, cl)] \in {"none", "reading", "done"}
                       /\ o \in Degraded => proxy[Call(o, Dest[o])] # "saving"
                       /\ \A cl \in Asked(o) : Sent(o, cl) => ReadersJoined(o, cl)
                       /\ o \notin Degraded /\ proxy[Call(o, Dest[o])] = "done"
                            => call[Save(o)] = "done")'
    BY DEF Phased
  <2>1. o \notin Degraded => Save(o) \in Transfers
    BY TransferShape
  <2>. QED
    BY <1>1, <2>1 DEF PhaseInv, Phased, Sent, AllJoined
<1>3. Reached'
  BY DEF PhaseInv, Reached, Begun, Began
<1>. QED
  BY <1>2, <1>3

\* The proxies begin transfers after they are called, and decode after they join.
LEMMA StepPhase ==
  ASSUME PhaseInv, [Next]_vars
  PROVE  PhaseInv'
<1>0. TypedIO' /\ TypedIO
  BY StepTypedIO DEF PhaseInv
<1> USE CallShape DEF PhaseInv
<1>. USE DEF TypedIO, TypeOK
<1>a. ASSUME UNCHANGED ioVars
      PROVE  UNCHANGED <<at, call>>
  BY <1>a DEF ioVars
<1>1. ASSUME NEW o \in Repairs, AskRepair(o)
      PROVE  PhaseInv'
  BY <1>0, <1>1, <1>a
  DEF AskRepair, Phased, Sent, ReadersJoined, AllJoined, Reached, Begun, Began
<1>2. ASSUME NEW o \in Repairs, NEW cl \in Asked(o), CallProxy(o, cl)
      PROVE  PhaseInv'
  <2>1. /\ UNCHANGED <<at, call, pc>> /\ pc[o] = "running"
        /\ proxy' = [proxy EXCEPT ![Call(o, cl)] = "reading"]
        /\ proxy[Call(o, cl)] = "none"
    BY <1>2, <1>a DEF CallProxy
  <2>2. \A p \in Repairs : \A k \in Asked(p) :
          IF p = o /\ k = cl THEN proxy'[Call(p, k)] = "reading"
                           ELSE proxy'[Call(p, k)] = proxy[Call(p, k)]
    BY <2>1 DEF Call
  <2>3. Phased'
    BY <2>1, <2>2 DEF Phased, Sent, ReadersJoined, AllJoined
  <2>4. \A p \in Repairs : replacement'[p] # replacement[p] => p = o /\ cl = Dest[o]
    BY <1>2 DEF CallProxy
  <2>5. Reached'
    BY <2>1, <2>2, <2>4, TransferShape DEF Reached, Begun, Began
  <2>. QED
    BY <1>0, <2>3, <2>5
<1>3. ASSUME NEW o \in Repairs, ReturnRepairs(o)
      PROVE  PhaseInv'
  <2>1. /\ UNCHANGED <<at, call, proxy, replacement>>
        /\ \A p \in Repairs :
             pc'[p] = pc[p] \/ (pc'[p] = "returned" /\ AllJoined(p) /\ Began(p))
    <3>1. UNCHANGED <<at, call, proxy, replacement>>
      BY <1>3, <1>a DEF ReturnRepairs
    <3>2. \A p \in Repairs : pc'[p] = IF p \in CallOf(o) THEN "returned" ELSE pc[p]
      BY <1>3 DEF ReturnRepairs
    <3>3. \A p \in CallOf(o) : Began(p) /\ AllJoined(p)
      BY <1>3 DEF ReturnRepairs
    <3>. QED
      BY <3>1, <3>2, <3>3
  <2>2. Phased'
    BY <2>1 DEF Phased, Sent, ReadersJoined, AllJoined, Began
  <2>3. Reached'
    BY <2>1, TransferShape DEF Reached, Begun, Began
  <2>. QED
    BY <1>0, <2>2, <2>3
<1>4. ASSUME NEW o \in Repairs, NEW c \in toClient, ReceiveBlock(o, c)
      PROVE  PhaseInv'
  BY <1>0, <1>4, <1>a, PhaseFrame DEF ReceiveBlock
<1>5. ASSUME NEW t \in Transfers, StartReader(t)
      PROVE  PhaseInv'
  <2>1. /\ UNCHANGED <<pc, proxy, replacement>>
        /\ call[t] = "none" /\ call' = [call EXCEPT ![t] = "started"]
        /\ at' = [at EXCEPT ![t] = map2node[block(t)]]
        /\ kind(t) = "get"
    BY <1>5 DEF StartReader, StartTransfer, repairVars, codeVars
  <2>2. Began(request(t))
    <3>1. PICK cl \in Asked(request(t)) : proxy[Call(request(t), cl)] = "reading"
      BY <1>5 DEF StartReader
    <3>. QED
      BY <3>1, TransferShape DEF Phased, Began
  <2>3. \A u \in Transfers : call[u] = "done" => call'[u] = "done"
    BY <2>1 DEF IOTypeOK
  <2>4. Phased'
    BY <2>1, <2>3, TransferShape DEF Phased, Sent, ReadersJoined, AllJoined
  <2>5. Reached'
    BY <2>1, <2>2 DEF Reached, Begun, Began, IOTypeOK
  <2>. QED
    BY <1>0, <2>4, <2>5
<1>6. ASSUME NEW o \in Repairs, NEW cl \in Asked(o),
             SendPart(o, cl) \/ (cl = Dest[o] /\ DecodeOwn(o))
      PROVE  PhaseInv'
  <2>1. /\ UNCHANGED <<at, call, pc, replacement>>
        /\ proxy[Call(o, cl)] = "reading" /\ ReadersJoined(o, cl)
        /\ proxy' = [proxy EXCEPT ![Call(o, cl)] =
                        IF cl = Dest[o] THEN "collecting" ELSE "done"]
    BY <1>6, <1>a DEF SendPart, DecodeOwn
  <2>2. \A p \in Repairs : \A k \in Asked(p) :
          IF p = o /\ k = cl
          THEN proxy'[Call(p, k)] = IF cl = Dest[o] THEN "collecting" ELSE "done"
          ELSE proxy'[Call(p, k)] = proxy[Call(p, k)]
    BY <2>1 DEF Call
  <2>3. Phased'
    BY <2>1, <2>2 DEF Phased, Sent, ReadersJoined, AllJoined
  <2>4. Reached'
    BY <2>1, <2>2, TransferShape DEF Reached, Begun, Began
  <2>. QED
    BY <1>0, <2>3, <2>4
<1>7. ASSUME NEW o \in Repairs, NEW c \in waiting, TakePart(o, c)
      PROVE  PhaseInv'
  BY <1>0, <1>7, <1>a, PhaseFrame DEF TakePart
<1>8. ASSUME NEW o \in Repairs, SendToNode(o)
      PROVE  PhaseInv'
  <2>1. /\ UNCHANGED <<pc, replacement>>
        /\ call[Save(o)] = "none" /\ call' = [call EXCEPT ![Save(o)] = "started"]
        /\ at' = [at EXCEPT ![Save(o)] = replacement[o]]
        /\ proxy' = [proxy EXCEPT ![Call(o, Dest[o])] = "saving"]
        /\ proxy[Call(o, Dest[o])] = "collecting" /\ o \notin Degraded
    BY <1>8 DEF SendToNode, StartTransfer, Collected
  <2>2. \A p \in Repairs : \A k \in Asked(p) :
          IF p = o /\ k = Dest[o] THEN proxy'[Call(p, k)] = "saving"
                                ELSE proxy'[Call(p, k)] = proxy[Call(p, k)]
    BY <2>1 DEF Call
  <2>3. Save(o) \in Transfers /\ request(Save(o)) = o /\ kind(Save(o)) = "recover"
    BY <2>1, TransferShape
  <2>4. \A u \in Transfers : call[u] = "done" => call'[u] = "done"
    BY <2>1, <2>3 DEF IOTypeOK
  <2>5. Began(o)
    BY <2>1 DEF Phased, Began
  <2>6. Phased'
    BY <2>1, <2>2, <2>4, TransferShape DEF Phased, Sent, ReadersJoined, AllJoined
  <2>7. Reached'
    <3> SUFFICES ASSUME NEW t \in Transfers, Begun(t)'
                 PROVE  LET q == request(t) IN
                        /\ Began(q)'
                        /\ kind(t) = "get" => at'[t] = map2node[block(t)]
                        /\ kind(t) = "recover" =>
                             /\ at'[t] = replacement'[q]
                             /\ proxy'[Call(q, Dest[q])] \in {"saving", "done"}
      BY DEF Reached
    <3>1. CASE t = Save(o)
      BY <2>1, <2>2, <2>3, <2>5, <3>1 DEF Began, IOTypeOK
    <3>2. CASE t # Save(o)
      BY <2>1, <2>2, <2>3, <3>2, TransferShape DEF Reached, Began, Begun, IOTypeOK
    <3>. QED
      BY <3>1, <3>2
  <2>. QED
    BY <1>0, <2>6, <2>7
<1>9. ASSUME NEW o \in Repairs, Saved(o) \/ SendToClient(o)
      PROVE  PhaseInv'
  <2>1. /\ UNCHANGED <<at, call, pc, replacement>>
        /\ proxy' = [proxy EXCEPT ![Call(o, Dest[o])] = "done"]
        /\ proxy[Call(o, Dest[o])] \in {"collecting", "saving"}
        /\ o \in Degraded \/ call[Save(o)] = "done"
    BY <1>9, <1>a DEF Saved, SendToClient, Collected
  <2>2. \A p \in Repairs : \A k \in Asked(p) :
          IF p = o /\ k = Dest[o] THEN proxy'[Call(p, k)] = "done"
                                ELSE proxy'[Call(p, k)] = proxy[Call(p, k)]
    BY <2>1 DEF Call
  <2>3. Phased'
    BY <2>1, <2>2 DEF Phased, Sent, ReadersJoined, AllJoined
  <2>4. Reached'
    BY <2>1, <2>2, TransferShape DEF Reached, Begun, Began
  <2>. QED
    BY <1>0, <2>3, <2>4
<1>10. ASSUME IONext, UNCHANGED repairVars
      PROVE  PhaseInv'
  <2>1. at' = at /\ UNCHANGED <<pc, proxy, replacement>>
        /\ \A t \in Transfers : call'[t] = "none" <=> call[t] = "none"
    BY <1>0, <1>10, IOFrame DEF repairVars, codeVars
  <2>2. \A t \in Transfers : call[t] = "done" => call'[t] = "done"
    BY <1>0, <1>10, IOEnded
  <2>. QED
    BY <1>0, <2>1, <2>2, PhaseFrame
<1>11. ASSUME UNCHANGED vars
      PROVE  PhaseInv'
  BY <1>0, <1>11, <1>a, PhaseFrame DEF vars, repairVars, codeVars
<1>. QED
  BY <1>1, <1>2, <1>3, <1>4, <1>5, <1>6, <1>7, <1>8, <1>9, <1>10, <1>11
  DEF Next, Repair, ProxyCall, Receive, Thread, Finished, IONext

-----------------------------------------------------------------------------
(* A repair no other runs beside adds up its own parts.                    *)

Active(o)  == pc[o] = "running" /\ ~AllJoined(o)
PartOf(c)  == c[2] \in Helpers(c[1]) /\ proxy[c] = "done"
Waiters(o) == \A c \in waiting : Dest[c[1]] = Dest[o] => c[1] = o

\* a part is sent once and taken once, by a proxy of its destination; a
\* destination goes on with as many parts as the repair has helpers
PartsApart ==
  /\ \A c \in waiting : PartOf(c)
  /\ \A o \in Repairs : \A c \in taken[o] :
       /\ PartOf(c) /\ Dest[c[1]] = Dest[o] /\ c \notin waiting
       /\ \A p \in Repairs \ {o} : c \notin taken[p]
  /\ \A o \in Repairs :
       /\ ~Sent(o, Dest[o]) => taken[o] = {}
       /\ proxy[Call(o, Dest[o])] \in {"saving", "done"} =>
            Cardinality(taken[o]) = CrossRackNum(o)

\* beside a repair that runs alone nothing waits at its destination
AloneRuns ==
  \A o \in alone : Active(o) =>
    /\ \A p \in Repairs \ {o} : ~Active(p)
    /\ Waiters(o)

PartsInv == PhaseInv /\ PartsApart /\ AloneRuns /\ OwnParts

\* An injection is one to one.
LEMMA Injective ==
  ASSUME NEW S, NEW T, NEW f \in Injection(S, T), NEW x \in S, NEW y \in S, f[x] = f[y]
  PROVE  x = y
BY DEF Injection, IsInjective

(* When all repairs have joined no part is left: the destinations have     *)
(* taken as many as there were, whichever they took.                       *)
LEMMA NoneLeft ==
  ASSUME PhaseInv, PartsApart, \A p \in Repairs : Began(p) => AllJoined(p)
  PROVE  waiting = {}
<1> DEFINE Sents == {c \in Calls : Began(c[1]) /\ c[2] \in Helpers(c[1])}
           pair(p) == CHOOSE f : f \in Bijection(Helpers(p), taken[p])
           F == [c \in Sents |-> pair(c[1])[c[2]]]
<1>0. waiting \subseteq Calls /\ \A p \in Repairs : taken[p] \subseteq Calls
  BY DEF PhaseInv, TypedIO, TypeOK
<1>1. \A c \in Calls : PartOf(c) => c \in Sents
  BY CallShape DEF PartOf, PhaseInv, Phased, Began
<1>2. ASSUME NEW p \in Repairs, Began(p)
      PROVE  pair(p) \in Bijection(Helpers(p), taken[p])
  <2>1. Cardinality(taken[p]) = CrossRackNum(p)
    BY <1>2, CallShape DEF PartsApart, AllJoined
  <2>2. IsFiniteSet(taken[p]) /\ IsFiniteSet(Helpers(p))
        /\ Cardinality(taken[p]) = Cardinality(Helpers(p))
    BY <2>1, Finite DEF PhaseInv, TypedIO
  <2>3. ExistsBijection(Helpers(p), taken[p])
    BY <2>2, FS_SameCardinalityBij
  <2>. QED
    BY <2>3 DEF ExistsBijection
<1>3. ASSUME NEW c \in Sents
      PROVE  /\ c[1] \in Repairs /\ F[c] \in taken[c[1]] /\ F[c] \in Sents
             /\ pair(c[1]) \in Injection(Helpers(c[1]), taken[c[1]])
  <2>1. c[1] \in Repairs /\ pair(c[1]) \in Bijection(Helpers(c[1]), taken[c[1]])
    BY <1>2, CallShape
  <2>2. F[c] \in taken[c[1]]
    BY <2>1 DEF Bijection, Injection
  <2>3. F[c] \in Sents
    BY <1>0, <1>1, <2>1, <2>2 DEF PartsApart
  <2>. QED
    BY <2>1, <2>2, <2>3 DEF Bijection
<1>4. F \in Injection(Sents, Sents)
  <2>1. ASSUME NEW c \in Sents, NEW d \in Sents, F[c] = F[d]
        PROVE  c = d
    <3>1. c[1] = d[1]
      BY <1>3, <2>1 DEF PartsApart
    <3>2. pair(c[1])[c[2]] = pair(c[1])[d[2]] /\ c[2] \in Helpers(c[1]) /\ d[2] \in Helpers(c[1])
      BY <2>1, <3>1
    <3>3. c[2] = d[2]
      <4>1. pair(c[1]) \in Injection(Helpers(c[1]), taken[c[1]])
        BY <1>3
      <4> HIDE DEF pair
      <4>. QED
        BY <3>2, <4>1, Injective
    <3>. QED
      BY <3>1, <3>3, CallShape
  <2>2. F \in [Sents -> Sents]
    BY <1>3
  <2> HIDE DEF F
  <2>. QED
    BY <2>1, <2>2 DEF Injection, IsInjective
<1>5. F \in Surjection(Sents, Sents)
  BY <1>4, Finite, FS_Subset, FS_Injection
<1>6. ASSUME NEW w \in waiting
      PROVE  FALSE
  <2>1. w \in Sents
    BY <1>0, <1>1 DEF PartsApart
  <2>2. PICK c \in Sents : F[c] = w
    BY <1>5, <2>1 DEF Surjection
  <2>. QED
    BY <1>3, <2>2 DEF PartsApart
<1>. QED
  BY <1>6

\* all own parts are there when the destination has taken enough
LEMMA CollectedAll ==
  ASSUME PhaseInv, PartsApart, NEW o \in Repairs, \A c \in taken[o] : c[1] = o,
         Cardinality(taken[o]) = CrossRackNum(o)
  PROVE  taken[o] = {Call(o, cl) : cl \in Helpers(o)}
<1> DEFINE Own == {Call(o, cl) : cl \in Helpers(o)}
           call_of == [cl \in Helpers(o) |-> Call(o, cl)]
<1>1. taken[o] \subseteq Own
  BY CallShape DEF PartsApart, PartOf, PhaseInv, TypedIO, TypeOK
<1>2. call_of \in Surjection(Helpers(o), Own)
  BY DEF Surjection
<1>3. IsFiniteSet(Own) /\ Cardinality(Own) <= Cardinality(Helpers(o))
  BY <1>2, Finite, FS_Surjection
<1>4. Cardinality(taken[o]) <= Cardinality(Own)
      /\ (Cardinality(Own) = Cardinality(taken[o]) => Own = taken[o])
  BY <1>1, <1>3, FS_Subset
<1>5. Cardinality(Own) \in Nat
  BY <1>3, FS_CardinalityType
<1>. QED
  BY <1>3, <1>4, <1>5, Finite

\* a repair is active from the moment it is asked for, and only then
LEMMA ActiveBefore ==
  ASSUME PhaseInv, [Next]_vars, NEW o \in Repairs, Active(o)'
  PROVE  Active(o) \/ (AskRepair(o) /\ ~Began(o))
<1> USE CallShape DEF PhaseInv, TypedIO, TypeOK, Active, AllJoined
<1>1. CASE UNCHANGED <<pc, proxy>>
  BY <1>1
<1>2. ASSUME NEW p \in Repairs, AskRepair(p)
      PROVE  Active(o) \/ (AskRepair(o) /\ ~Began(o))
  BY ZenonT(30), <1>2 DEF AskRepair
<1>3. ASSUME NEW p \in Repairs, ReturnRepairs(p)
      PROVE  Active(o) \/ (AskRepair(o) /\ ~Began(o))
  BY <1>3 DEF ReturnRepairs
<1>4. ASSUME NEW p \in Repairs, NEW cl \in Asked(p),
             CallProxy(p, cl) \/ SendPart(p, cl) \/ (cl = Dest[p] /\ DecodeOwn(p))
             \/ SendToNode(p) \/ Saved(p) \/ SendToClient(p)
      PROVE  Active(o) \/ (AskRepair(o) /\ ~Began(o))
  <2>1. pc' = pc /\ \A c \in Calls : proxy[c] = "done" => proxy'[c] = "done"
    BY <1>4 DEF CallProxy, SendPart, DecodeOwn, SendToNode, Saved, SendToClient, Collected
  <2>. QED
    BY <2>1
<1>. QED
  BY <1>1, <1>2, <1>3, <1>4
  DEF Next, Repair, ProxyCall, Receive, ReceiveBlock, TakePart, Thread, StartReader,
      Finished, vars, repairVars, codeVars

\* A repair that another ran beside is never again one that ran alone.
LEMMA AloneBefore ==
  ASSUME [Next]_vars
  PROVE  alone' \subseteq alone
BY DEF Next, Repair, ProxyCall, Receive, Thread, Finished, vars, repairVars, codeVars,
       AskRepair, ReturnRepairs, ReceiveBlock, CallProxy, SendPart, DecodeOwn, TakePart,
       SendToClient, SendToNode, Saved, StartReader

\* a repair that begins alone begins after all others have joined
LEMMA BeginsAlone ==
  ASSUME PhaseInv, NEW q \in Repairs, AskRepair(q), NEW o \in alone', Active(o)'
  PROVE  o = q /\ ~Began(q) /\ \A p \in Repairs : Began(p) => AllJoined(p)
<1> DEFINE others == {p \in Repairs : pc[p] = "running" /\ ~AllJoined(p)}
<1>0. o \in Repairs /\ ~Began(q)
  BY AloneBefore DEF PhaseInv, TypedIO, TypeOK, AskRepair
<1>1. Active(o) \/ o = q
  BY <1>0 DEF PhaseInv, TypedIO, TypeOK, AskRepair, Active, AllJoined
<1>2. others = {}
  BY <1>0, <1>1 DEF AskRepair, Active
<1>3. \A p \in Repairs : Began(p) => AllJoined(p)
  BY <1>2 DEF PhaseInv, Phased, TypedIO, TypeOK, Began
<1>4. ~Active(o)
  BY <1>0, <1>2 DEF Active
<1>. QED
  BY <1>0, <1>1, <1>3, <1>4

\* No part of a repair waits at the start.
LEMMA InitParts ==
  ASSUME Init
  PROVE  PartsInv
<1>1. PartsApart
  BY CallShape DEF Init, PartsApart
<1>2. AloneRuns /\ OwnParts
  BY DEF Init, AloneRuns, Active, OwnParts
<1>. QED
  BY <1>1, <1>2, InitPhase DEF PartsInv

\* A destination of a repair that runs alone takes the parts of its own helpers.
LEMMA StepParts ==
  ASSUME PartsInv, [Next]_vars
  PROVE  PartsInv'
<1>0. PhaseInv /\ PhaseInv' /\ alone' \subseteq alone
  BY StepPhase, AloneBefore DEF PartsInv
<1> USE CallShape DEF PartsInv
<1>a. \A c \in waiting : c \in Calls
  BY <1>0 DEF PhaseInv, TypedIO, TypeOK
<1>b. \A o \in Repairs : \A c \in taken[o] : c \in Calls
  BY <1>0 DEF PhaseInv, TypedIO, TypeOK
<1>c. ASSUME waiting' \subseteq waiting, \A o \in Repairs : ~AskRepair(o) \/ Began(o)
      PROVE  AloneRuns'
  BY <1>0, <1>c, ActiveBefore DEF AloneRuns, Waiters, PhaseInv, TypedIO, TypeOK
<1>d. ASSUME taken' = taken
      PROVE  OwnParts'
  BY <1>0, <1>d DEF OwnParts
<1>1. ASSUME NEW q \in Repairs, AskRepair(q)
      PROVE  PartsInv'
  <2>1. UNCHANGED <<proxy, waiting, taken>>
    BY <1>1 DEF AskRepair
  <2>2. PartsApart'
    BY <2>1 DEF PartsApart, PartOf, Sent
  <2>3. AloneRuns'
    <3> SUFFICES ASSUME NEW o \in alone', Active(o)'
                 PROVE  (\A p \in Repairs \ {o} : ~Active(p)') /\ waiting = {}
      BY <2>1 DEF AloneRuns, Waiters
    <3>1. o = q /\ ~Began(q) /\ \A p \in Repairs : Began(p) => AllJoined(p)
      BY <1>0, <1>1, BeginsAlone
    <3>2. waiting = {}
      BY <1>0, <3>1, NoneLeft
    <3>3. \A p \in Repairs \ {o} : ~Active(p)'
      BY <1>1, <2>1, <3>1 DEF AskRepair, Active, AllJoined, Began, PhaseInv, TypedIO, TypeOK
    <3>. QED
      BY <3>2, <3>3
  <2>. QED
    BY <1>0, <1>d, <2>1, <2>2, <2>3
<1>2. ASSUME UNCHANGED <<pc, proxy, waiting, taken, alone>>
      PROVE  PartsInv'
  BY <1>0, <1>2
  DEF PartsApart, PartOf, Sent, AloneRuns, Waiters, OwnParts, Active, AllJoined
<1>3. ASSUME NEW o \in Repairs, ReturnRepairs(o)
      PROVE  PartsInv'
  <2>1. UNCHANGED <<proxy, waiting, taken>> /\ \A p \in Repairs : Active(p)' => Active(p)
    BY <1>3 DEF ReturnRepairs, Active, AllJoined
  <2>. QED
    BY <1>0, <1>d, <2>1 DEF PartsApart, PartOf, Sent, AloneRuns, Waiters, PhaseInv, TypedIO, TypeOK
<1>4. ASSUME NEW o \in Repairs, NEW cl \in Asked(o),
             CallProxy(o, cl) \/ (cl = Dest[o] /\ DecodeOwn(o))
             \/ (cl = Dest[o] /\ (SendToNode(o) \/ Saved(o) \/ SendToClient(o)))
      PROVE  PartsInv'
  <2> DEFINE c == Call(o, cl)
  <2>1. /\ UNCHANGED <<pc, waiting, taken>> /\ c \in Calls
        /\ \E s \in {"reading", "collecting", "saving", "done"} :
             proxy' = [proxy EXCEPT ![c] = s]
        /\ proxy[c] # "done"
    BY <1>4 DEF CallProxy, DecodeOwn, SendToNode, Saved, SendToClient, Collected
  <2>2. \A d \in Calls : d # c => proxy'[d] = proxy[d]
    BY <2>1
  <2>3. \A d \in Calls : PartOf(d) => PartOf(d)'
    BY <2>1, <2>2 DEF PartOf
  <2>4. ASSUME NEW p \in Repairs
        PROVE  /\ ~Sent(p, Dest[p])' => taken[p] = {}
               /\ proxy'[Call(p, Dest[p])] \in {"saving", "done"} =>
                    Cardinality(taken[p]) = CrossRackNum(p)
    <3>1. CASE Call(p, Dest[p]) # c
      BY <2>2, <3>1 DEF PartsApart, Sent
    <3>2. CASE Call(p, Dest[p]) = c
      <4>1. p = o /\ cl = Dest[o]
        BY <3>2
      <4>2. CASE CallProxy(o, cl)
        BY <1>0, <4>1, <4>2 DEF CallProxy, PartsApart, Sent, PhaseInv, TypedIO, TypeOK
      <4>3. CASE DecodeOwn(o)
        BY <1>0, <4>1, <4>3 DEF DecodeOwn, PartsApart, Sent, PhaseInv, TypedIO, TypeOK
      <4>4. CASE SendToNode(o) \/ SendToClient(o)
        BY <1>0, <4>1, <4>4
        DEF SendToNode, SendToClient, Collected, PartsApart, Sent, PhaseInv, TypedIO, TypeOK
      <4>5. CASE Saved(o)
        BY <1>0, <4>1, <4>5 DEF Saved, PartsApart, Sent, PhaseInv, TypedIO, TypeOK
      <4>. QED
        BY <1>4, <4>2, <4>3, <4>4, <4>5
    <3>. QED
      BY <3>1, <3>2
  <2>5. PartsApart'
    BY <1>a, <1>b, <2>1, <2>3, <2>4 DEF PartsApart
  <2>6. AloneRuns'
    BY <1>c, <1>0, <2>1 DEF AskRepair, Began, PhaseInv, TypedIO, TypeOK
  <2>. QED
    BY <1>0, <1>d, <2>1, <2>5, <2>6
<1>5. ASSUME NEW o \in Repairs, NEW cl \in Asked(o), SendPart(o, cl)
      PROVE  PartsInv'
  <2> DEFINE c == Call(o, cl)
  <2>1. /\ UNCHANGED <<pc, taken, alone>> /\ waiting' = waiting \union {c} /\ c \in Calls
        /\ proxy' = [proxy EXCEPT ![c] = "done"] /\ proxy[c] = "reading"
        /\ cl \in Helpers(o)
    BY <1>5 DEF SendPart
  <2>2. /\ \A d \in Calls : d # c => proxy'[d] = proxy[d]
        /\ proxy'[c] = "done"
    BY <1>0, <2>1 DEF PhaseInv, TypedIO, TypeOK
  <2>3. PartsApart'
    <3>1. \A d \in Calls : PartOf(d) => PartOf(d)' /\ d # c
      BY <2>1, <2>2 DEF PartOf
    <3>2. PartOf(c)'
      BY <2>1, <2>2 DEF PartOf
    <3>3. \A p \in Repairs : Call(p, Dest[p]) # c
      BY <2>1
    <3>4. \A p \in Repairs : proxy'[Call(p, Dest[p])] = proxy[Call(p, Dest[p])]
      BY <2>2, <3>3
    <3>. QED
      BY <1>a, <1>b, <2>1, <3>1, <3>2, <3>4 DEF PartsApart, Sent
  <2>4. AloneRuns'
    <3> SUFFICES ASSUME NEW q \in alone, Active(q)'
                 PROVE  (\A p \in Repairs \ {q} : ~Active(p)') /\ Waiters(q)'
      BY <2>1 DEF AloneRuns
    <3>1. \A p \in Repairs : Active(p)' => Active(p)
      BY <1>0, <2>1, ActiveBefore DEF AskRepair, Began, PhaseInv, TypedIO, TypeOK
    <3>2. Active(q) /\ q \in Repairs
      BY <1>0, <3>1 DEF PhaseInv, TypedIO, TypeOK
    <3>3. Active(o)
      BY <1>0, <2>1, Running DEF Active
    <3>4. o = q
      BY <3>2, <3>3 DEF AloneRuns
    <3>. QED
      BY <2>1, <3>1, <3>2, <3>4 DEF AloneRuns, Waiters
  <2>. QED
    BY <1>0, <1>d, <2>1, <2>3, <2>4
<1>6. ASSUME NEW o \in Repairs, NEW c \in waiting, TakePart(o, c)
      PROVE  PartsInv'
  <2>1. /\ UNCHANGED <<pc, proxy, alone>> /\ waiting' = waiting \ {c}
        /\ taken' = [taken EXCEPT ![o] = taken[o] \union {c}]
        /\ proxy[Call(o, Dest[o])] = "collecting" /\ Dest[c[1]] = Dest[o]
    BY <1>6 DEF TakePart
  <2>2. \A p \in Repairs : taken'[p] = IF p = o THEN taken[o] \union {c} ELSE taken[p]
    BY <1>0, <2>1 DEF PhaseInv, TypedIO, TypeOK
  <2>3. PartsApart'
    BY <2>1, <2>2 DEF PartsApart, PartOf, Sent
  <2>4. OwnParts'
    <3>1. Active(o)
      BY <1>0, <2>1, Running DEF Active
    <3>2. o \in alone => c[1] = o
      BY <2>1, <3>1 DEF AloneRuns, Waiters
    <3>. QED
      BY <1>0, <2>1, <2>2, <3>2 DEF OwnParts, PhaseInv, TypedIO, TypeOK
  <2>5. AloneRuns'
    BY <2>1 DEF AloneRuns, Waiters, Active, AllJoined
  <2>. QED
    BY <1>0, <2>3, <2>4, <2>5
<1>. QED
  BY <1>1, <1>2, <1>3, <1>4, <1>5, <1>6
  DEF Next, Repair, ProxyCall, Receive, ReceiveBlock, Thread, StartReader, Finished, vars,
      repairVars, codeVars

(* The connections to a destination name no repair, and yet a repair no    *)
(* other runs beside adds up its own parts: those of the repairs before it *)
(* are all taken when it begins.                                           *)
THEOREM OwnPartsHolds == Spec => []OwnParts
<1>1. PartsInv => OwnParts
  BY DEF PartsInv
<1>. QED
  BY <1>1, InitParts, StepParts, PTL DEF Spec

-----------------------------------------------------------------------------
(* The client of a degraded read.                                          *)

\* a connection to a client is of a degraded read that runs and has nothing yet,
\* and the only one of it; a client runs one call at a time
ClientTurn ==
  /\ \A c \in toClient :
       /\ c[1] \in Degraded /\ pc[c[1]] = "running" /\ got[c[1]] = None
       /\ proxy[Call(c[1], Dest[c[1]])] = "done"
  /\ \A c, d \in toClient : c[1] = d[1] => c = d
  /\ \A o \in Repairs : got[o] # None => proxy[Call(o, Dest[o])] = "done"
  /\ \A o \in Degraded : pc[o] = "returned" => got[o] # None
  /\ \A o, p \in Repairs :
       pc[o] = "running" /\ pc[p] = "running" /\ ClientOf[o] = ClientOf[p] =>
         CallOf(o) = CallOf(p)

\* A repair is a call of its own, or one of a batch that is one call of its client.
LEMMA CallShapes ==
  /\ \A o \in Repairs : o \in CallOf(o) /\ CallOf(o) \subseteq Repairs
  /\ \A o \in Repairs : \A p \in CallOf(o) : CallOf(p) = CallOf(o)
  /\ \A o \in Repairs \ Batch : CallOf(o) = {o}
BY RepairsAssumption DEF CallOf

\* what a client receives was sent by the repair it asked for
LEMMA OwnConnection ==
  ASSUME PhaseInv, ClientTurn, NEW o \in Repairs, NEW c \in toClient, ReceiveBlock(o, c)
  PROVE  c[1] = o
<1>1. c[1] \in Repairs /\ pc[c[1]] = "running"
  BY RepairsAssumption DEF ClientTurn
<1>2. CASE o \in Batch
  BY <1>2 DEF ReceiveBlock, BroughtFor
<1>3. CASE o \notin Batch
  <2>1. pc[o] = "running" /\ ClientOf[c[1]] = ClientOf[o]
    BY <1>3, CallShapes DEF ReceiveBlock, BroughtFor
  <2>2. CallOf(c[1]) = {o}
    BY <1>1, <1>3, <2>1, CallShapes DEF ClientTurn
  <2>. QED
    BY <1>1, <2>2, CallShapes
<1>. QED
  BY <1>2, <1>3

\* No client has a connection before its first call.
LEMMA InitClient ==
  ASSUME Init
  PROVE  ClientTurn
BY RepairsAssumption DEF Init, ClientTurn

\* A client runs one call at a time, and a degraded read ends with its connection.
LEMMA StepClient ==
  ASSUME PhaseInv, ClientTurn, [Next]_vars
  PROVE  ClientTurn'
<1> USE CallShape DEF ClientTurn
<1>0. TypeOK /\ Degraded \subseteq Repairs /\ \A c \in toClient : c[1] \in Repairs
  BY RepairsAssumption DEF PhaseInv, TypedIO
<1>. USE DEF TypeOK
<1>1. ASSUME NEW o \in Repairs, AskRepair(o)
      PROVE  ClientTurn'
  <2>1. UNCHANGED <<proxy, toClient, got>> /\ pc' = [pc EXCEPT ![o] = "running"] /\ pc[o] = "idle"
        /\ \A p \in Repairs \ CallOf(o) : ClientOf[p] = ClientOf[o] => pc[p] # "running"
    BY <1>1 DEF AskRepair, Began
  <2>2. \A p \in Repairs : pc'[p] = IF p = o THEN "running" ELSE pc[p]
    BY <1>0, <2>1
  <2>3. \A p \in Repairs : pc'[p] = "running" /\ ClientOf[p] = ClientOf[o] => CallOf(p) = CallOf(o)
    BY <2>1, <2>2, CallShapes
  <2>. QED
    BY <1>0, <2>1, <2>2, <2>3
<1>2. ASSUME NEW o \in Repairs, ReturnRepairs(o)
      PROVE  ClientTurn'
  <2>1. /\ UNCHANGED <<proxy, toClient, got>>
        /\ \A p \in Repairs : pc'[p] = IF p \in CallOf(o) THEN "returned" ELSE pc[p]
        /\ \A p \in CallOf(o) : p \in Degraded => got[p] # None
    BY <1>2 DEF ReturnRepairs
  <2>. QED
    BY <1>0, <2>1
<1>3. ASSUME NEW o \in Repairs, NEW c \in toClient, ReceiveBlock(o, c)
      PROVE  ClientTurn'
  <2>1. c[1] = o
    BY <1>3, OwnConnection
  <2>2. /\ UNCHANGED <<pc, proxy>> /\ toClient' = toClient \ {c}
        /\ got' = [got EXCEPT ![o] = c[2]]
    BY <1>3 DEF ReceiveBlock
  <2>3. c[2] # None
    BY <1>0, TransfersAssumption
  <2>4. \A p \in Repairs : got'[p] = IF p = o THEN c[2] ELSE got[p]
    BY <1>0, <2>2
  <2>. QED
    BY <1>0, <2>1, <2>2, <2>3, <2>4
<1>4. ASSUME NEW o \in Repairs, SendToClient(o)
      PROVE  ClientTurn'
  <2>1. /\ UNCHANGED <<pc, got>> /\ toClient' = toClient \union {<<o, Rebuilt(o)>>}
        /\ proxy' = [proxy EXCEPT ![Call(o, Dest[o])] = "done"]
        /\ proxy[Call(o, Dest[o])] = "collecting" /\ o \in Degraded
    BY <1>4 DEF SendToClient, Collected
  <2>2. pc[o] = "running"
    BY <2>1, Running
  <2>3. \A p \in Repairs : /\ proxy[Call(p, Dest[p])] = "done" => proxy'[Call(p, Dest[p])] = "done"
    BY <1>0, <2>1
  <2>4. proxy'[Call(o, Dest[o])] = "done"
    BY <1>0, <2>1
  <2>5. got[o] = None /\ \A c \in toClient : c[1] # o
    BY <2>1
  <2>. QED
    BY <1>0, <2>1, <2>2, <2>3, <2>4, <2>5
<1>5. ASSUME UNCHANGED <<pc, toClient, got>>,
             \A p \in Repairs : proxy[Call(p, Dest[p])] = "done" => proxy'[Call(p, Dest[p])] = "done"
      PROVE  ClientTurn'
  BY <1>0, <1>5
<1>6. ASSUME NEW o \in Repairs, NEW cl \in Asked(o),
             CallProxy(o, cl) \/ SendPart(o, cl) \/ (cl = Dest[o] /\ DecodeOwn(o))
             \/ SendToNode(o) \/ Saved(o)
      PROVE  ClientTurn'
  <2>1. UNCHANGED <<pc, toClient, got>>
    BY <1>6 DEF CallProxy, SendPart, DecodeOwn, SendToNode, Saved
  <2>2. \A c \in Calls : proxy[c] = "done" => proxy'[c] = "done"
    BY <1>0, <1>6 DEF CallProxy, SendPart, DecodeOwn, SendToNode, Saved, Collected
  <2>. QED
    BY <1>5, <2>1, <2>2
<1>7. CASE UNCHANGED <<pc, proxy, toClient, got>>
  BY <1>5, <1>7
<1>. QED
  BY <1>1, <1>2, <1>3, <1>4, <1>6, <1>7
  DEF Next, Repair, ProxyCall, Receive, TakePart, Thread, StartReader, Finished, vars,
      repairVars, codeVars

-----------------------------------------------------------------------------
(* A repair alone meets its own connections at the datanodes.              *)

\* what other repairs left at the nodes that are up has ended; the transfers of
\* the repair meet their own handlers
Apart(o) ==
  \A t \in Transfers : Begun(t) /\ at[t] \notin down =>
    IF request(t) = o
    THEN handler[t] \in {"serving", "done"} => met[t] = t
    ELSE /\ call[t] = "done" /\ handler[t] = "done"
         /\ t \notin backlog /\ request(met[t]) # o

AloneApart == \A o \in alone : Active(o) => Apart(o)

\* a repair has one transfer to a node
LEMMA OwnNodes ==
  ASSUME PhaseInv, NEW t \in Transfers, NEW u \in Transfers, request(t) = request(u),
         Begun(t), Begun(u), at[t] = at[u]
  PROVE  t = u
<1> DEFINE o == request(t)
<1>1. o \in Repairs /\ block(t) \in Blocks /\ block(u) \in Blocks
  BY TransferShape
<1>2. ASSUME NEW x \in Transfers, NEW y \in Transfers, request(x) = o, request(y) = o,
             Begun(x), Begun(y), at[x] = at[y], kind(x) = "recover", kind(y) = "get"
      PROVE  FALSE
  <2>1. at[x] = replacement[o] /\ at[y] = map2node[block(y)] /\ block(y) \in SourcesOf(o)
    BY <1>2, TransferShape DEF PhaseInv, Reached
  <2>2. replacement[o] # None
    BY <2>1, <1>2, TransferShape, TransfersAssumption DEF PhaseInv, TypedIO, IOInv, NotBegun, Begun
  <2>3. replacement[o] \in Spare[o]
    BY <1>1, <2>2 DEF PhaseInv, TypedIO, Replaced
  <2>4. map2node[block(y)] \notin Spare[o]
    BY <1>1, <2>1, NodesAssumption
  <2>. QED
    BY <1>2, <2>1, <2>3, <2>4
<1>3. CASE kind(t) = "get" /\ kind(u) = "get"
  <2>1. block(t) \in SourcesOf(o) /\ block(u) \in SourcesOf(o)
        /\ map2node[block(t)] = map2node[block(u)]
    BY <1>3, TransferShape DEF PhaseInv, Reached
  <2>2. block(t) = block(u)
    BY <1>1, <2>1, NodesAssumption
  <2>. QED
    BY <1>3, <2>2, TransferShape
<1>4. CASE kind(t) = "recover" /\ kind(u) = "recover"
  BY <1>4, TransferShape
<1>. QED
  BY <1>2, <1>3, <1>4, TransferShape

ApartInv == PartsInv /\ AloneApart

\* A transfer of a repair that runs alone meets its own handler, as those who came
\* before left none at the nodes that are up.
LEMMA StepApart ==
  ASSUME ApartInv, [Next]_vars
  PROVE  AloneApart'
<1>0. PhaseInv /\ PartsInv /\ PartsInv' /\ alone' \subseteq alone /\ alone \subseteq Repairs
      /\ IOInv /\ IOTypeOK /\ Served
  BY StepParts, AloneBefore DEF ApartInv, PartsInv, PhaseInv, TypedIO, TypeOK, IOInv
<1> USE DEF ApartInv
<1>1. ASSUME NEW q \in Repairs, AskRepair(q)
      PROVE  AloneApart'
  <2> SUFFICES ASSUME NEW o \in alone', Active(o)'
               PROVE  Apart(o)'
    BY DEF AloneApart
  <2>1. o = q /\ ~Began(o) /\ \A p \in Repairs : Began(p) => AllJoined(p)
    BY <1>0, <1>1, BeginsAlone
  <2>2. UNCHANGED ioVars
    BY <1>1 DEF AskRepair
  <2>3. \A t \in Transfers : Begun(t) => call[t] = "done" /\ Began(request(t)) /\ at[t] \in Nodes
    BY <1>0, <2>1, Ended, TransferShape
    DEF PhaseInv, Reached, IOInv, NotBegun, Begun
  <2>4. Apart(o)
    <3> SUFFICES ASSUME NEW t \in Transfers, Begun(t), at[t] \notin down
                 PROVE  /\ request(t) # o
                        /\ call[t] = "done" /\ handler[t] = "done"
                        /\ t \notin backlog /\ request(met[t]) # o
      BY DEF Apart
    <3>1. \A u \in Transfers : at[u] = at[t] =>
            call[u] = "done" /\ kind(u) \in {"get", "recover"}
      BY <1>0, <2>3, TransferShape, TransfersAssumption DEF IOInv, NotBegun, Begun
    <3>2. \A u \in Transfers : at[u] = at[t] =>
            /\ handler[u] = "done"
            /\ \E h \in Transfers : at[h] = at[t] /\ handler[h] = "done" /\ met[h] = u
      BY <1>0, <2>3, <3>1, QuietNode, Finite
    <3>3. handler[t] = "done" /\ t \notin backlog
      BY <1>0, <3>2 DEF IOInv, Paired
    <3>4. met[t] \in Transfers /\ Begun(met[t])
      BY <1>0, <3>3 DEF IOInv, Paired, Begun
    <3>. QED
      BY <2>1, <2>3, <3>3, <3>4
  <2>. QED
    BY <2>2, <2>4 DEF Apart, ioVars, Begun
<1>2. ASSUME UNCHANGED ioVars, \A q \in Repairs : ~AskRepair(q)
      PROVE  AloneApart'
  <2>1. \A o \in alone' : Active(o)' => Apart(o)
    BY <1>0, <1>2, ActiveBefore DEF AloneApart
  <2>. QED
    BY <1>2, <2>1 DEF AloneApart, Apart, ioVars, Begun
<1>3. ASSUME NEW t \in Transfers, NEW n \in Nodes, NEW bytes \in Content, StartTransfer(t, n, bytes),
             Active(request(t)), \A q \in Repairs : ~AskRepair(q)
      PROVE  AloneApart'
  <2> SUFFICES ASSUME NEW o \in alone', Active(o)'
               PROVE  Apart(o)'
    BY DEF AloneApart
  <2>1. Active(o) /\ o \in alone /\ o \in Repairs
    BY <1>0, <1>3, ActiveBefore
  <2>2. request(t) = o
    BY <1>3, <2>1, TransferShape DEF PartsInv, AloneRuns
  <2>3. Apart(o)
    BY <2>1 DEF AloneApart
  <2>4. handler[t] = "none" /\ call[t] = "none"
    BY <1>0, <1>3 DEF StartTransfer, IOInv, NotBegun
  <2>. QED
    BY <1>0, <1>3, <2>2, <2>3, <2>4 DEF StartTransfer, Apart, Begun, IOTypeOK
<1>4. ASSUME IONext, UNCHANGED repairVars
      PROVE  AloneApart'
  <2> SUFFICES ASSUME NEW o \in alone, Active(o), NEW t \in Transfers,
                      Begun(t)', at'[t] \notin down'
               PROVE  IF request(t) = o
                      THEN handler'[t] \in {"serving", "done"} => met'[t] = t
                      ELSE /\ call'[t] = "done" /\ handler'[t] = "done"
                           /\ t \notin backlog' /\ request(met'[t]) # o
    BY <1>4 DEF AloneApart, Apart, Active, AllJoined, repairVars, codeVars
  <2>1. Apart(o)
    BY DEF AloneApart
  <2>2. Begun(t) /\ at'[t] = at[t] /\ at[t] \notin down
    BY <1>0, <1>4, IOFrame DEF Begun
  <2>3. CASE request(t) # o
    BY <1>0, <1>4, <2>1, <2>2, <2>3, IOEnded, IOMeets DEF Apart
  <2>4. CASE request(t) = o
    <3>1. CASE handler[t] \in {"serving", "done"} /\ met'[t] = met[t]
      BY <2>1, <2>2, <2>4, <3>1 DEF Apart
    <3>2. ASSUME NEW c \in backlog, at[c] = at[t], met'[t] = c
          PROVE  met'[t] = t
      <4>1. c \in Transfers /\ Begun(c)
        BY <1>0 DEF IOInv, IOTypeOK, NotBegun, Begun
      <4>2. request(c) = o
        BY <2>1, <2>2, <3>2, <4>1 DEF Apart
      <4>. QED
        BY <1>0, <2>2, <2>4, <3>2, <4>1, <4>2, OwnNodes
    <3>. QED
      BY <1>0, <1>4, <2>4, <3>1, <3>2, IOMeets
  <2>. QED
    BY <2>3, <2>4
<1>5. ASSUME NEW t \in Transfers, StartReader(t)
      PROVE  AloneApart'
  <2>1. request(t) \in Repairs /\ map2node[block(t)] \in Nodes /\ Garbage \in Content
    BY TransferShape, RepairsAssumption DEF Content
  <2>2. Active(request(t))
    BY <1>0, <1>5, <2>1, Running DEF StartReader, Active
  <2>3. \A q \in Repairs : ~AskRepair(q)
    BY <1>0, <1>5 DEF StartReader, AskRepair, Began, repairVars, codeVars, PhaseInv, TypedIO, TypeOK
  <2>. QED
    BY <1>3, <1>5, <2>1, <2>2, <2>3 DEF StartReader
<1>6. ASSUME NEW o \in Repairs, SendToNode(o)
      PROVE  AloneApart'
  <2>1. Save(o) \in Transfers /\ request(Save(o)) = o /\ Rebuilt(o) \in Content
    BY <1>6, TransferShape, RepairsAssumption DEF SendToNode, Rebuilt, Content
  <2>2. Active(o) /\ replacement[o] \in Nodes
    BY <1>0, <1>6, CallShape, Running
    DEF SendToNode, Collected, Active, PhaseInv, TypedIO, Replaced, TypeOK
  <2>3. \A q \in Repairs : ~AskRepair(q)
    BY <1>0, <1>6 DEF SendToNode, AskRepair, Began, PhaseInv, TypedIO, TypeOK
  <2>. QED
    BY <1>3, <1>6, <2>1, <2>2, <2>3 DEF SendToNode
<1>. QED
  BY <1>1, <1>2, <1>4, <1>5, <1>6
  DEF Next, Repair, ProxyCall, Receive, ReturnRepairs, ReceiveBlock, CallProxy, SendPart,
      DecodeOwn, TakePart, SendToClient, Saved, Thread, IONext, Finished, vars

-----------------------------------------------------------------------------
(* What a repair alone reads, adds up and writes.                          *)

\* a stripe's files are as they were written, for a repair writes elsewhere; a
\* handler reads the file of its block
FilesRight ==
  /\ \A b \in Blocks : file[map2node[b]][b] = IF b \in Missing THEN None ELSE b
  /\ \A t \in Transfers :
       kind(t) = "get" /\ handler[t] # "none" /\ block(t) \notin Missing => page[t] = block(t)

\* The files of a stripe are written before its repair.
LEMMA InitFiles ==
  ASSUME Init
  PROVE  FilesRight
BY RepairsAssumption DEF Init, IOInit, FilesRight

\* A repair writes to the replacement node, never to a node of the stripe.
LEMMA StepFiles ==
  ASSUME PhaseInv, FilesRight, [Next]_vars
  PROVE  FilesRight'
<1>0. IOInv /\ IOTypeOK
  BY DEF PhaseInv, TypedIO, IOInv
<1>1. CASE UNCHANGED ioVars
  BY <1>1 DEF FilesRight, ioVars
<1>2. CASE UNCHANGED <<file, handler, page>>
  BY <1>2 DEF FilesRight
<1>3. ASSUME IONext
      PROVE  FilesRight'
  <2>1. ASSUME NEW b \in Blocks
        PROVE  file'[map2node[b]][b] = file[map2node[b]][b]
    <3> SUFFICES ASSUME file'[map2node[b]][b] # file[map2node[b]][b]
                 PROVE  FALSE
      OBVIOUS
    <3>1. PICK h \in Transfers :
            handler[h] = "serving" /\ kind(h) # "get" /\ at[h] = map2node[b] /\ block(h) = b
      BY <1>0, <1>3, IOWrites, RepairsAssumption
    <3> DEFINE o == request(h)
    <3>2. o \in Repairs \ Degraded /\ Failed[o] = b /\ kind(h) = "recover"
      BY <3>1, TransferShape
    <3>3. Begun(h) /\ at[h] = replacement[o] /\ at[h] \in Nodes
      BY <1>0, <3>1, <3>2 DEF PhaseInv, Reached, Begun, IOInv, NotBegun
    <3>4. replacement[o] \in Spare[o]
      BY <3>2, <3>3, TransfersAssumption DEF PhaseInv, TypedIO, Replaced
    <3>5. map2node[Failed[o]] \notin Spare[o]
      BY <3>2, NodesAssumption
    <3>. QED
      BY <3>1, <3>2, <3>3, <3>4, <3>5
  <2>2. ASSUME NEW t \in Transfers, kind(t) = "get", handler'[t] # "none", block(t) \notin Missing
        PROVE  page'[t] = block(t)
    <3>1. CASE handler[t] # "none"
      BY <1>0, <1>3, <2>2, <3>1, IOMeets DEF FilesRight
    <3>2. CASE handler[t] = "none"
      <4>1. CallNode(t)
        BY ZenonT(30), <1>0, <1>3, <2>2, <3>2
        DEF IONext, Transfer, CallNode, Connect, FinishRepair, Accept, WriteFile, SendFile,
            CrashNode, IOTypeOK
      <4>2. at[t] = map2node[block(t)]
        BY <2>2, <4>1 DEF CallNode, PhaseInv, Reached, Begun
      <4>3. FileRead(t) = block(t)
        BY <2>2, <4>2, TransferShape, TransfersAssumption DEF FileRead, FilesRight, Content
      <4>. QED
        BY <1>0, <2>2, <4>1, <4>3 DEF CallNode, IOTypeOK
    <3>. QED
      BY <3>1, <3>2
  <2>. QED
    BY <2>1, <2>2 DEF FilesRight
<1>. QED
  BY <1>1, <1>2, <1>3
  DEF Next, Repair, ProxyCall, Receive, AskRepair, ReturnRepairs, ReceiveBlock, CallProxy,
      SendPart, DecodeOwn, TakePart, SendToNode, SendToClient, Saved, Thread, StartReader,
      StartTransfer, IONext, Finished, vars

\* what is decoded, added up, sent and received is right, when the repair has
\* run alone and the nodes it reads are up
Right ==
  \A o \in alone : SourcesUp(o) =>
    /\ \A cl \in Asked(o) : Sent(o, cl) => part[Call(o, cl)] = Call(o, cl)
    /\ o \notin Degraded /\ Begun(Save(o)) => buf[Save(o)] = Failed[o]
    /\ \A c \in toClient : c[1] = o => c[2] = Failed[o]
    /\ got[o] # None => got[o] = Failed[o]

\* a file is right when each repair that may have written it is
SavedRight ==
  \A n \in Nodes : \A b \in Blocks :
    (\A o \in Repairs : Failed[o] = b /\ replacement[o] = n => o \in alone /\ SourcesUp(o))
      => file[n][b] \in {b, None}

RepairInv == ApartInv /\ ClientTurn /\ FilesRight /\ Right /\ SavedRight

\* a read that ended has its block
LEMMA ReadRight ==
  ASSUME ApartInv, FilesRight, NEW o \in alone, Active(o), SourcesUp(o),
         NEW cl \in Asked(o), ReadersJoined(o, cl)
  PROVE  Decoded(o, cl) = Call(o, cl)
<1> SUFFICES ASSUME NEW b \in Sources[o][cl] PROVE buf[<<"get", o, b>>] = b
  BY DEF Decoded
<1> DEFINE t == <<"get", o, b>>
<1>1. o \in Repairs /\ IOInv /\ Served
  BY DEF ApartInv, PartsInv, PhaseInv, TypedIO, TypeOK
<1>2. t \in Transfers /\ request(t) = o /\ kind(t) = "get" /\ block(t) = b /\ b \in SourcesOf(o)
  BY <1>1, TransferShape
<1>3. call[t] = "done"
  BY DEF ReadersJoined
<1>4. at[t] = map2node[b] /\ at[t] \notin down /\ b \notin Missing /\ Begun(t)
  <2>1. Begun(t)
    BY <1>3 DEF Begun
  <2>2. at[t] = map2node[b]
    BY <1>2, <2>1 DEF ApartInv, PartsInv, PhaseInv, Reached
  <2>. QED
    BY <1>2, <2>1, <2>2 DEF SourcesUp
<1>5. PICK h \in Transfers : handler[h] = "done" /\ met[h] = t
  BY <1>1, <1>2, <1>3, <1>4 DEF Served
<1>6. at[h] = at[t] /\ Begun(h)
  BY <1>1, <1>5 DEF IOInv, Paired, NotBegun, Begun
<1>7. Apart(o)
  BY DEF ApartInv, AloneApart
<1>8. h = t
  BY <1>2, <1>4, <1>5, <1>6, <1>7 DEF Apart
<1>9. buf[t] = page[t]
  BY <1>1, <1>2, <1>5, <1>8 DEF Served
<1>10. page[t] = b
  BY <1>2, <1>4, <1>5, <1>8 DEF FilesRight
<1>. QED
  BY <1>9, <1>10

\* the block is rebuilt from its parts
LEMMA RebuiltRight ==
  ASSUME PartsInv, Right, NEW o \in alone, SourcesUp(o), Collected(o)
  PROVE  Rebuilt(o) = Failed[o]
<1>1. o \in Repairs /\ PhaseInv
  BY DEF PartsInv, PhaseInv, TypedIO, TypeOK
<1>2. taken[o] = {Call(o, cl) : cl \in Helpers(o)}
  BY <1>1, CollectedAll DEF PartsInv, OwnParts, Collected
<1>3. \A cl \in Asked(o) : part[Call(o, cl)] = Call(o, cl)
  <2>1. ASSUME NEW cl \in Asked(o) PROVE Sent(o, cl)
    <3>1. CASE cl = Dest[o]
      BY <3>1 DEF Collected, Sent
    <3>2. CASE cl # Dest[o]
      BY <1>1, <1>2, <3>2, CallShape DEF PartsInv, PartsApart, PartOf, Sent
    <3>. QED
      BY <3>1, <3>2
  <2>. QED
    BY <2>1 DEF Right
<1>4. Asked(o) = Helpers(o) \union {Dest[o]}
  BY <1>1, CallShape
<1>5. {part[c] : c \in taken[o]} \union {part[Call(o, Dest[o])]} = {Call(o, cl) : cl \in Asked(o)}
  <2>1. {part[c] : c \in taken[o]} = {Call(o, cl) : cl \in Helpers(o)}
    BY <1>2, <1>3, <1>4
  <2>2. part[Call(o, Dest[o])] = Call(o, Dest[o])
    BY <1>3, <1>4
  <2>. QED
    BY <1>4, <2>1, <2>2
<1>. QED
  BY <1>5 DEF Rebuilt

\* The invariant of the repairs holds at the start.
LEMMA InitRepair ==
  ASSUME Init
  PROVE  RepairInv
<1>1. AloneApart
  BY DEF Init, AloneApart, Active
<1>2. Right
  <2>1. \A o \in Repairs \ Degraded : ~Begun(Save(o))
    BY TransferShape DEF Init, IOInit, Begun
  <2>2. \A o \in Repairs : \A cl \in Asked(o) : ~Sent(o, cl)
    BY CallShape DEF Init, Sent
  <2>. QED
    BY <2>1, <2>2 DEF Init, Right
<1>3. SavedRight
  BY DEF Init, IOInit, SavedRight
<1>. QED
  BY <1>1, <1>2, <1>3, InitParts, InitClient, InitFiles DEF RepairInv, ApartInv

\* A node does not come back: sources that are up have been up.
LEMMA SourcesUpBefore ==
  ASSUME PhaseInv, [Next]_vars
  PROVE  \A o \in Repairs : SourcesUp(o)' => SourcesUp(o)
<1>1. down \subseteq down'
  <2>1. CASE IONext
    BY <2>1, IOFrame DEF PhaseInv, TypedIO
  <2>2. CASE UNCHANGED down
    BY <2>2
  <2>. QED
    BY <2>1, <2>2
    DEF Next, Repair, ProxyCall, Receive, AskRepair, ReturnRepairs, ReceiveBlock, CallProxy,
        SendPart, DecodeOwn, TakePart, SendToNode, SendToClient, Saved, Thread, StartReader,
        StartTransfer, IONext, Finished, vars, ioVars
<1>. QED
  BY <1>1 DEF SourcesUp

\* What a repair that runs alone computes from sources that are up is the block.
LEMMA StepRight ==
  ASSUME RepairInv, [Next]_vars
  PROVE  Right'
<1>0. /\ PartsInv /\ PhaseInv /\ TypeOK /\ IOInv /\ IOTypeOK /\ alone' \subseteq alone
      /\ alone \subseteq Repairs /\ \A o \in Repairs : SourcesUp(o)' => SourcesUp(o)
  BY AloneBefore, SourcesUpBefore
  DEF RepairInv, ApartInv, PartsInv, PhaseInv, TypedIO, TypeOK, IOInv
<1>. USE CallShape DEF RepairInv
<1>a. ASSUME UNCHANGED ioVars
      PROVE  UNCHANGED <<call, buf>>
  BY <1>a DEF ioVars
<1>1. CASE UNCHANGED <<proxy, part, call, buf, toClient, got>>
  BY <1>0, <1>1 DEF Right, Sent, Begun
<1>2. ASSUME NEW o \in Repairs, NEW cl \in Asked(o), CallProxy(o, cl)
      PROVE  Right'
  <2>1. /\ UNCHANGED <<part, call, buf, toClient, got>>
        /\ \A p \in Repairs : \A k \in Asked(p) : Sent(p, k)' => Sent(p, k)
    <3>1. UNCHANGED <<part, call, buf, toClient, got>>
          /\ proxy' = [proxy EXCEPT ![Call(o, cl)] = "reading"]
      BY <1>2, <1>a DEF CallProxy
    <3>. QED
      BY <1>0, <3>1 DEF Sent, TypeOK
  <2>. QED
    BY <1>0, <2>1 DEF Right, Begun
<1>3. ASSUME NEW o \in Repairs, NEW cl \in Asked(o),
             SendPart(o, cl) \/ (cl = Dest[o] /\ DecodeOwn(o))
      PROVE  Right'
  <2> DEFINE c == Call(o, cl)
  <2>1. /\ UNCHANGED <<call, buf, toClient, got>>
        /\ proxy[c] = "reading" /\ ReadersJoined(o, cl)
        /\ part' = [part EXCEPT ![c] = Decoded(o, cl)]
        /\ \E s \in {"done", "collecting"} : proxy' = [proxy EXCEPT ![c] = s]
    BY <1>3, <1>a DEF SendPart, DecodeOwn
  <2>2. Active(o)
    BY <1>0, <2>1, Running DEF Active
  <2>3. o \in alone /\ SourcesUp(o) => Decoded(o, cl) = c
    BY <2>1, <2>2, ReadRight
  <2>4. \A p \in Repairs : \A k \in Asked(p) :
          IF Call(p, k) = c
          THEN p = o /\ k = cl /\ part'[Call(p, k)] = Decoded(o, cl)
          ELSE part'[Call(p, k)] = part[Call(p, k)] /\ (Sent(p, k)' => Sent(p, k))
    BY <1>0, <2>1 DEF Sent, TypeOK
  <2>. QED
    BY <1>0, <2>1, <2>3, <2>4 DEF Right, Begun
<1>4. ASSUME NEW o \in Repairs, SendToNode(o)
      PROVE  Right'
  <2>1. /\ UNCHANGED <<part, toClient, got>> /\ o \notin Degraded /\ Collected(o)
        /\ proxy' = [proxy EXCEPT ![Call(o, Dest[o])] = "saving"]
        /\ call' = [call EXCEPT ![Save(o)] = "started"]
        /\ buf' = [buf EXCEPT ![Save(o)] = Rebuilt(o)]
    BY <1>4 DEF SendToNode, StartTransfer
  <2>2. Save(o) \in Transfers /\ \A p \in Repairs \ Degraded : p # o => Save(p) # Save(o)
    BY <2>1, TransferShape
  <2>3. o \in alone /\ SourcesUp(o) => Rebuilt(o) = Failed[o]
    BY <1>0, <2>1, RebuiltRight
  <2>4. \A p \in Repairs : \A k \in Asked(p) : Sent(p, k)' => Sent(p, k)
    BY <1>0, <2>1 DEF Sent, TypeOK, Collected
  <2>5. \A p \in Repairs \ Degraded :
          IF p = o THEN buf'[Save(p)] = Rebuilt(o)
                   ELSE buf'[Save(p)] = buf[Save(p)] /\ (Begun(Save(p))' => Begun(Save(p)))
    BY <1>0, <2>1, <2>2, TransferShape DEF Begun, IOTypeOK
  <2>. QED
    BY <1>0, <2>1, <2>3, <2>4, <2>5 DEF Right
<1>5. ASSUME NEW o \in Repairs, Saved(o) \/ SendToClient(o)
      PROVE  Right'
  <2>1. /\ UNCHANGED <<part, got, call, buf>>
        /\ proxy[Call(o, Dest[o])] \in {"saving", "collecting"}
        /\ proxy' = [proxy EXCEPT ![Call(o, Dest[o])] = "done"]
        /\ toClient' = toClient
           \/ (toClient' = toClient \union {<<o, Rebuilt(o)>>} /\ Collected(o))
    BY <1>5, <1>a DEF Saved, SendToClient, Collected
  <2>2. \A p \in Repairs : \A k \in Asked(p) : Sent(p, k)' => Sent(p, k)
    BY <1>0, <2>1 DEF Sent, TypeOK
  <2>3. \A q \in alone : SourcesUp(q) => \A c \in toClient' : c[1] = q => c[2] = Failed[q]
    BY <1>0, <2>1, RebuiltRight DEF Right
  <2>. QED
    BY <1>0, <2>1, <2>2, <2>3 DEF Right, Begun
<1>6. ASSUME NEW o \in Repairs, NEW c \in toClient, ReceiveBlock(o, c)
      PROVE  Right'
  <2>1. c[1] = o
    BY <1>0, <1>6, OwnConnection
  <2>2. /\ UNCHANGED <<proxy, part, call, buf>> /\ toClient' \subseteq toClient
        /\ got' = [got EXCEPT ![o] = c[2]]
    BY <1>6, <1>a DEF ReceiveBlock
  <2>. QED
    BY <1>0, <2>1, <2>2 DEF Right, Sent, Begun, TypeOK
<1>7. ASSUME NEW t \in Transfers, StartReader(t)
      PROVE  Right'
  <2>1. /\ UNCHANGED <<proxy, part, toClient, got>> /\ kind(t) = "get"
        /\ call' = [call EXCEPT ![t] = "started"] /\ buf' = [buf EXCEPT ![t] = Garbage]
    BY <1>7 DEF StartReader, StartTransfer, repairVars, codeVars
  <2>2. \A p \in Repairs \ Degraded :
          buf'[Save(p)] = buf[Save(p)] /\ (Begun(Save(p))' => Begun(Save(p)))
    BY <1>0, <2>1, TransferShape DEF Begun, IOTypeOK
  <2>. QED
    BY <1>0, <2>1, <2>2 DEF Right, Sent
<1>8. ASSUME IONext, UNCHANGED repairVars
      PROVE  Right'
  <2>1. UNCHANGED <<proxy, part, toClient, got>>
    BY <1>8 DEF repairVars, codeVars
  <2>2. \A p \in Repairs \ Degraded :
          buf'[Save(p)] = buf[Save(p)] /\ (Begun(Save(p))' => Begun(Save(p)))
    BY <1>0, <1>8, IOMeets, IOFrame, TransferShape DEF Begun
  <2>. QED
    BY <1>0, <2>1, <2>2 DEF Right, Sent
<1>. QED
  BY <1>1, <1>2, <1>3, <1>4, <1>5, <1>6, <1>7, <1>8
  DEF Next, Repair, ProxyCall, Receive, AskRepair, ReturnRepairs, TakePart, Thread, IONext,
      Finished, vars, ioVars, repairVars, codeVars

\* Whatever repair wrote a file last, the file is right if each of them was.
LEMMA StepSaved ==
  ASSUME RepairInv, [Next]_vars
  PROVE  SavedRight'
<1>0. /\ PhaseInv /\ TypeOK /\ IOInv /\ IOTypeOK /\ Served /\ Replaced /\ alone' \subseteq alone
      /\ alone \subseteq Repairs /\ \A o \in Repairs : SourcesUp(o)' => SourcesUp(o)
  BY AloneBefore, SourcesUpBefore
  DEF RepairInv, ApartInv, PartsInv, PhaseInv, TypedIO, TypeOK, IOInv
<1>1. \A o \in Repairs : replacement[o] # None => replacement'[o] = replacement[o]
  <2>1. CASE UNCHANGED replacement
    BY <2>1
  <2>2. ASSUME NEW o \in Repairs, NEW cl \in Asked(o), CallProxy(o, cl)
        PROVE  \A p \in Repairs : replacement[p] # None => replacement'[p] = replacement[p]
    <3>1. CASE cl = Dest[o] /\ o \notin Degraded
      <4>1. replacement[o] = None
        BY <1>0, <2>2, <3>1 DEF CallProxy, Replaced
      <4>. QED
        BY <1>0, <2>2, <3>1, <4>1 DEF CallProxy, TypeOK
    <3>2. CASE ~(cl = Dest[o] /\ o \notin Degraded)
      BY <2>2, <3>2 DEF CallProxy
    <3>. QED
      BY <3>1, <3>2
  <2>. QED
    BY <2>1, <2>2
    DEF Next, Repair, ProxyCall, Receive, AskRepair, ReturnRepairs, ReceiveBlock, SendPart,
        DecodeOwn, TakePart, SendToNode, SendToClient, Saved, Thread, StartReader,
        Finished, vars, repairVars, codeVars
<1> SUFFICES ASSUME NEW n \in Nodes, NEW b \in Blocks,
                    \A o \in Repairs :
                      Failed[o] = b /\ replacement'[o] = n => o \in alone' /\ SourcesUp(o)'
             PROVE  file'[n][b] \in {b, None}
  BY DEF SavedRight
<1>2. \A o \in Repairs : Failed[o] = b /\ replacement[o] = n => o \in alone /\ SourcesUp(o)
  <2>1. n # None
    BY TransfersAssumption
  <2>. QED
    BY <1>0, <1>1, <2>1
<1>3. file[n][b] \in {b, None}
  BY <1>2 DEF RepairInv, SavedRight
<1>4. CASE file'[n][b] = file[n][b]
  BY <1>3, <1>4
<1>5. CASE file'[n][b] # file[n][b]
  <2>1. IONext
    BY <1>5
    DEF Next, Repair, ProxyCall, Receive, AskRepair, ReturnRepairs, ReceiveBlock, CallProxy,
        SendPart, DecodeOwn, TakePart, SendToNode, SendToClient, Saved, Thread, StartReader,
        StartTransfer, IONext, Finished, vars, ioVars
  <2>2. PICK h \in Transfers :
          /\ handler[h] = "serving" /\ kind(h) # "get" /\ met[h] \in Transfers
          /\ at[h] = n /\ block(h) = b /\ file'[n][b] = buf[met[h]]
    BY <1>0, <1>5, <2>1, IOWrites
  <2> DEFINE o == request(h)
  <2>3. o \in Repairs \ Degraded /\ h = Save(o) /\ Failed[o] = b /\ kind(h) = "recover"
    BY <2>2, TransferShape
  <2>4. Begun(h) /\ at[h] = replacement[o] /\ proxy[Call(o, Dest[o])] \in {"saving", "done"}
    BY <1>0, <2>2, <2>3 DEF IOInv, NotBegun, Begun, PhaseInv, Reached
  <2>5. o \in alone /\ SourcesUp(o)
    BY <1>2, <2>2, <2>3, <2>4
  <2>6. n \notin down
    <3>1. n \in Spare[o]
      BY <1>0, <2>2, <2>3, <2>4, TransfersAssumption DEF Replaced
    <3>. QED
      BY <1>0, <2>3, <3>1, RepairsAssumption DEF Served
  <2>7. call[h] # "done"
    BY <1>0, <2>2, <2>3, <2>6 DEF Served
  <2>8. Active(o)
    BY <1>0, <2>3, <2>4, <2>7, CallShape, Running DEF PhaseInv, Phased, Active
  <2>9. met[h] = h
    BY <2>2, <2>4, <2>5, <2>6, <2>8 DEF RepairInv, ApartInv, AloneApart, Apart
  <2>10. buf[h] = b
    BY <2>3, <2>4, <2>5 DEF RepairInv, Right
  <2>. QED
    BY <2>2, <2>9, <2>10
<1>. QED
  BY <1>4, <1>5

\* Every step of repairs, degraded reads and datanodes keeps the invariant.
LEMMA StepRepair ==
  ASSUME RepairInv, [Next]_vars
  PROVE  RepairInv'
<1>1. ApartInv'
  BY StepParts, StepApart DEF RepairInv, ApartInv
<1>2. ClientTurn' /\ FilesRight'
  BY StepClient, StepFiles DEF RepairInv, ApartInv, PartsInv
<1>. QED
  BY <1>1, <1>2, StepRight, StepSaved DEF RepairInv

\* Turns of clients, parts received, files and answers, together an inductive
\* invariant.
THEOREM RepairInvHolds == Spec => []RepairInv
<1>. QED
  BY InitRepair, StepRepair, PTL DEF Spec

(* A recovery that returned has its block at the replacement, written: its *)
(* own bytes if every repair of the block to that node ran alone and read  *)
(* from nodes that are up.                                                 *)
THEOREM RepairedIsSavedHolds == Spec => []RepairedIsSaved
<1>1. RepairInv => RepairedIsSaved
  <2> SUFFICES ASSUME RepairInv, NEW o \in Repairs \ Degraded, pc[o] = "returned"
               PROVE  /\ file[replacement[o]][Failed[o]] # None
                      /\ (\A p \in SavedBy(o) : p \in alone /\ SourcesUp(p))
                           => file[replacement[o]][Failed[o]] = Failed[o]
    BY DEF RepairedIsSaved
  <2>1. /\ PhaseInv /\ IOInv /\ Served /\ Replaced
    BY DEF RepairInv, ApartInv, PartsInv, PhaseInv, TypedIO
  <2>2. Save(o) \in Transfers /\ request(Save(o)) = o /\ kind(Save(o)) = "recover"
        /\ block(Save(o)) = Failed[o]
    BY TransferShape
  <2>3. call[Save(o)] = "done" /\ proxy[Call(o, Dest[o])] = "done"
    BY <2>1, CallShape DEF PhaseInv, Phased, AllJoined
  <2>4. replacement[o] \in Spare[o]
    BY <2>1, <2>3 DEF Replaced
  <2>5. replacement[o] \in Nodes \ down /\ Failed[o] \in Blocks
    BY <2>1, <2>4, RepairsAssumption DEF Served
  <2>6. at[Save(o)] = replacement[o]
    BY <2>1, <2>2, <2>3 DEF PhaseInv, Reached, Begun
  <2>7. handler[Save(o)] = "done"
    BY <2>1, <2>2, <2>3, <2>5, <2>6 DEF Served
  <2>8. file[replacement[o]][Failed[o]] # None
    BY <2>1, <2>2, <2>6, <2>7 DEF Served
  <2>9. (\A p \in SavedBy(o) : p \in alone /\ SourcesUp(p))
          => file[replacement[o]][Failed[o]] \in {Failed[o], None}
    BY <2>5 DEF RepairInv, SavedRight, SavedBy
  <2>. QED
    BY <2>8, <2>9
<1>. QED
  BY <1>1, RepairInvHolds, PTL

(* A degraded read no repair runs beside gives its client the lost block   *)
(* when the nodes it reads are up: the datanodes' handlers and the         *)
(* connections of the repairs before it are all gone when it begins.       *)
THEOREM DegradedIsOriginalHolds == Spec => []DegradedIsOriginal
<1>1. RepairInv => DegradedIsOriginal
  BY DEF RepairInv, ClientTurn, Right, DegradedIsOriginal
<1>. QED
  BY <1>1, RepairInvHolds, PTL
=============================================================================
