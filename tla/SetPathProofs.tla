--------------------------- MODULE SetPathProofs ---------------------------
(***************************************************************************)
(* Proofs about SetPath, for any number of uploads, clients, blocks,       *)
(* groups, clusters and datanodes, and any number of datanode crashes.     *)
(***************************************************************************)
EXTENDS SetPath, Integers, FiniteSetTheorems, TLAPS

-----------------------------------------------------------------------------
(* Type correctness.                                                       *)

\* The key of a slice is one of the keys.
LEMMA KeyType ==
  ASSUME TypeOK, NEW x \in Slices
  PROVE  Key(x) \in Keys
BY DEF TypeOK, Key, Keys, Slices

\* A copy of a block belongs to the slice of its group.
LEMMA SliceOfType ==
  ASSUME NEW c \in Copies
  PROVE  /\ SliceOf(c) \in Slices
         /\ SliceOf(c) = <<c[1], GroupOf[c[2]]>>
         /\ c[1] \in Ops /\ c[2] \in Blocks
BY GroupsAssumption DEF SliceOf, Slices, Copies

(* Every variable keeps its type: the tables hold well-formed keys, every  *)
(* thread is at one of its program points.                                 *)
THEOREM TypeCorrect == Spec => []TypeOK
<1>1. Init => TypeOK
  BY DEF Init, TypeOK, Phases
<1>2. TypeOK /\ [Next]_vars => TypeOK'
  <2> SUFFICES ASSUME TypeOK, [Next]_vars PROVE TypeOK'
    OBVIOUS
  <2>1. ASSUME NEW o \in Ops, ReadStripeId(o) PROVE TypeOK'
    BY <2>1, RequestsAssumption
    DEF ReadStripeId, TypeOK, placeVars, Phases, coordVars, proxyVars, nodeVars
  <2>2. ASSUME NEW o \in Ops, WriteStripeId(o) PROVE TypeOK'
    BY <2>2 DEF WriteStripeId, TypeOK, Phases, placeVars, proxyVars, nodeVars
  <2>18. ASSUME NEW o \in Ops, SelectNode(o) PROVE TypeOK'
    <3>1. selected' \in [Ops -> Nodes \union {None}]
      BY <2>18 DEF SelectNode, FreeNodes, TypeOK
    <3>. QED
      BY <2>18, <3>1 DEF SelectNode, TypeOK, coordVars, proxyVars, nodeVars
  <2>19. ASSUME NEW o \in Ops, RecordNode(o) PROVE TypeOK'
    <3>1. selected[o] \in Nodes
      BY <2>19 DEF RecordNode, TypeOK
    <3>2. PICK b \in Blocks :
            /\ map2node' = [map2node EXCEPT ![o][b] = selected[o]]
            /\ pc' \in {[pc EXCEPT ![o] = "placed"], pc}
      BY <2>19 DEF RecordNode
    <3>3. map2node' \in [Ops -> [Blocks -> Nodes \union {None}]]
      BY <3>1, <3>2 DEF TypeOK
    <3>4. nodeStripes' \in [Nodes -> SUBSET Nat]
      BY <2>19, <3>1 DEF RecordNode, TypeOK
    <3>5. pc' \in [Ops -> Phases]
      BY <3>2 DEF TypeOK, Phases
    <3>6. selected' \in [Ops -> Nodes \union {None}]
      BY <2>19 DEF RecordNode, TypeOK
    <3>. QED
      BY <2>19, <3>3, <3>4, <3>5, <3>6 DEF RecordNode, TypeOK, proxyVars, nodeVars
  <2>20. ASSUME NEW o \in Ops, AbortCoordinator(o) PROVE TypeOK'
    BY <2>20 DEF AbortCoordinator, TypeOK, uploadVars, placeVars, proxyVars, nodeVars
  <2>21. ASSUME NEW o \in Ops, FailUpload(o) PROVE TypeOK'
    BY <2>21 DEF FailUpload, TypeOK, Phases, coordVars, placeVars, proxyVars, nodeVars
  <2>24. ASSUME NEW o \in Ops, FailSet(o) PROVE TypeOK'
    <3>1. /\ pc' = [pc EXCEPT ![o] = "failed"]
          /\ UNCHANGED <<coordVars, stripe, request, placeVars, notify, send, proxyVars, nodeVars>>
      BY <2>24 DEF FailSet
    <3>. QED
      BY <3>1 DEF TypeOK, Phases, coordVars, placeVars, proxyVars, nodeVars
  <2>22. ASSUME NEW o \in Ops, NEW g \in Groups, FailCheck(o, g) PROVE TypeOK'
    BY <2>22 DEF FailCheck, TypeOK, Slices, coordVars, uploadVars, placeVars, proxyVars, nodeVars
  <2>23. ASSUME NEW x \in Slices, FailReport(x) PROVE TypeOK'
    BY <2>23 DEF FailReport, TypeOK, coordVars, uploadVars, placeVars, nodeVars
  <2>3. ASSUME NEW o \in Ops, ReplyUpload(o) PROVE TypeOK'
    BY ZenonT(30), <2>3 DEF ReplyUpload, NotifiersJoined, Recorded, TypeOK, placeVars, Phases, proxyVars, nodeVars
  <2>4. ASSUME NEW o \in Ops, NEW g \in Groups, EraseCommit(o, g) PROVE TypeOK'
    BY <2>4 DEF EraseCommit, Forgotten, TypeOK, placeVars, Slices, proxyVars, nodeVars
  <2>5. ASSUME NEW o \in Ops, NEW g \in Groups, ScheduleAppend(o, g) PROVE TypeOK'
    BY <2>5 DEF ScheduleAppend, TypeOK, placeVars, Slices, coordVars, nodeVars
  <2>6. ASSUME NEW o \in Ops, NEW g \in Groups, NoteUpdating(o, g) PROVE TypeOK'
    <3>1. Key(<<o, g>>) \in Keys
      BY KeyType DEF Slices
    <3>. QED
      BY <2>6, <3>1 DEF NoteUpdating, TypeOK, placeVars, Slices, proxyVars, nodeVars
  <2>7. ASSUME NEW o \in Ops, NEW g \in Groups, SendSlice(o, g) PROVE TypeOK'
    BY <2>7 DEF SendSlice, TypeOK, placeVars, Slices, coordVars, uploadVars, nodeVars
  <2>8. ASSUME NEW o \in Ops, NEW g \in Groups, CheckCommit(o, g) PROVE TypeOK'
    BY <2>8 DEF CheckCommit, TypeOK, placeVars, Slices, coordVars, uploadVars, proxyVars, nodeVars
  <2>9. ASSUME NEW o \in Ops, FinishSet(o) PROVE TypeOK'
    BY <2>9 DEF FinishSet, TypeOK, placeVars, Phases, coordVars, proxyVars, nodeVars
  <2>10. ASSUME NEW x \in Slices, NEW y \in backlog, AcceptSlice(x, y) PROVE TypeOK'
    BY <2>10 DEF AcceptSlice, TypeOK, placeVars, coordVars, uploadVars, nodeVars
  <2>11. ASSUME NEW x \in Slices, ReportCommit(x) PROVE TypeOK'
    <3>1. Key(x) \in Keys
      BY KeyType
    <3>. QED
      BY <2>11, <3>1 DEF ReportCommit, TypeOK, placeVars, uploadVars, nodeVars
  <2>12. ASSUME NEW c \in Copies, HandleAppend(c) PROVE TypeOK'
    BY <2>12 DEF HandleAppend, TypeOK, placeVars, coordVars, uploadVars
  <2>13. ASSUME NEW c \in Copies, SendBlock(c) PROVE TypeOK'
    BY <2>13 DEF SendBlock, TypeOK, placeVars, coordVars, uploadVars
  <2>14. ASSUME NEW c \in Copies, NEW d \in dnBacklog, AcceptBlock(c, d) PROVE TypeOK'
    BY <2>14 DEF AcceptBlock, TypeOK, placeVars, coordVars, uploadVars, proxyVars
  <2>15. ASSUME NEW c \in Copies, WriteBlock(c) PROVE TypeOK'
    BY <2>15 DEF WriteBlock, TypeOK, placeVars, coordVars, uploadVars, proxyVars
  <2>16. ASSUME NEW n \in Nodes, CrashNode(n) PROVE TypeOK'
    BY <2>16 DEF CrashNode, TypeOK, placeVars, coordVars, uploadVars, proxyVars
  <2>17. CASE UNCHANGED vars
    BY <2>17 DEF vars, coordVars, uploadVars, placeVars, proxyVars, nodeVars, TypeOK
  <2>. QED
    BY <2>1, <2>2, <2>3, <2>4, <2>5, <2>6, <2>7, <2>8, <2>9, <2>10, <2>11, <2>12,
       <2>13, <2>14, <2>15, <2>16, <2>17, <2>18, <2>19, <2>20, <2>21, <2>22, <2>23, <2>24
    DEF Next, Handler, Client, Proxy, Datanode, Finished
<1>. QED
  BY <1>1, <1>2, PTL DEF Spec

-----------------------------------------------------------------------------
(* Commits follow the hand-off of the blocks, whatever the clients do.     *)

Assigned(o) == pc[o] \notin {"idle", "reading"}
Placed(o)   == pc[o] \notin {"idle", "reading", "placing"}

\* what placing a block changes, and all that it does
LEMMA PlacingFrame ==
  ASSUME NEW o \in Ops, SelectNode(o) \/ RecordNode(o) \/ AbortCoordinator(o)
  PROVE  /\ coordinator = "up" /\ pc[o] = "placing"
         /\ pc' \in {pc, [pc EXCEPT ![o] = "placed"]}
         /\ UNCHANGED <<m_cur_stripe_id, m_object_commit_table, m_object_updating_table,
                        blank, m_stripe_table, stripe, request, notify, send, backlog,
                        thread, got, sender, down, dnBacklog, handler, dnGot>>
BY DEF SelectNode, RecordNode, AbortCoordinator, coordVars, uploadVars, placeVars,
       proxyVars, nodeVars

\* the notify threads of an upload run after its placement, the accept thread
\* of a plan after the proxy was called
NotifyOrder ==
  \A x \in Slices : notify[x] # "none" => Placed(x[1]) /\ x[2] \in PlanGroups(x[1])
ThreadOrder ==
  \A x \in Slices : thread[x] # "none" <=> notify[x] \in {"called", "noted"}

HandoffInv == TypeOK /\ NotifyOrder /\ ThreadOrder /\ CommitAfterHandoff

\* what no step changes for an upload that has its stripe id
LEMMA AssignedStays ==
  ASSUME TypeOK, [Next]_vars, NEW o \in Ops, Assigned(o)
  PROVE  /\ Assigned(o)' /\ stripe'[o] = stripe[o] /\ request'[o] = request[o]
         /\ \A b \in Blocks : sender[<<o, b>>] = "sent" => sender'[<<o, b>>] = "sent"
<1>. USE DEF Assigned, TypeOK, Copies
<1>1. ASSUME NEW p \in Ops, ReadStripeId(p) PROVE Assigned(o)' /\ UNCHANGED <<stripe[o], request[o], sender>>
  BY <1>1 DEF ReadStripeId, proxyVars
<1>2. ASSUME NEW p \in Ops,
             WriteStripeId(p) \/ ReplyUpload(p) \/ FinishSet(p) \/ FailUpload(p) \/ FailSet(p)
      PROVE Assigned(o)' /\ UNCHANGED <<stripe, request, sender>>
  BY <1>2 DEF WriteStripeId, ReplyUpload, FinishSet, FailUpload, FailSet, proxyVars
<1>9. ASSUME NEW p \in Ops, SelectNode(p) \/ RecordNode(p) \/ AbortCoordinator(p)
      PROVE Assigned(o)' /\ UNCHANGED <<stripe, request, sender>>
  BY <1>9, PlacingFrame
<1>3. ASSUME NEW p \in Ops, NEW g \in Groups,
             \/ EraseCommit(p, g) \/ ScheduleAppend(p, g) \/ NoteUpdating(p, g)
             \/ SendSlice(p, g) \/ CheckCommit(p, g) \/ FailCheck(p, g)
      PROVE UNCHANGED <<pc, stripe, request, sender>>
  BY <1>3 DEF EraseCommit, ScheduleAppend, NoteUpdating, SendSlice, CheckCommit, FailCheck,
              uploadVars, proxyVars
<1>4. ASSUME NEW x \in Slices, (\E y \in backlog : AcceptSlice(x, y)) \/ ReportCommit(x) \/ FailReport(x)
      PROVE UNCHANGED <<pc, stripe, request, sender>>
  BY <1>4 DEF AcceptSlice, ReportCommit, FailReport, uploadVars
<1>5. ASSUME NEW c \in Copies, HandleAppend(c) \/ SendBlock(c)
      PROVE /\ UNCHANGED <<pc, stripe, request>>
            /\ \A b \in Blocks : sender[<<o, b>>] = "sent" => sender'[<<o, b>>] = "sent"
  BY <1>5 DEF HandleAppend, SendBlock, uploadVars
<1>6. ASSUME NEW c \in Copies, (\E d \in dnBacklog : AcceptBlock(c, d)) \/ WriteBlock(c)
      PROVE UNCHANGED <<pc, stripe, request, sender>>
  BY <1>6 DEF AcceptBlock, WriteBlock, uploadVars, proxyVars
<1>7. ASSUME NEW n \in Nodes, CrashNode(n) PROVE UNCHANGED <<pc, stripe, request, sender>>
  BY <1>7 DEF CrashNode, uploadVars, proxyVars
<1>8. CASE UNCHANGED vars
  BY <1>8 DEF vars, uploadVars, proxyVars
<1>. QED
  BY <1>1, <1>2, <1>3, <1>4, <1>5, <1>6, <1>7, <1>8, <1>9
  DEF Next, Handler, Client, Proxy, Datanode, Finished

\* An upload goes on to call its proxies after it was placed, and a thread to run
\* after its call.
LEMMA OrderStays ==
  ASSUME TypeOK, NotifyOrder, ThreadOrder, [Next]_vars
  PROVE  NotifyOrder' /\ ThreadOrder'
<1>. USE DEF NotifyOrder, ThreadOrder, Placed, TypeOK, Slices, PlanGroups
<1>1. ASSUME NEW o \in Ops, ReadStripeId(o) PROVE NotifyOrder' /\ ThreadOrder'
  BY <1>1 DEF ReadStripeId, proxyVars
<1>2. ASSUME NEW o \in Ops, WriteStripeId(o) \/ ReplyUpload(o)
      PROVE NotifyOrder' /\ ThreadOrder'
  BY <1>2 DEF WriteStripeId, ReplyUpload, proxyVars
<1>11. ASSUME NEW o \in Ops, FinishSet(o) \/ FailUpload(o) \/ FailSet(o)
      PROVE NotifyOrder' /\ ThreadOrder'
  BY <1>11 DEF FinishSet, FailUpload, FailSet, proxyVars
<1>12. ASSUME NEW o \in Ops, SelectNode(o) \/ RecordNode(o) \/ AbortCoordinator(o)
      PROVE NotifyOrder' /\ ThreadOrder'
  BY <1>12, PlacingFrame
<1>3. ASSUME NEW o \in Ops, NEW g \in Groups, EraseCommit(o, g)
      PROVE NotifyOrder' /\ ThreadOrder'
  <2>1. /\ Placed(o) /\ g \in PlanGroups(o)
        /\ notify' = [notify EXCEPT ![<<o, g>>] = "erased"]
        /\ notify[<<o, g>>] = "none"
        /\ UNCHANGED <<pc, request, thread>>
    BY <1>3 DEF EraseCommit, proxyVars
  <2>2. \A p \in Ops : PlanGroups(p)' = PlanGroups(p)
    BY <2>1
  <2>. HIDE DEF PlanGroups
  <2>3. ASSUME NEW x \in Slices, notify'[x] # "none"
        PROVE  Placed(x[1])' /\ (x[2] \in PlanGroups(x[1]))'
    <3>1. CASE x = <<o, g>>
      BY <2>1, <2>2, <3>1
    <3>2. CASE x # <<o, g>>
      BY <2>1, <2>2, <2>3, <3>2
    <3>. QED
      BY <3>1, <3>2
  <2>4. ThreadOrder'
    BY <2>1
  <2>. QED
    BY <2>3, <2>4
<1>4. ASSUME NEW o \in Ops, NEW g \in Groups, ScheduleAppend(o, g)
      PROVE NotifyOrder' /\ ThreadOrder'
  BY <1>4 DEF ScheduleAppend
<1>5. ASSUME NEW o \in Ops, NEW g \in Groups, NoteUpdating(o, g)
      PROVE NotifyOrder' /\ ThreadOrder'
  BY <1>5 DEF NoteUpdating, proxyVars
<1>6. ASSUME NEW o \in Ops, NEW g \in Groups, SendSlice(o, g) \/ CheckCommit(o, g) \/ FailCheck(o, g)
      PROVE NotifyOrder' /\ ThreadOrder'
  BY <1>6 DEF SendSlice, CheckCommit, FailCheck, uploadVars, proxyVars
<1>7. ASSUME NEW x \in Slices, (\E y \in backlog : AcceptSlice(x, y)) \/ ReportCommit(x) \/ FailReport(x)
      PROVE NotifyOrder' /\ ThreadOrder'
  BY <1>7 DEF AcceptSlice, ReportCommit, FailReport, uploadVars
<1>8. ASSUME NEW c \in Copies, Datanode(c) PROVE NotifyOrder' /\ ThreadOrder'
  BY <1>8 DEF Datanode, HandleAppend, SendBlock, AcceptBlock, WriteBlock, uploadVars, proxyVars
<1>9. ASSUME NEW n \in Nodes, CrashNode(n) PROVE NotifyOrder' /\ ThreadOrder'
  BY <1>9 DEF CrashNode, uploadVars, proxyVars
<1>10. CASE UNCHANGED vars
  BY <1>10 DEF vars, uploadVars, proxyVars
<1>. QED
  BY <1>1, <1>2, <1>3, <1>4, <1>5, <1>6, <1>7, <1>8, <1>9, <1>10, <1>11, <1>12
  DEF Next, Handler, Client, Proxy, Finished

\* the only step that commits a key is the report of a thread that serves it
LEMMA CommitByReport ==
  ASSUME TypeOK, [Next]_vars, NEW k \in m_object_commit_table', k \notin m_object_commit_table
  PROVE  \E x \in Slices : ReportCommit(x) /\ k = Key(x)
<1>1. ASSUME NEW o \in Ops, Handler(o) PROVE m_object_commit_table' \subseteq m_object_commit_table
  BY <1>1, PlacingFrame DEF Handler, ReadStripeId, WriteStripeId, ReplyUpload, EraseCommit,
              Forgotten, ScheduleAppend, NoteUpdating, coordVars
<1>2. ASSUME NEW o \in Ops, Client(o) PROVE m_object_commit_table' = m_object_commit_table
  BY <1>2 DEF Client, SendSlice, CheckCommit, FailCheck, FinishSet, FailSet, FailUpload, coordVars
<1>3. ASSUME NEW x \in Slices, NEW y \in backlog, AcceptSlice(x, y)
      PROVE m_object_commit_table' = m_object_commit_table
  BY <1>3 DEF AcceptSlice, coordVars
<1>8. ASSUME NEW x \in Slices, FailReport(x) PROVE m_object_commit_table' = m_object_commit_table
  BY <1>8 DEF FailReport, coordVars
<1>4. ASSUME NEW x \in Slices, ReportCommit(x) PROVE k = Key(x)
  BY <1>4 DEF ReportCommit
<1>5. ASSUME NEW c \in Copies, Datanode(c) PROVE m_object_commit_table' = m_object_commit_table
  BY <1>5 DEF Datanode, HandleAppend, SendBlock, AcceptBlock, WriteBlock, coordVars
<1>6. ASSUME NEW n \in Nodes, CrashNode(n) PROVE m_object_commit_table' = m_object_commit_table
  BY <1>6 DEF CrashNode, coordVars
<1>7. CASE UNCHANGED vars
  BY <1>7 DEF vars, coordVars
<1>. QED
  BY <1>1, <1>2, <1>3, <1>4, <1>5, <1>6, <1>7, <1>8 DEF Next, Proxy, Finished

(* CommitAfterHandoff holds in every behaviour: a key is committed only    *)
(* after the senders of a thread serving it joined.                        *)
THEOREM CommitFollowsHandoff == Spec => []CommitAfterHandoff
<1>1. Init => HandoffInv
  <2>. SUFFICES ASSUME Init PROVE HandoffInv
    OBVIOUS
  <2>1. TypeOK
    BY DEF Init, TypeOK, Phases
  <2>. QED
    BY <2>1 DEF Init, HandoffInv, NotifyOrder, ThreadOrder, CommitAfterHandoff
<1>2. HandoffInv /\ TypeOK' /\ [Next]_vars => HandoffInv'
  <2> SUFFICES ASSUME HandoffInv, TypeOK', [Next]_vars, NEW k \in m_object_commit_table'
               PROVE  \E o \in Ops :
                        /\ Assigned(o)' /\ stripe'[o] = k[1]
                        /\ \A b \in PlanBlocks(<<o, k[2]>>)' : sender'[<<o, b>>] = "sent"
    BY OrderStays DEF HandoffInv, CommitAfterHandoff, Assigned
  <2>1. PICK o \in Ops : /\ Assigned(o) /\ stripe[o] = k[1]
                         /\ \A b \in PlanBlocks(<<o, k[2]>>) : sender[<<o, b>>] = "sent"
    <3>1. CASE k \in m_object_commit_table
      BY <3>1 DEF HandoffInv, CommitAfterHandoff, Assigned
    <3>2. CASE k \notin m_object_commit_table
      <4>1. PICK x \in Slices : ReportCommit(x) /\ k = Key(x)
        BY <3>2, CommitByReport DEF HandoffInv
      <4>2. Assigned(x[1]) /\ x = <<x[1], x[2]>> /\ x[1] \in Ops
        BY <4>1 DEF ReportCommit, HandoffInv, NotifyOrder, ThreadOrder, Placed, Assigned, Slices
      <4>3. \A b \in PlanBlocks(x) : sender[<<x[1], b>>] = "sent"
        BY <4>1 DEF ReportCommit, SendersJoined
      <4>. QED
        BY <4>1, <4>2, <4>3 DEF Key
    <3>. QED
      BY <3>1, <3>2
  <2>2. /\ Assigned(o)' /\ stripe'[o] = stripe[o] /\ request'[o] = request[o]
        /\ \A b \in Blocks : sender[<<o, b>>] = "sent" => sender'[<<o, b>>] = "sent"
    BY <2>1, AssignedStays DEF HandoffInv
  <2>3. PlanBlocks(<<o, k[2]>>)' = PlanBlocks(<<o, k[2]>>) /\ PlanBlocks(<<o, k[2]>>) \subseteq Blocks
    BY <2>2 DEF PlanBlocks, HandoffInv, TypeOK
  <2>. QED
    BY <2>1, <2>2, <2>3
<1>3. HandoffInv => CommitAfterHandoff
  BY DEF HandoffInv
<1>. QED
  BY <1>1, <1>2, <1>3, TypeCorrect, PTL DEF Spec

-----------------------------------------------------------------------------
(* What ends the coordinator: the assertion of update_stripe_info_in_node  *)
(* fails for no upload that has a stripe id of its own.                    *)

AbortNeedsSharedId == coordinator = "aborted" => IdShared

\* a node keeps the ids of the uploads that placed a block there, and no others;
\* a node selected was free, so the upload has not placed a block there itself
OwnNodes ==
  \A o \in Ops : \A b \in Blocks : map2node[o][b] # None =>
    pc[o] # "idle" /\ stripe[o] \in nodeStripes[map2node[o][b]]
Owned ==
  \A n \in Nodes : \A s \in nodeStripes[n] :
    \E o \in Ops : stripe[o] = s /\ \E b \in Blocks : map2node[o][b] = n
SelectedAnew ==
  \A o \in Ops : selected[o] # None => \A b \in Blocks : map2node[o][b] # selected[o]

NodeInv == OwnNodes /\ Owned /\ SelectedAnew /\ AbortNeedsSharedId

\* a step that places nothing and takes no upload back to "idle"
LEMMA NodeFrame ==
  ASSUME NodeInv, UNCHANGED <<coordinator, nodeStripes, stripe, selected, map2node>>,
         \A o \in Ops : pc[o] # "idle" => pc'[o] # "idle"
  PROVE  NodeInv'
BY DEF NodeInv, OwnNodes, Owned, SelectedAnew, AbortNeedsSharedId, IdShared

\* An upload that reads its id has placed nothing yet.
LEMMA NodeInvReads ==
  ASSUME TypeOK, NodeInv, NEW o \in Ops, ReadStripeId(o)
  PROVE  NodeInv'
<1>1. /\ coordinator = "up" /\ pc[o] = "idle" /\ pc' = [pc EXCEPT ![o] = "reading"]
      /\ stripe' = [stripe EXCEPT ![o] = m_cur_stripe_id]
      /\ UNCHANGED <<coordinator, nodeStripes, selected, map2node>>
  BY DEF ReadStripeId, coordVars, placeVars
<1>. USE <1>1 DEF NodeInv, TypeOK
<1>2. \A b \in Blocks : map2node[o][b] = None
  BY DEF OwnNodes
<1>3. OwnNodes'
  <2>. SUFFICES ASSUME NEW p \in Ops, NEW b \in Blocks, map2node[p][b] # None
               PROVE  pc'[p] # "idle" /\ stripe'[p] \in nodeStripes[map2node[p][b]]
    BY DEF OwnNodes
  <2>1. p # o
    BY <1>2
  <2>. QED
    BY <2>1 DEF OwnNodes
<1>4. Owned'
  <2>. SUFFICES ASSUME NEW n \in Nodes, NEW t \in nodeStripes[n]
               PROVE  \E p \in Ops : stripe'[p] = t /\ \E b \in Blocks : map2node[p][b] = n
    BY DEF Owned
  <2>1. PICK p \in Ops : stripe[p] = t /\ \E b \in Blocks : map2node[p][b] = n
    BY DEF Owned
  <2>2. p # o
    BY <1>2, <2>1, NoneAssumption
  <2>. QED
    BY <2>1, <2>2
<1>5. SelectedAnew' /\ AbortNeedsSharedId'
  BY DEF SelectedAnew, AbortNeedsSharedId
<1>. QED
  BY <1>3, <1>4, <1>5

\* A node selected is free, and so new to the upload.
LEMMA NodeInvSelects ==
  ASSUME TypeOK, NodeInv, NEW o \in Ops, SelectNode(o)
  PROVE  NodeInv'
<1>1. PICK n \in Nodes : /\ stripe[o] \notin nodeStripes[n]
                         /\ selected' = [selected EXCEPT ![o] = n]
  BY DEF SelectNode, FreeNodes
<1>2. /\ coordinator = "up"
      /\ UNCHANGED <<coordinator, nodeStripes, pc, stripe, map2node>>
  BY DEF SelectNode, coordVars
<1>3. OwnNodes' /\ Owned' /\ AbortNeedsSharedId'
  BY <1>2 DEF NodeInv, OwnNodes, Owned, AbortNeedsSharedId
<1>4. \A b \in Blocks : map2node[o][b] # n
  BY <1>1, NoneAssumption DEF NodeInv, OwnNodes
<1>5. SelectedAnew'
  BY <1>1, <1>2, <1>4 DEF NodeInv, SelectedAnew, TypeOK
<1>. QED
  BY <1>3, <1>5 DEF NodeInv

\* The node recorded keeps the id for the upload whose block it takes.
LEMMA NodeInvRecords ==
  ASSUME TypeOK, NodeInv, NEW o \in Ops, RecordNode(o)
  PROVE  NodeInv'
<1>. DEFINE n == selected[o]
<1>1. /\ coordinator = "up" /\ n \in Nodes /\ pc[o] = "placing"
      /\ nodeStripes' = [nodeStripes EXCEPT ![n] = nodeStripes[n] \union {stripe[o]}]
      /\ selected' = [selected EXCEPT ![o] = None]
      /\ UNCHANGED <<coordinator, stripe>>
  BY DEF RecordNode, TypeOK
<1>2. PICK b \in Blocks : /\ map2node[o][b] = None
                          /\ map2node' = [map2node EXCEPT ![o][b] = n]
                          /\ pc' \in {[pc EXCEPT ![o] = "placed"], pc}
  BY DEF RecordNode, NextBlock
<1>. HIDE DEF n
<1>3. \A p \in Ops : pc[p] # "idle" => pc'[p] # "idle"
  BY <1>2 DEF TypeOK
<1>4. \A m \in Nodes : nodeStripes[m] \subseteq nodeStripes'[m]
  BY <1>1 DEF TypeOK
<1>5. stripe[o] \in nodeStripes'[n]
  BY <1>1 DEF TypeOK
<1>6. ASSUME NEW p \in Ops, NEW c \in Blocks
      PROVE  map2node'[p][c] = IF p = o /\ c = b THEN n ELSE map2node[p][c]
  BY <1>2 DEF TypeOK
<1>7. OwnNodes'
  <2>. SUFFICES ASSUME NEW p \in Ops, NEW c \in Blocks, map2node'[p][c] # None
               PROVE  pc'[p] # "idle" /\ stripe[p] \in nodeStripes'[map2node'[p][c]]
    BY <1>1 DEF OwnNodes
  <2>1. CASE p = o /\ c = b
    BY <1>1, <1>3, <1>5, <1>6, <2>1
  <2>2. CASE ~(p = o /\ c = b)
    <3>1. map2node'[p][c] = map2node[p][c] /\ map2node[p][c] \in Nodes
      BY <1>6, <2>2 DEF TypeOK
    <3>2. pc[p] # "idle" /\ stripe[p] \in nodeStripes[map2node[p][c]]
      BY <3>1 DEF NodeInv, OwnNodes
    <3>. QED
      BY <1>3, <1>4, <3>1, <3>2
  <2>. QED
    BY <2>1, <2>2
<1>8. Owned'
  <2>. SUFFICES ASSUME NEW m \in Nodes, NEW t \in nodeStripes'[m]
               PROVE  \E p \in Ops : stripe[p] = t /\ \E c \in Blocks : map2node'[p][c] = m
    BY <1>1 DEF Owned
  <2>1. CASE t \in nodeStripes[m]
    <3>1. PICK p \in Ops, c \in Blocks : stripe[p] = t /\ map2node[p][c] = m
      BY <2>1 DEF NodeInv, Owned
    <3>2. map2node'[p][c] = m
      BY <1>2, <1>6, <3>1, NoneAssumption
    <3>. QED
      BY <3>1, <3>2
  <2>2. CASE t \notin nodeStripes[m]
    <3>1. m = n /\ t = stripe[o]
      BY <1>1, <2>2 DEF TypeOK
    <3>2. map2node'[o][b] = n
      BY <1>6
    <3>. QED
      BY <3>1, <3>2
  <2>. QED
    BY <2>1, <2>2
<1>9. SelectedAnew'
  <2>. SUFFICES ASSUME NEW p \in Ops, selected'[p] # None, NEW c \in Blocks
               PROVE  map2node'[p][c] # selected'[p]
    BY DEF SelectedAnew
  <2>1. p # o /\ selected'[p] = selected[p]
    BY <1>1 DEF TypeOK
  <2>. QED
    BY <1>6, <2>1 DEF NodeInv, SelectedAnew
<1>10. AbortNeedsSharedId'
  BY <1>1 DEF AbortNeedsSharedId
<1>. QED
  BY <1>7, <1>8, <1>9, <1>10 DEF NodeInv

\* The assertion fails when another upload recorded the id at the node: two uploads
\* have it.
LEMMA NodeInvAborts ==
  ASSUME TypeOK, NodeInv, NEW o \in Ops, AbortCoordinator(o)
  PROVE  NodeInv'
<1>1. /\ pc[o] = "placing" /\ selected[o] \in Nodes
      /\ stripe[o] \in nodeStripes[selected[o]]
      /\ UNCHANGED <<nodeStripes, pc, stripe, selected, map2node>>
  BY DEF AbortCoordinator, TypeOK, uploadVars, placeVars
<1>2. PICK p \in Ops, b \in Blocks : stripe[p] = stripe[o] /\ map2node[p][b] = selected[o]
  BY <1>1 DEF NodeInv, Owned
<1>3. p # o /\ pc[p] # "idle"
  BY <1>1, <1>2, NoneAssumption DEF NodeInv, SelectedAnew, OwnNodes
<1>4. IdShared'
  BY <1>1, <1>2, <1>3 DEF IdShared
<1>. QED
  BY <1>1, <1>4 DEF NodeInv, OwnNodes, Owned, SelectedAnew, AbortNeedsSharedId

(* The coordinator ends by the assertion of update_stripe_info_in_node     *)
(* only when two uploads drew one stripe id, whatever the clients, the     *)
(* placements and the crashes: an id drawn once never makes it fail.       *)
THEOREM AbortsNeedSharedIds == Spec => []AbortNeedsSharedId
<1>1. Init => NodeInv
  BY DEF Init, NodeInv, OwnNodes, Owned, SelectedAnew, AbortNeedsSharedId
<1>2. TypeOK /\ NodeInv /\ [Next]_vars => NodeInv'
  <2>. SUFFICES ASSUME TypeOK, NodeInv, [Next]_vars PROVE NodeInv'
    OBVIOUS
  <2>. USE DEF TypeOK
  <2>1. ASSUME NEW o \in Ops,
               ReadStripeId(o) \/ SelectNode(o) \/ RecordNode(o) \/ AbortCoordinator(o)
        PROVE NodeInv'
    BY <2>1, NodeInvReads, NodeInvSelects, NodeInvRecords, NodeInvAborts
  <2>2. ASSUME NEW o \in Ops, WriteStripeId(o) \/ ReplyUpload(o) PROVE NodeInv'
    <3>1. /\ UNCHANGED <<coordinator, nodeStripes, stripe, selected, map2node>>
          /\ pc' \in {[pc EXCEPT ![o] = "placing"], [pc EXCEPT ![o] = "replied"]}
      BY <2>2 DEF WriteStripeId, ReplyUpload, placeVars
    <3>. QED
      BY <3>1, NodeFrame
  <2>3. ASSUME NEW o \in Ops, FinishSet(o) \/ FailSet(o) \/ FailUpload(o) PROVE NodeInv'
    <3>1. /\ UNCHANGED <<coordinator, nodeStripes, stripe, selected, map2node>>
          /\ pc' \in {[pc EXCEPT ![o] = "acked"], [pc EXCEPT ![o] = "failed"]}
      BY <2>3 DEF FinishSet, FailSet, FailUpload, coordVars, placeVars
    <3>. QED
      BY <3>1, NodeFrame
  <2>4. ASSUME NEW o \in Ops, NEW g \in Groups,
               EraseCommit(o, g) \/ ScheduleAppend(o, g) \/ NoteUpdating(o, g)
        PROVE NodeInv'
    <3>1. UNCHANGED <<coordinator, nodeStripes, stripe, selected, map2node, pc>>
      BY <2>4 DEF EraseCommit, ScheduleAppend, NoteUpdating, coordVars, placeVars
    <3>. QED
      BY <3>1, NodeFrame
  <2>5. ASSUME NEW o \in Ops, NEW g \in Groups,
               SendSlice(o, g) \/ CheckCommit(o, g) \/ FailCheck(o, g)
        PROVE NodeInv'
    <3>1. UNCHANGED <<coordinator, nodeStripes, stripe, selected, map2node, pc>>
      BY <2>5 DEF SendSlice, CheckCommit, FailCheck, coordVars, uploadVars, placeVars
    <3>. QED
      BY <3>1, NodeFrame
  <2>6. ASSUME NEW x \in Slices, Proxy(x) PROVE NodeInv'
    <3>1. UNCHANGED <<coordinator, nodeStripes, stripe, selected, map2node, pc>>
      BY <2>6 DEF Proxy, AcceptSlice, ReportCommit, FailReport, coordVars, uploadVars, placeVars
    <3>. QED
      BY <3>1, NodeFrame
  <2>7. ASSUME NEW c \in Copies, Datanode(c) PROVE NodeInv'
    <3>1. UNCHANGED <<coordinator, nodeStripes, stripe, selected, map2node, pc>>
      BY <2>7 DEF Datanode, HandleAppend, SendBlock, AcceptBlock, WriteBlock, coordVars,
                  uploadVars, placeVars
    <3>. QED
      BY <3>1, NodeFrame
  <2>8. ASSUME NEW n \in Nodes, CrashNode(n) PROVE NodeInv'
    BY <2>8, NodeFrame DEF CrashNode, coordVars, uploadVars, placeVars
  <2>9. CASE UNCHANGED vars
    BY <2>9, NodeFrame DEF vars, coordVars, uploadVars, placeVars
  <2>. QED
    BY <2>1, <2>2, <2>3, <2>4, <2>5, <2>6, <2>7, <2>8, <2>9
    DEF Next, Handler, Client, Finished
<1>3. NodeInv => AbortNeedsSharedId
  BY DEF NodeInv
<1>. QED
  BY <1>1, <1>2, <1>3, TypeCorrect, PTL DEF Spec

-----------------------------------------------------------------------------
(* One client.  The inductive invariant: uploads run one at a time, their  *)
(* stripe ids are fresh, and each table holds exactly what the threads of  *)
(* the upload have done so far.                                            *)

Running(o) == pc[o] \in {"reading", "placing", "placed", "replied"}

\* the client's uploads follow each other
OneRuns == \A o, p \in Ops : Running(o) /\ Running(p) => o = p

\* the handler answers after its notify threads, having recorded the stripe
ReplyOrder ==
  \A o \in Ops : pc[o] \in {"replied", "acked"} =>
    /\ stripe[o] \in m_stripe_table
    /\ \A g \in PlanGroups(o) : notify[<<o, g>>] = "noted"

\* data follows the answer, success follows the commit
SendOrder ==
  /\ \A x \in Slices : send[x] # "none" =>
       pc[x[1]] \in {"replied", "acked"} /\ x[2] \in PlanGroups(x[1])
  /\ \A o \in Ops : pc[o] # "failed"
  /\ \A x \in Slices : send[x] # "failed"
  /\ \A x \in Slices : send[x] = "acked" => thread[x] = "reported"
  /\ \A o \in Ops : pc[o] = "acked" => \A g \in PlanGroups(o) : send[<<o, g>>] = "acked"

\* a thread holds its own slice or none, and a slice is in one place
OwnSlice ==
  \A x \in Slices :
    /\ got[x] = IF thread[x] \in {"sending", "reported"} THEN x ELSE None
    /\ got[x] = x => send[x] # "none"
    /\ x \in backlog => send[x] # "none" /\ got[x] = None

\* ids are given out in turn
FreshIds ==
  /\ \A o \in Ops : pc[o] = "reading" => stripe[o] = m_cur_stripe_id
  /\ \A o \in Ops : Assigned(o) => stripe[o] < m_cur_stripe_id
  /\ \A o, p \in Ops : Assigned(o) /\ Assigned(p) /\ stripe[o] = stripe[p] => o = p
  /\ \A k \in m_object_commit_table \union m_object_updating_table : k[1] < m_cur_stripe_id

\* the commit table holds the keys of the threads that reported, the updating
\* table those noted and not yet reported; no entry is made out of nothing
TablesFollow ==
  /\ \A x \in Slices : Assigned(x[1]) =>
       (Key(x) \in m_object_commit_table <=> thread[x] = "reported")
  /\ \A x \in Slices : Assigned(x[1]) =>
       (Key(x) \in m_object_updating_table <=> notify[x] = "noted" /\ thread[x] # "reported")
  /\ blank = {}

\* a datanode hears of a block from a thread that has its slice
HandlerOrder ==
  \A c \in Copies : handler[c] # "none" => thread[SliceOf(c)] \in {"sending", "reported"}

OneClientInv ==
  OneClient => /\ NotifyOrder /\ ThreadOrder /\ OneRuns /\ ReplyOrder /\ SendOrder
               /\ OwnSlice /\ FreshIds /\ TablesFollow /\ HandlerOrder

\* Ids that are given out in turn are not shared, and the coordinator lives.
LEMMA CoordinatorUp ==
  ASSUME TypeOK, OneRuns, FreshIds, AbortNeedsSharedId
  PROVE  coordinator = "up"
<1>. SUFFICES ASSUME NEW o \in Ops, NEW p \in Ops, o # p, pc[o] # "idle", pc[p] # "idle",
                     stripe[o] = stripe[p]
              PROVE  FALSE
  BY DEF AbortNeedsSharedId, IdShared, TypeOK
<1>. USE DEF TypeOK
<1>1. CASE Assigned(o) /\ Assigned(p)
  BY <1>1 DEF FreshIds
<1>2. CASE pc[o] = "reading" /\ pc[p] = "reading"
  BY <1>2 DEF OneRuns, Running
<1>3. CASE Assigned(o) /\ pc[p] = "reading"
  BY <1>3 DEF FreshIds
<1>4. CASE Assigned(p) /\ pc[o] = "reading"
  BY <1>4 DEF FreshIds
<1>. QED
  BY <1>1, <1>2, <1>3, <1>4 DEF Assigned

\* The steps of a coordinator that ended are none of a single client's.
LEMMA NoFailure ==
  ASSUME TypeOK, OneClient, OneClientInv, AbortNeedsSharedId
  PROVE  /\ \A o \in Ops : ~FailUpload(o) /\ ~FailSet(o)
         /\ \A o \in Ops : \A g \in Groups : ~FailCheck(o, g)
         /\ \A x \in Slices : ~FailReport(x)
<1>1. coordinator = "up"
  BY CoordinatorUp DEF OneClientInv
<1>2. ASSUME NEW o \in Ops, FailSet(o) PROVE FALSE
  <2>1. PICK g \in PlanGroups(o) : send[<<o, g>>] = "failed"
    BY <1>2 DEF FailSet
  <2>2. <<o, g>> \in Slices
    BY GroupsAssumption DEF PlanGroups, TypeOK, Slices
  <2>. QED
    BY <2>1, <2>2 DEF OneClientInv, SendOrder
<1>. QED
  BY <1>1, <1>2 DEF FailUpload, FailCheck, FailReport

\* Placing a block moves an upload within the phases before the answer.
LEMMA PlacingPhases ==
  ASSUME TypeOK, NEW o \in Ops, SelectNode(o) \/ RecordNode(o) \/ AbortCoordinator(o)
  PROVE  \A p \in Ops : /\ Assigned(p)' <=> Assigned(p)
                        /\ Running(p)' <=> Running(p)
                        /\ pc'[p] = "reading" <=> pc[p] = "reading"
                        /\ pc'[p] \in {"replied", "acked"} <=> pc[p] \in {"replied", "acked"}
                        /\ pc'[p] = "acked" <=> pc[p] = "acked"
                        /\ pc'[p] = "failed" <=> pc[p] = "failed"
<1>1. pc \in [Ops -> Phases] /\ pc[o] = "placing"
      /\ \/ pc' = pc
         \/ pc' = [pc EXCEPT ![o] = "placed"]
  BY PlacingFrame DEF TypeOK
<1>2. CASE pc' = pc
  BY <1>2 DEF Assigned, Running
<1>3. CASE pc' = [pc EXCEPT ![o] = "placed"]
  BY <1>1, <1>3 DEF Assigned, Running
<1>. QED
  BY <1>1, <1>2, <1>3

\* two groups of one stripe never share a cluster
LEMMA ClusterInjective ==
  ASSUME NEW s \in Nat, NEW g \in Groups, NEW h \in Groups,
         map2cluster(s, g) = map2cluster(s, h)
  PROVE  g = h
<1>. DEFINE q == (s + g) \div ClusterNum
            p == (s + h) \div ClusterNum
<1>1. /\ ClusterNum \in Nat /\ ClusterNum > 0
      /\ g \in Nat /\ h \in Nat /\ g < ClusterNum /\ h < ClusterNum
  BY GroupsAssumption DEF Groups
<1>2. \A a \in Nat : /\ a \div ClusterNum \in Int
                     /\ a = ClusterNum * (a \div ClusterNum) + (a % ClusterNum)
  BY <1>1
<1>3. s + g \in Nat /\ s + h \in Nat
  BY <1>1
<1>4. /\ q \in Int /\ p \in Int
      /\ s + g = ClusterNum * q + ((s + g) % ClusterNum)
      /\ s + h = ClusterNum * p + ((s + h) % ClusterNum)
  BY <1>2, <1>3
<1>. HIDE DEF q, p
<1>5. g - h = ClusterNum * q - ClusterNum * p
  BY <1>1, <1>4 DEF map2cluster
<1>6. CASE q = p
  BY <1>1, <1>4, <1>5, <1>6
<1>7. CASE q >= p + 1
  <2>1. ClusterNum * q >= ClusterNum * (p + 1)
    BY <1>1, <1>4, <1>7
  <2>2. ClusterNum * (p + 1) = ClusterNum * p + ClusterNum
    BY <1>1, <1>4
  <2>. QED
    BY <1>1, <1>4, <1>5, <2>1, <2>2
<1>8. CASE p >= q + 1
  <2>1. ClusterNum * p >= ClusterNum * (q + 1)
    BY <1>1, <1>4, <1>8
  <2>2. ClusterNum * (q + 1) = ClusterNum * q + ClusterNum
    BY <1>1, <1>4
  <2>. QED
    BY <1>1, <1>4, <1>5, <2>1, <2>2
<1>. QED
  BY <1>4, <1>6, <1>7, <1>8

\* distinct slices of assigned uploads have distinct keys
LEMMA KeyUnique ==
  ASSUME FreshIds, NEW x \in Slices, NEW y \in Slices,
         Assigned(x[1]), Assigned(y[1]), Key(x) = Key(y)
  PROVE  x = y
<1>1. x[1] = y[1] /\ x[2] = y[2]
  BY DEF FreshIds, Key, Slices
<1>. QED
  BY <1>1 DEF Slices

\* a thread past accept() serves an upload that was answered
LEMMA PastAccept ==
  ASSUME OneClient, OneClientInv, NEW x \in Slices, thread[x] \in {"sending", "reported"}
  PROVE  /\ Assigned(x[1]) /\ notify[x] = "noted"
         /\ stripe[x[1]] \in m_stripe_table /\ x[2] \in PlanGroups(x[1])
<1>1. send[x] # "none"
  BY DEF OneClientInv, OwnSlice
<1>2. pc[x[1]] \in {"replied", "acked"} /\ x[2] \in PlanGroups(x[1])
  BY <1>1 DEF OneClientInv, SendOrder
<1>3. x[1] \in Ops /\ x = <<x[1], x[2]>>
  BY DEF Slices
<1>4. notify[<<x[1], x[2]>>] = "noted" /\ stripe[x[1]] \in m_stripe_table
  BY <1>2, <1>3 DEF OneClientInv, ReplyOrder
<1>. QED
  BY <1>2, <1>3, <1>4 DEF Assigned

\* A single client begins an upload only when none of its own runs.
LEMMA OneRunsStays ==
  ASSUME TypeOK, OneClient, OneClientInv, AbortNeedsSharedId, [Next]_vars
  PROVE  OneRuns'
<1>1. NotifyOrder /\ ThreadOrder /\ OneRuns /\ ReplyOrder /\ SendOrder /\ OwnSlice /\ FreshIds /\ TablesFollow /\ HandlerOrder
  BY DEF OneClientInv
<1>. USE <1>1 DEF OneRuns, Running, TypeOK, OneClient, Phases
<1>2. ASSUME NEW o \in Ops, ReadStripeId(o) PROVE OneRuns'
  <2>1. /\ \A p \in Ops : ClientOf[p] = ClientOf[o] => pc[p] \in {"idle", "acked", "failed"}
        /\ pc' = [pc EXCEPT ![o] = "reading"]
    BY <1>2 DEF ReadStripeId
  <2>2. \A p \in Ops : ~Running(p)
    BY <2>1
  <2>. HIDE DEF OneClient
  <2>. QED
    BY <2>1, <2>2
<1>3. ASSUME NEW o \in Ops, WriteStripeId(o) PROVE OneRuns'
  BY <1>3 DEF WriteStripeId, proxyVars, nodeVars
<1>4. ASSUME NEW o \in Ops, ReplyUpload(o) PROVE OneRuns'
  BY <1>4 DEF ReplyUpload, NotifiersJoined, Recorded, proxyVars, nodeVars
<1>5. ASSUME NEW o \in Ops, NEW g \in Groups, EraseCommit(o, g) PROVE OneRuns'
  BY <1>5 DEF EraseCommit, Forgotten, proxyVars, nodeVars
<1>6. ASSUME NEW o \in Ops, NEW g \in Groups, ScheduleAppend(o, g) PROVE OneRuns'
  BY <1>6 DEF ScheduleAppend, coordVars, nodeVars
<1>7. ASSUME NEW o \in Ops, NEW g \in Groups, NoteUpdating(o, g) PROVE OneRuns'
  BY <1>7 DEF NoteUpdating, proxyVars, nodeVars
<1>8. ASSUME NEW o \in Ops, NEW g \in Groups, SendSlice(o, g) PROVE OneRuns'
  BY <1>8 DEF SendSlice, coordVars, uploadVars, nodeVars
<1>9. ASSUME NEW o \in Ops, NEW g \in Groups, CheckCommit(o, g) PROVE OneRuns'
  BY <1>9 DEF CheckCommit, Committed, coordVars, uploadVars, proxyVars, nodeVars
<1>10. ASSUME NEW o \in Ops, FinishSet(o) PROVE OneRuns'
  BY <1>10 DEF FinishSet, AllAcked, coordVars, proxyVars, nodeVars
<1>11. ASSUME NEW x \in Slices, NEW y \in backlog, AcceptSlice(x, y) PROVE OneRuns'
  BY <1>11 DEF AcceptSlice, coordVars, uploadVars, nodeVars
<1>12. ASSUME NEW x \in Slices, ReportCommit(x) PROVE OneRuns'
  BY <1>12 DEF ReportCommit, SendersJoined, uploadVars, nodeVars
<1>13. ASSUME NEW c \in Copies, HandleAppend(c) PROVE OneRuns'
  BY <1>13 DEF HandleAppend, Returns, coordVars, uploadVars
<1>14. ASSUME NEW c \in Copies, SendBlock(c) PROVE OneRuns'
  BY <1>14 DEF SendBlock, coordVars, uploadVars
<1>15. ASSUME NEW c \in Copies, NEW d \in dnBacklog, AcceptBlock(c, d) PROVE OneRuns'
  BY <1>15 DEF AcceptBlock, coordVars, uploadVars, proxyVars
<1>16. ASSUME NEW c \in Copies, WriteBlock(c) PROVE OneRuns'
  BY <1>16 DEF WriteBlock, coordVars, uploadVars, proxyVars
<1>17. ASSUME NEW n \in Nodes, CrashNode(n) PROVE OneRuns'
  BY <1>17 DEF CrashNode, coordVars, uploadVars, proxyVars
<1>18. CASE UNCHANGED vars
  BY <1>18 DEF vars, coordVars, uploadVars, proxyVars, nodeVars
<1>19. ASSUME NEW o \in Ops, SelectNode(o) \/ RecordNode(o) \/ AbortCoordinator(o)
       PROVE OneRuns'
  BY <1>19, PlacingPhases
<1>. QED
  BY NoFailure, <1>2, <1>3, <1>4, <1>5, <1>6, <1>7, <1>8, <1>9, <1>10, <1>11, <1>12, <1>13, <1>14, <1>15, <1>16, <1>17, <1>18, <1>19
  DEF Next, Handler, Client, Proxy, Datanode, Finished


\* The handler answers when the stripe is recorded and its proxies were called.
LEMMA ReplyOrderStays ==
  ASSUME TypeOK, OneClient, OneClientInv, AbortNeedsSharedId, [Next]_vars
  PROVE  ReplyOrder'
<1>1. NotifyOrder /\ ThreadOrder /\ OneRuns /\ ReplyOrder /\ SendOrder /\ OwnSlice /\ FreshIds /\ TablesFollow /\ HandlerOrder
  BY DEF OneClientInv
<1>. USE <1>1 DEF ReplyOrder, PlanGroups, TypeOK, Phases
<1>2. ASSUME NEW o \in Ops, ReadStripeId(o) PROVE ReplyOrder'
  BY <1>2 DEF ReadStripeId, coordVars, proxyVars, nodeVars
<1>3. ASSUME NEW o \in Ops, WriteStripeId(o) PROVE ReplyOrder'
  BY <1>3 DEF WriteStripeId, proxyVars, nodeVars
<1>4. ASSUME NEW o \in Ops, ReplyUpload(o) PROVE ReplyOrder'
  BY <1>4 DEF ReplyUpload, NotifiersJoined, Recorded, proxyVars, nodeVars
<1>5. ASSUME NEW o \in Ops, NEW g \in Groups, EraseCommit(o, g) PROVE ReplyOrder'
  BY <1>5 DEF EraseCommit, Forgotten, proxyVars, nodeVars
<1>6. ASSUME NEW o \in Ops, NEW g \in Groups, ScheduleAppend(o, g) PROVE ReplyOrder'
  <2>1. /\ notify[<<o, g>>] = "erased" /\ notify' = [notify EXCEPT ![<<o, g>>] = "called"]
        /\ UNCHANGED <<pc, stripe, request, m_stripe_table>>
    BY <1>6 DEF ScheduleAppend, coordVars
  <2>2. \A p \in Ops, h \in Groups : notify[<<p, h>>] = "noted" => notify'[<<p, h>>] = "noted"
    BY <2>1 DEF Slices
  <2>3. \A p \in Ops : PlanGroups(p)' = PlanGroups(p) /\ PlanGroups(p) \subseteq Groups
    BY <2>1, GroupsAssumption
  <2>. HIDE DEF PlanGroups
  <2>. QED
    BY <2>1, <2>2, <2>3
<1>7. ASSUME NEW o \in Ops, NEW g \in Groups, NoteUpdating(o, g) PROVE ReplyOrder'
  BY <1>7 DEF NoteUpdating, proxyVars, nodeVars
<1>8. ASSUME NEW o \in Ops, NEW g \in Groups, SendSlice(o, g) PROVE ReplyOrder'
  BY <1>8 DEF SendSlice, coordVars, uploadVars, nodeVars
<1>9. ASSUME NEW o \in Ops, NEW g \in Groups, CheckCommit(o, g) PROVE ReplyOrder'
  BY <1>9 DEF CheckCommit, Committed, coordVars, uploadVars, proxyVars, nodeVars
<1>10. ASSUME NEW o \in Ops, FinishSet(o) PROVE ReplyOrder'
  BY <1>10 DEF FinishSet, AllAcked, coordVars, proxyVars, nodeVars
<1>11. ASSUME NEW x \in Slices, NEW y \in backlog, AcceptSlice(x, y) PROVE ReplyOrder'
  BY <1>11 DEF AcceptSlice, coordVars, uploadVars, nodeVars
<1>12. ASSUME NEW x \in Slices, ReportCommit(x) PROVE ReplyOrder'
  BY <1>12 DEF ReportCommit, SendersJoined, uploadVars, nodeVars
<1>13. ASSUME NEW c \in Copies, HandleAppend(c) PROVE ReplyOrder'
  BY <1>13 DEF HandleAppend, Returns, coordVars, uploadVars
<1>14. ASSUME NEW c \in Copies, SendBlock(c) PROVE ReplyOrder'
  BY <1>14 DEF SendBlock, coordVars, uploadVars
<1>15. ASSUME NEW c \in Copies, NEW d \in dnBacklog, AcceptBlock(c, d) PROVE ReplyOrder'
  BY <1>15 DEF AcceptBlock, coordVars, uploadVars, proxyVars
<1>16. ASSUME NEW c \in Copies, WriteBlock(c) PROVE ReplyOrder'
  BY <1>16 DEF WriteBlock, coordVars, uploadVars, proxyVars
<1>17. ASSUME NEW n \in Nodes, CrashNode(n) PROVE ReplyOrder'
  BY <1>17 DEF CrashNode, coordVars, uploadVars, proxyVars
<1>18. CASE UNCHANGED vars
  BY <1>18 DEF vars, coordVars, uploadVars, proxyVars, nodeVars
<1>19. ASSUME NEW o \in Ops, SelectNode(o) \/ RecordNode(o) \/ AbortCoordinator(o)
       PROVE ReplyOrder'
  <2>1. UNCHANGED <<stripe, request, notify, m_stripe_table>>
    BY <1>19, PlacingFrame
  <2>2. \A p \in Ops : /\ Assigned(p)' <=> Assigned(p)
                       /\ pc'[p] = "reading" <=> pc[p] = "reading"
                       /\ pc'[p] \in {"replied", "acked"} <=> pc[p] \in {"replied", "acked"}
                       /\ pc'[p] = "acked" <=> pc[p] = "acked"
                       /\ pc'[p] = "failed" <=> pc[p] = "failed"
    BY <1>19, PlacingPhases
  <2>. HIDE DEF Assigned
  <2>. QED
    BY <2>1, <2>2
<1>. QED
  BY NoFailure, <1>2, <1>3, <1>4, <1>5, <1>6, <1>7, <1>8, <1>9, <1>10, <1>11, <1>12, <1>13, <1>14, <1>15, <1>16, <1>17, <1>18, <1>19
  DEF Next, Handler, Client, Proxy, Datanode, Finished


\* The client sends when it was answered and succeeds when it has seen the commit.
LEMMA SendOrderStays ==
  ASSUME TypeOK, OneClient, OneClientInv, AbortNeedsSharedId, [Next]_vars
  PROVE  SendOrder'
<1>1. NotifyOrder /\ ThreadOrder /\ OneRuns /\ ReplyOrder /\ SendOrder /\ OwnSlice /\ FreshIds /\ TablesFollow /\ HandlerOrder
  BY DEF OneClientInv
<1>. USE <1>1 DEF SendOrder, PlanGroups, TypeOK, Slices, Phases
<1>2. ASSUME NEW o \in Ops, ReadStripeId(o) PROVE SendOrder'
  BY <1>2 DEF ReadStripeId, coordVars, proxyVars, nodeVars
<1>3. ASSUME NEW o \in Ops, WriteStripeId(o) PROVE SendOrder'
  BY <1>3 DEF WriteStripeId, proxyVars, nodeVars
<1>4. ASSUME NEW o \in Ops, ReplyUpload(o) PROVE SendOrder'
  BY <1>4 DEF ReplyUpload, NotifiersJoined, Recorded, proxyVars, nodeVars
<1>5. ASSUME NEW o \in Ops, NEW g \in Groups, EraseCommit(o, g) PROVE SendOrder'
  BY <1>5 DEF EraseCommit, Forgotten, proxyVars, nodeVars
<1>6. ASSUME NEW o \in Ops, NEW g \in Groups, ScheduleAppend(o, g) PROVE SendOrder'
  <2>1. /\ notify[<<o, g>>] = "erased"
        /\ thread' = [thread EXCEPT ![<<o, g>>] = "accepting"]
        /\ UNCHANGED <<pc, request, send>>
    BY <1>6 DEF ScheduleAppend
  <2>2. thread[<<o, g>>] = "none"
    BY <2>1 DEF ThreadOrder
  <2>3. \A p \in Ops : PlanGroups(p)' = PlanGroups(p)
    BY <2>1
  <2>4. \A x \in Slices : thread[x] = "reported" => thread'[x] = "reported"
    BY <2>1, <2>2
  <2>5. \A x \in Slices : x[1] \in Ops
    OBVIOUS
  <2>. HIDE DEF PlanGroups, Slices
  <2>. QED
    BY <2>1, <2>3, <2>4, <2>5
<1>7. ASSUME NEW o \in Ops, NEW g \in Groups, NoteUpdating(o, g) PROVE SendOrder'
  BY <1>7 DEF NoteUpdating, proxyVars, nodeVars
<1>8. ASSUME NEW o \in Ops, NEW g \in Groups, SendSlice(o, g) PROVE SendOrder'
  BY <1>8 DEF SendSlice, coordVars, uploadVars, nodeVars
<1>9. ASSUME NEW o \in Ops, NEW g \in Groups, CheckCommit(o, g) PROVE SendOrder'
  <2>1. /\ send[<<o, g>>] = "sent" /\ Key(<<o, g>>) \in m_object_commit_table
        /\ send' = [send EXCEPT ![<<o, g>>] = "acked"]
        /\ UNCHANGED <<pc, request, thread>>
    BY <1>9 DEF CheckCommit, Committed, uploadVars, proxyVars
  <2>2. thread[<<o, g>>] = "reported"
    BY <2>1 DEF TablesFollow, Assigned
  <2>3. \A p \in Ops : PlanGroups(p)' = PlanGroups(p)
    BY <2>1
  <2>4. \A x \in Slices : send'[x] = IF x = <<o, g>> THEN "acked" ELSE send[x]
    BY <2>1
  <2>5. \A x \in Slices : send'[x] # "none" => send[x] # "none"
    BY <2>1, <2>4
  <2>6. \A x \in Slices : send'[x] # "failed"
    BY <2>1, <2>4
  <2>7. \A x \in Slices : send'[x] = "acked" => thread[x] = "reported"
    BY <2>2, <2>4
  <2>8. \A p \in Ops : \A h \in Groups : send[<<p, h>>] = "acked" => send'[<<p, h>>] = "acked"
    BY <2>1
  <2>9. \A p \in Ops : PlanGroups(p) \subseteq Groups
    BY GroupsAssumption
  <2>10. \A x \in Slices : x[1] \in Ops
    OBVIOUS
  <2>. HIDE DEF PlanGroups, Slices
  <2>. QED
    BY <2>1, <2>3, <2>5, <2>6, <2>7, <2>8, <2>9, <2>10
<1>10. ASSUME NEW o \in Ops, FinishSet(o) PROVE SendOrder'
  BY <1>10 DEF FinishSet, AllAcked, coordVars, proxyVars, nodeVars
<1>11. ASSUME NEW x \in Slices, NEW y \in backlog, AcceptSlice(x, y) PROVE SendOrder'
  BY <1>11 DEF AcceptSlice, coordVars, uploadVars, nodeVars
<1>12. ASSUME NEW x \in Slices, ReportCommit(x) PROVE SendOrder'
  BY <1>12 DEF ReportCommit, SendersJoined, uploadVars, nodeVars
<1>13. ASSUME NEW c \in Copies, HandleAppend(c) PROVE SendOrder'
  BY <1>13 DEF HandleAppend, Returns, coordVars, uploadVars
<1>14. ASSUME NEW c \in Copies, SendBlock(c) PROVE SendOrder'
  BY <1>14 DEF SendBlock, coordVars, uploadVars
<1>15. ASSUME NEW c \in Copies, NEW d \in dnBacklog, AcceptBlock(c, d) PROVE SendOrder'
  BY <1>15 DEF AcceptBlock, coordVars, uploadVars, proxyVars
<1>16. ASSUME NEW c \in Copies, WriteBlock(c) PROVE SendOrder'
  BY <1>16 DEF WriteBlock, coordVars, uploadVars, proxyVars
<1>17. ASSUME NEW n \in Nodes, CrashNode(n) PROVE SendOrder'
  BY <1>17 DEF CrashNode, coordVars, uploadVars, proxyVars
<1>18. CASE UNCHANGED vars
  BY <1>18 DEF vars, coordVars, uploadVars, proxyVars, nodeVars
<1>19. ASSUME NEW o \in Ops, SelectNode(o) \/ RecordNode(o) \/ AbortCoordinator(o)
       PROVE SendOrder'
  <2>1. UNCHANGED <<request, send, thread>>
    BY <1>19, PlacingFrame
  <2>2. \A p \in Ops : /\ Assigned(p)' <=> Assigned(p)
                       /\ pc'[p] = "reading" <=> pc[p] = "reading"
                       /\ pc'[p] \in {"replied", "acked"} <=> pc[p] \in {"replied", "acked"}
                       /\ pc'[p] = "acked" <=> pc[p] = "acked"
                       /\ pc'[p] = "failed" <=> pc[p] = "failed"
    BY <1>19, PlacingPhases
  <2>. HIDE DEF Assigned
  <2>. QED
    BY <2>1, <2>2
<1>. QED
  BY NoFailure, <1>2, <1>3, <1>4, <1>5, <1>6, <1>7, <1>8, <1>9, <1>10, <1>11, <1>12, <1>13, <1>14, <1>15, <1>16, <1>17, <1>18, <1>19
  DEF Next, Handler, Client, Proxy, Datanode, Finished


\* A datanode's handler runs for a thread that holds the slice.
LEMMA HandlerOrderStays ==
  ASSUME TypeOK, OneClient, OneClientInv, AbortNeedsSharedId, [Next]_vars
  PROVE  HandlerOrder'
<1>1. NotifyOrder /\ ThreadOrder /\ OneRuns /\ ReplyOrder /\ SendOrder /\ OwnSlice /\ FreshIds /\ TablesFollow /\ HandlerOrder
  BY DEF OneClientInv
<1>. USE <1>1 DEF HandlerOrder, SliceOf, Slices, Copies, TypeOK
<1>2. ASSUME NEW o \in Ops, ReadStripeId(o) PROVE HandlerOrder'
  BY <1>2 DEF ReadStripeId, coordVars, proxyVars, nodeVars
<1>3. ASSUME NEW o \in Ops, WriteStripeId(o) PROVE HandlerOrder'
  BY <1>3 DEF WriteStripeId, proxyVars, nodeVars
<1>4. ASSUME NEW o \in Ops, ReplyUpload(o) PROVE HandlerOrder'
  BY <1>4 DEF ReplyUpload, NotifiersJoined, Recorded, proxyVars, nodeVars
<1>5. ASSUME NEW o \in Ops, NEW g \in Groups, EraseCommit(o, g) PROVE HandlerOrder'
  BY <1>5 DEF EraseCommit, Forgotten, proxyVars, nodeVars
<1>6. ASSUME NEW o \in Ops, NEW g \in Groups, ScheduleAppend(o, g) PROVE HandlerOrder'
  <2>1. /\ notify[<<o, g>>] = "erased"
        /\ thread' = [thread EXCEPT ![<<o, g>>] = "accepting"]
        /\ UNCHANGED handler
    BY <1>6 DEF ScheduleAppend, nodeVars
  <2>2. thread[<<o, g>>] = "none"
    BY <2>1 DEF ThreadOrder
  <2>3. \A x \in Slices : thread[x] \in {"sending", "reported"} => thread'[x] = thread[x]
    BY <2>1, <2>2
  <2>4. \A c \in Copies : SliceOf(c) \in Slices /\ SliceOf(c)' = SliceOf(c)
    BY SliceOfType
  <2>. HIDE DEF SliceOf, Slices, Copies
  <2>. QED
    BY <2>1, <2>3, <2>4
<1>7. ASSUME NEW o \in Ops, NEW g \in Groups, NoteUpdating(o, g) PROVE HandlerOrder'
  BY <1>7 DEF NoteUpdating, proxyVars, nodeVars
<1>8. ASSUME NEW o \in Ops, NEW g \in Groups, SendSlice(o, g) PROVE HandlerOrder'
  BY <1>8 DEF SendSlice, coordVars, uploadVars, nodeVars
<1>9. ASSUME NEW o \in Ops, NEW g \in Groups, CheckCommit(o, g) PROVE HandlerOrder'
  BY <1>9 DEF CheckCommit, Committed, coordVars, uploadVars, proxyVars, nodeVars
<1>10. ASSUME NEW o \in Ops, FinishSet(o) PROVE HandlerOrder'
  BY <1>10 DEF FinishSet, AllAcked, coordVars, proxyVars, nodeVars
<1>11. ASSUME NEW x \in Slices, NEW y \in backlog, AcceptSlice(x, y) PROVE HandlerOrder'
  BY <1>11 DEF AcceptSlice, coordVars, uploadVars, nodeVars
<1>12. ASSUME NEW x \in Slices, ReportCommit(x) PROVE HandlerOrder'
  BY <1>12 DEF ReportCommit, SendersJoined, uploadVars, nodeVars
<1>13. ASSUME NEW c \in Copies, HandleAppend(c) PROVE HandlerOrder'
  BY <1>13 DEF HandleAppend, Returns, coordVars, uploadVars
<1>14. ASSUME NEW c \in Copies, SendBlock(c) PROVE HandlerOrder'
  BY <1>14 DEF SendBlock, coordVars, uploadVars
<1>15. ASSUME NEW c \in Copies, NEW d \in dnBacklog, AcceptBlock(c, d) PROVE HandlerOrder'
  BY <1>15 DEF AcceptBlock, coordVars, uploadVars, proxyVars
<1>16. ASSUME NEW c \in Copies, WriteBlock(c) PROVE HandlerOrder'
  BY <1>16 DEF WriteBlock, coordVars, uploadVars, proxyVars
<1>17. ASSUME NEW n \in Nodes, CrashNode(n) PROVE HandlerOrder'
  BY <1>17 DEF CrashNode, coordVars, uploadVars, proxyVars
<1>18. CASE UNCHANGED vars
  BY <1>18 DEF vars, coordVars, uploadVars, proxyVars, nodeVars
<1>19. ASSUME NEW o \in Ops, SelectNode(o) \/ RecordNode(o) \/ AbortCoordinator(o)
       PROVE HandlerOrder'
  BY <1>19, PlacingFrame
<1>. QED
  BY NoFailure, <1>2, <1>3, <1>4, <1>5, <1>6, <1>7, <1>8, <1>9, <1>10, <1>11, <1>12, <1>13, <1>14, <1>15, <1>16, <1>17, <1>18, <1>19
  DEF Next, Handler, Client, Proxy, Datanode, Finished


\* With one client a thread takes its own slice, for no other waits at its proxy.
LEMMA OwnSliceStays ==
  ASSUME TypeOK, OneClient, OneClientInv, AbortNeedsSharedId, [Next]_vars
  PROVE  OwnSlice'
<1>1. NotifyOrder /\ ThreadOrder /\ OneRuns /\ ReplyOrder /\ SendOrder /\ OwnSlice /\ FreshIds /\ TablesFollow /\ HandlerOrder
  BY DEF OneClientInv
<1>. USE <1>1 DEF OwnSlice, TypeOK, Slices
<1>2. ASSUME NEW o \in Ops, ReadStripeId(o) PROVE OwnSlice'
  BY <1>2 DEF ReadStripeId, coordVars, proxyVars, nodeVars
<1>3. ASSUME NEW o \in Ops, WriteStripeId(o) PROVE OwnSlice'
  BY <1>3 DEF WriteStripeId, proxyVars, nodeVars
<1>4. ASSUME NEW o \in Ops, ReplyUpload(o) PROVE OwnSlice'
  BY <1>4 DEF ReplyUpload, NotifiersJoined, Recorded, proxyVars, nodeVars
<1>5. ASSUME NEW o \in Ops, NEW g \in Groups, EraseCommit(o, g) PROVE OwnSlice'
  BY <1>5 DEF EraseCommit, Forgotten, proxyVars, nodeVars
<1>6. ASSUME NEW o \in Ops, NEW g \in Groups, ScheduleAppend(o, g) PROVE OwnSlice'
  BY <1>6 DEF ThreadOrder, ScheduleAppend, coordVars, nodeVars
<1>7. ASSUME NEW o \in Ops, NEW g \in Groups, NoteUpdating(o, g) PROVE OwnSlice'
  BY <1>7 DEF NoteUpdating, proxyVars, nodeVars
<1>8. ASSUME NEW o \in Ops, NEW g \in Groups, SendSlice(o, g) PROVE OwnSlice'
  BY <1>8 DEF SendSlice, coordVars, uploadVars, nodeVars
<1>9. ASSUME NEW o \in Ops, NEW g \in Groups, CheckCommit(o, g) PROVE OwnSlice'
  BY <1>9 DEF CheckCommit, Committed, coordVars, uploadVars, proxyVars, nodeVars
<1>10. ASSUME NEW o \in Ops, FinishSet(o) PROVE OwnSlice'
  BY <1>10 DEF FinishSet, AllAcked, coordVars, proxyVars, nodeVars
<1>11. ASSUME NEW x \in Slices, NEW y \in backlog, AcceptSlice(x, y) PROVE OwnSlice'
  <2>1. /\ thread[x] = "accepting" /\ y \in backlog /\ Cluster(y) = Cluster(x)
        /\ thread' = [thread EXCEPT ![x] = "sending"]
        /\ got' = [got EXCEPT ![x] = y]
        /\ backlog' = backlog \ {y}
        /\ UNCHANGED send
    BY <1>11 DEF AcceptSlice
  <2>2. Running(x[1])
    <3>1. x[1] \in Ops /\ Placed(x[1]) /\ x[2] \in PlanGroups(x[1]) /\ x = <<x[1], x[2]>>
      <4>1. notify[x] # "none"
        BY <2>1 DEF ThreadOrder
      <4>. QED
        BY <4>1 DEF NotifyOrder
    <3>2. pc[x[1]] # "acked" /\ pc[x[1]] # "failed"
      BY <2>1, <3>1 DEF SendOrder
    <3>. QED
      BY <3>1, <3>2 DEF Running, Placed, Phases
  <2>3. Running(y[1])
    <3>1. /\ y \in Slices /\ send[y] # "none" /\ got[y] = None
          /\ pc[y[1]] \in {"replied", "acked"} /\ y[2] \in PlanGroups(y[1])
      BY <2>1 DEF SendOrder
    <3>2. y # None
      BY <3>1, NoneAssumption
    <3>3. thread[y] # "reported"
      BY <3>1, <3>2
    <3>4. pc[y[1]] # "acked"
      BY <3>1, <3>3 DEF SendOrder
    <3>. QED
      BY <3>1, <3>4 DEF Running
  <2>4. x[1] = y[1]
    BY <2>2, <2>3 DEF OneRuns
  <2>5. x[2] = y[2]
    BY <2>1, <2>4, ClusterInjective DEF Cluster
  <2>6. x = y
    <3>1. x = <<x[1], x[2]>> /\ y = <<y[1], y[2]>>
      BY <2>1
    <3>. QED
      BY <2>4, <2>5, <3>1
  <2>. QED
    BY <2>1, <2>6
<1>12. ASSUME NEW x \in Slices, ReportCommit(x) PROVE OwnSlice'
  BY <1>12 DEF ReportCommit, SendersJoined, uploadVars, nodeVars
<1>13. ASSUME NEW c \in Copies, HandleAppend(c) PROVE OwnSlice'
  BY <1>13 DEF HandleAppend, Returns, coordVars, uploadVars
<1>14. ASSUME NEW c \in Copies, SendBlock(c) PROVE OwnSlice'
  BY <1>14 DEF SendBlock, coordVars, uploadVars
<1>15. ASSUME NEW c \in Copies, NEW d \in dnBacklog, AcceptBlock(c, d) PROVE OwnSlice'
  BY <1>15 DEF AcceptBlock, coordVars, uploadVars, proxyVars
<1>16. ASSUME NEW c \in Copies, WriteBlock(c) PROVE OwnSlice'
  BY <1>16 DEF WriteBlock, coordVars, uploadVars, proxyVars
<1>17. ASSUME NEW n \in Nodes, CrashNode(n) PROVE OwnSlice'
  BY <1>17 DEF CrashNode, coordVars, uploadVars, proxyVars
<1>18. CASE UNCHANGED vars
  BY <1>18 DEF vars, coordVars, uploadVars, proxyVars, nodeVars
<1>19. ASSUME NEW o \in Ops, SelectNode(o) \/ RecordNode(o) \/ AbortCoordinator(o)
       PROVE OwnSlice'
  BY <1>19, PlacingFrame
<1>. QED
  BY NoFailure, <1>2, <1>3, <1>4, <1>5, <1>6, <1>7, <1>8, <1>9, <1>10, <1>11, <1>12, <1>13, <1>14, <1>15, <1>16, <1>17, <1>18, <1>19
  DEF Next, Handler, Client, Proxy, Datanode, Finished


\* With one client no id is given out twice: the handler that reads it is the one
\* that counts it up.
LEMMA FreshIdsStays ==
  ASSUME TypeOK, OneClient, OneClientInv, AbortNeedsSharedId, [Next]_vars
  PROVE  FreshIds'
<1>1. NotifyOrder /\ ThreadOrder /\ OneRuns /\ ReplyOrder /\ SendOrder /\ OwnSlice /\ FreshIds /\ TablesFollow /\ HandlerOrder
  BY DEF OneClientInv
<1>. USE <1>1 DEF FreshIds, Assigned, Placed, TypeOK, Key
<1>2. ASSUME NEW o \in Ops, ReadStripeId(o) PROVE FreshIds'
  BY <1>2 DEF ReadStripeId, coordVars, proxyVars, nodeVars
<1>3. ASSUME NEW o \in Ops, WriteStripeId(o) PROVE FreshIds'
  <2>1. /\ pc[o] = "reading" /\ pc' = [pc EXCEPT ![o] = "placing"]
        /\ m_cur_stripe_id' = stripe[o] + 1
        /\ UNCHANGED <<stripe, m_object_commit_table, m_object_updating_table>>
    BY <1>3 DEF WriteStripeId
  <2>2. stripe[o] = m_cur_stripe_id /\ \A p \in Ops : pc[p] = "reading" => p = o
    BY <2>1 DEF OneRuns, Running
  <2>3. \A p \in Ops : Assigned(p)' => p = o \/ Assigned(p)
    BY <2>1
  <2>4. \A k \in m_object_commit_table \union m_object_updating_table : k[1] \in Nat
    BY DEF Keys
  <2>. QED
    BY <2>1, <2>2, <2>3, <2>4
<1>4. ASSUME NEW o \in Ops, ReplyUpload(o) PROVE FreshIds'
  BY <1>4 DEF ReplyUpload, NotifiersJoined, Recorded, proxyVars, nodeVars
<1>5. ASSUME NEW o \in Ops, NEW g \in Groups, EraseCommit(o, g) PROVE FreshIds'
  BY <1>5 DEF EraseCommit, Forgotten, proxyVars, nodeVars
<1>6. ASSUME NEW o \in Ops, NEW g \in Groups, ScheduleAppend(o, g) PROVE FreshIds'
  BY <1>6 DEF ScheduleAppend, coordVars, nodeVars
<1>7. ASSUME NEW o \in Ops, NEW g \in Groups, NoteUpdating(o, g) PROVE FreshIds'
  <2>1. /\ notify[<<o, g>>] = "called"
        /\ m_object_updating_table' = m_object_updating_table \union {<<stripe[o], g>>}
        /\ UNCHANGED <<pc, stripe, m_cur_stripe_id, m_object_commit_table>>
    BY <1>7 DEF NoteUpdating
  <2>2. stripe[o] < m_cur_stripe_id
    <3>1. <<o, g>> \in Slices
      BY DEF Slices
    <3>2. Placed(o)
      BY <2>1, <3>1 DEF NotifyOrder
    <3>. QED
      BY <3>2
  <2>. QED
    BY <2>1, <2>2
<1>8. ASSUME NEW o \in Ops, NEW g \in Groups, SendSlice(o, g) PROVE FreshIds'
  BY <1>8 DEF SendSlice, coordVars, uploadVars, nodeVars
<1>9. ASSUME NEW o \in Ops, NEW g \in Groups, CheckCommit(o, g) PROVE FreshIds'
  BY <1>9 DEF CheckCommit, Committed, coordVars, uploadVars, proxyVars, nodeVars
<1>10. ASSUME NEW o \in Ops, FinishSet(o) PROVE FreshIds'
  BY <1>10 DEF FinishSet, AllAcked, coordVars, proxyVars, nodeVars
<1>11. ASSUME NEW x \in Slices, NEW y \in backlog, AcceptSlice(x, y) PROVE FreshIds'
  BY <1>11 DEF AcceptSlice, coordVars, uploadVars, nodeVars
<1>12. ASSUME NEW x \in Slices, ReportCommit(x) PROVE FreshIds'
  <2>1. /\ thread[x] = "sending"
        /\ m_object_commit_table' = m_object_commit_table \union {<<stripe[x[1]], x[2]>>}
        /\ m_object_updating_table' \subseteq m_object_updating_table
        /\ UNCHANGED <<pc, stripe, m_cur_stripe_id>>
    BY <1>12 DEF ReportCommit, uploadVars
  <2>2. stripe[x[1]] < m_cur_stripe_id
    BY <2>1, PastAccept DEF Slices
  <2>. QED
    BY <2>1, <2>2
<1>13. ASSUME NEW c \in Copies, HandleAppend(c) PROVE FreshIds'
  BY <1>13 DEF HandleAppend, Returns, coordVars, uploadVars
<1>14. ASSUME NEW c \in Copies, SendBlock(c) PROVE FreshIds'
  BY <1>14 DEF SendBlock, coordVars, uploadVars
<1>15. ASSUME NEW c \in Copies, NEW d \in dnBacklog, AcceptBlock(c, d) PROVE FreshIds'
  BY <1>15 DEF AcceptBlock, coordVars, uploadVars, proxyVars
<1>16. ASSUME NEW c \in Copies, WriteBlock(c) PROVE FreshIds'
  BY <1>16 DEF WriteBlock, coordVars, uploadVars, proxyVars
<1>17. ASSUME NEW n \in Nodes, CrashNode(n) PROVE FreshIds'
  BY <1>17 DEF CrashNode, coordVars, uploadVars, proxyVars
<1>18. CASE UNCHANGED vars
  BY <1>18 DEF vars, coordVars, uploadVars, proxyVars, nodeVars
<1>19. ASSUME NEW o \in Ops, SelectNode(o) \/ RecordNode(o) \/ AbortCoordinator(o)
       PROVE FreshIds'
  <2>1. UNCHANGED <<stripe, m_cur_stripe_id, m_object_commit_table, m_object_updating_table>>
    BY <1>19, PlacingFrame
  <2>2. \A p \in Ops : /\ Assigned(p)' <=> Assigned(p)
                       /\ pc'[p] = "reading" <=> pc[p] = "reading"
                       /\ pc'[p] \in {"replied", "acked"} <=> pc[p] \in {"replied", "acked"}
                       /\ pc'[p] = "acked" <=> pc[p] = "acked"
                       /\ pc'[p] = "failed" <=> pc[p] = "failed"
    BY <1>19, PlacingPhases
  <2>. HIDE DEF Assigned
  <2>. QED
    BY <2>1, <2>2
<1>. QED
  BY NoFailure, <1>2, <1>3, <1>4, <1>5, <1>6, <1>7, <1>8, <1>9, <1>10, <1>11, <1>12, <1>13, <1>14, <1>15, <1>16, <1>17, <1>18, <1>19
  DEF Next, Handler, Client, Proxy, Datanode, Finished


\* The tables change with the thread of the key: noted before, committed after.
LEMMA TablesFollowStays ==
  ASSUME TypeOK, OneClient, OneClientInv, AbortNeedsSharedId, [Next]_vars
  PROVE  TablesFollow'
<1>1. NotifyOrder /\ ThreadOrder /\ OneRuns /\ ReplyOrder /\ SendOrder /\ OwnSlice /\ FreshIds /\ TablesFollow /\ HandlerOrder
  BY DEF OneClientInv
<1>. USE <1>1 DEF TablesFollow, Assigned, Placed, TypeOK, Key, Slices
<1>2. ASSUME NEW o \in Ops, ReadStripeId(o) PROVE TablesFollow'
  BY <1>2 DEF ReadStripeId, coordVars, proxyVars, nodeVars
<1>3. ASSUME NEW o \in Ops, WriteStripeId(o) PROVE TablesFollow'
  <2>1. /\ pc[o] = "reading" /\ pc' = [pc EXCEPT ![o] = "placing"]
        /\ UNCHANGED <<stripe, m_object_commit_table, m_object_updating_table, blank,
                       notify, thread>>
    BY <1>3 DEF WriteStripeId, proxyVars
  <2>2. ASSUME NEW x \in Slices, x[1] = o
        PROVE  /\ Key(x) \notin m_object_commit_table \union m_object_updating_table
               /\ thread[x] = "none" /\ notify[x] = "none"
    <3>1. stripe[o] = m_cur_stripe_id /\ Key(x)[1] = m_cur_stripe_id
      BY <2>1, <2>2 DEF FreshIds
    <3>2. notify[x] = "none"
      BY <2>1, <2>2 DEF NotifyOrder
    <3>3. thread[x] = "none"
      BY <3>2 DEF ThreadOrder
    <3>4. ~ (m_cur_stripe_id < m_cur_stripe_id)
      OBVIOUS
    <3>5. Key(x) \notin m_object_commit_table \union m_object_updating_table
      BY <3>1, <3>4 DEF FreshIds
    <3>. QED
      BY <3>2, <3>3, <3>5
  <2>3. \A p \in Ops : Assigned(p)' => p = o \/ Assigned(p)
    BY <2>1
  <2>. QED
    BY <2>1, <2>2, <2>3
<1>4. ASSUME NEW o \in Ops, ReplyUpload(o) PROVE TablesFollow'
  BY <1>4 DEF ReplyUpload, NotifiersJoined, Recorded, proxyVars, nodeVars
<1>5. ASSUME NEW o \in Ops, NEW g \in Groups, EraseCommit(o, g) PROVE TablesFollow'
  <2>1. /\ Assigned(o) /\ notify[<<o, g>>] = "none"
        /\ notify' = [notify EXCEPT ![<<o, g>>] = "erased"]
        /\ m_object_commit_table' = m_object_commit_table \ {Key(<<o, g>>)}
        /\ blank' = blank \ {Key(<<o, g>>)}
        /\ UNCHANGED <<pc, stripe, m_object_updating_table, thread>>
    BY <1>5 DEF EraseCommit, Forgotten, proxyVars
  <2>2. Key(<<o, g>>) \notin m_object_commit_table
    BY <2>1 DEF ThreadOrder
  <2>3. m_object_commit_table' = m_object_commit_table /\ blank' = {}
    BY <2>1, <2>2
  <2>. QED
    BY <2>1, <2>3
<1>6. ASSUME NEW o \in Ops, NEW g \in Groups, ScheduleAppend(o, g) PROVE TablesFollow'
  BY <1>6 DEF ThreadOrder, ScheduleAppend, coordVars, nodeVars
<1>7. ASSUME NEW o \in Ops, NEW g \in Groups, NoteUpdating(o, g) PROVE TablesFollow'
  <2>. DEFINE x == <<o, g>>
  <2>1. /\ notify[x] = "called"
        /\ notify' = [notify EXCEPT ![x] = "noted"]
        /\ m_object_updating_table' = m_object_updating_table \union {Key(x)}
        /\ UNCHANGED <<pc, stripe, m_object_commit_table, blank, thread>>
    BY <1>7 DEF NoteUpdating, proxyVars
  <2>2. x \in Slices /\ Assigned(x[1]) /\ thread[x] # "reported"
    BY <2>1, PastAccept DEF NotifyOrder
  <2>3. \A y \in Slices : Assigned(y[1]) /\ Key(y) = Key(x) => y = x
    BY <2>2, KeyUnique
  <2>4. \A y \in Slices : Key(y)' = Key(y) /\ (Assigned(y[1])' <=> Assigned(y[1]))
    BY <2>1
  <2>. HIDE DEF x, Key, Assigned, Placed
  <2>. QED
    BY <2>1, <2>2, <2>3, <2>4
<1>8. ASSUME NEW o \in Ops, NEW g \in Groups, SendSlice(o, g) PROVE TablesFollow'
  BY <1>8 DEF SendSlice, coordVars, uploadVars, nodeVars
<1>9. ASSUME NEW o \in Ops, NEW g \in Groups, CheckCommit(o, g) PROVE TablesFollow'
  BY <1>9 DEF CheckCommit, Committed, coordVars, uploadVars, proxyVars, nodeVars
<1>10. ASSUME NEW o \in Ops, FinishSet(o) PROVE TablesFollow'
  BY <1>10 DEF FinishSet, AllAcked, coordVars, proxyVars, nodeVars
<1>11. ASSUME NEW x \in Slices, NEW y \in backlog, AcceptSlice(x, y) PROVE TablesFollow'
  BY <1>11 DEF AcceptSlice, coordVars, uploadVars, nodeVars
<1>12. ASSUME NEW x \in Slices, ReportCommit(x) PROVE TablesFollow'
  <2>1. /\ thread[x] = "sending"
        /\ thread' = [thread EXCEPT ![x] = "reported"]
        /\ m_object_commit_table' = m_object_commit_table \union {Key(x)}
        /\ m_object_updating_table' = m_object_updating_table \ {Key(x)}
        /\ blank' = IF Key(x) \in m_object_updating_table THEN blank \ {Key(x)}
                                                          ELSE blank \union {Key(x)}
        /\ UNCHANGED <<pc, stripe, notify>>
    BY <1>12 DEF ReportCommit, uploadVars
  <2>2. Assigned(x[1]) /\ notify[x] = "noted"
    BY <2>1, PastAccept
  <2>3. Key(x) \in m_object_updating_table
    BY <2>1, <2>2
  <2>4. \A y \in Slices : Assigned(y[1]) /\ Key(y) = Key(x) => y = x
    BY <2>2, KeyUnique
  <2>5. \A y \in Slices : Key(y)' = Key(y) /\ (Assigned(y[1])' <=> Assigned(y[1]))
    BY <2>1
  <2>6. blank' = {}
    BY <2>1, <2>3
  <2>. HIDE DEF Key, Assigned, Placed
  <2>. QED
    BY <2>1, <2>2, <2>3, <2>4, <2>5, <2>6
<1>13. ASSUME NEW c \in Copies, HandleAppend(c) PROVE TablesFollow'
  BY <1>13 DEF HandleAppend, Returns, coordVars, uploadVars
<1>14. ASSUME NEW c \in Copies, SendBlock(c) PROVE TablesFollow'
  BY <1>14 DEF SendBlock, coordVars, uploadVars
<1>15. ASSUME NEW c \in Copies, NEW d \in dnBacklog, AcceptBlock(c, d) PROVE TablesFollow'
  BY <1>15 DEF AcceptBlock, coordVars, uploadVars, proxyVars
<1>16. ASSUME NEW c \in Copies, WriteBlock(c) PROVE TablesFollow'
  BY <1>16 DEF WriteBlock, coordVars, uploadVars, proxyVars
<1>17. ASSUME NEW n \in Nodes, CrashNode(n) PROVE TablesFollow'
  BY <1>17 DEF CrashNode, coordVars, uploadVars, proxyVars
<1>18. CASE UNCHANGED vars
  BY <1>18 DEF vars, coordVars, uploadVars, proxyVars, nodeVars
<1>19. ASSUME NEW o \in Ops, SelectNode(o) \/ RecordNode(o) \/ AbortCoordinator(o)
       PROVE TablesFollow'
  <2>1. UNCHANGED <<stripe, m_object_commit_table, m_object_updating_table, blank,
                   notify, thread>>
    BY <1>19, PlacingFrame
  <2>2. \A p \in Ops : /\ Assigned(p)' <=> Assigned(p)
                       /\ pc'[p] = "reading" <=> pc[p] = "reading"
                       /\ pc'[p] \in {"replied", "acked"} <=> pc[p] \in {"replied", "acked"}
                       /\ pc'[p] = "acked" <=> pc[p] = "acked"
                       /\ pc'[p] = "failed" <=> pc[p] = "failed"
    BY <1>19, PlacingPhases
  <2>. HIDE DEF Assigned
  <2>. QED
    BY <2>1, <2>2
<1>. QED
  BY NoFailure, <1>2, <1>3, <1>4, <1>5, <1>6, <1>7, <1>8, <1>9, <1>10, <1>11, <1>12, <1>13, <1>14, <1>15, <1>16, <1>17, <1>18, <1>19
  DEF Next, Handler, Client, Proxy, Datanode, Finished


\* the invariant of one client holds at the start and survives every step
LEMMA OneClientInvInit == Init => OneClientInv
<1>. SUFFICES ASSUME Init PROVE OneClientInv
  OBVIOUS
<1>1. NotifyOrder /\ ThreadOrder /\ OneRuns /\ ReplyOrder
  BY DEF Init, NotifyOrder, ThreadOrder, OneRuns, Running, ReplyOrder
<1>2. SendOrder /\ FreshIds
  BY DEF Init, SendOrder, FreshIds, Assigned
<1>3. OwnSlice
  BY NoneAssumption DEF Init, OwnSlice, Slices
<1>4. TablesFollow /\ HandlerOrder
  BY DEF Init, TablesFollow, Assigned, HandlerOrder
<1>. QED
  BY <1>1, <1>2, <1>3, <1>4 DEF OneClientInv, Init

\* Every step of a single client's uploads keeps the invariant.
LEMMA OneClientInvStays ==
  ASSUME TypeOK, OneClientInv, AbortNeedsSharedId, [Next]_vars
  PROVE  OneClientInv'
<1>. SUFFICES ASSUME OneClient
             PROVE  /\ NotifyOrder' /\ ThreadOrder' /\ OneRuns' /\ ReplyOrder' /\ SendOrder'
                    /\ OwnSlice' /\ FreshIds' /\ TablesFollow' /\ HandlerOrder'
  BY DEF OneClientInv, OneClient
<1>1. NotifyOrder /\ ThreadOrder
  BY DEF OneClientInv
<1>2. NotifyOrder' /\ ThreadOrder'
  BY <1>1, OrderStays
<1>. QED
  BY <1>2, OneRunsStays, ReplyOrderStays, SendOrderStays, OwnSliceStays, FreshIdsStays,
     TablesFollowStays, HandlerOrderStays

\* The invariant of a single client holds throughout.
LEMMA OneClientInvHolds == Spec => [](TypeOK /\ OneClientInv)
<1>1. Init => OneClientInv
  BY OneClientInvInit
<1>2. TypeOK /\ OneClientInv /\ AbortNeedsSharedId /\ [Next]_vars => OneClientInv'
  BY OneClientInvStays
<1>. QED
  BY <1>1, <1>2, TypeCorrect, AbortsNeedSharedIds, PTL DEF Spec

(* One client never makes the coordinator end: its uploads draw an id each *)
(* and place their blocks one upload at a time.                            *)
THEOREM OneClientNeverAborts ==
  ASSUME OneClient
  PROVE  Spec => [](coordinator = "up")
<1>1. TypeOK /\ OneClientInv /\ AbortNeedsSharedId => coordinator = "up"
  BY CoordinatorUp DEF OneClientInv
<1>. QED
  BY <1>1, OneClientInvHolds, AbortsNeedSharedIds, PTL

(* One client's slices never mix: the thread of a plan accepts the slice   *)
(* cut for that plan.                                                      *)
THEOREM OneClientSlices == Spec => []OneClientSliceToItsPlan
<1>1. OneClientInv => OneClientSliceToItsPlan
  BY DEF OneClientInv, OwnSlice, OneClientSliceToItsPlan, SliceToItsPlan
<1>. QED
  BY <1>1, OneClientInvHolds, PTL

(* One client's commits never overtake notify_proxies_ready.               *)
THEOREM OneClientCommits == Spec => []OneClientCommitHasInfo
<1>1. OneClientInv => OneClientCommitHasInfo
  BY DEF OneClientInv, TablesFollow, OneClientCommitHasInfo
<1>. QED
  BY <1>1, OneClientInvHolds, PTL

(* One client's block files always have their stripe in the stripe table.  *)
THEOREM OneClientMetadata == Spec => []OneClientFilesHaveMetadata
<1>1. OneClientInv => OneClientFilesHaveMetadata
  <2>. SUFFICES ASSUME OneClientInv, OneClient, NEW c \in Copies, handler[c] # "none"
               PROVE  stripe[c[1]] \in m_stripe_table
    BY DEF OneClientFilesHaveMetadata
  <2>1. SliceOf(c) \in Slices /\ SliceOf(c)[1] = c[1]
    BY SliceOfType
  <2>2. thread[SliceOf(c)] \in {"sending", "reported"}
    BY DEF OneClientInv, HandlerOrder
  <2>. QED
    BY <2>1, <2>2, PastAccept
<1>. QED
  BY <1>1, OneClientInvHolds, PTL

(* One client's acknowledged uploads stay committed through its later      *)
(* uploads.                                                                *)
THEOREM OneClientAcks == Spec => []OneClientAckedStaysCommitted
<1>1. TypeOK /\ OneClientInv => OneClientAckedStaysCommitted
  <2>. SUFFICES ASSUME TypeOK, OneClientInv, OneClient,
                      NEW o \in Ops, pc[o] = "acked", NEW g \in PlanGroups(o)
               PROVE  /\ Key(<<o, g>>) \in m_object_commit_table
                      /\ Key(<<o, g>>) \notin m_object_updating_table
    BY DEF OneClientAckedStaysCommitted
  <2>1. <<o, g>> \in Slices /\ Assigned(o)
    BY GroupsAssumption DEF PlanGroups, TypeOK, Slices, Assigned
  <2>2. thread[<<o, g>>] = "reported"
    BY <2>1 DEF OneClientInv, SendOrder
  <2>. QED
    BY <2>1, <2>2 DEF OneClientInv, TablesFollow
<1>. QED
  BY <1>1, OneClientInvHolds, PTL
-----------------------------------------------------------------------------
(* One client.  Every step of the protocol is a step of SetContract, or    *)
(* leaves the abstract state alone.                                        *)

\* a step that moves no upload and no commit is invisible to the contract
LEMMA Stutters ==
  ASSUME UNCHANGED <<pc, stripe, request, m_object_commit_table>>
  PROVE  UNCHANGED <<absPhase, absPlanned, absCommitted>>
BY DEF absPhase, absPlanned, absCommitted, PlanGroups, Key

\* Reading the stripe id is where the contract's upload begins.
LEMMA BeginsUpload ==
  ASSUME TypeOK, NEW o \in Ops, ReadStripeId(o)
  PROVE  Contract!Begin(o)
<1>1. /\ pc[o] = "idle" /\ pc' = [pc EXCEPT ![o] = "reading"]
      /\ stripe' = [stripe EXCEPT ![o] = m_cur_stripe_id]
      /\ UNCHANGED m_object_commit_table
  BY DEF ReadStripeId, coordVars
<1>2. PICK r \in Requests : request' = [request EXCEPT ![o] = r]
  BY DEF ReadStripeId
<1>. USE <1>1, <1>2 DEF TypeOK
<1>3. absPhase' = [absPhase EXCEPT ![o] = "uploading"] /\ absPhase[o] = "idle"
  BY DEF absPhase
<1>4. PlanGroups(o)' = {GroupOf[b] : b \in r}
  BY DEF PlanGroups
<1>5. \A p \in Ops : p # o => PlanGroups(p)' = PlanGroups(p)
  BY DEF PlanGroups
<1>6. absPlanned' = [absPlanned EXCEPT ![o] = {GroupOf[b] : b \in r}]
  BY <1>4, <1>5 DEF absPlanned
<1>7. absCommitted' = absCommitted
  <2>1. ASSUME NEW x \in Slices, x[1] # o
        PROVE  /\ pc'[x[1]] = pc[x[1]] /\ PlanGroups(x[1])' = PlanGroups(x[1])
               /\ Key(x)' = Key(x)
    BY <1>5, <2>1 DEF Slices, Key
  <2>2. ASSUME NEW x \in Slices, x[1] = o
        PROVE  pc[x[1]] = "idle" /\ pc'[x[1]] = "reading"
    BY <2>2
  <2>. QED
    BY <2>1, <2>2 DEF absCommitted
<1>. QED
  BY <1>3, <1>6, <1>7 DEF Contract!Begin

\* The stripe id is not seen in the contract: no key with a fresh id is committed.
LEMMA IdStutters ==
  ASSUME TypeOK, OneClient, OneClientInv, OneClientInv', NEW o \in Ops, WriteStripeId(o)
  PROVE  UNCHANGED <<absPhase, absPlanned, absCommitted>>
<1>1. /\ pc[o] = "reading" /\ pc' = [pc EXCEPT ![o] = "placing"]
      /\ UNCHANGED <<stripe, request, m_object_commit_table, notify, thread>>
  BY DEF WriteStripeId, proxyVars
<1>. USE <1>1 DEF TypeOK
<1>2. \A p \in Ops : PlanGroups(p)' = PlanGroups(p)
  BY DEF PlanGroups
<1>3. \A x \in Slices : Key(x)' = Key(x)
  BY DEF Key
<1>4. ASSUME NEW x \in Slices, x[1] = o PROVE Key(x) \notin m_object_commit_table'
  <2>1. ThreadOrder /\ NotifyOrder /\ TablesFollow'
    BY DEF OneClientInv, OneClient
  <2>2. notify[x] = "none" /\ thread[x] = "none"
    BY <1>4, <2>1 DEF ThreadOrder, NotifyOrder, Placed
  <2>3. Assigned(x[1])' /\ thread'[x] # "reported"
    BY <1>4, <2>2 DEF Assigned
  <2>. QED
    BY <1>3, <2>1, <2>3 DEF TablesFollow
<1>5. absCommitted' = absCommitted
  <2>1. \A x \in Slices : x[1] \in Ops /\ (x[1] # o => pc'[x[1]] = pc[x[1]])
    BY DEF Slices
  <2>. QED
    BY <1>2, <1>3, <1>4, <2>1 DEF absCommitted
<1>. QED
  BY <1>2, <1>5 DEF absPhase, absPlanned

\* Placing a block is not seen in the contract.
LEMMA PlacementStutters ==
  ASSUME TypeOK, NEW o \in Ops, SelectNode(o) \/ RecordNode(o) \/ AbortCoordinator(o)
  PROVE  UNCHANGED <<absPhase, absPlanned, absCommitted>>
<1>1. /\ pc[o] = "placing" /\ pc' \in {pc, [pc EXCEPT ![o] = "placed"]}
      /\ UNCHANGED <<stripe, request, m_object_commit_table>>
  BY PlacingFrame
<1>2. \A p \in Ops : /\ PlanGroups(p)' = PlanGroups(p)
                     /\ pc[p] \in {"idle", "reading"} <=> pc'[p] \in {"idle", "reading"}
                     /\ pc[p] = "idle" <=> pc'[p] = "idle"
  BY <1>1 DEF PlanGroups, TypeOK
<1>3. \A x \in Slices : x[1] \in Ops /\ Key(x)' = Key(x)
  BY <1>1 DEF Slices, Key
<1>4. absCommitted' = absCommitted
  BY <1>1, <1>2, <1>3 DEF absCommitted
<1>5. absPhase' = absPhase
  BY <1>1 DEF absPhase, TypeOK
<1>6. absPlanned' = absPlanned
  BY <1>2 DEF absPlanned
<1>. QED
  BY <1>4, <1>5, <1>6

\* The answer with the proxies is not seen in the contract.
LEMMA ReplyStutters ==
  ASSUME TypeOK, NEW o \in Ops, ReplyUpload(o)
  PROVE  UNCHANGED <<absPhase, absPlanned, absCommitted>>
<1>1. /\ pc[o] = "placed" /\ pc' = [pc EXCEPT ![o] = "replied"]
      /\ UNCHANGED <<stripe, request, m_object_commit_table>>
  BY DEF ReplyUpload
<1>2. \A p \in Ops : /\ PlanGroups(p)' = PlanGroups(p)
                     /\ pc[p] \in {"idle", "reading"} <=> pc'[p] \in {"idle", "reading"}
  BY <1>1 DEF PlanGroups, TypeOK
<1>3. \A x \in Slices : x[1] \in Ops /\ Key(x)' = Key(x)
  BY <1>1 DEF Slices, Key
<1>4. absCommitted' = absCommitted
  BY <1>1, <1>2, <1>3 DEF absCommitted
<1>. QED
  BY <1>1, <1>2, <1>4 DEF absPhase, absPlanned, TypeOK

\* A set that returns success is acknowledged, with all its slices committed.
LEMMA Acknowledges ==
  ASSUME TypeOK, OneClient, OneClientInv, NEW o \in Ops, FinishSet(o)
  PROVE  Contract!Acknowledge(o)
<1>1. /\ pc[o] = "replied" /\ pc' = [pc EXCEPT ![o] = "acked"]
      /\ \A g \in PlanGroups(o) : send[<<o, g>>] = "acked"
      /\ UNCHANGED <<stripe, request, m_object_commit_table>>
  BY DEF FinishSet, AllAcked, coordVars
<1>2. \A p \in Ops : /\ PlanGroups(p)' = PlanGroups(p)
                     /\ pc[p] \in {"idle", "reading"} <=> pc'[p] \in {"idle", "reading"}
  BY <1>1 DEF PlanGroups, TypeOK
<1>3. \A x \in Slices : x[1] \in Ops /\ Key(x)' = Key(x)
  BY <1>1 DEF Slices, Key
<1>4. absCommitted' = absCommitted
  BY <1>1, <1>2, <1>3 DEF absCommitted
<1>5. absPlanned' = absPlanned
  BY <1>1, <1>2 DEF absPlanned, TypeOK
<1>6. absPhase[o] = "uploading" /\ absPhase' = [absPhase EXCEPT ![o] = "acked"]
  BY <1>1 DEF absPhase, TypeOK
<1>7. ASSUME NEW g \in absPlanned[o] PROVE <<o, g>> \in absCommitted
  <2>1. g \in PlanGroups(o)
    BY <1>1, <1>7 DEF absPlanned
  <2>2. <<o, g>> \in Slices
    BY <2>1, GroupsAssumption DEF PlanGroups, TypeOK, Slices
  <2>3. Key(<<o, g>>) \in m_object_commit_table
    BY <1>1, <2>1, <2>2 DEF OneClientInv, SendOrder, TablesFollow, Assigned
  <2>. QED
    BY <1>1, <2>1, <2>2, <2>3 DEF absCommitted
<1>. QED
  BY <1>4, <1>5, <1>6, <1>7 DEF Contract!Acknowledge
\* Removing the updating entry is not seen in the contract.
LEMMA EraseStutters ==
  ASSUME TypeOK, OneClient, OneClientInv, NEW o \in Ops, NEW g \in Groups, EraseCommit(o, g)
  PROVE  UNCHANGED <<absPhase, absPlanned, absCommitted>>
<1>1. /\ pc[o] = "placed" /\ notify[<<o, g>>] = "none"
      /\ m_object_commit_table' = m_object_commit_table \ {Key(<<o, g>>)}
      /\ UNCHANGED <<pc, stripe, request>>
  BY DEF EraseCommit, Forgotten
<1>2. <<o, g>> \in Slices /\ Assigned(o) /\ thread[<<o, g>>] # "reported"
  BY <1>1 DEF OneClientInv, ThreadOrder, Assigned, Slices
<1>3. Key(<<o, g>>) \notin m_object_commit_table
  BY <1>2 DEF OneClientInv, TablesFollow
<1>. QED
  BY <1>1, <1>3, Stutters

\* The report of a proxy is the contract's commit of the slice.
LEMMA Commits ==
  ASSUME TypeOK, OneClient, OneClientInv, NEW x \in Slices, ReportCommit(x)
  PROVE  Contract!Commit(x[1], x[2])
<1>1. /\ thread[x] = "sending"
      /\ m_object_commit_table' = m_object_commit_table \union {Key(x)}
      /\ UNCHANGED <<pc, stripe, request>>
  BY DEF ReportCommit, uploadVars
<1>2. /\ FreshIds /\ TablesFollow /\ SendOrder /\ OwnSlice
      /\ Assigned(x[1]) /\ x[2] \in PlanGroups(x[1])
  BY <1>1, PastAccept DEF OneClientInv
<1>3. x = <<x[1], x[2]>> /\ x[1] \in Ops
  BY DEF Slices
<1>4. pc[x[1]] = "replied"
  <2>1. send[x] # "none"
    BY <1>1, <1>2 DEF OwnSlice
  <2>2. pc[x[1]] \in {"replied", "acked"}
    BY <1>2, <2>1 DEF SendOrder
  <2>3. pc[x[1]] # "acked"
    <3>. SUFFICES ASSUME pc[x[1]] = "acked" PROVE FALSE
      OBVIOUS
    <3>1. send[x] = "acked"
      BY <1>2, <1>3 DEF SendOrder
    <3>. QED
      BY <1>1, <1>2, <3>1 DEF SendOrder
  <2>. QED
    BY <2>2, <2>3
<1>5. absPhase[x[1]] = "uploading" /\ x[2] \in absPlanned[x[1]]
  BY <1>2, <1>3, <1>4 DEF absPhase, absPlanned
<1>6. UNCHANGED <<absPhase, absPlanned>>
  BY <1>1 DEF absPhase, absPlanned, PlanGroups
<1>7. x \notin absCommitted
  BY <1>1, <1>2 DEF TablesFollow, absCommitted
<1>8. absCommitted' = absCommitted \union {x}
  <2>1. \A y \in Slices : /\ Key(y)' = Key(y) /\ PlanGroups(y[1])' = PlanGroups(y[1])
                          /\ Assigned(y[1])' <=> Assigned(y[1])
    BY <1>1 DEF Key, PlanGroups, Assigned
  <2>2. \A y \in Slices : Assigned(y[1]) /\ Key(y) = Key(x) => y = x
    BY <1>2, KeyUnique
  <2>3. absCommitted = {y \in Slices : Assigned(y[1]) /\ y[2] \in PlanGroups(y[1])
                                       /\ Key(y) \in m_object_commit_table}
    BY DEF absCommitted, Assigned
  <2>4. absCommitted' = {y \in Slices : Assigned(y[1])' /\ (y[2] \in PlanGroups(y[1]))'
                                        /\ (Key(y) \in m_object_commit_table)'}
    BY DEF absCommitted, Assigned
  <2>. HIDE DEF Key, PlanGroups, Assigned
  <2>. QED
    BY <1>1, <1>2, <2>1, <2>2, <2>3, <2>4
<1>. QED
  BY <1>3, <1>5, <1>6, <1>7, <1>8 DEF Contract!Commit

\* Every step of a single client's uploads is a step of the contract or none.
LEMMA StepImplements ==
  ASSUME TypeOK, OneClient, OneClientInv, AbortNeedsSharedId, [Next]_vars
  PROVE  [Contract!Next]_Contract!vars
<1>. USE DEF Contract!Next, Contract!vars
<1>1. ASSUME NEW o \in Ops, ReadStripeId(o) PROVE Contract!Next
  BY <1>1, BeginsUpload
<1>2. ASSUME NEW o \in Ops, WriteStripeId(o) PROVE UNCHANGED Contract!vars
  BY <1>2, IdStutters, OneClientInvStays
<1>12. ASSUME NEW o \in Ops, SelectNode(o) \/ RecordNode(o) \/ AbortCoordinator(o)
      PROVE UNCHANGED Contract!vars
  BY <1>12, PlacementStutters
<1>3. ASSUME NEW o \in Ops, ReplyUpload(o) PROVE UNCHANGED Contract!vars
  BY <1>3, ReplyStutters
<1>4. ASSUME NEW o \in Ops, NEW g \in Groups, EraseCommit(o, g)
      PROVE UNCHANGED Contract!vars
  BY <1>4, EraseStutters
<1>5. ASSUME NEW o \in Ops, NEW g \in Groups,
             ScheduleAppend(o, g) \/ NoteUpdating(o, g) \/ SendSlice(o, g) \/ CheckCommit(o, g)
      PROVE UNCHANGED Contract!vars
  BY <1>5, Stutters
  DEF ScheduleAppend, NoteUpdating, SendSlice, CheckCommit, coordVars, uploadVars
<1>6. ASSUME NEW o \in Ops, FinishSet(o) PROVE Contract!Next
  BY <1>6, Acknowledges
<1>7. ASSUME NEW x \in Slices, NEW y \in backlog, AcceptSlice(x, y)
      PROVE UNCHANGED Contract!vars
  BY <1>7, Stutters DEF AcceptSlice, coordVars, uploadVars
<1>8. ASSUME NEW x \in Slices, ReportCommit(x) PROVE Contract!Next
  <2>1. Contract!Commit(x[1], x[2])
    BY <1>8, Commits
  <2>. QED
    BY <2>1 DEF Slices
<1>9. ASSUME NEW c \in Copies, Datanode(c) PROVE UNCHANGED Contract!vars
  BY <1>9, Stutters
  DEF Datanode, HandleAppend, SendBlock, AcceptBlock, WriteBlock, coordVars, uploadVars
<1>10. ASSUME NEW n \in Nodes, CrashNode(n) PROVE UNCHANGED Contract!vars
  BY <1>10, Stutters DEF CrashNode, coordVars, uploadVars
<1>11. CASE UNCHANGED vars
  BY <1>11, Stutters DEF vars, coordVars, uploadVars
<1>. HIDE DEF Contract!Next, Contract!vars
<1>. QED
  BY NoFailure, <1>1, <1>2, <1>3, <1>4, <1>5, <1>6, <1>7, <1>8, <1>9, <1>10, <1>11, <1>12
  DEF Next, Handler, Client, Proxy, Finished

(* One client: the whole protocol implements SetContract, for every number *)
(* of uploads, groups and datanodes.                                       *)
THEOREM OneClientImplementsContract ==
  ASSUME OneClient
  PROVE  Spec => ImplementsContract
<1>1. Init => Contract!Init
  BY DEF Init, Contract!Init, absPhase, absPlanned, absCommitted, Slices
<1>2. /\ TypeOK /\ OneClientInv /\ AbortNeedsSharedId /\ [Next]_vars
      => [Contract!Next]_Contract!vars
  BY StepImplements
<1>. QED
  BY <1>1, <1>2, OneClientInvHolds, AbortsNeedSharedIds, PTL DEF Spec, ImplementsContract, Contract!Spec

-----------------------------------------------------------------------------
(* Every connection finds a thread that accepts: as many threads wait in   *)
(* accept() as there are connections made or still to be made.             *)

\* the client hears of its proxies when every notify thread has called its own;
\* data is sent to a proxy that has a thread for it
Invited ==
  /\ \A o \in Ops : pc[o] \in {"replied", "acked"} =>
       \A g \in PlanGroups(o) : notify[<<o, g>>] = "noted"
  /\ \A x \in Slices : send[x] # "none" => thread[x] # "none"
  /\ \A x \in backlog : send[x] # "none"

\* the same between a proxy's thread and a datanode
Called ==
  /\ \A c \in Copies : sender[c] # "none" => thread[SliceOf(c)] # "none"
  /\ \A c \in Copies : handler[c] # "none" => sender[c] # "none"
  /\ \A c \in dnBacklog : sender[c] = "sent"

\* connections a proxy, a datanode has yet to take, and the threads to take them
Due(k)      == {x \in Slices : /\ thread[x] # "none" /\ Cluster(x) = k
                               /\ send[x] = "none" \/ x \in backlog}
Takers(k)   == {x \in Slices : thread[x] = "accepting" /\ Cluster(x) = k}
DueAt(n)    == {c \in Copies : (sender[c] = "called" \/ c \in dnBacklog) /\ NodeOf(c) = n}
TakersAt(n) == {c \in Copies : handler[c] = "accepting" /\ NodeOf(c) = n}

Matched(S, T) == IsFiniteSet(S) /\ IsFiniteSet(T) /\ Cardinality(S) = Cardinality(T)

ProxiesMatched   == \A k \in Clusters : Matched(Due(k), Takers(k))
DatanodesMatched == \A n \in Nodes \ down : Matched(DueAt(n), TakersAt(n))

TakersInv ==
  NotifyOrder /\ ThreadOrder /\ Invited /\ Called /\ ProxiesMatched /\ DatanodesMatched

\* a new pair, or a connection taken by a thread, keeps the numbers equal
LEMMA MatchedGrows ==
  ASSUME NEW S, NEW T, Matched(S, T), NEW x, NEW y, x \notin S, y \notin T
  PROVE  Matched(S \union {x}, T \union {y})
BY FS_AddElement DEF Matched

\* One connection taken by one acceptor leaves as many as before of each.
LEMMA MatchedShrinks ==
  ASSUME NEW S, NEW T, Matched(S, T), NEW x \in S, NEW y \in T
  PROVE  Matched(S \ {x}, T \ {y})
BY SMTT(30), FS_RemoveElement DEF Matched

\* Data goes to a proxy only after the answer, and so after its thread was made.
LEMMA InvitedStays ==
  ASSUME TypeOK, NotifyOrder, ThreadOrder, Invited, [Next]_vars
  PROVE  Invited'
<1>. USE DEF Invited, PlanGroups, TypeOK, Slices, Phases
<1>1. ASSUME NEW o \in Ops, ReadStripeId(o) PROVE Invited'
  BY <1>1 DEF ReadStripeId, proxyVars
<1>2. ASSUME NEW o \in Ops, WriteStripeId(o) PROVE Invited'
  BY <1>2 DEF WriteStripeId, proxyVars
<1>15. ASSUME NEW o \in Ops, SelectNode(o) \/ RecordNode(o) \/ AbortCoordinator(o)
       PROVE Invited'
  <2>1. /\ UNCHANGED <<request, notify, send, backlog, thread>>
        /\ \A p \in Ops : pc'[p] \in {"replied", "acked"} => pc[p] \in {"replied", "acked"}
    BY <1>15, PlacingFrame, PlacingPhases
  <2>2. \A p \in Ops : PlanGroups(p)' = PlanGroups(p)
    BY <2>1
  <2>. HIDE DEF PlanGroups, TypeOK, Slices
  <2>. QED
    BY <2>1, <2>2
<1>16. ASSUME NEW o \in Ops, FailUpload(o) \/ FailSet(o) PROVE Invited'
  <2>1. /\ UNCHANGED <<request, notify, send, backlog, thread>>
        /\ pc' = [pc EXCEPT ![o] = "failed"]
    BY <1>16 DEF FailUpload, FailSet, proxyVars
  <2>. QED
    BY <2>1
<1>3. ASSUME NEW o \in Ops, ReplyUpload(o) PROVE Invited'
  BY <1>3 DEF ReplyUpload, NotifiersJoined, proxyVars
<1>4. ASSUME NEW o \in Ops, NEW g \in Groups, EraseCommit(o, g) PROVE Invited'
  BY <1>4 DEF EraseCommit, proxyVars
<1>5. ASSUME NEW o \in Ops, NEW g \in Groups, ScheduleAppend(o, g) PROVE Invited'
  <2>1. /\ notify[<<o, g>>] = "erased" /\ notify' = [notify EXCEPT ![<<o, g>>] = "called"]
        /\ thread' = [thread EXCEPT ![<<o, g>>] = "accepting"]
        /\ UNCHANGED <<pc, request, send, backlog>>
    BY <1>5 DEF ScheduleAppend
  <2>2. \A x \in Slices : notify[x] = "noted" => notify'[x] = "noted"
    BY <2>1
  <2>3. \A x \in Slices : thread[x] # "none" => thread'[x] # "none"
    BY <2>1
  <2>4. \A p \in Ops : PlanGroups(p)' = PlanGroups(p) /\ PlanGroups(p) \subseteq Groups
    BY <2>1, GroupsAssumption
  <2>5. \A p \in Ops : \A h \in Groups : <<p, h>> \in Slices
    OBVIOUS
  <2>. HIDE DEF PlanGroups, Slices
  <2>. QED
    BY <2>1, <2>2, <2>3, <2>4, <2>5
<1>6. ASSUME NEW o \in Ops, NEW g \in Groups, NoteUpdating(o, g) PROVE Invited'
  BY <1>6 DEF NoteUpdating, proxyVars
<1>7. ASSUME NEW o \in Ops, NEW g \in Groups, SendSlice(o, g) PROVE Invited'
  <2>1. /\ pc[o] = "replied" /\ g \in PlanGroups(o)
        /\ send' = [send EXCEPT ![<<o, g>>] = "sent"]
        /\ backlog' = backlog \union {<<o, g>>}
        /\ UNCHANGED <<pc, request, notify, thread>>
    BY <1>7 DEF SendSlice, uploadVars
  <2>2. thread[<<o, g>>] # "none"
    BY <2>1 DEF ThreadOrder
  <2>3. \A p \in Ops : PlanGroups(p)' = PlanGroups(p)
    BY <2>1
  <2>4. \A x \in Slices : send'[x] # "none" => x = <<o, g>> \/ send[x] # "none"
    BY <2>1
  <2>5. \A x \in backlog' : x \in Slices /\ send'[x] # "none"
    BY <2>1
  <2>. HIDE DEF PlanGroups, TypeOK, Slices
  <2>. QED
    BY <2>1, <2>2, <2>3, <2>4, <2>5
<1>8. ASSUME NEW o \in Ops, NEW g \in Groups, CheckCommit(o, g) PROVE Invited'
  BY ZenonT(30), <1>8 DEF CheckCommit, uploadVars, proxyVars
<1>17. ASSUME NEW o \in Ops, NEW g \in Groups, FailCheck(o, g) PROVE Invited'
  BY ZenonT(30), <1>17 DEF FailCheck, uploadVars, proxyVars
<1>9. ASSUME NEW o \in Ops, FinishSet(o) PROVE Invited'
  BY <1>9 DEF FinishSet, proxyVars
<1>10. ASSUME NEW x \in Slices, NEW y \in backlog, AcceptSlice(x, y) PROVE Invited'
  BY <1>10 DEF AcceptSlice, uploadVars
<1>11. ASSUME NEW x \in Slices, ReportCommit(x) \/ FailReport(x) PROVE Invited'
  BY <1>11 DEF ReportCommit, FailReport, uploadVars
<1>12. ASSUME NEW c \in Copies, Datanode(c) PROVE Invited'
  BY <1>12 DEF Datanode, HandleAppend, SendBlock, AcceptBlock, WriteBlock, uploadVars, proxyVars
<1>13. ASSUME NEW n \in Nodes, CrashNode(n) PROVE Invited'
  BY <1>13 DEF CrashNode, uploadVars, proxyVars
<1>14. CASE UNCHANGED vars
  BY <1>14 DEF vars, uploadVars, proxyVars
<1>. HIDE DEF Invited
<1>. QED
  BY <1>1, <1>2, <1>3, <1>4, <1>5, <1>6, <1>7, <1>8, <1>9, <1>10, <1>11, <1>12, <1>13, <1>14,
     <1>15, <1>16, <1>17
  DEF Next, Handler, Client, Proxy, Finished

\* A sender connects to a datanode only after the handler was called.
LEMMA CalledStays ==
  ASSUME TypeOK, ThreadOrder, Called, [Next]_vars
  PROVE  Called'
<1>. USE SliceOfType DEF Called, TypeOK
<1>1. ASSUME NEW o \in Ops, Handler(o) PROVE Called'
  <2>1. CASE SelectNode(o) \/ RecordNode(o) \/ AbortCoordinator(o)
    BY <2>1, PlacingFrame DEF SliceOf
  <2>2. CASE \/ ReadStripeId(o) \/ WriteStripeId(o) \/ ReplyUpload(o)
             \/ \E g \in Groups : EraseCommit(o, g) \/ NoteUpdating(o, g)
    <3>1. UNCHANGED <<sender, handler, dnBacklog, thread>>
      BY <2>2 DEF ReadStripeId, WriteStripeId, ReplyUpload, EraseCommit, NoteUpdating,
                  proxyVars, nodeVars
    <3>. QED
      BY <3>1 DEF SliceOf
  <2>3. ASSUME NEW g \in Groups, ScheduleAppend(o, g) PROVE Called'
    <3>1. /\ UNCHANGED <<sender, handler, dnBacklog>>
          /\ \A x \in Slices : thread[x] # "none" => thread'[x] # "none"
      BY <2>3 DEF ScheduleAppend, nodeVars
    <3>. QED
      BY <3>1 DEF SliceOf
  <2>. QED
    BY <1>1, <2>1, <2>2, <2>3 DEF Handler
<1>2. ASSUME NEW o \in Ops, Client(o) PROVE Called'
  <2>1. UNCHANGED <<sender, handler, dnBacklog, thread>>
    BY <1>2 DEF Client, SendSlice, CheckCommit, FailCheck, FinishSet, FailSet, FailUpload,
                proxyVars, nodeVars
  <2>. QED
    BY <2>1 DEF SliceOf
<1>3. ASSUME NEW x \in Slices, Proxy(x) PROVE Called'
  <2>1. /\ UNCHANGED <<sender, handler, dnBacklog>>
        /\ \A y \in Slices : thread[y] # "none" => thread'[y] # "none"
    BY <1>3 DEF Proxy, AcceptSlice, ReportCommit, FailReport, nodeVars
  <2>. QED
    BY <2>1 DEF SliceOf
<1>4. ASSUME NEW c \in Copies, HandleAppend(c) PROVE Called'
  <2>1. /\ thread[SliceOf(c)] # "none" /\ sender[c] = "none" /\ handler[c] = "none"
        /\ sender' = [sender EXCEPT ![c] = "called"]
        /\ handler' \in {handler, [handler EXCEPT ![c] = "accepting"]}
        /\ UNCHANGED <<thread, dnBacklog>>
    BY <1>4 DEF HandleAppend
  <2>. QED
    BY ZenonT(30), <2>1 DEF SliceOf
<1>5. ASSUME NEW c \in Copies, SendBlock(c) PROVE Called'
  <2>1. /\ sender[c] = "called"
        /\ sender' = [sender EXCEPT ![c] = "sent"]
        /\ dnBacklog' \in {dnBacklog, dnBacklog \union {c}}
        /\ UNCHANGED <<thread, handler>>
    BY <1>5 DEF SendBlock
  <2>. QED
    BY <2>1 DEF SliceOf
<1>6. ASSUME NEW c \in Copies, NEW d \in dnBacklog, AcceptBlock(c, d) PROVE Called'
  BY <1>6 DEF AcceptBlock, proxyVars, SliceOf
<1>7. ASSUME NEW c \in Copies, WriteBlock(c) PROVE Called'
  BY <1>7 DEF WriteBlock, proxyVars, SliceOf
<1>8. ASSUME NEW n \in Nodes, CrashNode(n) PROVE Called'
  BY <1>8 DEF CrashNode, proxyVars, SliceOf
<1>9. CASE UNCHANGED vars
  BY <1>9 DEF vars, proxyVars, nodeVars, SliceOf
<1>. HIDE DEF Called
<1>. QED
  BY <1>1, <1>2, <1>3, <1>4, <1>5, <1>6, <1>7, <1>8, <1>9
  DEF Next, Datanode, Finished

\* what a proxy's threads and connections are counted by
Counted(x) == /\ thread'[x] # "none" <=> thread[x] # "none"
              /\ thread'[x] = "accepting" <=> thread[x] = "accepting"
              /\ thread[x] # "none" =>
                   ((send'[x] = "none" \/ x \in backlog') <=> (send[x] = "none" \/ x \in backlog))

\* The proxy of a slice stays when its thread runs.
LEMMA ClusterStays ==
  ASSUME TypeOK, NotifyOrder, ThreadOrder, [Next]_vars, NEW x \in Slices, thread[x] # "none"
  PROVE  Cluster(x)' = Cluster(x)
<1>1. x[1] \in Ops /\ Assigned(x[1])
  BY DEF NotifyOrder, ThreadOrder, Slices, TypeOK, Placed, Assigned
<1>2. stripe'[x[1]] = stripe[x[1]]
  BY <1>1, AssignedStays
<1>. QED
  BY <1>2 DEF Cluster, map2cluster

\* Each connection to a proxy comes with a thread, and each accept ends one of both.
LEMMA ProxiesMatchedStays ==
  ASSUME TypeOK, NotifyOrder, ThreadOrder, Invited, ProxiesMatched, [Next]_vars
  PROVE  ProxiesMatched'
<1>0. \A x \in Slices : thread[x] # "none" => Cluster(x)' = Cluster(x)
  BY ClusterStays
<1>. USE DEF TypeOK
<1>1. ASSUME \A x \in Slices : Counted(x) PROVE ProxiesMatched'
  <2>. SUFFICES ASSUME NEW k \in Clusters PROVE Matched(Due(k)', Takers(k)')
    BY DEF ProxiesMatched, Matched
  <2>1. Due(k)' = Due(k)
    BY <1>0, <1>1 DEF Due, Counted
  <2>2. Takers(k)' = Takers(k)
    BY <1>0, <1>1 DEF Takers, Counted
  <2>. QED
    BY <2>1, <2>2 DEF ProxiesMatched
<1>2. ASSUME NEW o \in Ops, NEW g \in Groups, ScheduleAppend(o, g) PROVE ProxiesMatched'
  <2>. SUFFICES ASSUME NEW k \in Clusters PROVE Matched(Due(k)', Takers(k)')
    BY DEF ProxiesMatched, Matched
  <2>. DEFINE s == <<o, g>>
  <2>1. s \in Slices
    BY DEF Slices
  <2>2. /\ notify[s] = "erased" /\ thread' = [thread EXCEPT ![s] = "accepting"]
        /\ UNCHANGED <<stripe, send, backlog>>
    BY <1>2 DEF ScheduleAppend
  <2>3. thread[s] = "none" /\ send[s] = "none" /\ s \notin backlog
    BY <2>1, <2>2 DEF ThreadOrder, Invited
  <2>4. \A x \in Slices : Cluster(x)' = Cluster(x)
    BY <2>2 DEF Cluster, map2cluster
  <2>. HIDE DEF s
  <2>5. CASE Cluster(s) = k
    <3>1. Due(k)' = Due(k) \union {s} /\ s \notin Due(k)
      BY <2>1, <2>2, <2>3, <2>4, <2>5 DEF Due
    <3>2. Takers(k)' = Takers(k) \union {s} /\ s \notin Takers(k)
      BY <2>1, <2>2, <2>3, <2>4, <2>5 DEF Takers
    <3>. QED
      BY <3>1, <3>2, MatchedGrows DEF ProxiesMatched
  <2>6. CASE Cluster(s) # k
    <3>1. Due(k)' = Due(k)
      BY <2>1, <2>2, <2>3, <2>4, <2>6 DEF Due
    <3>2. Takers(k)' = Takers(k)
      BY <2>1, <2>2, <2>3, <2>4, <2>6 DEF Takers
    <3>. QED
      BY <3>1, <3>2 DEF ProxiesMatched
  <2>. QED
    BY <2>5, <2>6
<1>3. ASSUME NEW s \in Slices, NEW y \in backlog, AcceptSlice(s, y) PROVE ProxiesMatched'
  <2>. SUFFICES ASSUME NEW k \in Clusters PROVE Matched(Due(k)', Takers(k)')
    BY DEF ProxiesMatched, Matched
  <2>1. /\ thread[s] = "accepting" /\ Cluster(y) = Cluster(s)
        /\ thread' = [thread EXCEPT ![s] = "sending"]
        /\ backlog' = backlog \ {y}
        /\ UNCHANGED <<stripe, send>>
    BY <1>3 DEF AcceptSlice, uploadVars
  <2>2. y \in Slices /\ send[y] # "none" /\ thread[y] # "none"
    BY DEF Invited
  <2>3. \A x \in Slices : Cluster(x)' = Cluster(x)
    BY <2>1 DEF Cluster, map2cluster
  <2>4. CASE Cluster(s) = k
    <3>1. Due(k)' = Due(k) \ {y} /\ y \in Due(k)
      BY <2>1, <2>2, <2>3, <2>4 DEF Due
    <3>2. Takers(k)' = Takers(k) \ {s} /\ s \in Takers(k)
      BY <2>1, <2>3, <2>4 DEF Takers
    <3>. QED
      BY <3>1, <3>2, MatchedShrinks DEF ProxiesMatched
  <2>5. CASE Cluster(s) # k
    <3>1. Due(k)' = Due(k)
      BY <2>1, <2>2, <2>3, <2>5 DEF Due
    <3>2. Takers(k)' = Takers(k)
      BY <2>1, <2>3, <2>5 DEF Takers
    <3>. QED
      BY <3>1, <3>2 DEF ProxiesMatched
  <2>. QED
    BY <2>4, <2>5
<1>4. ASSUME NEW o \in Ops,
             \/ ReadStripeId(o) \/ WriteStripeId(o) \/ ReplyUpload(o)
             \/ FinishSet(o) \/ FailSet(o) \/ FailUpload(o)
      PROVE \A x \in Slices : Counted(x)
  BY <1>4 DEF ReadStripeId, WriteStripeId, ReplyUpload, FinishSet, FailSet, FailUpload,
              proxyVars, Counted
<1>11. ASSUME NEW o \in Ops, SelectNode(o) \/ RecordNode(o) \/ AbortCoordinator(o)
       PROVE \A x \in Slices : Counted(x)
  BY <1>11, PlacingFrame DEF Counted
<1>5. ASSUME NEW o \in Ops, NEW g \in Groups, EraseCommit(o, g) \/ NoteUpdating(o, g)
      PROVE \A x \in Slices : Counted(x)
  BY <1>5 DEF EraseCommit, NoteUpdating, proxyVars, Counted
<1>6. ASSUME NEW o \in Ops, NEW g \in Groups, SendSlice(o, g)
      PROVE \A x \in Slices : Counted(x)
  BY <1>6 DEF SendSlice, Counted
<1>12. ASSUME NEW o \in Ops, NEW g \in Groups, CheckCommit(o, g) \/ FailCheck(o, g)
       PROVE \A x \in Slices : Counted(x)
  <2>1. /\ send[<<o, g>>] = "sent" /\ UNCHANGED <<thread, backlog>>
        /\ send' \in {[send EXCEPT ![<<o, g>>] = "acked"], [send EXCEPT ![<<o, g>>] = "failed"]}
    BY <1>12 DEF CheckCommit, FailCheck, proxyVars
  <2>2. \A x \in Slices : send'[x] = "none" <=> send[x] = "none"
    BY <2>1
  <2>. QED
    BY <2>1, <2>2 DEF Counted
<1>7. ASSUME NEW y \in Slices, ReportCommit(y) \/ FailReport(y)
      PROVE \A x \in Slices : Counted(x)
  BY <1>7 DEF ReportCommit, FailReport, Counted
<1>8. ASSUME NEW c \in Copies, Datanode(c) PROVE \A x \in Slices : Counted(x)
  BY <1>8 DEF Datanode, HandleAppend, SendBlock, AcceptBlock, WriteBlock, proxyVars, Counted
<1>9. ASSUME NEW n \in Nodes, CrashNode(n) PROVE \A x \in Slices : Counted(x)
  BY <1>9 DEF CrashNode, proxyVars, Counted
<1>10. CASE UNCHANGED vars
  <2>1. \A x \in Slices : Counted(x)
    BY <1>10 DEF vars, proxyVars, Counted
  <2>. QED
    BY <2>1, <1>1
<1>. HIDE DEF ProxiesMatched
<1>. QED
  BY <1>1, <1>2, <1>3, <1>4, <1>5, <1>6, <1>7, <1>8, <1>9, <1>10, <1>11,
     <1>12
  DEF Next, Handler, Client, Proxy, Finished

\* what a datanode's handlers and connections are counted by
CountedAt(c) == /\ handler'[c] = "accepting" <=> handler[c] = "accepting"
                /\ (sender'[c] = "called" \/ c \in dnBacklog') <=>
                   (sender[c] = "called" \/ c \in dnBacklog)

\* The node of a copy stays when anything of its transfer runs.
LEMMA NodeStays ==
  ASSUME TypeOK, NotifyOrder, ThreadOrder, Called, [Next]_vars, NEW c \in Copies,
         sender[c] # "none" \/ handler[c] # "none" \/ c \in dnBacklog
  PROVE  NodeOf(c)' = NodeOf(c)
<1>1. c[1] \in Ops /\ Placed(c[1])
  <2>1. SliceOf(c) \in Slices /\ SliceOf(c)[1] = c[1] /\ c[1] \in Ops
    BY SliceOfType
  <2>2. sender[c] # "none"
    BY DEF Called
  <2>3. notify[SliceOf(c)] # "none"
    BY <2>1, <2>2 DEF Called, ThreadOrder
  <2>. QED
    BY <2>1, <2>3 DEF NotifyOrder
<1>2. map2node'[c[1]] = map2node[c[1]]
  <2>1. ASSUME NEW o \in Ops, RecordNode(o) PROVE map2node'[c[1]] = map2node[c[1]]
    <3>1. PICK b \in Blocks : map2node' = [map2node EXCEPT ![o][b] = selected[o]]
      BY <2>1 DEF RecordNode
    <3>2. c[1] # o
      BY <1>1, <2>1 DEF RecordNode, Placed
    <3>. QED
      BY <1>1, <3>1, <3>2 DEF TypeOK
  <2>2. ASSUME NEW o \in Ops,
               \/ ReadStripeId(o) \/ WriteStripeId(o) \/ SelectNode(o)
               \/ AbortCoordinator(o) \/ ReplyUpload(o)
        PROVE UNCHANGED map2node
    BY <2>2 DEF ReadStripeId, WriteStripeId, SelectNode, AbortCoordinator, ReplyUpload,
                uploadVars, placeVars
  <2>8. ASSUME NEW o \in Ops, FinishSet(o) \/ FailSet(o) \/ FailUpload(o)
        PROVE UNCHANGED map2node
    BY <2>8 DEF FinishSet, FailSet, FailUpload, placeVars
  <2>3. ASSUME NEW o \in Ops, NEW g \in Groups,
               \/ EraseCommit(o, g) \/ ScheduleAppend(o, g) \/ NoteUpdating(o, g)
               \/ SendSlice(o, g) \/ CheckCommit(o, g) \/ FailCheck(o, g)
        PROVE UNCHANGED map2node
    BY <2>3 DEF EraseCommit, ScheduleAppend, NoteUpdating, SendSlice, CheckCommit, FailCheck,
                uploadVars, placeVars
  <2>4. ASSUME NEW x \in Slices, Proxy(x) PROVE UNCHANGED map2node
    BY <2>4 DEF Proxy, AcceptSlice, ReportCommit, FailReport, uploadVars, placeVars
  <2>5. ASSUME NEW d \in Copies, Datanode(d) PROVE UNCHANGED map2node
    BY <2>5 DEF Datanode, HandleAppend, SendBlock, AcceptBlock, WriteBlock, uploadVars, placeVars
  <2>6. ASSUME NEW n \in Nodes, CrashNode(n) PROVE UNCHANGED map2node
    BY <2>6 DEF CrashNode, uploadVars, placeVars
  <2>7. CASE UNCHANGED vars
    BY <2>7 DEF vars, uploadVars, placeVars
  <2>. QED
    BY <2>1, <2>2, <2>3, <2>4, <2>5, <2>6, <2>7, <2>8 DEF Next, Handler, Client, Finished
<1>. QED
  BY <1>2 DEF NodeOf

\* Each connection to a datanode that is up comes with a handler, and each accept
\* ends one of both.
LEMMA DatanodesMatchedStays ==
  ASSUME TypeOK, NotifyOrder, ThreadOrder, Called, DatanodesMatched, [Next]_vars
  PROVE  DatanodesMatched'
<1>0. \A c \in Copies : sender[c] # "none" \/ handler[c] # "none" \/ c \in dnBacklog
                          => NodeOf(c)' = NodeOf(c)
  BY NodeStays
<1>. USE DEF TypeOK
<1>1. ASSUME \A c \in Copies : CountedAt(c), down' = down PROVE DatanodesMatched'
  <2>. SUFFICES ASSUME NEW n \in Nodes \ down PROVE Matched(DueAt(n)', TakersAt(n)')
    BY <1>1 DEF DatanodesMatched, Matched
  <2>1. DueAt(n)' = DueAt(n)
    BY <1>0, <1>1 DEF DueAt, CountedAt
  <2>2. TakersAt(n)' = TakersAt(n)
    BY <1>0, <1>1 DEF TakersAt, CountedAt
  <2>. QED
    BY <2>1, <2>2 DEF DatanodesMatched
<1>2. ASSUME NEW d \in Copies, HandleAppend(d) PROVE DatanodesMatched'
  <2>1. /\ sender[d] = "none" /\ handler[d] = "none" /\ d \notin dnBacklog
        /\ sender' = [sender EXCEPT ![d] = "called"]
        /\ handler' = IF NodeOf(d) \in down THEN handler ELSE [handler EXCEPT ![d] = "accepting"]
        /\ UNCHANGED <<map2node, dnBacklog, down>>
    BY <1>2 DEF HandleAppend, Called, uploadVars, placeVars
  <2>2. \A c \in Copies : NodeOf(c)' = NodeOf(c)
    BY <2>1 DEF NodeOf
  <2>. SUFFICES ASSUME NEW n \in Nodes \ down PROVE Matched(DueAt(n)', TakersAt(n)')
    BY <2>1 DEF DatanodesMatched, Matched
  <2>3. CASE NodeOf(d) = n
    <3>1. DueAt(n)' = DueAt(n) \union {d} /\ d \notin DueAt(n)
      BY <2>1, <2>2, <2>3 DEF DueAt
    <3>2. TakersAt(n)' = TakersAt(n) \union {d} /\ d \notin TakersAt(n)
      BY <2>1, <2>2, <2>3 DEF TakersAt
    <3>. QED
      BY <3>1, <3>2, MatchedGrows DEF DatanodesMatched
  <2>4. CASE NodeOf(d) # n
    <3>1. DueAt(n)' = DueAt(n)
      BY <2>1, <2>2, <2>4 DEF DueAt
    <3>2. TakersAt(n)' = TakersAt(n)
      BY <2>1, <2>2, <2>4 DEF TakersAt
    <3>. QED
      BY <3>1, <3>2 DEF DatanodesMatched
  <2>. QED
    BY <2>3, <2>4
<1>3. ASSUME NEW d \in Copies, NEW e \in dnBacklog, AcceptBlock(d, e) PROVE DatanodesMatched'
  <2>1. /\ handler[d] = "accepting" /\ NodeOf(e) = NodeOf(d)
        /\ handler' = [handler EXCEPT ![d] = "writing"]
        /\ dnBacklog' = dnBacklog \ {e}
        /\ UNCHANGED <<map2node, sender, down>>
        /\ e \in Copies /\ sender[e] = "sent"
    BY <1>3 DEF AcceptBlock, Called, uploadVars, placeVars, proxyVars
  <2>2. \A c \in Copies : NodeOf(c)' = NodeOf(c)
    BY <2>1 DEF NodeOf
  <2>. SUFFICES ASSUME NEW n \in Nodes \ down PROVE Matched(DueAt(n)', TakersAt(n)')
    BY <2>1 DEF DatanodesMatched, Matched
  <2>3. CASE NodeOf(d) = n
    <3>1. DueAt(n)' = DueAt(n) \ {e} /\ e \in DueAt(n)
      BY <2>1, <2>2, <2>3 DEF DueAt
    <3>2. TakersAt(n)' = TakersAt(n) \ {d} /\ d \in TakersAt(n)
      BY <2>1, <2>2, <2>3 DEF TakersAt
    <3>. QED
      BY <3>1, <3>2, MatchedShrinks DEF DatanodesMatched
  <2>4. CASE NodeOf(d) # n
    <3>1. DueAt(n)' = DueAt(n)
      BY <2>1, <2>2, <2>4 DEF DueAt
    <3>2. TakersAt(n)' = TakersAt(n)
      BY <2>1, <2>2, <2>4 DEF TakersAt
    <3>. QED
      BY <3>1, <3>2 DEF DatanodesMatched
  <2>. QED
    BY <2>3, <2>4
<1>4. ASSUME NEW m \in Nodes, CrashNode(m) PROVE DatanodesMatched'
  <2>1. /\ down' = down \union {m}
        /\ dnBacklog' = {c \in dnBacklog : NodeOf(c) # m}
        /\ handler' = [c \in Copies |->
             IF handler[c] \in {"accepting", "writing"} /\ NodeOf(c) = m
             THEN "lost" ELSE handler[c]]
        /\ UNCHANGED <<map2node, sender>>
    BY <1>4 DEF CrashNode, uploadVars, placeVars, proxyVars
  <2>2. \A c \in Copies : NodeOf(c)' = NodeOf(c)
    BY <2>1 DEF NodeOf
  <2>. SUFFICES ASSUME NEW n \in Nodes \ down, n # m PROVE Matched(DueAt(n)', TakersAt(n)')
    BY <2>1 DEF DatanodesMatched, Matched
  <2>3. DueAt(n)' = DueAt(n)
    BY <2>1, <2>2 DEF DueAt
  <2>4. TakersAt(n)' = TakersAt(n)
    BY <2>1, <2>2 DEF TakersAt
  <2>. QED
    BY <2>3, <2>4 DEF DatanodesMatched
<1>5. ASSUME NEW d \in Copies, SendBlock(d) PROVE DatanodesMatched'
  <2>1. /\ sender[d] = "called" /\ sender' = [sender EXCEPT ![d] = "sent"]
        /\ dnBacklog' = IF NodeOf(d) \in down THEN dnBacklog ELSE dnBacklog \union {d}
        /\ UNCHANGED <<map2node, handler, down>>
    BY <1>5 DEF SendBlock, uploadVars, placeVars
  <2>2. \A c \in Copies : NodeOf(c)' = NodeOf(c)
    BY <2>1 DEF NodeOf
  <2>. SUFFICES ASSUME NEW n \in Nodes \ down PROVE Matched(DueAt(n)', TakersAt(n)')
    BY <2>1 DEF DatanodesMatched, Matched
  <2>3. DueAt(n)' = DueAt(n)
    BY <2>1, <2>2 DEF DueAt
  <2>4. TakersAt(n)' = TakersAt(n)
    BY <2>1, <2>2 DEF TakersAt
  <2>. QED
    BY <2>3, <2>4 DEF DatanodesMatched
<1>6. ASSUME NEW o \in Ops, Handler(o) \/ Client(o)
      PROVE (\A c \in Copies : CountedAt(c)) /\ down' = down
  <2>1. CASE SelectNode(o) \/ RecordNode(o) \/ AbortCoordinator(o)
    BY <2>1, PlacingFrame DEF CountedAt
  <2>2. CASE \/ ReadStripeId(o) \/ WriteStripeId(o) \/ ReplyUpload(o)
             \/ \E g \in Groups : EraseCommit(o, g) \/ ScheduleAppend(o, g) \/ NoteUpdating(o, g)
    BY <2>2 DEF ReadStripeId, WriteStripeId, ReplyUpload, EraseCommit, ScheduleAppend,
                NoteUpdating, proxyVars, nodeVars, CountedAt
  <2>3. CASE Client(o)
    BY <2>3 DEF Client, SendSlice, CheckCommit, FailCheck, FinishSet, FailSet, FailUpload,
                proxyVars, nodeVars, CountedAt
  <2>. QED
    BY <1>6, <2>1, <2>2, <2>3 DEF Handler
<1>7. ASSUME NEW x \in Slices, Proxy(x) PROVE (\A c \in Copies : CountedAt(c)) /\ down' = down
  BY <1>7 DEF Proxy, AcceptSlice, ReportCommit, FailReport, nodeVars, CountedAt
<1>8. ASSUME NEW d \in Copies, WriteBlock(d) PROVE (\A c \in Copies : CountedAt(c)) /\ down' = down
  BY <1>8 DEF WriteBlock, proxyVars, CountedAt
<1>9. CASE UNCHANGED vars
  <2>1. (\A c \in Copies : CountedAt(c)) /\ down' = down
    BY <1>9 DEF vars, proxyVars, nodeVars, CountedAt
  <2>. QED
    BY <2>1, <1>1
<1>. HIDE DEF DatanodesMatched
<1>. QED
  BY <1>1, <1>2, <1>3, <1>4, <1>5, <1>6, <1>7, <1>8, <1>9
  DEF Next, Datanode, Finished

(* ConnectionsHaveTakers holds in every behaviour, whatever uploads swap   *)
(* each other's connections and whatever datanodes crash: at every data    *)
(* socket as many threads accept as there are connections waiting and      *)
(* connections still to come.                                              *)
THEOREM ConnectionsHaveTakersHolds == Spec => []ConnectionsHaveTakers
<1>1. Init => TakersInv
  <2>. SUFFICES ASSUME Init PROVE TakersInv
    OBVIOUS
  <2>1. NotifyOrder /\ ThreadOrder /\ Invited /\ Called
    BY DEF Init, NotifyOrder, ThreadOrder, Invited, Called
  <2>2. Matched({}, {})
    BY FS_EmptySet DEF Matched
  <2>3. ProxiesMatched
    <3>. SUFFICES ASSUME NEW k \in Clusters PROVE Due(k) = {} /\ Takers(k) = {}
      BY <2>2 DEF ProxiesMatched
    <3>. QED
      BY DEF Init, Due, Takers
  <2>4. DatanodesMatched
    <3>. SUFFICES ASSUME NEW n \in Nodes PROVE DueAt(n) = {} /\ TakersAt(n) = {}
      BY <2>2 DEF DatanodesMatched
    <3>. QED
      BY DEF Init, DueAt, TakersAt
  <2>. QED
    BY <2>1, <2>3, <2>4 DEF TakersInv
<1>2. TypeOK /\ TakersInv /\ [Next]_vars => TakersInv'
  BY OrderStays, InvitedStays, CalledStays, ProxiesMatchedStays, DatanodesMatchedStays
  DEF TakersInv
<1>3. TypeOK /\ TakersInv => ConnectionsHaveTakers
  <2>. SUFFICES ASSUME TypeOK, TakersInv PROVE ConnectionsHaveTakers
    OBVIOUS
  <2>1. ASSUME NEW S, NEW T, NEW R, Matched(S, T), R \subseteq S
        PROVE  Cardinality(R) <= Cardinality(T)
    BY <2>1, FS_Subset DEF Matched
  <2>2. ASSUME NEW k \in Clusters
        PROVE  Cardinality({x \in backlog : Cluster(x) = k}) <= Cardinality(Takers(k))
    <3>1. {x \in backlog : Cluster(x) = k} \subseteq Due(k)
      BY DEF TakersInv, Invited, Due, TypeOK
    <3>2. Matched(Due(k), Takers(k))
      BY DEF TakersInv, ProxiesMatched
    <3>. QED
      BY <3>1, <3>2, <2>1
  <2>3. ASSUME NEW n \in Nodes \ down
        PROVE  Cardinality({c \in dnBacklog : NodeOf(c) = n}) <= Cardinality(TakersAt(n))
    <3>1. {c \in dnBacklog : NodeOf(c) = n} \subseteq DueAt(n)
      BY DEF DueAt, TypeOK
    <3>2. Matched(DueAt(n), TakersAt(n))
      BY DEF TakersInv, DatanodesMatched
    <3>. QED
      BY <3>1, <3>2, <2>1
  <2>. QED
    BY <2>2, <2>3 DEF ConnectionsHaveTakers, Takers, TakersAt
<1>. QED
  BY <1>1, <1>2, <1>3, TypeCorrect, PTL DEF Spec
=============================================================================
