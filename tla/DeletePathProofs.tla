-------------------------- MODULE DeletePathProofs --------------------------
(***************************************************************************)
(* Proofs about DeletePath, for any number of clients, stripes, blocks,    *)
(* keys and datanodes, and any number of datanode crashes.                 *)
(***************************************************************************)
EXTENDS DeletePath, FiniteSetTheorems, TLAPS

-----------------------------------------------------------------------------
(* The inductive invariant, in parts.                                      *)

Busy(c)    == pc[c] \in {"calling", "looking", "scanning", "checking", "asleep"}
Gone(t)    == \A b \in stripeBlocks : ~Matches(b, t)
\* what a removed block may still have: a file nobody could remove
Spared(b)  == map2node[b] \in down \/ b \in Late

\* a call in progress has a target, one that was begun and is not to come; a
\* key is looked up only when it was committed
Targeted ==
  \A c \in Clients : Busy(c) =>
    /\ doing[c] \in called /\ doing[c] \notin todo[c]
    /\ isKey(doing[c]) /\ pc[c] \in {"looking", "scanning"} => doing[c][2] \in DOMAIN Committed

\* a client deletes a target once
Once ==
  \A c \in Clients : \A t \in Targets :
    \/ t \in todo[c]
    \/ pc[c] \in {"asking", "listing"}
    \/ pc[c] \in {"calling", "looking", "scanning"} /\ doing[c] = t
    => job[<<c, t>>] = "none"

\* a proxy was told of blocks of the target alone
JobBlocks ==
  \A j \in Jobs : job[j] = "deleting" =>
    j[2] \in called /\ \A b \in left[j] : Matches(b, j[2])

\* the blocks of a stripe are in its list all or none
Whole ==
  \A b, d \in Blocks : map2stripe[b] = map2stripe[d] /\ b \in stripeBlocks => d \in stripeBlocks

\* the key of a stripe is committed as long as its blocks are listed
CommitBlocks ==
  \A b \in Blocks : map2key[map2stripe[b]] # None =>
    (b \in stripeBlocks <=> map2key[map2stripe[b]] \in m_object_commit_table)

\* what a handler has read is of its target, and all there is of it
FoundAll ==
  \A c \in Clients : coordinator = "up" /\ pc[c] = "scanning" =>
    /\ \A b \in found[c] : Matches(b, doing[c])
    /\ \A b \in stripeBlocks : Matches(b, doing[c]) => b \in found[c]

\* a proxy has still to remove every file of its target that may be there
JobCovers ==
  \A j \in Jobs : job[j] = "deleting" =>
    \A b \in stripeBlocks \intersect files : Matches(b, j[2]) => b \in left[j] \/ Spared(b)

\* what left the tables left the nodes
FilesGone == \A b \in files \ stripeBlocks : Spared(b)

\* a call that waits has its thread
Handed ==
  \A c \in Clients :
    pc[c] \in {"checking", "asleep"} /\ ~isKey(doing[c]) => job[<<c, doing[c]>>] # "none"

\* a deletion by id that was reported is done
Accounted ==
  coordinator = "up" => \A j \in Jobs : job[j] = "reported" /\ ~isKey(j[2]) => Gone(j[2])

DoneGone == \A c \in Clients : \A t \in done[c] : Gone(t)

DeleteInv ==
  /\ TypeOK /\ Targeted /\ Once /\ JobBlocks /\ Whole /\ TablesAgree /\ CommitBlocks
  /\ FoundAll /\ JobCovers /\ FilesGone /\ Handed /\ Accounted /\ DoneGone /\ OthersKept

-----------------------------------------------------------------------------
(* Facts about targets.                                                    *)

\* A target of a deletion is a key or a stripe id.
LEMMA TargetType ==
  ASSUME NEW t \in Targets
  PROVE  /\ isKey(t)  => t[2] \in Keys /\ t = <<"key", t[2]>>
         /\ ~isKey(t) => t[2] \in Stripes /\ t = <<"stripe", t[2]>> /\ StripeOf(t) = t[2]
BY DEF Targets, isKey, StripeOf

\* the blocks of a target are those of its stripe, all of them
LEMMA MatchesStripe ==
  ASSUME NEW t \in Targets, NEW b \in Blocks, Matches(b, t)
  PROVE  /\ map2stripe[b] = StripeOf(t)
         /\ \A d \in Blocks : map2stripe[d] = StripeOf(t) => Matches(d, t)
<1>1. CASE isKey(t)
  <2>1. map2key[map2stripe[b]] = t[2] /\ t[2] \in Keys /\ map2stripe[b] \in Stripes
    BY <1>1, TargetType, DeleteAssumption DEF Matches
  <2>2. map2stripe[b] = Committed[t[2]]
    BY <2>1, DeleteAssumption
  <2>. QED
    BY <1>1, <2>1, <2>2 DEF Matches, StripeOf
<1>2. CASE ~isKey(t)
  BY <1>2 DEF Matches, StripeOf
<1>. QED
  BY <1>1, <1>2

\* The clients whose deletion of a stripe by its id is under way are finitely many.
LEMMA PendingFinite ==
  ASSUME NEW s
  PROVE  Pending(s) \subseteq Clients /\ IsFiniteSet(Pending(s))
<1>1. Pending(s) \subseteq Clients
  BY DEF Pending
<1>. QED
  BY <1>1, FS_Subset, DeleteAssumption

-----------------------------------------------------------------------------
(* The initial state.                                                      *)

\* The invariant holds after setParameter and the uploads, before any delete.
LEMMA DeleteInvInit == Init => DeleteInv
<1> SUFFICES ASSUME Init PROVE DeleteInv
  OBVIOUS
<1>1. \A s \in Stripes : Pending(s) = {}
  BY DEF Init, Pending, Jobs, Targets
<1>2. EntriesCounted
  BY <1>1, FS_EmptySet DEF EntriesCounted, Init
<1>3. TypeOK
  BY <1>2, DeleteAssumption DEF TypeOK, Init, Targets
<1>4. Targeted /\ Once /\ JobBlocks /\ JobCovers
  BY DEF Init, Targeted, Busy, Once, JobBlocks, JobCovers, Jobs
<1>5. Whole /\ TablesAgree /\ CommitBlocks /\ FoundAll
  BY DeleteAssumption DEF Init, Whole, TablesAgree, CommitBlocks, FoundAll
<1>6. FilesGone /\ Handed /\ Accounted /\ DoneGone
  BY DEF Init, FilesGone, Handed, Accounted, DoneGone, Jobs
<1>7. OthersKept
  BY DeleteAssumption DEF Init, OthersKept
<1>. QED
  BY <1>3, <1>4, <1>5, <1>6, <1>7 DEF DeleteInv

-----------------------------------------------------------------------------
(* Entries of the deleting table.                                          *)

\* m_stripe_deleting_table goes on to count the clients that work for each stripe.
LEMMA EntriesStay ==
  ASSUME DeleteInv, [Next]_vars
  PROVE  EntriesCounted'
<1> SUFFICES ASSUME coordinator' = "up", NEW s \in Stripes
             PROVE  m_stripe_deleting_table'[s] = Cardinality(Pending(s)')
  BY DEF EntriesCounted
<1> USE DEF DeleteInv
<1> DEFINE S == <<"stripe", s>>
<1>1. S \in Targets /\ ~isKey(S) /\ \A c \in Clients : <<c, S>> \in Jobs
  BY DEF Targets, isKey, Jobs
<1>2. coordinator = "up" => m_stripe_deleting_table[s] = Cardinality(Pending(s))
  BY DEF EntriesCounted, TypeOK
<1>3. ASSUME coordinator = "up", m_stripe_deleting_table' = m_stripe_deleting_table,
             Pending(s)' = Pending(s)
      PROVE  m_stripe_deleting_table'[s] = Cardinality(Pending(s)')
  BY <1>2, <1>3
<1>4. ASSUME NEW c \in Clients, NEW t \in Targets, Delete(c, t)
      PROVE  m_stripe_deleting_table'[s] = Cardinality(Pending(s)')
  <2>1. Pending(s)' = Pending(s)
    BY <1>4 DEF Delete, Pending, proxyVars, TypeOK
  <2>. QED
    BY <1>3, <1>4, <2>1 DEF Delete, coordVars
<1>5. ASSUME NEW c \in Clients, FailCall(c)
      PROVE  FALSE
  BY <1>5 DEF FailCall, coordVars
<1>6. ASSUME NEW c \in Clients, BeginList(c)
      PROVE  m_stripe_deleting_table'[s] = Cardinality(Pending(s)')
  <2>1. Pending(s)' = Pending(s)
    BY <1>6 DEF BeginList, Pending, proxyVars, TypeOK
  <2>. QED
    BY <1>3, <1>6, <2>1 DEF BeginList, coordVars
<1>7. ASSUME NEW c \in Clients, EndList(c)
      PROVE  m_stripe_deleting_table'[s] = Cardinality(Pending(s)')
  <2>1. Pending(s)' = Pending(s) /\ UNCHANGED coordVars
    BY <1>7 DEF EndList, Crash, Pending, proxyVars, TypeOK
  <2>. QED
    BY <1>3, <1>7, <2>1 DEF EndList, coordVars
<1>8. ASSUME NEW c \in Clients, MarkKey(c)
      PROVE  m_stripe_deleting_table'[s] = Cardinality(Pending(s)')
  <2>1. Pending(s)' = Pending(s)
    BY <1>1, <1>8 DEF MarkKey, Lockable, Pending, proxyVars, TypeOK
  <2>. QED
    BY <1>3, <1>8, <2>1 DEF MarkKey, Lockable
<1>9. ASSUME NEW c \in Clients, MarkStripe(c)
      PROVE  m_stripe_deleting_table'[s] = Cardinality(Pending(s)')
  <2>1. CASE doing[c] = S
    <3>1. c \notin Pending(s)
      BY <1>1, <1>9, <2>1 DEF MarkStripe, Pending, Once
    <3>2. Pending(s)' = Pending(s) \union {c}
      BY <1>9, <2>1 DEF MarkStripe, Pending, proxyVars, TypeOK
    <3>3. m_stripe_deleting_table'[s] = m_stripe_deleting_table[s] + 1
      BY <1>9, <2>1 DEF MarkStripe, TypeOK
    <3>. QED
      BY <1>2, <1>9, <3>1, <3>2, <3>3, PendingFinite, FS_AddElement DEF MarkStripe, Lockable
  <2>2. CASE doing[c] # S
    <3>1. Pending(s)' = Pending(s)
      BY <1>9, <2>2 DEF MarkStripe, Pending, proxyVars, TypeOK
    <3>2. doing[c] \in Targets
      BY <1>9, <1>1 DEF MarkStripe, Targeted, Busy, TypeOK
    <3>3. doing[c][2] # s
      BY <1>9, <2>2, <3>2, TargetType DEF MarkStripe
    <3>4. m_stripe_deleting_table'[s] = m_stripe_deleting_table[s]
      BY <1>9, <3>3 DEF MarkStripe, TypeOK
    <3>. QED
      BY <1>2, <1>9, <3>1, <3>4 DEF MarkStripe, Lockable
  <2>. QED
    BY <2>1, <2>2
<1>10. ASSUME NEW c \in Clients, LookUp(c)
       PROVE  m_stripe_deleting_table'[s] = Cardinality(Pending(s)')
  <2>1. Pending(s)' = Pending(s)
    BY <1>10 DEF LookUp, Pending, proxyVars, TypeOK
  <2>. QED
    BY <1>3, <1>10, <2>1 DEF LookUp
<1>11. ASSUME NEW c \in Clients, SendDelete(c)
       PROVE  m_stripe_deleting_table'[s] = Cardinality(Pending(s)')
  <2>1. /\ job' = [job EXCEPT ![<<c, doing[c]>>] = "deleting"]
        /\ pc' = [pc EXCEPT ![c] = "checking"]
        /\ UNCHANGED coordVars
    BY <1>11 DEF SendDelete, Crash
  <2>2. <<c, doing[c]>> \in Jobs
    BY <1>11 DEF SendDelete, Targeted, Busy, TypeOK, Jobs
  <2>3. Pending(s)' = Pending(s)
    BY <1>1, <1>11, <2>1, <2>2 DEF SendDelete, Pending, TypeOK, Jobs
  <2>. QED
    BY <1>3, <1>11, <2>1, <2>3 DEF SendDelete, coordVars
<1>12. ASSUME NEW c \in Clients, CheckCommitAbort(c)
       PROVE  m_stripe_deleting_table'[s] = Cardinality(Pending(s)')
  <2>1. Pending(s)' = Pending(s)
    BY <1>12 DEF CheckCommitAbort, Pending, proxyVars, TypeOK
  <2>. QED
    BY <1>3, <1>12, <2>1 DEF CheckCommitAbort, Lockable, coordVars
<1>13. ASSUME NEW j \in Jobs, NEW b \in Blocks, DelInDatanode(j, b)
       PROVE  m_stripe_deleting_table'[s] = Cardinality(Pending(s)')
  <2>1. Pending(s)' = Pending(s)
    BY <1>13 DEF DelInDatanode, Pending, clientVars
  <2>. QED
    BY <1>3, <1>13, <2>1 DEF DelInDatanode, coordVars
<1>14. ASSUME NEW j \in Jobs, Report(j)
       PROVE  m_stripe_deleting_table'[s] = Cardinality(Pending(s)')
  <2>1. PICK c \in Clients, t \in Targets : j = <<c, t>>
    BY DEF Jobs
  <2>2. /\ coordinator = "up" /\ job[j] = "deleting"
        /\ job' = [job EXCEPT ![j] = "reported"] /\ doing' = doing
    BY <1>14 DEF Report, Lockable
  <2>3. \A d \in Clients : pc'[d] \in {"looking", "scanning"} <=> pc[d] \in {"looking", "scanning"}
    BY <1>14 DEF Report, ReportKey, ReportUnknown, ReportStripe, NotifyAll
  <2>4. CASE t = S
    <3>1. ReportStripe(j)
      BY <1>1, <1>14, <2>1, <2>4 DEF Report, ReportKey, ReportUnknown
    <3>2. c \in Pending(s)
      BY <2>1, <2>2, <2>4 DEF Pending
    <3>3. ~(doing[c] = S /\ pc[c] \in {"looking", "scanning"})
      BY <1>1, <2>1, <2>2, <2>4 DEF Once
    <3>4. \A d \in Clients : job'[<<d, S>>] = "deleting" <=> (job[<<d, S>>] = "deleting" /\ d # c)
      BY <1>1, <2>1, <2>2, <2>4 DEF TypeOK
    <3>5. Pending(s)' = Pending(s) \ {c}
      BY <2>2, <2>3, <3>3, <3>4 DEF Pending
    <3>6. Cardinality(Pending(s)) \in Nat \ {0} /\ Cardinality(Pending(s)') = Cardinality(Pending(s)) - 1
      BY <3>2, <3>5, PendingFinite, FS_RemoveElement, FS_EmptySet, FS_CardinalityType
    <3>7. m_stripe_deleting_table'[s] = m_stripe_deleting_table[s] - 1
      BY <1>2, <2>1, <2>2, <2>4, <3>1, <3>6 DEF ReportStripe, OneEntryLess, TypeOK
    <3>. QED
      BY <1>2, <2>2, <3>6, <3>7
  <2>5. CASE t # S
    <3>1. Pending(s)' = Pending(s)
      BY <2>1, <2>2, <2>3, <2>5 DEF Pending, TypeOK
    <3>2. m_stripe_deleting_table'[s] = m_stripe_deleting_table[s]
      <4>1. CASE ReportStripe(j)
        <5>1. j[2] = t /\ t[2] # s
          BY <2>1, <2>5, <4>1, TargetType DEF ReportStripe
        <5>. QED
          BY <4>1, <5>1 DEF ReportStripe, OneEntryLess, TypeOK
      <4>2. CASE ReportKey(j) \/ ReportUnknown(j)
        BY <4>2 DEF ReportKey, ReportUnknown
      <4>. QED
        BY <1>14, <4>1, <4>2 DEF Report
    <3>. QED
      BY <1>2, <2>2, <3>1, <3>2
  <2>. QED
    BY <2>4, <2>5
<1>15. ASSUME NEW j \in Jobs, FailReport(j)
       PROVE  FALSE
  BY <1>15 DEF FailReport, coordVars
<1>16. CASE \/ \E b \in Blocks : WriteLate(b)
            \/ \E n \in Nodes : CrashNode(n)
            \/ UNCHANGED vars
  <2>1. UNCHANGED <<coordVars, clientVars, proxyVars>>
    BY <1>16 DEF WriteLate, CrashNode, vars
  <2>. QED
    BY <1>2, <2>1 DEF coordVars, clientVars, proxyVars, Pending
<1>. QED
  BY <1>4, <1>5, <1>6, <1>7, <1>8, <1>9, <1>10, <1>11, <1>12, <1>13, <1>14, <1>15, <1>16
  DEF Next, Calling, Deleting
-----------------------------------------------------------------------------
(* Types.                                                                  *)

\* A client in a call deletes one of the targets.
LEMMA DoingType ==
  ASSUME DeleteInv, NEW c \in Clients, Busy(c)
  PROVE  doing[c] \in Targets
BY DEF DeleteInv, Targeted, TypeOK

\* Each handler and thread leaves the tables and files well-typed.
LEMMA TypeStays ==
  ASSUME DeleteInv, [Next]_vars
  PROVE  TypeOK'
<1> USE DEF DeleteInv
<1>1. ASSUME NEW c \in Clients, NEW t \in Targets, Delete(c, t) PROVE TypeOK'
  BY <1>1, EntriesStay DEF Delete, TypeOK, coordVars, proxyVars, nodeVars
<1>2. ASSUME NEW c \in Clients, FailCall(c) PROVE TypeOK'
  BY <1>2, EntriesStay DEF FailCall, TypeOK, coordVars, proxyVars, nodeVars
<1>3. ASSUME NEW c \in Clients, BeginList(c) PROVE TypeOK'
  BY <1>3, EntriesStay DEF BeginList, TypeOK, Targets, coordVars, proxyVars, nodeVars
<1>4. ASSUME NEW c \in Clients, EndList(c) PROVE TypeOK'
  BY <1>4, EntriesStay DEF EndList, Crash, TypeOK, coordVars, proxyVars, nodeVars
<1>5. ASSUME NEW c \in Clients, MarkKey(c) PROVE TypeOK'
  BY <1>5, EntriesStay DEF MarkKey, Lockable, TypeOK, proxyVars, nodeVars
<1>6. ASSUME NEW c \in Clients, MarkStripe(c) PROVE TypeOK'
  <2>1. doing[c][2] \in Stripes
    BY <1>6, DoingType, TargetType DEF MarkStripe, Busy
  <2>2. m_stripe_deleting_table' \in [Stripes -> Nat]
    BY <1>6, <2>1 DEF MarkStripe, TypeOK
  <2>. QED
    BY <1>6, <2>2, EntriesStay DEF MarkStripe, Lockable, TypeOK, proxyVars, nodeVars
<1>7. ASSUME NEW c \in Clients, LookUp(c) PROVE TypeOK'
  <2>1. StripeOf(doing[c]) \in Stripes
    BY <1>7, DoingType, TargetType, DeleteAssumption DEF LookUp, Busy, Targeted, StripeOf
  <2>2. m_stripe_table' \subseteq Stripes /\ found' \in [Clients -> SUBSET Blocks]
    BY <1>7, <2>1 DEF LookUp, TypeOK
  <2>3. raced' \in [Clients -> BOOLEAN]
    BY <1>7 DEF LookUp, RaceWith, TypeOK
  <2>4. pc' = [pc EXCEPT ![c] = "scanning"]
    BY <1>7 DEF LookUp
  <2>. QED
    BY <1>7, <2>2, <2>3, <2>4, EntriesStay DEF LookUp, TypeOK, proxyVars, nodeVars
<1>8. ASSUME NEW c \in Clients, SendDelete(c) PROVE TypeOK'
  <2>1. <<c, doing[c]>> \in Jobs
    BY <1>8, DoingType DEF SendDelete, Busy, Jobs
  <2>2. Scanned(c) \subseteq SUBSET Blocks
    BY DEF Scanned, TypeOK
  <2>3. job' \in [Jobs -> {"none", "deleting", "reported"}] /\ left' \in [Jobs -> SUBSET Blocks]
    <3>1. job \in [Jobs -> {"none", "deleting", "reported"}] /\ left \in [Jobs -> SUBSET Blocks]
      BY DEF TypeOK
    <3>2. PICK j \in Jobs : j = <<c, doing[c]>>
      BY <2>1
    <3>3. PICK bs \in SUBSET Blocks :
            \/ job' = job /\ left' = left
            \/ job' = [job EXCEPT ![j] = "deleting"] /\ left' = [left EXCEPT ![j] = bs]
      BY <1>8, <2>2, <3>2 DEF SendDelete
    <3>. QED
      BY <3>1, <3>3
  <2>4. /\ coordinator' \in {"up", "crashed"} /\ found' \in [Clients -> SUBSET Blocks]
        /\ raced' \in [Clients -> BOOLEAN]
        /\ pc' = [pc EXCEPT ![c] = "checking"] \/ pc' = pc
    BY <1>8 DEF SendDelete, Crash, TypeOK, coordVars
  <2>5. /\ UNCHANGED <<m_mutex, m_object_commit_table, m_object_updating_table,
                       m_stripe_deleting_table, m_stripe_table, stripeBlocks,
                       clusterBlocks, nodeStripes>>
        /\ UNCHANGED <<todo, doing, done, called, nodeVars>>
    BY <1>8 DEF SendDelete, Crash, coordVars
  <2>. QED
    BY <2>3, <2>4, <2>5, EntriesStay DEF TypeOK, nodeVars
<1>9. ASSUME NEW c \in Clients, CheckCommitAbort(c) PROVE TypeOK'
  <2>1. doing[c] \in Targets
    BY <1>9, DoingType DEF CheckCommitAbort, Busy
  <2>2. done' \in [Clients -> SUBSET Targets]
    BY <1>9, <2>1 DEF CheckCommitAbort, TypeOK
  <2>3. pc' = [pc EXCEPT ![c] = "idle"] \/ pc' = [pc EXCEPT ![c] = "asleep"]
    BY <1>9 DEF CheckCommitAbort
  <2>. QED
    BY <1>9, <2>2, <2>3, EntriesStay DEF CheckCommitAbort, TypeOK, coordVars, proxyVars, nodeVars
<1>10. ASSUME NEW j \in Jobs, NEW b \in Blocks, DelInDatanode(j, b) PROVE TypeOK'
  BY <1>10, EntriesStay DEF DelInDatanode, handleDelete, TypeOK, coordVars, clientVars
<1>11. ASSUME NEW j \in Jobs, Report(j) PROVE TypeOK'
  <2>1. /\ job' \in [Jobs -> {"none", "deleting", "reported"}]
        /\ UNCHANGED <<coordinator, m_mutex, todo, doing, found, done, called, left, nodeVars>>
    BY <1>11 DEF Report, TypeOK
  <2>2. CASE ReportKey(j)
    <3>1. StripeOf(j[2]) \in Stripes
      BY <2>2, DeleteAssumption DEF ReportKey, StripeOf, TypeOK
    <3>2. m_stripe_table' \subseteq Stripes
      BY <2>2, <3>1 DEF ReportKey, TypeOK
    <3>3. stripeBlocks' \subseteq Blocks /\ clusterBlocks' \subseteq Blocks
      BY <2>2 DEF ReportKey, ClusterWithout, TypeOK
    <3>4. /\ m_object_commit_table' \subseteq DOMAIN Committed
          /\ m_object_updating_table' \subseteq DOMAIN Committed
          /\ UNCHANGED <<m_stripe_deleting_table, nodeStripes>>
          /\ pc' = NotifyAll /\ RaceWith(Reading)
      BY <2>2 DEF ReportKey, TypeOK
    <3>. QED
      BY <2>1, <3>2, <3>3, <3>4, EntriesStay DEF NotifyAll, RaceWith, TypeOK, nodeVars
  <2>3. CASE ReportUnknown(j)
    BY <2>1, <2>3, EntriesStay DEF ReportUnknown, TypeOK, nodeVars
  <2>4. CASE ReportStripe(j)
    <3>1. j[2][2] \in Stripes
      BY <2>4, TargetType DEF ReportStripe, Jobs
    <3>2. m_stripe_deleting_table' \in [Stripes -> Nat]
      BY <2>4, <3>1 DEF ReportStripe, OneEntryLess, TypeOK
    <3>3. /\ m_stripe_table' \subseteq Stripes
          /\ stripeBlocks' \subseteq Blocks /\ clusterBlocks' \subseteq Blocks
          /\ nodeStripes' \in [Nodes -> SUBSET Stripes]
      BY <2>4 DEF ReportStripe, ClusterWithout, TypeOK
    <3>4. /\ m_object_commit_table' \subseteq DOMAIN Committed
          /\ UNCHANGED m_object_updating_table
          /\ pc' = NotifyAll /\ RaceWith(Reading)
      BY <2>4 DEF ReportStripe, TypeOK
    <3>. QED
      BY <2>1, <3>2, <3>3, <3>4, EntriesStay DEF NotifyAll, RaceWith, TypeOK, nodeVars
  <2>. QED
    BY <1>11, <2>2, <2>3, <2>4 DEF Report
<1>12. ASSUME NEW j \in Jobs, FailReport(j) PROVE TypeOK'
  BY <1>12, EntriesStay DEF FailReport, TypeOK, coordVars, clientVars, nodeVars
<1>13. ASSUME NEW b \in Blocks, WriteLate(b) PROVE TypeOK'
  BY <1>13, EntriesStay DEF WriteLate, TypeOK, coordVars, clientVars, proxyVars
<1>14. ASSUME NEW n \in Nodes, CrashNode(n) PROVE TypeOK'
  BY <1>14, EntriesStay DEF CrashNode, TypeOK, coordVars, clientVars, proxyVars
<1>15. CASE UNCHANGED vars
  BY <1>15, EntriesStay DEF TypeOK, vars, coordVars, clientVars, proxyVars, nodeVars
<1>. QED
  BY <1>1, <1>2, <1>3, <1>4, <1>5, <1>6, <1>7, <1>8, <1>9, <1>10, <1>11, <1>12, <1>13, <1>14, <1>15
  DEF Next, Calling, Deleting
-----------------------------------------------------------------------------
(* The client's calls.                                                     *)
LEMMA TargetedStays ==
  ASSUME DeleteInv, [Next]_vars
  PROVE  Targeted'
<1> USE DEF DeleteInv
<1>1. ASSUME NEW c \in Clients, NEW t \in Targets, Delete(c, t) PROVE Targeted'
  BY <1>1 DEF Delete, Targeted, Busy, TypeOK
<1>2. ASSUME NEW c \in Clients, FailCall(c) PROVE Targeted'
  BY <1>2 DEF FailCall, Targeted, Busy, TypeOK
<1>3. ASSUME NEW c \in Clients, BeginList(c) PROVE Targeted'
  BY <1>3 DEF BeginList, Targeted, Busy, TypeOK
<1>4. ASSUME NEW c \in Clients, EndList(c) PROVE Targeted'
  BY <1>4 DEF EndList, Crash, Targeted, Busy, TypeOK, coordVars
<1>5. ASSUME NEW c \in Clients, MarkKey(c) PROVE Targeted'
  BY <1>5 DEF MarkKey, Targeted, Busy, TypeOK
<1>6. ASSUME NEW c \in Clients, MarkStripe(c) PROVE Targeted'
  BY <1>6 DEF MarkStripe, Targeted, Busy, TypeOK
<1>7. ASSUME NEW c \in Clients, LookUp(c) PROVE Targeted'
  BY <1>7 DEF LookUp, Targeted, Busy, TypeOK
<1>8. ASSUME NEW c \in Clients, SendDelete(c) PROVE Targeted'
  BY <1>8 DEF SendDelete, Crash, Targeted, Busy, TypeOK, coordVars
<1>9. ASSUME NEW c \in Clients, CheckCommitAbort(c) PROVE Targeted'
  BY <1>9 DEF CheckCommitAbort, Targeted, Busy, TypeOK
<1>10. ASSUME NEW j \in Jobs, NEW b \in Blocks, DelInDatanode(j, b) PROVE Targeted'
  BY <1>10 DEF DelInDatanode, Targeted, Busy, TypeOK, clientVars
<1>11. ASSUME NEW j \in Jobs, Report(j) PROVE Targeted'
  <2>1. \A d \in Clients : pc'[d] = pc[d] \/ (pc[d] = "asleep" /\ pc'[d] = "checking")
    BY <1>11 DEF Report, ReportKey, ReportUnknown, ReportStripe, NotifyAll, TypeOK
  <2>. QED
    BY <1>11, <2>1 DEF Report, Targeted, Busy
<1>12. ASSUME NEW j \in Jobs, FailReport(j) PROVE Targeted'
  BY <1>12 DEF FailReport, Targeted, Busy, TypeOK, clientVars
<1>13. ASSUME NEW b \in Blocks, WriteLate(b) PROVE Targeted'
  BY <1>13 DEF WriteLate, Targeted, Busy, TypeOK, clientVars
<1>14. ASSUME NEW n \in Nodes, CrashNode(n) PROVE Targeted'
  BY <1>14 DEF CrashNode, Targeted, Busy, TypeOK, clientVars
<1>15. CASE UNCHANGED vars
  BY <1>15 DEF Targeted, Busy, TypeOK, vars, clientVars
<1>. QED
  BY <1>1, <1>2, <1>3, <1>4, <1>5, <1>6, <1>7, <1>8, <1>9, <1>10, <1>11, <1>12, <1>13, <1>14, <1>15
  DEF Next, Calling, Deleting

\* A client goes on to delete a target once: what it asked for is no longer to come.
LEMMA OnceStays ==
  ASSUME DeleteInv, [Next]_vars
  PROVE  Once'
<1> USE DEF DeleteInv
<1>1. ASSUME NEW c \in Clients, NEW t \in Targets, Delete(c, t) PROVE Once'
  BY <1>1 DEF Delete, Once, TypeOK, proxyVars
<1>2. ASSUME NEW c \in Clients, FailCall(c) PROVE Once'
  BY <1>2 DEF FailCall, Once, TypeOK, proxyVars
<1>3. ASSUME NEW c \in Clients, BeginList(c) PROVE Once'
  BY <1>3 DEF BeginList, Once, TypeOK, proxyVars
<1>4. ASSUME NEW c \in Clients, EndList(c) PROVE Once'
  BY <1>4 DEF EndList, Crash, Once, TypeOK, proxyVars
<1>5. ASSUME NEW c \in Clients, MarkKey(c) PROVE Once'
  BY <1>5 DEF MarkKey, Once, TypeOK, proxyVars
<1>6. ASSUME NEW c \in Clients, MarkStripe(c) PROVE Once'
  BY <1>6 DEF MarkStripe, Once, TypeOK, proxyVars
<1>7. ASSUME NEW c \in Clients, LookUp(c) PROVE Once'
  BY <1>7 DEF LookUp, Once, TypeOK, proxyVars
<1>8. ASSUME NEW c \in Clients, SendDelete(c) PROVE Once'
  <2>1. CASE UNCHANGED <<pc, job>>
    BY <1>8, <2>1 DEF SendDelete, Once
  <2>2. CASE /\ job' = [job EXCEPT ![<<c, doing[c]>>] = "deleting"]
             /\ pc' = [pc EXCEPT ![c] = "checking"]
    <3>1. doing[c] \in Targets /\ doing[c] \notin todo[c] /\ pc[c] = "scanning"
      BY <1>8, DoingType DEF SendDelete, Targeted, Busy
    <3>2. \A d \in Clients, t \in Targets :
            job'[<<d, t>>] = IF d = c /\ t = doing[c] THEN "deleting" ELSE job[<<d, t>>]
      BY <2>2, <3>1 DEF TypeOK, Jobs
    <3>. QED
      BY <1>8, <2>2, <3>1, <3>2 DEF SendDelete, Once, TypeOK
  <2>. QED
    BY <1>8, <2>1, <2>2 DEF SendDelete
<1>9. ASSUME NEW c \in Clients, CheckCommitAbort(c) PROVE Once'
  BY <1>9 DEF CheckCommitAbort, Once, TypeOK, proxyVars
<1>10. ASSUME NEW j \in Jobs, NEW b \in Blocks, DelInDatanode(j, b) PROVE Once'
  BY <1>10 DEF DelInDatanode, Once, TypeOK, clientVars
<1>11. ASSUME NEW j \in Jobs, Report(j) PROVE Once'
  <2>1. \A d \in Clients : pc'[d] = pc[d] \/ (pc[d] = "asleep" /\ pc'[d] = "checking")
    BY <1>11 DEF Report, ReportKey, ReportUnknown, ReportStripe, NotifyAll, TypeOK
  <2>2. \A i \in Jobs : job'[i] = job[i] \/ job[i] = "deleting"
    BY <1>11 DEF Report, TypeOK
  <2>. QED
    BY <1>11, <2>1, <2>2 DEF Report, Once, Jobs
<1>12. ASSUME NEW j \in Jobs, FailReport(j) PROVE Once'
  <2>1. \A i \in Jobs : job'[i] = job[i] \/ job[i] = "deleting"
    BY <1>12 DEF FailReport, TypeOK
  <2>. QED
    BY <1>12, <2>1 DEF FailReport, Once, Jobs, clientVars
<1>13. ASSUME NEW b \in Blocks, WriteLate(b) PROVE Once'
  BY <1>13 DEF WriteLate, Once, TypeOK, clientVars, proxyVars
<1>14. ASSUME NEW n \in Nodes, CrashNode(n) PROVE Once'
  BY <1>14 DEF CrashNode, Once, TypeOK, clientVars, proxyVars
<1>15. CASE UNCHANGED vars
  BY <1>15 DEF Once, TypeOK, vars, clientVars, proxyVars
<1>. QED
  BY <1>1, <1>2, <1>3, <1>4, <1>5, <1>6, <1>7, <1>8, <1>9, <1>10, <1>11, <1>12, <1>13, <1>14, <1>15
  DEF Next, Calling, Deleting
-----------------------------------------------------------------------------
(* The tables.  Only a report takes blocks from them.                      *)

Removes(t) ==
  /\ stripeBlocks' = {b \in stripeBlocks : ~Matches(b, t)}
  /\ clusterBlocks' = {b \in clusterBlocks : ~Matches(b, t)}
  /\ \A b \in Blocks : map2key[map2stripe[b]] # None =>
       (map2key[map2stripe[b]] \in m_object_commit_table' <=>
          map2key[map2stripe[b]] \in m_object_commit_table /\ ~Matches(b, t))

\* reportCommitAbort removes the blocks of its target from all tables, or, for a
\* key no longer committed, nothing.
LEMMA ReportRemoves ==
  ASSUME DeleteInv, NEW j \in Jobs, Report(j)
  PROVE  \/ Removes(j[2])
         \/ isKey(j[2]) /\ UNCHANGED <<stripeBlocks, clusterBlocks, m_object_commit_table, m_stripe_table>>
<1> DEFINE t == j[2]
<1>1. t \in Targets
  BY DEF Jobs
<1>2. CASE ReportUnknown(j)
  BY <1>2 DEF ReportUnknown
<1>3. CASE ReportKey(j)
  BY <1>3 DEF ReportKey, Removes, ClusterWithout, Matches
<1>4. CASE ReportStripe(j)
  <2> DEFINE s == t[2]
  <2>1. ~isKey(t) /\ s \in Stripes /\ \A b : Matches(b, t) <=> map2stripe[b] = s
    BY <1>1, <1>4, TargetType DEF ReportStripe, Matches
  <2>2. /\ stripeBlocks' = {b \in stripeBlocks : ~Matches(b, t)}
        /\ clusterBlocks' = {b \in clusterBlocks : ~Matches(b, t)}
    BY <1>4, <2>1 DEF ReportStripe, ClusterWithout
  <2>3. ASSUME NEW b \in Blocks, map2key[map2stripe[b]] # None
        PROVE  map2key[map2stripe[b]] \in m_object_commit_table' <=>
                 map2key[map2stripe[b]] \in m_object_commit_table /\ ~Matches(b, t)
    <3>1. map2stripe[b] \in Stripes /\ Committed[map2key[map2stripe[b]]] = map2stripe[b]
      BY <2>3, DeleteAssumption
    <3>2. CASE map2stripe[b] = s
      <4>1. CASE b \in clusterBlocks
        BY <1>4, <2>1, <3>2, <4>1 DEF ReportStripe
      <4>2. CASE b \notin clusterBlocks
        <5>1. map2key[map2stripe[b]] \notin m_object_commit_table
          BY <2>3, <4>2 DEF DeleteInv, TablesAgree, CommitBlocks
        <5>. QED
          BY <1>4, <2>1, <3>2, <5>1 DEF ReportStripe
      <4>. QED
        BY <4>1, <4>2
    <3>3. CASE map2stripe[b] # s
      <4>1. map2key[map2stripe[b]] # map2key[s]
        BY <2>1, <2>3, <3>1, <3>3, DeleteAssumption
      <4>. QED
        BY <1>4, <2>1, <3>3, <4>1 DEF ReportStripe
    <3>. QED
      BY <3>2, <3>3
  <2>. QED
    BY <2>2, <2>3 DEF Removes
<1>. QED
  BY <1>2, <1>3, <1>4 DEF Report

\* No step but reportCommitAbort removes an entry of the tables.
LEMMA OthersKeepTables ==
  ASSUME [Next]_vars
  PROVE  \/ \E j \in Jobs : Report(j)
         \/ /\ UNCHANGED <<stripeBlocks, clusterBlocks, m_object_commit_table>>
            /\ m_stripe_table \subseteq m_stripe_table'
<1>1. ASSUME NEW c \in Clients, Calling(c)
      PROVE  /\ UNCHANGED <<stripeBlocks, clusterBlocks, m_object_commit_table>>
             /\ m_stripe_table \subseteq m_stripe_table'
  BY <1>1 DEF Calling, FailCall, BeginList, EndList, Crash, MarkKey, MarkStripe, LookUp,
       SendDelete, CheckCommitAbort, coordVars
<1>2. ASSUME NEW j \in Jobs, Deleting(j), ~Report(j)
      PROVE  UNCHANGED coordVars
  BY <1>2 DEF Deleting, DelInDatanode, FailReport
<1>3. CASE \/ \E c \in Clients, t \in Targets : Delete(c, t)
           \/ \E b \in Blocks : WriteLate(b)
           \/ \E n \in Nodes : CrashNode(n)
           \/ UNCHANGED vars
  BY <1>3 DEF Delete, WriteLate, CrashNode, vars, coordVars
<1>. QED
  BY <1>1, <1>2, <1>3 DEF Next, coordVars

\* Blocks of one stripe are matched by the same targets.
LEMMA MatchesSame ==
  ASSUME NEW t, NEW b, NEW d, map2stripe[b] = map2stripe[d]
  PROVE  Matches(b, t) <=> Matches(d, t)
BY DEF Matches

\* The tables go on to hold the same blocks: what reportCommitAbort removes from
\* one it removes from all, whole stripes at a time.
LEMMA TablesStay ==
  ASSUME DeleteInv, [Next]_vars
  PROVE  Whole' /\ TablesAgree' /\ CommitBlocks'
<1> USE DEF DeleteInv
<1>1. CASE /\ UNCHANGED <<stripeBlocks, clusterBlocks, m_object_commit_table>>
           /\ m_stripe_table \subseteq m_stripe_table'
  BY <1>1 DEF Whole, TablesAgree, CommitBlocks
<1>2. ASSUME NEW j \in Jobs, Report(j), Removes(j[2])
      PROVE  Whole' /\ TablesAgree' /\ CommitBlocks'
  <2>1. Whole'
    BY <1>2, MatchesSame DEF Removes, Whole, TypeOK
  <2>2. CommitBlocks'
    BY <1>2 DEF Removes, CommitBlocks, TypeOK
  <2>3. stripeBlocks' = clusterBlocks'
    BY <1>2 DEF Removes, TablesAgree
  <2>4. ASSUME NEW b \in stripeBlocks' PROVE map2stripe[b] \in m_stripe_table'
    <3>1. b \in stripeBlocks /\ map2stripe[b] \in m_stripe_table
      BY <1>2, <2>4 DEF Removes, TablesAgree
    <3>2. CASE ReportKey(j)
      BY <2>4, <3>1, <3>2 DEF ReportKey
    <3>3. CASE ReportStripe(j)
      BY <2>4, <3>1, <3>3 DEF ReportStripe
    <3>4. CASE ReportUnknown(j)
      BY <3>1, <3>4 DEF ReportUnknown
    <3>. QED
      BY <1>2, <3>2, <3>3, <3>4 DEF Report
  <2>. QED
    BY <2>1, <2>2, <2>3, <2>4 DEF TablesAgree
<1>. QED
  BY <1>1, <1>2, ReportRemoves, OthersKeepTables

-----------------------------------------------------------------------------
(* What handlers and proxies have still to remove.                         *)

\* A delete adds no block to a stripe.
LEMMA TablesShrink ==
  ASSUME DeleteInv, [Next]_vars
  PROVE  stripeBlocks' \subseteq stripeBlocks
BY ReportRemoves, OthersKeepTables DEF Removes

\* A target that was called for stays so.
LEMMA CalledGrows == [Next]_vars => called \subseteq called'
BY DEF Next, Calling, Deleting, Delete, FailCall, BeginList, EndList, MarkKey, MarkStripe, LookUp,
  SendDelete, CheckCommitAbort, DelInDatanode, Report, FailReport, WriteLate, CrashNode, vars,
  clientVars

\* The coordinator, once ended, does not come back.
LEMMA NoRestart == [Next]_vars /\ coordinator' = "up" => coordinator = "up"
BY DEF Next, Calling, Deleting, Delete, FailCall, BeginList, EndList, Crash, MarkKey, MarkStripe,
  LookUp, SendDelete, CheckCommitAbort, DelInDatanode, Report, FailReport, WriteLate, CrashNode,
  vars, coordVars

\* a step that neither sends, removes nor reports
Quiet ==
  /\ UNCHANGED <<stripeBlocks, clusterBlocks, m_object_commit_table, left>>
  /\ files \subseteq files' /\ files' \subseteq files \union Late /\ down \subseteq down'
  /\ \A b \in late \ late' : b \in files' \/ map2node[b] \in down'
  /\ \A j \in Jobs : job'[j] = job[j] \/ (job'[j] = "reported" /\ coordinator' = "crashed")

\* A step sends a delete, reports one, removes a file or does none of these.
LEMMA OtherStepsQuiet ==
  ASSUME DeleteInv, [Next]_vars
  PROVE  \/ \E c \in Clients : SendDelete(c)
         \/ \E j \in Jobs : Report(j)
         \/ \E j \in Jobs, b \in Blocks : DelInDatanode(j, b)
         \/ Quiet
<1> USE DEF DeleteInv
<1>1. ASSUME NEW c \in Clients, Calling(c), ~SendDelete(c) PROVE Quiet
  BY <1>1 DEF Calling, FailCall, BeginList, EndList, Crash, MarkKey, MarkStripe, LookUp,
    CheckCommitAbort, Quiet, coordVars, proxyVars, nodeVars
<1>2. ASSUME NEW c \in Clients, NEW t \in Targets, Delete(c, t) PROVE Quiet
  BY <1>2 DEF Delete, Quiet, coordVars, proxyVars, nodeVars
<1>3. ASSUME NEW j \in Jobs, FailReport(j) PROVE Quiet
  BY <1>3 DEF FailReport, Quiet, TypeOK, coordVars, nodeVars
<1>4. ASSUME NEW b \in Blocks, WriteLate(b) PROVE Quiet
  BY <1>4 DEF WriteLate, Quiet, TypeOK, coordVars, proxyVars
<1>5. ASSUME NEW n \in Nodes, CrashNode(n) PROVE Quiet
  BY <1>5 DEF CrashNode, Quiet, TypeOK, coordVars, proxyVars
<1>6. CASE UNCHANGED vars
  BY <1>6 DEF Quiet, vars, coordVars, proxyVars, nodeVars
<1>. QED
  BY <1>1, <1>2, <1>3, <1>4, <1>5, <1>6 DEF Next, Deleting

\* a handler that goes on sends all that its target still has: if another
\* deletion emptied its stripe meanwhile, that is nothing
LEMMA SendsAll ==
  ASSUME DeleteInv, NEW c \in Clients, SendDelete(c)
  PROVE  \/ UNCHANGED <<job, left, pc>> /\ coordinator' = "crashed"
         \/ /\ <<c, doing[c]>> \in Jobs
            /\ job' = [job EXCEPT ![<<c, doing[c]>>] = "deleting"]
            /\ \E bs \in SUBSET Blocks :
                 /\ left' = [left EXCEPT ![<<c, doing[c]>>] = bs]
                 /\ \A b \in bs : Matches(b, doing[c])
                 /\ \A b \in stripeBlocks : Matches(b, doing[c]) => b \in bs
            /\ pc' = [pc EXCEPT ![c] = "checking"]
<1> USE DEF DeleteInv
<1> DEFINE t == doing[c]
<1>1. t \in Targets /\ coordinator = "up" /\ pc[c] = "scanning"
  BY DoingType DEF SendDelete, Busy
<1>2. <<c, t>> \in Jobs
  BY <1>1 DEF Jobs
<1>3. /\ found[c] \subseteq Blocks /\ \A b \in found[c] : Matches(b, t)
      /\ \A b \in stripeBlocks : Matches(b, t) => b \in found[c]
  BY <1>1 DEF FoundAll, TypeOK
<1>4. ASSUME NEW bs \in Scanned(c), bs # {}, NEW b \in stripeBlocks, Matches(b, t)
      PROVE  b \in bs
  <2>1. CASE found[c] \subseteq stripeBlocks \/ ~raced[c]
    BY <1>3, <1>4, <2>1 DEF Scanned
  <2>2. ASSUME NEW d \in found[c], d \notin stripeBlocks PROVE FALSE
    <3>1. b \in Blocks /\ d \in Blocks /\ Matches(d, t)
      BY <1>3, <2>2 DEF TypeOK
    <3>2. map2stripe[b] = map2stripe[d]
      BY <1>1, <1>4, <3>1, MatchesStripe
    <3>. QED
      BY <2>2, <3>1, <3>2 DEF Whole
  <2>. QED
    BY <2>1, <2>2
<1>5. Scanned(c) \subseteq SUBSET found[c]
  BY DEF Scanned
<1>6. PICK bs \in Scanned(c) :
        IF bs = {} THEN Crash /\ UNCHANGED <<pc, job, left>>
        ELSE /\ job' = [job EXCEPT ![<<c, t>>] = "deleting"]
             /\ left' = [left EXCEPT ![<<c, t>>] = bs]
             /\ pc' = [pc EXCEPT ![c] = "checking"]
  BY DEF SendDelete
<1>7. CASE bs = {}
  BY <1>6, <1>7 DEF Crash
<1>8. CASE bs # {}
  <2>1. bs \in SUBSET Blocks /\ \A b \in bs : Matches(b, t)
    BY <1>3, <1>5
  <2>2. \A b \in stripeBlocks : Matches(b, t) => b \in bs
    BY <1>4, <1>8
  <2>. QED
    BY <1>2, <1>6, <1>8, <2>1, <2>2
<1>. QED
  BY <1>7, <1>8

\* A proxy is told the blocks its handler found, all of its target.
LEMMA JobBlocksStay ==
  ASSUME DeleteInv, [Next]_vars
  PROVE  JobBlocks'
<1> USE DEF DeleteInv
<1>1. ASSUME NEW c \in Clients, SendDelete(c) PROVE JobBlocks'
  <2>1. doing[c] \in called /\ called' = called
    BY <1>1 DEF SendDelete, Targeted, Busy
  <2>2. CASE UNCHANGED <<job, left>>
    BY <2>1, <2>2 DEF JobBlocks
  <2>3. CASE \E bs \in SUBSET Blocks :
               /\ left' = [left EXCEPT ![<<c, doing[c]>>] = bs]
               /\ \A b \in bs : Matches(b, doing[c])
               /\ job' = [job EXCEPT ![<<c, doing[c]>>] = "deleting"]
    BY <2>1, <2>3 DEF JobBlocks, TypeOK
  <2>. QED
    BY <1>1, <2>2, <2>3, SendsAll
<1>2. ASSUME NEW j \in Jobs, Report(j) PROVE JobBlocks'
  BY <1>2 DEF Report, JobBlocks, TypeOK
<1>3. ASSUME NEW j \in Jobs, NEW b \in Blocks, DelInDatanode(j, b) PROVE JobBlocks'
  BY <1>3 DEF DelInDatanode, JobBlocks, TypeOK, clientVars
<1>4. CASE Quiet
  BY <1>4, CalledGrows DEF Quiet, JobBlocks
<1>. QED
  BY <1>1, <1>2, <1>3, <1>4, OtherStepsQuiet

\* Between the lookup and the report a proxy removes, one by one, each file of
\* its target.
LEMMA JobCoversStays ==
  ASSUME DeleteInv, [Next]_vars
  PROVE  JobCovers'
<1> USE DEF DeleteInv
<1>1. ASSUME NEW c \in Clients, SendDelete(c) PROVE JobCovers'
  <2>1. UNCHANGED <<stripeBlocks, files, down>>
    BY <1>1 DEF SendDelete, Crash, coordVars, nodeVars
  <2>2. CASE UNCHANGED <<job, left>>
    BY <2>1, <2>2 DEF JobCovers, Spared
  <2>3. CASE \E bs \in SUBSET Blocks :
               /\ left' = [left EXCEPT ![<<c, doing[c]>>] = bs]
               /\ \A b \in stripeBlocks : Matches(b, doing[c]) => b \in bs
               /\ job' = [job EXCEPT ![<<c, doing[c]>>] = "deleting"]
    BY <2>1, <2>3 DEF JobCovers, Spared, TypeOK
  <2>. QED
    BY <1>1, <2>2, <2>3, SendsAll
<1>2. ASSUME NEW j \in Jobs, Report(j) PROVE JobCovers'
  <2>1. /\ \A i \in Jobs : job'[i] = "deleting" => job[i] = "deleting"
        /\ UNCHANGED <<left, files, down>>
    BY <1>2 DEF Report, TypeOK, nodeVars
  <2>. QED
    BY <2>1, TablesShrink DEF JobCovers, Spared
<1>3. ASSUME NEW j \in Jobs, NEW b \in Blocks, DelInDatanode(j, b) PROVE JobCovers'
  <2>1. files' \subseteq files /\ (b \in files' => Spared(b))
    BY <1>3 DEF DelInDatanode, handleDelete, Spared
  <2>2. /\ \A i \in Jobs : left[i] \ {b} \subseteq left'[i]
        /\ UNCHANGED <<stripeBlocks, job, down>>
    BY <1>3 DEF DelInDatanode, TypeOK, coordVars
  <2>. QED
    BY <2>1, <2>2 DEF JobCovers, Spared
<1>4. CASE Quiet
  BY <1>4 DEF Quiet, JobCovers, Spared
<1>. QED
  BY <1>1, <1>2, <1>3, <1>4, OtherStepsQuiet

\* A file is removed no later than its entry: the proxy reports after the last
\* datanode has answered.
LEMMA FilesGoneStays ==
  ASSUME DeleteInv, [Next]_vars
  PROVE  FilesGone'
<1> USE DEF DeleteInv
<1>1. ASSUME NEW c \in Clients, SendDelete(c) PROVE FilesGone'
  BY <1>1 DEF SendDelete, Crash, FilesGone, Spared, coordVars, nodeVars
<1>2. ASSUME NEW j \in Jobs, Report(j) PROVE FilesGone'
  <2>1. job[j] = "deleting" /\ left[j] = {} /\ UNCHANGED <<files, down>>
    BY <1>2 DEF Report, SendersJoined, nodeVars
  <2>2. \A b \in stripeBlocks \intersect files : Matches(b, j[2]) => Spared(b)
    BY <2>1 DEF JobCovers
  <2>3. \A b \in stripeBlocks \ stripeBlocks' : Matches(b, j[2])
    BY <1>2, ReportRemoves DEF Removes
  <2>. QED
    BY <2>1, <2>2, <2>3 DEF FilesGone, Spared
<1>3. ASSUME NEW j \in Jobs, NEW b \in Blocks, DelInDatanode(j, b) PROVE FilesGone'
  BY <1>3 DEF DelInDatanode, handleDelete, FilesGone, Spared, coordVars
<1>4. CASE Quiet
  BY <1>4 DEF Quiet, FilesGone, Spared
<1>. QED
  BY <1>1, <1>2, <1>3, <1>4, OtherStepsQuiet

\* No file of a stripe nobody asked to delete is removed.
LEMMA OthersKeptStays ==
  ASSUME DeleteInv, [Next]_vars
  PROVE  OthersKept'
<1> USE DEF DeleteInv
<1> SUFFICES ASSUME NEW d \in Blocks, \A t \in called' : ~Matches(d, t)
             PROVE  (/\ d \in stripeBlocks \intersect clusterBlocks
                     /\ d \in files \union late \/ map2node[d] \in down
                     /\ map2key[map2stripe[d]] \in m_object_commit_table \union {None})'
  BY DEF OthersKept
<1>1. /\ d \in stripeBlocks \intersect clusterBlocks
      /\ d \in files \union late \/ map2node[d] \in down
      /\ map2key[map2stripe[d]] \in m_object_commit_table \union {None}
  BY CalledGrows DEF OthersKept
<1>2. ASSUME NEW c \in Clients, SendDelete(c) PROVE UNCHANGED <<stripeBlocks, clusterBlocks,
        m_object_commit_table, nodeVars>>
  BY <1>2 DEF SendDelete, Crash, coordVars
<1>3. ASSUME NEW j \in Jobs, Report(j)
      PROVE  /\ d \in stripeBlocks' /\ d \in clusterBlocks'
             /\ map2key[map2stripe[d]] \in m_object_commit_table' \union {None}
             /\ UNCHANGED nodeVars
  <2>1. ~Matches(d, j[2])
    BY <1>3 DEF Report, JobBlocks
  <2>. QED
    BY <1>1, <1>3, <2>1, ReportRemoves DEF Removes, Report
<1>4. ASSUME NEW j \in Jobs, NEW b \in Blocks, DelInDatanode(j, b)
      PROVE  /\ d \in files => d \in files'
             /\ UNCHANGED <<stripeBlocks, clusterBlocks, m_object_commit_table, late, down>>
  <2>1. Matches(b, j[2]) /\ j[2] \in called'
    BY <1>4, CalledGrows DEF DelInDatanode, JobBlocks
  <2>. QED
    BY <1>4, <2>1 DEF DelInDatanode, handleDelete, coordVars
<1>5. CASE Quiet
  BY <1>1, <1>5 DEF Quiet
<1>. QED
  BY <1>1, <1>2, <1>3, <1>4, <1>5, OtherStepsQuiet DEF nodeVars

\* What the lookup read stays all there is of the target, for blocks are only
\* removed.
LEMMA FoundAllStays ==
  ASSUME DeleteInv, [Next]_vars
  PROVE  FoundAll'
<1> USE DEF DeleteInv
<1>1. ASSUME NEW c \in Clients, NEW t \in Targets, Delete(c, t) PROVE FoundAll'
  BY <1>1 DEF Delete, FoundAll, TypeOK, coordVars
<1>2. ASSUME NEW c \in Clients, FailCall(c) PROVE FoundAll'
  BY <1>2 DEF FailCall, FoundAll, TypeOK, coordVars
<1>3. ASSUME NEW c \in Clients, BeginList(c) PROVE FoundAll'
  BY <1>3 DEF BeginList, FoundAll, TypeOK, coordVars
<1>4. ASSUME NEW c \in Clients, EndList(c) PROVE FoundAll'
  BY <1>4 DEF EndList, Crash, FoundAll, TypeOK, coordVars
<1>5. ASSUME NEW c \in Clients, MarkKey(c) PROVE FoundAll'
  BY <1>5 DEF MarkKey, FoundAll, TypeOK
<1>6. ASSUME NEW c \in Clients, MarkStripe(c) PROVE FoundAll'
  BY <1>6 DEF MarkStripe, FoundAll, TypeOK
<1>7. ASSUME NEW c \in Clients, LookUp(c) PROVE FoundAll'
  <2>1. doing[c] \in Targets
    BY <1>7, DoingType DEF LookUp, Busy
  <2>2. \A b \in stripeBlocks : Matches(b, doing[c]) => map2stripe[b] = StripeOf(doing[c])
    BY <2>1, MatchesStripe DEF TypeOK
  <2>. QED
    BY <1>7, <2>2 DEF LookUp, FoundAll, TypeOK
<1>8. ASSUME NEW c \in Clients, SendDelete(c) PROVE FoundAll'
  <2>1. coordinator' = "crashed" \/ (pc' = [pc EXCEPT ![c] = "checking"])
    BY <1>8, SendsAll
  <2>2. /\ UNCHANGED <<doing, stripeBlocks>> /\ coordinator = "up"
        /\ found' = [found EXCEPT ![c] = {}]
    BY <1>8 DEF SendDelete, Crash, coordVars
  <2>. QED
    BY <2>1, <2>2 DEF FoundAll, TypeOK
<1>9. ASSUME NEW c \in Clients, CheckCommitAbort(c) PROVE FoundAll'
  BY <1>9 DEF CheckCommitAbort, FoundAll, TypeOK, coordVars
<1>10. ASSUME NEW j \in Jobs, NEW b \in Blocks, DelInDatanode(j, b) PROVE FoundAll'
  BY <1>10 DEF DelInDatanode, FoundAll, coordVars, clientVars
<1>11. ASSUME NEW j \in Jobs, Report(j) PROVE FoundAll'
  <2>1. \A c \in Clients : pc'[c] = "scanning" => pc[c] = "scanning"
    BY <1>11 DEF Report, ReportKey, ReportUnknown, ReportStripe, NotifyAll
  <2>. QED
    BY <1>11, <2>1, TablesShrink DEF Report, FoundAll
<1>12. ASSUME NEW j \in Jobs, FailReport(j) PROVE FoundAll'
  BY <1>12 DEF FailReport, FoundAll, coordVars, clientVars
<1>13. ASSUME NEW b \in Blocks, WriteLate(b) PROVE FoundAll'
  BY <1>13 DEF WriteLate, FoundAll, coordVars, clientVars
<1>14. ASSUME NEW n \in Nodes, CrashNode(n) PROVE FoundAll'
  BY <1>14 DEF CrashNode, FoundAll, coordVars, clientVars
<1>15. CASE UNCHANGED vars
  BY <1>15 DEF FoundAll, vars, coordVars, clientVars
<1>. QED
  BY <1>1, <1>2, <1>3, <1>4, <1>5, <1>6, <1>7, <1>8, <1>9, <1>10, <1>11, <1>12, <1>13, <1>14, <1>15
  DEF Next, Calling, Deleting

\* A call goes on to have the thread that works for it.
LEMMA HandedStays ==
  ASSUME DeleteInv, [Next]_vars
  PROVE  Handed'
<1> USE DEF DeleteInv
<1>1. ASSUME NEW c \in Clients, NEW t \in Targets, Delete(c, t) PROVE Handed'
  BY <1>1 DEF Delete, Handed, TypeOK, proxyVars
<1>2. ASSUME NEW c \in Clients, FailCall(c) PROVE Handed'
  BY <1>2 DEF FailCall, Handed, TypeOK, proxyVars
<1>3. ASSUME NEW c \in Clients, BeginList(c) PROVE Handed'
  BY <1>3 DEF BeginList, Handed, TypeOK, proxyVars
<1>4. ASSUME NEW c \in Clients, EndList(c) PROVE Handed'
  BY <1>4 DEF EndList, Handed, TypeOK, proxyVars
<1>5. ASSUME NEW c \in Clients, MarkKey(c) PROVE Handed'
  BY <1>5 DEF MarkKey, Handed, TypeOK, proxyVars
<1>6. ASSUME NEW c \in Clients, MarkStripe(c) PROVE Handed'
  BY <1>6 DEF MarkStripe, Handed, TypeOK, proxyVars
<1>7. ASSUME NEW c \in Clients, LookUp(c) PROVE Handed'
  BY <1>7 DEF LookUp, Handed, TypeOK, proxyVars
<1>8. ASSUME NEW c \in Clients, SendDelete(c) PROVE Handed'
  <2>1. UNCHANGED doing
    BY <1>8 DEF SendDelete
  <2>2. CASE UNCHANGED <<pc, job>>
    BY <2>1, <2>2 DEF Handed
  <2>3. CASE /\ pc' = [pc EXCEPT ![c] = "checking"]
             /\ job' = [job EXCEPT ![<<c, doing[c]>>] = "deleting"]
             /\ <<c, doing[c]>> \in Jobs
    <3>1. job'[<<c, doing[c]>>] = "deleting"
      BY <2>3 DEF TypeOK
    <3>2. \A d \in Clients : d # c => pc'[d] = pc[d] /\ job'[<<d, doing[d]>>] = job[<<d, doing[d]>>]
      BY <2>3 DEF TypeOK
    <3>. QED
      BY <2>1, <3>1, <3>2 DEF Handed
  <2>. QED
    BY <1>8, <2>2, <2>3, SendsAll
<1>9. ASSUME NEW c \in Clients, CheckCommitAbort(c) PROVE Handed'
  BY <1>9 DEF CheckCommitAbort, Handed, TypeOK, proxyVars
<1>10. ASSUME NEW j \in Jobs, NEW b \in Blocks, DelInDatanode(j, b) PROVE Handed'
  BY <1>10 DEF DelInDatanode, Handed, clientVars
<1>11. ASSUME NEW j \in Jobs, Report(j) PROVE Handed'
  <2>1. \A c \in Clients :
          pc'[c] \in {"checking", "asleep"} => pc[c] \in {"checking", "asleep"}
    BY <1>11 DEF Report, ReportKey, ReportUnknown, ReportStripe, NotifyAll, TypeOK
  <2>2. \A c \in Clients : job[<<c, doing[c]>>] # "none" => job'[<<c, doing[c]>>] # "none"
    BY <1>11 DEF Report, TypeOK
  <2>. QED
    BY <1>11, <2>1, <2>2 DEF Report, Handed
<1>12. ASSUME NEW j \in Jobs, FailReport(j) PROVE Handed'
  BY <1>12 DEF FailReport, Handed, TypeOK, clientVars
<1>13. ASSUME NEW b \in Blocks, WriteLate(b) PROVE Handed'
  BY <1>13 DEF WriteLate, Handed, clientVars, proxyVars
<1>14. ASSUME NEW n \in Nodes, CrashNode(n) PROVE Handed'
  BY <1>14 DEF CrashNode, Handed, clientVars, proxyVars
<1>15. CASE UNCHANGED vars
  BY <1>15 DEF Handed, vars, clientVars, proxyVars
<1>. QED
  BY <1>1, <1>2, <1>3, <1>4, <1>5, <1>6, <1>7, <1>8, <1>9, <1>10, <1>11, <1>12, <1>13, <1>14, <1>15
  DEF Next, Calling, Deleting

\* A deletion by id that was reported stays done, as nothing is written again.
LEMMA AccountedStays ==
  ASSUME DeleteInv, [Next]_vars
  PROVE  Accounted'
<1> USE DEF DeleteInv
<1> SUFFICES ASSUME coordinator' = "up", NEW i \in Jobs, job'[i] = "reported", ~isKey(i[2])
             PROVE  Gone(i[2])'
  BY DEF Accounted
<1>1. coordinator = "up"
  BY NoRestart
<1>2. ASSUME job[i] = "reported" PROVE Gone(i[2])'
  BY <1>1, <1>2, TablesShrink DEF Accounted, Gone
<1>3. ASSUME NEW c \in Clients, SendDelete(c) PROVE job[i] = "reported"
  BY <1>3, SendsAll DEF TypeOK
<1>4. ASSUME NEW j \in Jobs, Report(j), job[i] # "reported" PROVE Gone(i[2])'
  <2>1. i = j
    BY <1>4 DEF Report, TypeOK
  <2>. QED
    BY <1>4, <2>1, ReportRemoves DEF Removes, Gone
<1>5. ASSUME NEW j \in Jobs, NEW b \in Blocks, DelInDatanode(j, b) PROVE job[i] = "reported"
  BY <1>5 DEF DelInDatanode
<1>6. CASE Quiet
  BY <1>2, <1>6 DEF Quiet
<1>. QED
  BY <1>2, <1>3, <1>4, <1>5, <1>6, OtherStepsQuiet

\* a call that returns finds its target gone
LEMMA EndedGone ==
  ASSUME DeleteInv, NEW c \in Clients, CheckCommitAbort(c), Ended(doing[c])
  PROVE  Gone(doing[c])
<1> USE DEF DeleteInv
<1> DEFINE t == doing[c]
<1>1. t \in Targets /\ coordinator = "up"
  BY DoingType DEF CheckCommitAbort, Busy, Lockable
<1>2. CASE isKey(t)
  <2>1. t[2] \in Keys /\ t[2] \notin m_object_commit_table
    BY <1>1, <1>2, TargetType DEF Ended
  <2>. QED
    BY <1>2, <2>1, DeleteAssumption DEF Gone, Matches, CommitBlocks, TypeOK
<1>3. CASE ~isKey(t)
  <2> DEFINE s == t[2]
  <2>1. s \in Stripes /\ t = <<"stripe", s>> /\ <<c, t>> \in Jobs
    BY <1>1, <1>3, TargetType DEF Jobs
  <2>2. Cardinality(Pending(s)) = 0
    BY <1>1, <1>3, <2>1 DEF Ended, TypeOK, EntriesCounted
  <2>3. Pending(s) = {}
    BY <2>2, PendingFinite, FS_EmptySet
  <2>4. job[<<c, t>>] # "deleting"
    BY <2>1, <2>3 DEF Pending
  <2>5. job[<<c, t>>] # "none"
    BY <1>3 DEF Handed, CheckCommitAbort
  <2>6. job[<<c, t>>] = "reported"
    BY <2>1, <2>4, <2>5 DEF TypeOK
  <2>. QED
    BY <1>1, <1>3, <2>1, <2>6 DEF Accounted
<1>. QED
  BY <1>2, <1>3

\* A client hears of success after the report of its own target.
LEMMA DoneGoneStays ==
  ASSUME DeleteInv, [Next]_vars
  PROVE  DoneGone'
<1> USE DEF DeleteInv
<1>1. CASE UNCHANGED done
  BY <1>1, TablesShrink DEF DoneGone, Gone
<1>2. ASSUME NEW c \in Clients, CheckCommitAbort(c) PROVE DoneGone'
  <2>1. CASE Ended(doing[c])
    BY <1>2, <2>1, EndedGone, TablesShrink DEF CheckCommitAbort, DoneGone, Gone, TypeOK
  <2>2. CASE ~Ended(doing[c])
    BY <1>1, <1>2, <2>2 DEF CheckCommitAbort
  <2>. QED
    BY <2>1, <2>2
<1>3. UNCHANGED done \/ \E c \in Clients : CheckCommitAbort(c)
  BY DEF Next, Calling, Deleting, Delete, FailCall, BeginList, EndList, MarkKey, MarkStripe, LookUp,
    SendDelete, DelInDatanode, Report, FailReport, WriteLate, CrashNode, vars, clientVars
<1>. QED
  BY <1>1, <1>2, <1>3

-----------------------------------------------------------------------------
(* The theorems.                                                           *)

\* Every step of the deletion keeps the invariant.
LEMMA DeleteInvStays == DeleteInv /\ [Next]_vars => DeleteInv'
<1> SUFFICES ASSUME DeleteInv, [Next]_vars PROVE DeleteInv'
  OBVIOUS
<1>1. (TypeOK /\ Targeted /\ Once /\ JobBlocks)'
  BY TypeStays, TargetedStays, OnceStays, JobBlocksStay
<1>2. (Whole /\ TablesAgree /\ CommitBlocks)'
  BY TablesStay
<1>3. (FoundAll /\ JobCovers /\ FilesGone)'
  BY FoundAllStays, JobCoversStays, FilesGoneStays
<1>4. (Handed /\ Accounted /\ DoneGone /\ OthersKept)'
  BY HandedStays, AccountedStays, DoneGoneStays, OthersKeptStays
<1>. QED
  BY <1>1, <1>2, <1>3, <1>4 DEF DeleteInv

\* The invariant holds throughout, for any clients, stripes and targets.
LEMMA DeleteInvHolds == Spec => []DeleteInv
BY DeleteInvInit, DeleteInvStays, PTL DEF Spec

\* The deletion state is well typed, and m_stripe_deleting_table counts exactly
\* the deletions of each stripe that are noted and not reported: the entries of
\* delByStripe less those erased by reportCommitAbort.
THEOREM DeleteTypes == Spec => []TypeOK
<1>1. DeleteInv => TypeOK
  BY DEF DeleteInv
<1>. QED
  BY <1>1, DeleteInvHolds, PTL

\* When delete_key or delete_stripe has returned true, what it deleted is in no
\* table and on no datanode that is up, but for files an append writes later:
\* the entry checkCommitAbort waits for goes only with the report of a thread
\* that has joined its senders, even when several clients delete one stripe.
THEOREM DeletesDone == Spec => []DeletedIsGone
<1>1. ASSUME DeleteInv PROVE DeletedIsGone
  <2> SUFFICES ASSUME NEW c \in Clients, NEW t \in done[c], NEW b \in Blocks, Matches(b, t)
               PROVE  /\ b \notin stripeBlocks \union clusterBlocks
                      /\ map2key[map2stripe[b]] \notin m_object_commit_table
                      /\ b \in files => map2node[b] \in down \/ b \in Late
    BY DEF DeletedIsGone
  <2>1. b \notin stripeBlocks
    BY <1>1 DEF DeleteInv, DoneGone, Gone
  <2>2. b \notin clusterBlocks
    BY <1>1, <2>1 DEF DeleteInv, TablesAgree
  <2>3. None \notin m_object_commit_table
    BY <1>1, DeleteAssumption DEF DeleteInv, TypeOK
  <2>4. map2key[map2stripe[b]] \notin m_object_commit_table
    BY <1>1, <2>1, <2>3 DEF DeleteInv, CommitBlocks
  <2>5. b \in files => Spared(b)
    BY <1>1, <2>1 DEF DeleteInv, FilesGone
  <2>. QED
    BY <2>1, <2>2, <2>4, <2>5 DEF Spared
<1>. QED
  BY <1>1, DeleteInvHolds, PTL

\* What no client began to delete keeps its blocks in the stripe's and the
\* cluster's list, its key, and its files, whatever delByKey and delByStripe
\* remove beside it.
THEOREM OthersUntouched == Spec => []OthersKept
<1>1. DeleteInv => OthersKept
  BY DEF DeleteInv
<1>. QED
  BY <1>1, DeleteInvHolds, PTL

\* The block lists of the stripes and of the clusters stay equal under the DEL
\* branch of reportCommitAbort, by key and by id, in any order of reports.
THEOREM TablesConsistent == Spec => []TablesAgree
<1>1. DeleteInv => TablesAgree
  BY DEF DeleteInv
<1>. QED
  BY <1>1, DeleteInvHolds, PTL
=============================================================================
