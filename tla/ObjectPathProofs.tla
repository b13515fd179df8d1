-------------------------- MODULE ObjectPathProofs --------------------------
(***************************************************************************)
(* Proofs about ObjectPath, for any clients, keys, proxies and nodes, any  *)
(* number of data blocks, any scripts of calls and any schedule of the     *)
(* handlers and threads.                                                   *)
(***************************************************************************)
EXTENDS ObjectPath, FiniteSetTheorems, SequenceTheorems, TLAPS

-----------------------------------------------------------------------------
(* Types.                                                                  *)

AllFiles == DataFiles \union ParityFiles
Truths   == [by : Calls, sure : BOOLEAN]
Readings == [empty : BOOLEAN, names : [Blocks -> AllFiles], got : SUBSET (Blocks \X Content)]

Typed ==
  /\ script \in Scripts /\ step \in [Clients -> 0 .. MaxSteps]
  /\ pc \in [Clients -> {"idle", "set", "placed", "sending", "get", "del", "looking",
                         "reading", "lost", "checking", "asleep"}]
  /\ m_mutex \in {"free", "leaked"} /\ ended \in BOOLEAN
  /\ looked \in [Clients -> Info \union {None}]
  /\ reading \in [Clients -> Readings \union {None}]
  /\ heard \in [Clients -> [DataBlocks -> Content] \union {None}]
  /\ m_cur_stripe_id \in StripeIds
  /\ m_object_commit_table \in [Keys -> Info \union {None}]
  /\ m_object_updating_table \in [Keys -> Info \union {None}]
  /\ m_stripe_table \in [StripeIds -> Stripe \union {None}]
  /\ thread \in [Calls -> Thread \union {None}]
  /\ queue \subseteq Calls /\ carries \in [Calls -> Calls \union {Zero, None}]
  /\ pending \in [Calls -> SUBSET Blocks] /\ left \in [Calls -> SUBSET AllFiles]
  /\ files \in [AllFiles -> Calls \union {Zero, None}]
  /\ truth \in [Keys -> Truths \union {None}] /\ relies \in [Clients -> Truths \union {None}]

-----------------------------------------------------------------------------
(* Where clients and threads are.                                          *)

\* t is the call its client is in, and that is at one of these points
At(t, where) == t[2] = step[t[1]] /\ pc[t[1]] \in where
\* a set whose stripe was placed and whose thread was started
Placed(t) == thread[t] # None /\ kindOf(t) = "set"
\* what the coordinator notes of it
InfoOf(t) == [empty |-> FALSE, stripe |-> thread[t].stripe]

Position(c) ==
  /\ step[c] \in 0 .. Len(script[c])
  /\ pc[c] # "idle" => step[c] \in 1 .. Len(script[c])
  /\ pc[c] \in {"set", "placed", "sending"} => Kind(c) = "set"
  /\ pc[c] \in {"get", "reading", "lost"} => Kind(c) = "get"
  /\ pc[c] = "del" => Kind(c) = "del"
  /\ pc[c] = "looking" => Kind(c) \in {"get", "del"}
  /\ pc[c] \in {"checking", "asleep"} => Kind(c) \in {"set", "del"}
  /\ pc[c] \in {"set", "get", "del", "looking", "reading", "lost"} => thread[call(c)] = None
  /\ pc[c] \in {"placed", "sending"} => thread[call(c)] # None
  /\ pc[c] \in {"checking", "asleep"} /\ Kind(c) = "set" => thread[call(c)] # None
  /\ pc[c] = "placed" => looked[c] = InfoOf(call(c))
  /\ pc[c] = "looking" => looked[c] \in Info /\ looked[c].stripe < m_cur_stripe_id
  /\ pc[c] = "reading" => reading[c] \in Readings
  /\ pc[c] = "lost" => m_mutex = "leaked"
Positions == \A c \in Clients : Position(c)

Fit(t) ==
  /\ thread[t] # None =>
       /\ Started(t) /\ thread[t].stripe < m_cur_stripe_id
       /\ \/ /\ kindOf(t) = "set" /\ thread[t].at \in {"accepting", "sent", "reported"}
             /\ thread[t].cluster \in Clusters /\ thread[t].home \in Homes
          \/ kindOf(t) = "del" /\ thread[t].at \in {"deleting", "reported"}
  /\ pending[t] # {} => Placed(t) /\ thread[t].at \in {"sent", "reported"}
  /\ left[t] # {} => thread[t] # None /\ thread[t].at = "deleting"
ThreadsFit == \A t \in Calls : Fit(t)

\* what is noted or committed for a key names a stripe that was placed
InfosFit ==
  \A key \in Keys : \A info \in {m_object_commit_table[key], m_object_updating_table[key]} :
    info # None => info.stripe < m_cur_stripe_id

-----------------------------------------------------------------------------
(* The connections of a proxy.                                             *)

Accepting(cl) == {t \in Calls : thread[t] # None /\ thread[t].at = "accepting"
                                               /\ thread[t].cluster = cl}
Waiting(cl)   == {t \in queue : thread[t].cluster = cl}
Unsent(cl)    == {t \in Calls : At(t, {"placed", "sending"}) /\ thread[t].cluster = cl}

\* a connection is of a set that sent its value, and a proxy's threads that
\* accept are as many as connections that wait, or are still to be made
Connected ==
  /\ \A u \in queue : Placed(u) /\ ~ At(u, {"placed", "sending"})
  /\ \A cl \in Clusters :
       Cardinality(Accepting(cl)) = Cardinality(Waiting(cl)) + Cardinality(Unsent(cl))

-----------------------------------------------------------------------------
(* Stripes.                                                                *)

Numbered ==
  /\ m_cur_stripe_id = Cardinality({t \in Calls : Placed(t)})
  /\ \A t, u \in Calls : Placed(t) /\ Placed(u) /\ thread[t].stripe = thread[u].stripe => t = u
  /\ \A id \in StripeIds : m_stripe_table[id] # None =>
       \E t \in Calls : /\ Placed(t) /\ thread[t].stripe = id
                        /\ m_stripe_table[id] = [key |-> keyOf(t), home |-> thread[t].home]

-----------------------------------------------------------------------------
(* Where bytes come from.                                                  *)

\* the file of a block of the stripe of a set
Name(t, b) == FileOf(keyOf(t), thread[t].stripe, thread[t].home, b)
Names(t)   == [b \in Blocks |-> Name(t, b)]
\* the sets whose value a thread of the key may take for its own
Source(key) == {u \in Calls : keyOf(u) = key \/ <<key, keyOf(u)>> \in Begins} \union {Zero}

FilesSourced ==
  /\ \A t \in Calls :
       Placed(t) /\ thread[t].at \in {"sent", "reported"} => carries[t] \in Source(keyOf(t))
  /\ \A key \in Keys, j \in DataBlocks, n \in Nodes :
       files[<<"D", key, j, n>>] \in Source(key) \union {None}
  /\ \A id \in StripeIds, b \in Blocks \ DataBlocks : files[<<"P", id, b>>] # None =>
       \E t \in Calls : Placed(t) /\ thread[t].stripe = id
                        /\ files[<<"P", id, b>>] \in Source(keyOf(t))

ReadSourced(c) ==
  /\ pc[c] = "reading" =>
       /\ \E t \in Calls : Placed(t) /\ keyOf(t) = Key(c)
                           /\ reading[c].names = Names(t)
       /\ \A p \in reading[c].got : p[2] \in Source(Key(c)) \union {Garbage}
  /\ heard[c] # None =>
       /\ step[c] >= 1
       /\ \A d \in DataBlocks : heard[c][d] \in Source(Key(c)) \union {Garbage}
ReadsSourced == \A c \in Clients : ReadSourced(c)

\* a deletion removes files of its key, and parities of stripes of its key
LeftNamed ==
  \A t \in Calls : \A f \in left[t] :
    \E u \in Calls : Placed(u) /\ keyOf(u) = keyOf(t) /\ \E b \in Blocks : f = Name(u, b)

-----------------------------------------------------------------------------
(* What a set that nothing disturbed leaves behind.                        *)

\* its stripe, its entries and its files
Kept(t, key) ==
  /\ thread[t] = None => At(t, {"set"})
  /\ thread[t] # None =>
       /\ m_stripe_table[thread[t].stripe] = [key |-> key, home |-> thread[t].home]
       /\ IF thread[t].at = "reported"
          THEN m_object_commit_table[key] = InfoOf(t)
          ELSE /\ m_object_commit_table[key] = None
               /\ At(t, {"placed", "sending", "checking", "asleep"})
               /\ ~ At(t, {"placed"}) => m_object_updating_table[key] = InfoOf(t)
       /\ thread[t].at \in {"sent", "reported"} =>
            /\ ~ At(t, {"placed", "sending"}) /\ carries[t] = t
            /\ \A b \in Blocks \ pending[t] : files[Name(t, b)] = t

\* a set that is not over shares the proxies with no other
Undisturbed(t, key, sure) ==
  /\ \A u \in Calls \ {t} : Unsettled(u) => ~ Touches(u, key, {"set", "del"})
  /\ IF sure
     THEN /\ thread[t] # None /\ thread[t].at = "reported"
          /\ t[2] = step[t[1]] => pc[t[1]] = "idle"
     ELSE /\ At(t, {"set", "placed", "sending", "checking", "asleep"}) /\ queue \subseteq {t}
          /\ \A u \in Calls \ {t} : Unsettled(u) => kindOf(u) # "set"

TrueFor(t, key, sure) ==
  /\ Started(t) /\ kindOf(t) = "set" /\ keyOf(t) = key
  /\ Kept(t, key) /\ Undisturbed(t, key, sure)
TruthHolds ==
  \A key \in Keys, t \in Calls, sure \in BOOLEAN :
    truth[key] # None /\ truth[key].by = t /\ truth[key].sure = sure => TrueFor(t, key, sure)

\* a get that counts on a set looks up, reads and hears that set
RelyFor(c, t) ==
  /\ truth[keyOf(t)] = relies[c] /\ relies[c].sure /\ pending[t] = {} /\ keyOf(t) \in Keys
  /\ step[c] >= 1 /\ Kind(c) = "get" /\ Key(c) = keyOf(t)
  /\ pc[c] = "looking" => looked[c] = InfoOf(t)
  /\ pc[c] = "reading" => /\ ~ reading[c].empty
                          /\ reading[c].names = Names(t)
                          /\ \A p \in reading[c].got : p[2] = t
  /\ heard[c] # None =>
       heard[c][0] = t /\ \A d \in DataBlocks : heard[c][d] \in {t, Garbage}
ReliesHold ==
  \A c \in Clients, t \in Calls : relies[c] # None /\ relies[c].by = t => RelyFor(c, t)

-----------------------------------------------------------------------------
(* Who is woken.                                                           *)

\* a set and a deletion of one key that run at one time contend for it
Contended ==
  \A u, v \in Calls :
    /\ Unsettled(u) /\ kindOf(u) = "set"
    /\ Unsettled(v) /\ kindOf(v) = "del" /\ keyOf(u) = keyOf(v)
    => keyOf(u) \in contended

\* a key is committed, or a set of it is to report
SetComing(key) ==
  \/ m_object_commit_table[key] # None
  \/ \E u \in Calls : Placed(u) /\ keyOf(u) = key /\ thread[u].at \in {"accepting", "sent"}
\* it is not, or a deletion of it is to report
DeletionComing(key) ==
  \/ m_object_commit_table[key] = None
  \/ \E u \in Calls : /\ thread[u] # None /\ thread[u].at = "deleting"
                      /\ kindOf(u) = "del" /\ keyOf(u) = key

\* a client that asks for its commit sleeps for a reason, and will be woken
Awake(c, key) ==
  /\ pc[c] = "asleep" /\ Kind(c) = "set" => m_object_commit_table[key] = None
  /\ key \notin contended =>
       /\ pc[c] \in {"placed", "sending", "checking", "asleep"} /\ Kind(c) = "set" => SetComing(key)
       /\ pc[c] = "asleep" /\ Kind(c) = "del" => m_object_commit_table[key] # None
       /\ pc[c] \in {"checking", "asleep"} /\ Kind(c) = "del" /\ Lockable => DeletionComing(key)
Woken == \A c \in Clients, key \in Keys : pc[c] # "idle" /\ Key(c) = key => Awake(c, key)

-----------------------------------------------------------------------------
(* Calls.                                                                  *)

\* Calls and their names, and how many there can be.
LEMMA CallShape ==
  /\ \A t \in Calls : t[1] \in Clients /\ t[2] \in 1 .. MaxSteps /\ t = <<t[1], t[2]>>
  /\ \A c \in Clients, n \in 1 .. MaxSteps :
       <<c, n>> \in Calls /\ <<c, n>>[1] = c /\ <<c, n>>[2] = n
  /\ IsFiniteSet(Calls) /\ Cardinality(Calls) \in Nat
<1>1. IsFiniteSet(1 .. MaxSteps)
  BY ObjectAssumption, FS_Interval
<1>2. IsFiniteSet(Calls)
  BY <1>1, ObjectAssumption, FS_Product DEF Calls
<1>. QED
  BY <1>2, FS_CardinalityType DEF Calls

\* What a script says.
LEMMA ScriptShape ==
  ASSUME script \in Scripts
  PROVE  /\ \A c \in Clients : Len(script[c]) \in Nat /\ Len(script[c]) <= MaxSteps
         /\ MaxSteps \in Nat
         /\ \A c \in Clients, n \in 1 .. MaxSteps : n <= Len(script[c]) =>
              script[c][n].kind \in Kinds /\ script[c][n].key \in Keys
<1>1. script \in [Clients -> Seq([kind : Kinds, key : Keys])] /\ MaxSteps \in Nat
  BY ObjectAssumption
<1>2. ASSUME NEW c \in Clients
      PROVE  /\ Len(script[c]) \in Nat /\ Len(script[c]) <= MaxSteps
             /\ \A n \in 1 .. Len(script[c]) : script[c][n] \in [kind : Kinds, key : Keys]
  <2>1. script[c] \in Seq([kind : Kinds, key : Keys])
    BY <1>1
  <2>2. Len(script[c]) <= MaxSteps
    BY ObjectAssumption
  <2>3. Len(script[c]) \in Nat /\ script[c] \in [1 .. Len(script[c]) -> [kind : Kinds, key : Keys]]
    BY <2>1, LenProperties
  <2>. QED
    BY <2>2, <2>3
<1>3. ASSUME NEW c \in Clients, NEW n \in 1 .. MaxSteps, n <= Len(script[c])
      PROVE  script[c][n].kind \in Kinds /\ script[c][n].key \in Keys
  <2>1. n \in 1 .. Len(script[c])
    BY <1>1, <1>2, <1>3
  <2>2. script[c][n] \in [kind : Kinds, key : Keys]
    BY <1>2, <2>1
  <2>. QED
    BY <2>2
<1>. QED
  BY <1>1, <1>2, <1>3

\* A client that is in a call, and the call.
LEMMA InCall ==
  ASSUME Typed, Positions, NEW c \in Clients, pc[c] # "idle"
  PROVE  /\ call(c) \in Calls /\ call(c)[1] = c /\ call(c)[2] = step[c] /\ Started(call(c))
         /\ step[c] \in 1 .. MaxSteps /\ step[c] <= Len(script[c])
         /\ Kind(c) \in Kinds /\ Key(c) \in Keys
         /\ Kind(c) = kindOf(call(c)) /\ Key(c) = keyOf(call(c))
         /\ Unsettled(call(c))
<1>1. step[c] \in 1 .. Len(script[c]) /\ script \in Scripts
  BY DEF Positions, Position, Typed
<1>2. Len(script[c]) \in Nat /\ Len(script[c]) <= MaxSteps /\ MaxSteps \in Nat
  BY <1>1, ScriptShape
<1>3. step[c] \in 1 .. MaxSteps /\ step[c] <= Len(script[c])
  BY <1>1, <1>2
<1>4. script[c][step[c]].kind \in Kinds /\ script[c][step[c]].key \in Keys
  BY <1>1, <1>3, ScriptShape
<1>5. call(c) \in Calls /\ call(c)[1] = c /\ call(c)[2] = step[c]
  BY <1>3, CallShape DEF call
<1>6. Started(call(c))
  BY <1>3, <1>5 DEF Started
<1>. QED
  BY <1>3, <1>4, <1>5, <1>6 DEF Kind, Key, kindOf, keyOf, Unsettled

\* A call that has a thread is of the script.
LEMMA HasThread ==
  ASSUME Typed, Positions, ThreadsFit, NEW t \in Calls, thread[t] # None
  PROVE  Started(t) /\ keyOf(t) \in Keys /\ thread[t] \in Thread
<1>1. Started(t)
  BY DEF ThreadsFit, Fit
<1>2. t[1] \in Clients /\ t[2] \in 1 .. MaxSteps
  BY CallShape
<1>3. step[t[1]] \in 0 .. Len(script[t[1]]) /\ script \in Scripts
  BY <1>2 DEF Positions, Position, Typed
<1>4. t[2] <= Len(script[t[1]])
  BY <1>1, <1>2, <1>3, ScriptShape DEF Started
<1>5. script[t[1]][t[2]].key \in Keys
  BY <1>2, <1>3, <1>4, ScriptShape
<1>. QED
  BY <1>1, <1>5 DEF keyOf, Typed

\* The numbers of the blocks.
LEMMA BlockShape ==
  /\ DataBlocks \subseteq Blocks /\ Local \in Blocks \ DataBlocks /\ 0 \in DataBlocks
  /\ Blocks \subseteq Nat
<1>1. k \in Nat \ {0} /\ g_m \in Nat
  BY ObjectAssumption
<1>. QED
  BY <1>1 DEF DataBlocks, Blocks, Local

\* The file of a block is a file, of the block's number, and parities' names
\* tell their stripe.
LEMMA FileShape ==
  /\ \A key \in Keys, id \in StripeIds, home \in Homes, b \in Blocks :
       FileOf(key, id, home, b) \in AllFiles
  /\ \A key, id, home : \A b \in DataBlocks : FileOf(key, id, home, b) = <<"D", key, b, home[b]>>
  /\ \A key, id, home : \A b \in Blocks \ DataBlocks : FileOf(key, id, home, b) = <<"P", id, b>>
<1>1. \A key, id, home : \A b \in DataBlocks : FileOf(key, id, home, b) = <<"D", key, b, home[b]>>
  BY DEF FileOf
<1>2. \A key, id, home : \A b \in Blocks \ DataBlocks : FileOf(key, id, home, b) = <<"P", id, b>>
  BY DEF FileOf
<1>3. ASSUME NEW key \in Keys, NEW id \in StripeIds, NEW home \in Homes, NEW b \in Blocks
      PROVE  FileOf(key, id, home, b) \in AllFiles
  <2>1. CASE b \in DataBlocks
    <3>1. home[b] \in Nodes
      BY <2>1 DEF Homes
    <3>2. <<"D", key, b, home[b]>> \in DataFiles
      BY <2>1, <3>1 DEF DataFiles
    <3>. QED
      BY <1>1, <2>1, <3>2 DEF AllFiles
  <2>2. CASE b \notin DataBlocks
    <3>1. <<"P", id, b>> \in ParityFiles
      BY <2>2 DEF ParityFiles
    <3>. QED
      BY <1>2, <2>2, <3>1 DEF AllFiles
  <2>. QED
    BY <2>1, <2>2
<1>. QED
  BY <1>1, <1>2, <1>3

\* What a get answers: of each data block the bytes that came, or the bytes of
\* the local group if they agree, or garbage; and splicing spoils no more than
\* the blocks after the first.
LEMMA DecodedShape ==
  ASSUME NEW got \in SUBSET (Blocks \X Content), NEW v \in Spliced(Decoded(got))
  PROVE  /\ v \in [DataBlocks -> Content]
         /\ \A d \in DataBlocks : v[d] = Garbage \/ \E p \in got : v[d] = p[2]
         /\ v[0] = Decoded(got)[0]
         /\ \A d \in DataBlocks : v[d] \in {Decoded(got)[d], Garbage}
<1> DEFINE group == {p[2] : p \in {q \in got : q[1] \in DataBlocks \union {Local}}}
           dec   == Decoded(got)
<1>1. ASSUME NEW d \in DataBlocks
      PROVE  dec[d] = Garbage \/ \E p \in got : dec[d] = p[2]
  <2>1. CASE d \in Received(got)
    <3>1. \E p \in got : p[1] = d
      BY <2>1 DEF Received
    <3>2. dec[d] = (CHOOSE p \in got : p[1] = d)[2]
      BY <2>1 DEF Decoded
    <3>. QED
      BY <3>1, <3>2
  <2>2. CASE d \notin Received(got)
    <3>1. dec[d] = IF Cardinality(group) = 1 THEN CHOOSE x \in group : TRUE ELSE Garbage
      BY <2>2 DEF Decoded
    <3>2. CASE Cardinality(group) = 1
      <4>1. group # {}
        <5>1. Cardinality({}) = 0
          BY FS_EmptySet
        <5>2. \A S : Cardinality(S) = 1 => S # {}
          BY <5>1
        <5> HIDE DEF group
        <5>. QED
          BY <3>2, <5>2
      <4>2. dec[d] \in group
        BY <3>1, <3>2, <4>1
      <4>. QED
        BY <4>2
    <3>. QED
      BY <3>1, <3>2
  <2>. QED
    BY <2>1, <2>2
<1>2. \A p \in got : p[2] \in Content
  OBVIOUS
<1>3. Garbage \in Content
  BY DEF Content
<1>4. \A d \in DataBlocks : dec[d] \in Content
  BY <1>1, <1>2, <1>3
<1>5. dec = [d \in DataBlocks |-> dec[d]]
  BY DEF Decoded
<1>6. dec \in [DataBlocks -> Content]
  BY <1>4, <1>5
<1>7. v = dec \/ v = [d \in DataBlocks |-> IF d = 0 THEN dec[d] ELSE Garbage]
  BY DEF Spliced
<1>8. 0 \in DataBlocks
  BY BlockShape
<1> HIDE DEF dec
<1>9. /\ v \in [DataBlocks -> Content]
      /\ v[0] = dec[0]
      /\ \A d \in DataBlocks : v[d] \in {dec[d], Garbage}
  BY <1>3, <1>6, <1>7, <1>8
<1>10. \A d \in DataBlocks : v[d] = Garbage \/ \E p \in got : v[d] = p[2]
  BY <1>1, <1>9
<1>. QED
  BY <1>9, <1>10 DEF dec

-----------------------------------------------------------------------------
(* Steps: what stays.                                                      *)

Base == Typed /\ Positions /\ ThreadsFit /\ InfosFit

\* No step writes the scripts, so calls keep their kinds and keys.
LEMMA ScriptStays ==
  ASSUME [Next]_vars
  PROVE  /\ script' = script
         /\ \A t : kindOf(t)' = kindOf(t) /\ keyOf(t)' = keyOf(t)
<1>1. ASSUME UNCHANGED vars PROVE script' = script
  BY <1>1 DEF vars, clientVars
<1>2. ASSUME NEW c \in Clients, Calling(c) PROVE script' = script
  BY <1>2 DEF Calling, PlaceObject, NoteUpdating, SendValue, CopyInfo, CheckCommitAbort,
              ReadBlock, LookUp, AnswerGet, clientVars
<1>3. ASSUME NEW t \in Calls, Threads(t) PROVE script' = script
  BY <1>3 DEF Threads, AcceptAndEncode, handleSet, handleDelete, ReportSet, ReportDelete, clientVars
<1>4. ASSUME NEW c \in Clients, StartCall(c) PROVE script' = script
  BY <1>4 DEF StartCall
<1>5. script' = script
  BY <1>1, <1>2, <1>3, <1>4 DEF Next, Running, Finished
<1>. QED
  BY <1>5 DEF kindOf, keyOf

\* What the history is when a call starts: a truth survives a get, or a call of
\* another key that is a deletion or finds it sure; it begins with a set alone.
LEMMA StartShape ==
  ASSUME NEW c, NEW kind, NEW key, NoteStart(c, kind, key)
  PROVE  /\ \A x \in Keys : truth'[x] # None =>
              \/ /\ truth'[x] = truth[x]
                 /\ kind = "get" \/ (x # key /\ (kind = "set" => truth[x].sure))
              \/ /\ x = key /\ kind = "set" /\ Alone(<<c, step[c] + 1>>)
                 /\ truth'[x] = [by |-> <<c, step[c] + 1>>, sure |-> FALSE]
         /\ \A d \in Clients : relies'[d] # None =>
              \/ /\ d = c /\ kind = "get" /\ relies'[d] = truth[key]
                 /\ truth[key].sure /\ pending[truth[key].by] = {}
              \/ /\ d # c /\ relies'[d] = relies[d]
                 /\ kind = "get" \/ keyOf(relies[d].by) # key
         /\ contended \subseteq contended'
         /\ kind # "get" =>
              \A u \in Calls \ {<<c, step[c] + 1>>} :
                Unsettled(u) /\ Touches(u, key, {"set", "del"} \ {kind}) => key \in contended'
         /\ truth' = truth \/ truth' = [x \in Keys |-> truth'[x]]
         /\ relies' = [d \in Clients |-> relies'[d]]
         /\ kind = "get" => truth' = truth
<1> DEFINE t == <<c, step[c] + 1>>
           next(x) ==
             IF x = key
             THEN IF kind = "set" /\ Alone(t) THEN [by |-> t, sure |-> FALSE] ELSE None
             ELSE IF kind = "set" /\ truth[x] # None /\ ~truth[x].sure
                  THEN None ELSE truth[x]
<1>1. /\ truth' = IF kind = "get" THEN truth ELSE [x \in Keys |-> next(x)]
      /\ relies' =
           [d \in Clients |->
              IF d = c
              THEN IF /\ kind = "get" /\ truth[key] # None
                      /\ truth[key].sure /\ pending[truth[key].by] = {}
                   THEN truth[key] ELSE None
              ELSE IF kind # "get" /\ relies[d] # None /\ keyOf(relies[d].by) = key
                   THEN None ELSE relies[d]]
      /\ contended' =
           IF kind # "get" /\ \E u \in Calls \ {t} :
                Unsettled(u) /\ Touches(u, key, {"set", "del"} \ {kind})
           THEN contended \union {key} ELSE contended
  BY DEF NoteStart
<1>2. ASSUME NEW x \in Keys, truth'[x] # None
      PROVE  \/ /\ truth'[x] = truth[x]
                /\ kind = "get" \/ (x # key /\ (kind = "set" => truth[x].sure))
             \/ /\ x = key /\ kind = "set" /\ Alone(t)
                /\ truth'[x] = [by |-> t, sure |-> FALSE]
  <2>1. CASE kind = "get"
    BY <1>1, <2>1
  <2>2. CASE kind # "get"
    <3>1. truth'[x] = next(x)
      <4> HIDE DEF next
      <4>. QED
        BY <1>1, <2>2
    <3> HIDE DEF t
    <3>. QED
      BY <1>2, <2>2, <3>1
  <2>. QED
    BY <2>1, <2>2
<1>3. ASSUME NEW d \in Clients, relies'[d] # None
      PROVE  \/ /\ d = c /\ kind = "get" /\ relies'[d] = truth[key]
                /\ truth[key].sure /\ pending[truth[key].by] = {}
             \/ /\ d # c /\ relies'[d] = relies[d]
                /\ kind = "get" \/ keyOf(relies[d].by) # key
  <2>1. relies'[d] =
          IF d = c
          THEN IF /\ kind = "get" /\ truth[key] # None
                  /\ truth[key].sure /\ pending[truth[key].by] = {}
               THEN truth[key] ELSE None
          ELSE IF kind # "get" /\ relies[d] # None /\ keyOf(relies[d].by) = key
               THEN None ELSE relies[d]
    BY <1>1
  <2>. QED
    BY <1>3, <2>1
<1>4. contended \subseteq contended'
  BY <1>1
<1>5. kind # "get" =>
        \A u \in Calls \ {t} :
          Unsettled(u) /\ Touches(u, key, {"set", "del"} \ {kind}) => key \in contended'
  <2> HIDE DEF t
  <2>. QED
    BY <1>1
<1>6. truth' = truth \/ truth' = [x \in Keys |-> truth'[x]]
  <2>1. ASSUME NEW f, f = [x \in Keys |-> next(x)] PROVE f = [x \in Keys |-> f[x]]
    <3> HIDE DEF next
    <3>. QED
      BY <2>1
  <2> HIDE DEF next
  <2>. QED
    BY <1>1, <2>1
<1>7. relies' = [d \in Clients |-> relies'[d]]
  BY <1>1
<1>8. kind = "get" => truth' = truth
  BY <1>1
<1>. QED
  BY <1>2, <1>3, <1>4, <1>5, <1>6, <1>7, <1>8

-----------------------------------------------------------------------------
(* Types stay.                                                             *)

\* At the start nothing is called, noted or written.
LEMMA BaseInit == Init => Base
<1> SUFFICES ASSUME Init PROVE Base
  OBVIOUS
<1>1. script \in Scripts
  BY DEF Init
<1>2. \A c \in Clients : Len(script[c]) \in Nat
  BY <1>1, ScriptShape
<1>3. MaxSteps \in Nat /\ Cardinality(Calls) \in Nat
  BY CallShape, ObjectAssumption
<1>4. /\ step \in [Clients -> 0 .. MaxSteps]
      /\ pc \in [Clients -> {"idle", "set", "placed", "sending", "get", "del", "looking",
                             "reading", "lost", "checking", "asleep"}]
      /\ m_mutex \in {"free", "leaked"} /\ ended \in BOOLEAN
  <2>1. 0 \in 0 .. MaxSteps
    BY <1>3
  <2>. QED
    BY <2>1 DEF Init
<1>4a. /\ looked \in [Clients -> Info \union {None}]
       /\ reading \in [Clients -> Readings \union {None}]
       /\ heard \in [Clients -> [DataBlocks -> Content] \union {None}]
  BY DEF Init
<1>4b. m_cur_stripe_id \in StripeIds
  BY <1>3 DEF Init, StripeIds
<1>5. /\ m_object_commit_table \in [Keys -> Info \union {None}]
      /\ m_object_updating_table \in [Keys -> Info \union {None}]
      /\ m_stripe_table \in [StripeIds -> Stripe \union {None}]
      /\ thread \in [Calls -> Thread \union {None}]
      /\ queue \subseteq Calls /\ carries \in [Calls -> Calls \union {Zero, None}]
  BY DEF Init
<1>6. /\ pending \in [Calls -> SUBSET Blocks] /\ left \in [Calls -> SUBSET AllFiles]
      /\ files \in [AllFiles -> Calls \union {Zero, None}]
      /\ truth \in [Keys -> Truths \union {None}] /\ relies \in [Clients -> Truths \union {None}]
  BY DEF Init, AllFiles
<1>7. Typed
  BY <1>1, <1>4, <1>4a, <1>4b, <1>5, <1>6 DEF Typed
<1>8. Positions
  BY <1>2 DEF Init, Positions, Position
<1>9. ThreadsFit
  BY DEF Init, ThreadsFit, Fit
<1>10. InfosFit
  BY DEF Init, InfosFit
<1>. QED
  BY <1>7, <1>8, <1>9, <1>10 DEF Base

\* A set that is to be placed has no stripe yet: there is a number for it.
LEMMA PlaceRoom ==
  ASSUME Base, Numbered, NEW c \in Clients, pc[c] = "set"
  PROVE  m_cur_stripe_id + 1 \in StripeIds
<1> DEFINE P == {t \in Calls : Placed(t)}
<1>1. call(c) \in Calls /\ thread[call(c)] = None
  BY InCall DEF Base, Positions, Position
<1>2. P \subseteq Calls \ {call(c)}
  BY <1>1 DEF Placed
<1>3. IsFiniteSet(Calls) /\ Cardinality(Calls) \in Nat
  BY CallShape
<1>4. /\ IsFiniteSet(Calls \ {call(c)})
      /\ Cardinality(Calls \ {call(c)}) = Cardinality(Calls) - 1
  BY <1>1, <1>3, FS_RemoveElement
<1>5. Cardinality(P) <= Cardinality(Calls \ {call(c)}) /\ IsFiniteSet(P)
  BY <1>2, <1>4, FS_Subset
<1>6. Cardinality(P) \in Nat
  BY <1>5, FS_CardinalityType
<1>7. m_cur_stripe_id = Cardinality(P)
  BY DEF Numbered
<1> HIDE DEF P
<1>. QED
  BY <1>3, <1>4, <1>5, <1>6, <1>7 DEF StripeIds

\* The keys of the entries in use.
LEMMA NoNone ==
  /\ None \notin Calls /\ None # Zero
  /\ \A e, s : [empty |-> e, stripe |-> s] \in Info => [empty |-> e, stripe |-> s] # None
  /\ \A x \in Thread : x # None
  /\ \A x \in Stripe : x # None
  /\ \A x \in Info : x # None
BY NoneAssumption

\* The files of a stripe.
LEMMA FilesOfShape ==
  ASSUME Typed, NEW id \in StripeIds, m_stripe_table[id] # None
  PROVE  /\ FilesOf(id) \in [Blocks -> AllFiles]
         /\ m_stripe_table[id] \in Stripe
         /\ \A b \in Blocks :
              FilesOf(id)[b] = FileOf(m_stripe_table[id].key, id, m_stripe_table[id].home, b)
<1>1. m_stripe_table[id] \in Stripe
  BY DEF Typed
<1>2. m_stripe_table[id].key \in Keys /\ m_stripe_table[id].home \in Homes
  BY <1>1 DEF Stripe
<1>3. FilesOf(id) = [b \in Blocks |-> FileOf(m_stripe_table[id].key, id, m_stripe_table[id].home, b)]
  BY DEF FilesOf
<1>4. \A b \in Blocks : FileOf(m_stripe_table[id].key, id, m_stripe_table[id].home, b) \in AllFiles
  BY <1>2, FileShape
<1>. QED
  BY <1>1, <1>3, <1>4

\* What a thread takes from a connection.
LEMMA ReceivedShape ==
  ASSUME NEW t \in Calls, NEW u \in Calls
  PROVE  ReceivedContent(t, u) \in Calls \union {Zero} /\ ReceivedContent(t, u) \in Content
BY DEF ReceivedContent, Content

\* Types stay.
LEMMA TypedStays == Base /\ Numbered /\ [Next]_vars => Typed'
<1> SUFFICES ASSUME Base, Numbered, [Next]_vars PROVE Typed'
  OBVIOUS
<1> USE DEF Base
<1>s. script' = script
  BY ScriptStays
<1>n. MaxSteps \in Nat /\ Cardinality(Calls) \in Nat
  BY CallShape, ObjectAssumption
<1>0. ASSUME UNCHANGED vars PROVE Typed'
  BY <1>0 DEF Typed, vars, clientVars, coordVars, proxyVars, nodeVars, history
<1>1. ASSUME NEW c \in Clients, StartCall(c), UNCHANGED ended PROVE Typed'
  <2> DEFINE kind == script[c][step[c] + 1].kind
             key  == script[c][step[c] + 1].key
             t    == <<c, step[c] + 1>>
  <2>1. step[c] \in 0 .. MaxSteps /\ step[c] < Len(script[c]) /\ script \in Scripts
    BY <1>1 DEF StartCall, Typed
  <2>2. step[c] + 1 \in 1 .. MaxSteps /\ step[c] + 1 <= Len(script[c])
    BY <2>1, <1>n, ScriptShape
  <2>3. kind \in Kinds /\ key \in Keys /\ t \in Calls
    BY <2>1, <2>2, ScriptShape, CallShape
  <2>4. step' = [step EXCEPT ![c] = @ + 1] /\ step' \in [Clients -> 0 .. MaxSteps]
    BY <1>1, <2>1, <2>2, <1>n DEF StartCall, Typed
  <2>5. pc' \in [Clients -> {"idle", "set", "placed", "sending", "get", "del", "looking",
                             "reading", "lost", "checking", "asleep"}]
    <3>1. pc' = [pc EXCEPT ![c] = kind]
      BY <1>1 DEF StartCall
    <3> HIDE DEF kind
    <3>. QED
      BY <2>3, <3>1 DEF Typed, Kinds
  <2>6. heard' \in [Clients -> [DataBlocks -> Content] \union {None}]
    BY <1>1 DEF StartCall, Typed
  <2>7. NoteStart(c, kind, key)
    BY <1>1 DEF StartCall
  <2> HIDE DEF kind, key
  <2>8. truth' \in [Keys -> Truths \union {None}]
    <3>1. [by |-> t, sure |-> FALSE] \in Truths
      BY <2>3 DEF Truths
    <3>2. ASSUME NEW x \in Keys, truth'[x] # None PROVE truth'[x] \in Truths \union {None}
      <4>1. truth'[x] = truth[x] \/ truth'[x] = [by |-> t, sure |-> FALSE]
        BY <2>7, <3>2, StartShape
      <4>2. truth[x] \in Truths \union {None}
        BY DEF Typed
      <4>. QED
        BY <3>1, <4>1, <4>2
    <3>3. truth' = truth \/ truth' = [x \in Keys |-> truth'[x]]
      BY <2>7, StartShape
    <3>. QED
      BY <3>2, <3>3 DEF Typed
  <2>9. relies' \in [Clients -> Truths \union {None}]
    <3>2. ASSUME NEW x \in Clients, relies'[x] # None PROVE relies'[x] \in Truths \union {None}
      <4>1. relies'[x] = relies[x] \/ relies'[x] = truth[key]
        BY <2>7, <3>2, StartShape
      <4>2. relies[x] \in Truths \union {None} /\ truth[key] \in Truths \union {None}
        BY <2>3 DEF Typed
      <4>. QED
        BY <4>1, <4>2
    <3>3. relies' = [x \in Clients |-> relies'[x]]
      BY <2>7, StartShape
    <3>. QED
      BY <3>2, <3>3 DEF Typed
  <2>. QED
    BY <1>1, <1>s, <2>4, <2>5, <2>6, <2>8, <2>9
       DEF Typed, StartCall, coordVars, proxyVars, nodeVars
<1>2. ASSUME NEW c \in Clients, PlaceObject(c), UNCHANGED ended PROVE Typed'
  <2>1. pc[c] = "set" /\ call(c) \in Calls /\ Key(c) \in Keys
    BY <1>2, InCall DEF PlaceObject
  <2>2. m_cur_stripe_id + 1 \in StripeIds
    BY <2>1, PlaceRoom
  <2>3. /\ m_object_commit_table' \in [Keys -> Info \union {None}]
        /\ m_cur_stripe_id' \in StripeIds
        /\ pc' \in [Clients -> {"idle", "set", "placed", "sending", "get", "del", "looking",
                                "reading", "lost", "checking", "asleep"}]
    BY <1>2, <2>1, <2>2 DEF PlaceObject, Typed
  <2>4. looked' \in [Clients -> Info \union {None}]
    <3>1. [empty |-> FALSE, stripe |-> m_cur_stripe_id] \in Info
      BY DEF Typed, Info
    <3>. QED
      BY <1>2, <3>1 DEF PlaceObject, Typed
  <2>5. PICK h \in Homes, cl \in Clusters :
          /\ m_stripe_table' = [m_stripe_table EXCEPT ![m_cur_stripe_id] = [key |-> Key(c), home |-> h]]
          /\ thread' = [thread EXCEPT ![call(c)] =
               [at |-> "accepting", cluster |-> cl, stripe |-> m_cur_stripe_id, home |-> h]]
    BY <1>2 DEF PlaceObject
  <2>6. [key |-> Key(c), home |-> h] \in Stripe
    BY <2>1 DEF Stripe
  <2>7. [at |-> "accepting", cluster |-> cl, stripe |-> m_cur_stripe_id, home |-> h] \in Thread
    BY DEF Thread, Typed
  <2>8. m_stripe_table' \in [StripeIds -> Stripe \union {None}]
    BY <2>5, <2>6 DEF Typed
  <2>9. thread' \in [Calls -> Thread \union {None}]
    BY <2>5, <2>7 DEF Typed
  <2>. QED
    BY <1>2, <1>s, <2>3, <2>4, <2>8, <2>9 DEF PlaceObject, Typed, nodeVars, history
<1>3. ASSUME NEW c \in Clients, NoteUpdating(c), UNCHANGED ended PROVE Typed'
  <2>1. looked[c] \in Info \union {None}
    BY DEF Typed
  <2>2. /\ m_object_updating_table' \in [Keys -> Info \union {None}]
        /\ looked' \in [Clients -> Info \union {None}]
        /\ pc' \in [Clients -> {"idle", "set", "placed", "sending", "get", "del", "looking",
                                "reading", "lost", "checking", "asleep"}]
    BY <1>3, <2>1 DEF NoteUpdating, Typed
  <2>. QED
    BY <1>3, <1>s, <2>2 DEF NoteUpdating, Typed, proxyVars, nodeVars, history
<1>4. ASSUME NEW c \in Clients, SendValue(c), UNCHANGED ended PROVE Typed'
  <2>1. call(c) \in Calls
    BY <1>4, InCall DEF SendValue
  <2>2. /\ queue' \subseteq Calls
        /\ pc' \in [Clients -> {"idle", "set", "placed", "sending", "get", "del", "looking",
                                "reading", "lost", "checking", "asleep"}]
    BY <1>4, <2>1 DEF SendValue, Typed
  <2>. QED
    BY <1>4, <1>s, <2>2 DEF SendValue, Typed, coordVars, nodeVars, history
<1>5. ASSUME NEW t \in Calls, AcceptAndEncode(t), UNCHANGED ended PROVE Typed'
  <2>1. PICK u \in queue : carries' = [carries EXCEPT ![t] = ReceivedContent(t, u)]
    BY <1>5 DEF AcceptAndEncode
  <2>2. ReceivedContent(t, u) \in Calls \union {Zero}
    BY ReceivedShape DEF Typed
  <2>3. carries' \in [Calls -> Calls \union {Zero, None}]
    BY <2>1, <2>2 DEF Typed
  <2>4. queue' \subseteq Calls /\ pending' \in [Calls -> SUBSET Blocks]
    BY <1>5 DEF AcceptAndEncode, QueueWithout, Typed
  <2>5. thread' \in [Calls -> Thread \union {None}]
    <3>1. thread[t] \in Thread
      BY <1>5 DEF AcceptAndEncode, Typed
    <3>2. [thread[t] EXCEPT !.at = "sent"] \in Thread
      BY <3>1 DEF Thread
    <3>3. thread' = [thread EXCEPT ![t] = [thread[t] EXCEPT !.at = "sent"]]
      BY <1>5 DEF AcceptAndEncode
    <3>. QED
      BY <3>2, <3>3 DEF Typed
  <2>. QED
    BY <1>5, <1>s, <2>3, <2>4, <2>5 DEF AcceptAndEncode, Typed, clientVars, coordVars, history
<1>6. ASSUME NEW t \in Calls, NEW b \in Blocks, handleSet(t, b), UNCHANGED ended PROVE Typed'
  <2>1. Placed(t) /\ thread[t].at \in {"sent", "reported"}
    BY <1>6 DEF handleSet, ThreadsFit, Fit
  <2>2. keyOf(t) \in Keys /\ thread[t] \in Thread /\ thread[t].home \in Homes
    BY <2>1, HasThread DEF Placed, ThreadsFit, Fit
  <2>3. thread[t].stripe \in StripeIds
    BY <2>2 DEF Thread
  <2>4. pending' \in [Calls -> SUBSET Blocks]
    BY <1>6 DEF handleSet, Typed
  <2>5. carries[t] \in Calls \union {Zero, None}
    BY DEF Typed
  <2>6. files' \in [AllFiles -> Calls \union {Zero, None}]
    BY <1>6, <2>5 DEF handleSet, Typed
  <2>. QED
    BY <1>6, <1>s, <2>4, <2>6 DEF handleSet, Typed, clientVars, coordVars, proxyVars, history
<1>7. ASSUME NEW c \in Clients, CopyInfo(c), UNCHANGED ended PROVE Typed'
  <2>1. Key(c) \in Keys
    BY <1>7, InCall DEF CopyInfo
  <2>2. m_object_commit_table[Key(c)] \in Info \union {None}
    BY <2>1 DEF Typed
  <2>3. /\ m_mutex' \in {"free", "leaked"}
        /\ pc' \in [Clients -> {"idle", "set", "placed", "sending", "get", "del", "looking",
                                "reading", "lost", "checking", "asleep"}]
    BY <1>7 DEF CopyInfo, Typed
  <2>4. /\ looked' \in [Clients -> Info \union {None}]
        /\ m_object_updating_table' \in [Keys -> Info \union {None}]
    BY <1>7, <2>2 DEF CopyInfo, Typed
  <2>. QED
    BY <1>7, <1>s, <2>3, <2>4 DEF CopyInfo, Typed, proxyVars, nodeVars, history
<1>8. ASSUME NEW c \in Clients, LookUp(c) PROVE Typed'
  <2> DEFINE id == looked[c].stripe
  <2>1. pc[c] = "looking" /\ call(c) \in Calls /\ looked[c] \in Info
    BY <1>8, InCall DEF LookUp, Positions, Position
  <2>2. looked[c].stripe \in StripeIds /\ looked[c].empty \in BOOLEAN
    BY <2>1 DEF Info
  <2>3. CASE ~HasBlocks(id, Key(c))
    BY <1>8, <1>s, <2>3 DEF LookUp, Typed, coordVars, history
  <2>4. CASE HasBlocks(id, Key(c))
    <3>1. m_stripe_table[id] # None
      BY <2>4 DEF HasBlocks
    <3>2. FilesOf(id) \in [Blocks -> AllFiles]
      BY <2>2, <3>1, FilesOfShape
    <3>3. looked' \in [Clients -> Info \union {None}]
      BY <1>8, <2>4 DEF LookUp, Typed
    <3>4. pc' \in [Clients -> {"idle", "set", "placed", "sending", "get", "del", "looking",
                               "reading", "lost", "checking", "asleep"}]
      BY <1>8, <2>4 DEF LookUp, Typed
    <3>5. reading' \in [Clients -> Readings \union {None}]
      <4>1. [empty |-> looked[c].empty, names |-> FilesOf(id), got |-> {}] \in Readings
        BY <2>2, <3>2 DEF Readings
      <4>. QED
        BY <1>8, <2>4, <4>1 DEF LookUp, Typed
    <3>6. thread' \in [Calls -> Thread \union {None}]
      <4>1. [at |-> "deleting", cluster |-> None, stripe |-> id, home |-> None] \in Thread
        BY <2>2 DEF Thread
      <4>. QED
        BY <1>8, <2>4, <4>1 DEF LookUp, Typed
    <3>7. left' \in [Calls -> SUBSET AllFiles]
      <4>1. {FilesOf(id)[b] : b \in Blocks} \in SUBSET AllFiles
        BY <3>2
      <4>. QED
        BY <1>8, <2>4, <4>1 DEF LookUp, Typed
    <3>. QED
      BY <1>8, <1>s, <2>4, <3>3, <3>4, <3>5, <3>6, <3>7 DEF LookUp, Typed, coordVars, history
  <2>. QED
    BY <2>3, <2>4
<1>9. ASSUME NEW c \in Clients, NEW b \in Blocks, ReadBlock(c, b), UNCHANGED ended PROVE Typed'
  <2>1. reading[c] \in Readings
    BY <1>9 DEF ReadBlock, Positions, Position, Typed
  <2>2. reading[c].names[b] \in AllFiles
    BY <2>1 DEF Readings
  <2> DEFINE v == IF files[reading[c].names[b]] = None THEN Garbage ELSE files[reading[c].names[b]]
  <2>3. v \in Content
    BY <2>2 DEF Typed, Content
  <2>4. reading' = [reading EXCEPT ![c] = [reading[c] EXCEPT !.got = @ \union {<<b, v>>}]]
    BY <1>9 DEF ReadBlock
  <2> HIDE DEF v
  <2>5. [reading[c] EXCEPT !.got = @ \union {<<b, v>>}] \in Readings
    BY <2>1, <2>3 DEF Readings
  <2>6. reading' \in [Clients -> Readings \union {None}]
    BY <2>4, <2>5 DEF Typed
  <2>. QED
    BY <1>9, <1>s, <2>6 DEF ReadBlock, Typed, coordVars, proxyVars, nodeVars, history
<1>10. ASSUME NEW c \in Clients, AnswerGet(c) PROVE Typed'
  <2>1. CASE reading[c].empty
    BY <1>10, <2>1 DEF AnswerGet, Typed, clientVars, coordVars, proxyVars, nodeVars, history
  <2>2. CASE ~reading[c].empty
    <3>1. reading[c] \in Readings
      BY <1>10 DEF AnswerGet, Positions, Position, Typed
    <3>2. PICK v \in Spliced(Decoded(reading[c].got)) : heard' = [heard EXCEPT ![c] = v]
      BY <1>10, <2>2 DEF AnswerGet
    <3>3. v \in [DataBlocks -> Content]
      BY <3>1, DecodedShape DEF Readings
    <3>4. heard' \in [Clients -> [DataBlocks -> Content] \union {None}]
      BY <3>2, <3>3 DEF Typed
    <3>5. /\ reading' \in [Clients -> Readings \union {None}]
          /\ pc' \in [Clients -> {"idle", "set", "placed", "sending", "get", "del", "looking",
                                  "reading", "lost", "checking", "asleep"}]
      BY <1>10, <2>2 DEF AnswerGet, Typed
    <3>. QED
      BY <1>10, <1>s, <2>2, <3>4, <3>5 DEF AnswerGet, Typed, coordVars, proxyVars, nodeVars, history
  <2>. QED
    BY <2>1, <2>2
<1>11. ASSUME NEW t \in Calls, NEW f \in left[t], handleDelete(t, f), UNCHANGED ended
       PROVE  Typed'
  <2>1. /\ left' \in [Calls -> SUBSET AllFiles]
        /\ files' \in [AllFiles -> Calls \union {Zero, None}]
    BY <1>11 DEF handleDelete, Typed
  <2>. QED
    BY <1>11, <1>s, <2>1 DEF handleDelete, Typed, clientVars, coordVars, proxyVars, history
<1>t. ASSUME NEW t \in Calls, thread[t] # None, Done(t)
      PROVE  thread' \in [Calls -> Thread \union {None}]
  <2>1. thread[t] \in Thread
    BY <1>t DEF Typed
  <2>2. [thread[t] EXCEPT !.at = "reported"] \in Thread
    BY <2>1 DEF Thread
  <2>3. thread' = [thread EXCEPT ![t] = [thread[t] EXCEPT !.at = "reported"]]
    BY <1>t DEF Done
  <2>. QED
    BY <2>2, <2>3 DEF Typed
<1>p. NotifyAll \in [Clients -> {"idle", "set", "placed", "sending", "get", "del", "looking",
                                "reading", "lost", "checking", "asleep"}]
  BY DEF NotifyAll, Typed
<1>12. ASSUME NEW t \in Calls, ReportSet(t), UNCHANGED ended PROVE Typed'
  <2>1. keyOf(t) \in Keys
    BY <1>12, HasThread DEF ReportSet
  <2>2. thread' \in [Calls -> Thread \union {None}]
    BY <1>12, <1>t DEF ReportSet
  <2>3. DefaultInfo \in Info
    BY <1>n DEF DefaultInfo, Info, StripeIds
  <2>4. /\ m_object_commit_table' \in [Keys -> Info \union {None}]
        /\ m_object_updating_table' \in [Keys -> Info \union {None}]
    BY <1>12, <2>1, <2>3 DEF ReportSet, Typed
  <2>. QED
    BY <1>12, <1>s, <1>p, <2>2, <2>4 DEF ReportSet, Typed, nodeVars, history
<1>13. ASSUME NEW t \in Calls, ReportDelete(t), UNCHANGED ended PROVE Typed'
  <2>2. thread' \in [Calls -> Thread \union {None}]
    BY <1>13, <1>t DEF ReportDelete
  <2>4. /\ m_object_commit_table' \in [Keys -> Info \union {None}]
        /\ m_object_updating_table' \in [Keys -> Info \union {None}]
        /\ m_stripe_table' \in [StripeIds -> Stripe \union {None}]
    BY <1>13 DEF ReportDelete, Typed, coordVars
  <2>5. /\ pc' \in [Clients -> {"idle", "set", "placed", "sending", "get", "del", "looking",
                                "reading", "lost", "checking", "asleep"}]
        /\ UNCHANGED <<m_mutex, m_cur_stripe_id>>
    BY <1>13, <1>p DEF ReportDelete, Typed, coordVars
  <2>. QED
    BY <1>13, <1>s, <2>2, <2>4, <2>5 DEF ReportDelete, Typed, nodeVars, history
<1>14. ASSUME NEW c \in Clients, CheckCommitAbort(c), UNCHANGED ended PROVE Typed'
  <2>1. pc' \in [Clients -> {"idle", "set", "placed", "sending", "get", "del", "looking",
                             "reading", "lost", "checking", "asleep"}]
    BY <1>14 DEF CheckCommitAbort, Typed
  <2>2. /\ truth' \in [Keys -> Truths \union {None}]
        /\ relies' = relies
    <3>1. ASSUME NEW y \in Keys, truth[y] # None
          PROVE  [truth EXCEPT ![y].sure = TRUE] \in [Keys -> Truths \union {None}]
      <4>1. truth[y] \in Truths
        BY <3>1 DEF Typed
      <4>2. [truth[y] EXCEPT !.sure = TRUE] \in Truths
        BY <4>1 DEF Truths
      <4>. QED
        BY <4>2 DEF Typed
    <3>2. Key(c) \in Keys
      BY <1>14, InCall DEF CheckCommitAbort
    <3>3. truth' = truth \/ (truth[Key(c)] # None /\ truth' = [truth EXCEPT ![Key(c)].sure = TRUE])
      BY <1>14 DEF CheckCommitAbort, NoteReturn, history
    <3>4. relies' = relies
      BY <1>14 DEF CheckCommitAbort, NoteReturn, history
    <3>. QED
      BY <3>1, <3>2, <3>3, <3>4 DEF Typed
  <2>. QED
    BY <1>14, <1>s, <2>1, <2>2 DEF CheckCommitAbort, Typed, coordVars, proxyVars, nodeVars
<1>. QED
  BY <1>0, <1>1, <1>2, <1>3, <1>4, <1>5, <1>6, <1>7, <1>8, <1>9, <1>10, <1>11, <1>12, <1>13, <1>14
     DEF Next, Running, Calling, Threads, Finished

-----------------------------------------------------------------------------
(* What each step does, call by call and client by client.                 *)

\* Between starts a client stays in its call.
LEMMA SameCalls ==
  ASSUME script' = script, step' = step
  PROVE  /\ \A c : call(c)' = call(c) /\ Kind(c)' = Kind(c) /\ Key(c)' = Key(c)
         /\ \A t : kindOf(t)' = kindOf(t) /\ keyOf(t)' = keyOf(t) /\ (Started(t)' <=> Started(t))
BY DEF call, Kind, Key, kindOf, keyOf, Started

\* A call starts: it has no thread and no handler yet.
LEMMA StartEffect ==
  ASSUME Base, NEW c \in Clients, StartCall(c)
  PROVE  /\ pc[c] = "idle" /\ call(c)' = <<c, step[c] + 1>> /\ call(c)' \in Calls
         /\ call(c)'[1] = c /\ call(c)'[2] = step[c] + 1
         /\ step[c] \in Nat /\ step'[c] = step[c] + 1 /\ step[c] + 1 \in 1 .. Len(script[c])
         /\ Kind(c)' \in Kinds /\ Key(c)' \in Keys
         /\ Kind(c)' = kindOf(call(c)') /\ Key(c)' = keyOf(call(c)')
         /\ pc'[c] = Kind(c)' /\ heard'[c] = None
         /\ \A d \in Clients : d # c =>
              /\ step'[d] = step[d] /\ pc'[d] = pc[d] /\ heard'[d] = heard[d]
              /\ call(d)' = call(d) /\ Kind(d)' = Kind(d) /\ Key(d)' = Key(d)
         /\ ~ Started(call(c)') /\ thread[call(c)'] = None
         /\ pending[call(c)'] = {} /\ left[call(c)'] = {}
         /\ NoteStart(c, Kind(c)', Key(c)')
         /\ \A u : kindOf(u)' = kindOf(u) /\ keyOf(u)' = keyOf(u)
         /\ \A u \in Calls : Started(u)' <=> Started(u) \/ u = call(c)'
         /\ UNCHANGED <<script, looked, reading, m_mutex, m_cur_stripe_id, m_object_commit_table,
                        m_object_updating_table, m_stripe_table, thread, queue, carries,
                        pending, left, files>>
<1> USE DEF Base
<1> DEFINE n == step[c] + 1
<1>1. /\ pc[c] = "idle" /\ step[c] < Len(script[c]) /\ script' = script
      /\ step' = [step EXCEPT ![c] = n]
      /\ pc' = [pc EXCEPT ![c] = script[c][n].kind] /\ heard' = [heard EXCEPT ![c] = None]
      /\ NoteStart(c, script[c][n].kind, script[c][n].key)
  BY DEF StartCall
<1>2. script \in Scripts /\ step[c] \in 0 .. MaxSteps /\ step \in [Clients -> 0 .. MaxSteps]
  BY DEF Typed
<1>3. step[c] \in Nat /\ n \in 1 .. MaxSteps /\ n \in 1 .. Len(script[c])
  BY <1>1, <1>2, ScriptShape
<1>4. step'[c] = n /\ \A d \in Clients : d # c => step'[d] = step[d]
  BY <1>1, <1>2
<1>5. call(c)' = <<c, n>> /\ <<c, n>> \in Calls /\ <<c, n>>[1] = c /\ <<c, n>>[2] = n
  BY <1>3, <1>4, CallShape DEF call
<1>6. Kind(c)' = script[c][n].kind /\ Key(c)' = script[c][n].key
  BY <1>1, <1>5 DEF Kind, Key, kindOf, keyOf
<1>7. Kind(c)' \in Kinds /\ Key(c)' \in Keys
  BY <1>2, <1>3, <1>6, ScriptShape
<1>8. Kind(c)' = kindOf(call(c)') /\ Key(c)' = keyOf(call(c)')
  BY <1>1 DEF Kind, Key, kindOf, keyOf
<1>9. \A d \in Clients : d # c =>
        /\ step'[d] = step[d] /\ pc'[d] = pc[d] /\ heard'[d] = heard[d]
        /\ call(d)' = call(d) /\ Kind(d)' = Kind(d) /\ Key(d)' = Key(d)
  BY <1>1, <1>4 DEF Typed, call, Kind, Key, kindOf, keyOf
<1>10. ~ Started(<<c, n>>)
  BY <1>3, <1>5 DEF Started
<1>11. thread[<<c, n>>] = None /\ pending[<<c, n>>] = {} /\ left[<<c, n>>] = {}
  BY <1>5, <1>10 DEF ThreadsFit, Fit, Placed
<1>12. \A u : kindOf(u)' = kindOf(u) /\ keyOf(u)' = keyOf(u)
  BY <1>1 DEF kindOf, keyOf
<1>13. ASSUME NEW u \in Calls PROVE Started(u)' <=> Started(u) \/ u = <<c, n>>
  <2>1. u[1] \in Clients /\ u[2] \in 1 .. MaxSteps /\ u = <<u[1], u[2]>>
    BY CallShape
  <2>2. u[2] \in Nat
    BY <2>1
  <2>3. CASE u[1] = c
    BY <1>3, <1>4, <2>1, <2>2, <2>3 DEF Started
  <2>4. CASE u[1] # c
    BY <1>4, <1>5, <2>1, <2>4 DEF Started
  <2>. QED
    BY <2>3, <2>4
<1>14. pc'[c] = Kind(c)' /\ heard'[c] = None
  BY <1>1, <1>6 DEF Typed
<1>15. NoteStart(c, Kind(c)', Key(c)')
  BY <1>1, <1>6
<1>16. UNCHANGED <<script, looked, reading, m_mutex, m_cur_stripe_id, m_object_commit_table,
                   m_object_updating_table, m_stripe_table, thread, queue, carries,
                   pending, left, files>>
  BY DEF StartCall, coordVars, proxyVars, nodeVars
<1> HIDE DEF n
<1>17. n = step[c] + 1
  BY DEF n
<1>. QED
  BY <1>1, <1>3, <1>4, <1>5, <1>7, <1>8, <1>9, <1>10, <1>11, <1>12, <1>13, <1>14, <1>15, <1>16, <1>17

\* A stripe is placed, under the next number, and a thread started.
LEMMA PlaceEffect ==
  ASSUME Base, NEW c \in Clients, PlaceObject(c)
  PROVE  /\ pc[c] = "set" /\ Lockable /\ call(c) \in Calls /\ Key(c) \in Keys /\ Kind(c) = "set"
         /\ thread[call(c)] = None /\ m_cur_stripe_id' = m_cur_stripe_id + 1
         /\ m_cur_stripe_id \in StripeIds /\ m_cur_stripe_id \in Nat
         /\ thread'[call(c)] # None /\ thread'[call(c)].at = "accepting"
         /\ thread'[call(c)].stripe = m_cur_stripe_id
         /\ thread'[call(c)].cluster \in Clusters /\ thread'[call(c)].home \in Homes
         /\ \A u \in Calls : u # call(c) => thread'[u] = thread[u]
         /\ m_stripe_table'[m_cur_stripe_id] = [key |-> Key(c), home |-> thread'[call(c)].home]
         /\ \A id \in StripeIds : id # m_cur_stripe_id => m_stripe_table'[id] = m_stripe_table[id]
         /\ m_object_commit_table'[Key(c)] = None
         /\ \A x \in Keys : x # Key(c) => m_object_commit_table'[x] = m_object_commit_table[x]
         /\ looked'[c] = [empty |-> FALSE, stripe |-> m_cur_stripe_id] /\ pc'[c] = "placed"
         /\ \A d \in Clients : d # c => pc'[d] = pc[d] /\ looked'[d] = looked[d]
         /\ UNCHANGED <<script, step, reading, heard, m_mutex, m_object_updating_table, queue,
                        carries, pending, left, files, truth, relies, contended>>
<1> USE DEF Base
<1>1. pc[c] = "set" /\ Lockable
  BY DEF PlaceObject
<1>2. call(c) \in Calls /\ Key(c) \in Keys /\ Kind(c) = "set" /\ thread[call(c)] = None
  BY <1>1, InCall DEF Positions, Position
<1>3. m_cur_stripe_id' = m_cur_stripe_id + 1 /\ m_cur_stripe_id \in StripeIds /\ m_cur_stripe_id \in Nat
  BY CallShape DEF PlaceObject, Typed, StripeIds
<1>4. PICK h \in Homes, cl \in Clusters :
        /\ m_stripe_table' = [m_stripe_table EXCEPT ![m_cur_stripe_id] = [key |-> Key(c), home |-> h]]
        /\ thread' = [thread EXCEPT ![call(c)] =
             [at |-> "accepting", cluster |-> cl, stripe |-> m_cur_stripe_id, home |-> h]]
  BY DEF PlaceObject
<1>5. [at |-> "accepting", cluster |-> cl, stripe |-> m_cur_stripe_id, home |-> h] \in Thread
  BY <1>3 DEF Thread
<1>6. /\ thread'[call(c)] = [at |-> "accepting", cluster |-> cl, stripe |-> m_cur_stripe_id, home |-> h]
      /\ \A u \in Calls : u # call(c) => thread'[u] = thread[u]
  BY <1>2, <1>4 DEF Typed
<1>7. /\ m_stripe_table'[m_cur_stripe_id] = [key |-> Key(c), home |-> h]
      /\ \A id \in StripeIds : id # m_cur_stripe_id => m_stripe_table'[id] = m_stripe_table[id]
  BY <1>3, <1>4 DEF Typed
<1>8. /\ m_object_commit_table'[Key(c)] = None
      /\ \A x \in Keys : x # Key(c) => m_object_commit_table'[x] = m_object_commit_table[x]
  BY <1>2 DEF PlaceObject, Typed
<1>9. /\ looked'[c] = [empty |-> FALSE, stripe |-> m_cur_stripe_id] /\ pc'[c] = "placed"
      /\ \A d \in Clients : d # c => pc'[d] = pc[d] /\ looked'[d] = looked[d]
  BY DEF PlaceObject, Typed
<1>10. UNCHANGED <<script, step, reading, heard, m_mutex, m_object_updating_table, queue,
                   carries, pending, left, files, truth, relies, contended>>
  BY DEF PlaceObject, nodeVars, history
<1>11. /\ thread'[call(c)] # None /\ thread'[call(c)].at = "accepting"
       /\ thread'[call(c)].stripe = m_cur_stripe_id
       /\ thread'[call(c)].cluster \in Clusters /\ thread'[call(c)].home = h
  BY <1>5, <1>6, NoNone
<1>. QED
  BY <1>1, <1>2, <1>3, <1>6, <1>7, <1>8, <1>9, <1>10, <1>11

\* The stripe is noted for the key.
LEMMA NoteEffect ==
  ASSUME Base, NEW c \in Clients, NoteUpdating(c)
  PROVE  /\ pc[c] = "placed" /\ Lockable /\ call(c) \in Calls /\ Key(c) \in Keys /\ Kind(c) = "set"
         /\ thread[call(c)] # None /\ looked[c] = InfoOf(call(c))
         /\ m_object_updating_table'[Key(c)] = InfoOf(call(c))
         /\ \A x \in Keys : x # Key(c) => m_object_updating_table'[x] = m_object_updating_table[x]
         /\ pc'[c] = "sending"
         /\ \A d \in Clients : d # c => pc'[d] = pc[d] /\ looked'[d] = looked[d]
         /\ UNCHANGED <<script, step, reading, heard, m_mutex, m_cur_stripe_id,
                        m_object_commit_table, m_stripe_table, thread, queue, carries, pending,
                        left, files, truth, relies, contended>>
<1> USE DEF Base
<1>1. pc[c] = "placed" /\ Lockable
  BY DEF NoteUpdating
<1>2. /\ call(c) \in Calls /\ Key(c) \in Keys /\ Kind(c) = "set"
      /\ thread[call(c)] # None /\ looked[c] = InfoOf(call(c))
  BY <1>1, InCall DEF Positions, Position
<1>3. /\ m_object_updating_table'[Key(c)] = InfoOf(call(c))
      /\ \A x \in Keys : x # Key(c) => m_object_updating_table'[x] = m_object_updating_table[x]
  BY <1>2 DEF NoteUpdating, Typed
<1>4. /\ pc'[c] = "sending"
      /\ \A d \in Clients : d # c => pc'[d] = pc[d] /\ looked'[d] = looked[d]
  BY DEF NoteUpdating, Typed
<1>. QED
  BY <1>1, <1>2, <1>3, <1>4 DEF NoteUpdating, proxyVars, nodeVars, history

\* The value is sent.
LEMMA SendEffect ==
  ASSUME Base, NEW c \in Clients, SendValue(c)
  PROVE  /\ pc[c] = "sending" /\ call(c) \in Calls /\ Kind(c) = "set" /\ thread[call(c)] # None
         /\ queue' = queue \union {call(c)} /\ pc'[c] = "checking"
         /\ \A d \in Clients : d # c => pc'[d] = pc[d]
         /\ UNCHANGED <<script, step, looked, reading, heard, m_mutex, m_cur_stripe_id,
                        m_object_commit_table, m_object_updating_table, m_stripe_table, thread,
                        carries, pending, left, files, truth, relies, contended>>
<1> USE DEF Base
<1>1. pc[c] = "sending" /\ queue' = queue \union {call(c)}
  BY DEF SendValue
<1>2. call(c) \in Calls /\ Kind(c) = "set" /\ thread[call(c)] # None
  BY <1>1, InCall DEF Positions, Position
<1>3. pc'[c] = "checking" /\ \A d \in Clients : d # c => pc'[d] = pc[d]
  BY DEF SendValue, Typed
<1>. QED
  BY <1>1, <1>2, <1>3 DEF SendValue, coordVars, nodeVars, history

\* A change of where a thread is.
LEMMA ThreadEdit ==
  ASSUME Typed, NEW t \in Calls, thread[t] # None,
         NEW x \in {"sent", "reported"}, thread' = [thread EXCEPT ![t].at = x]
  PROVE  /\ \A u \in Calls : u # t => thread'[u] = thread[u]
         /\ thread'[t] # None /\ thread'[t].at = x /\ thread'[t].stripe = thread[t].stripe
         /\ thread'[t].cluster = thread[t].cluster /\ thread'[t].home = thread[t].home
         /\ \A u \in Calls : (thread'[u] # None <=> thread[u] # None)
                             /\ (thread[u] # None => thread'[u].stripe = thread[u].stripe
                                                     /\ thread'[u].cluster = thread[u].cluster
                                                     /\ thread'[u].home = thread[u].home)
<1>1. thread[t] \in Thread
  BY DEF Typed
<1>2. thread' = [thread EXCEPT ![t] = [thread[t] EXCEPT !.at = x]]
  OBVIOUS
<1>3. thread'[t] = [thread[t] EXCEPT !.at = x] /\ \A u \in Calls : u # t => thread'[u] = thread[u]
  BY <1>2 DEF Typed
<1>4. [thread[t] EXCEPT !.at = x] \in Thread
  BY <1>1 DEF Thread
<1>5. /\ thread'[t].at = x /\ thread'[t].stripe = thread[t].stripe
      /\ thread'[t].cluster = thread[t].cluster /\ thread'[t].home = thread[t].home
  BY <1>1, <1>3 DEF Thread
<1>6. thread'[t] # None
  BY <1>3, <1>4, NoNone
<1>. QED
  BY <1>3, <1>5, <1>6

\* A thread takes a connection of its proxy.
LEMMA AcceptEffect ==
  ASSUME Base, NEW t \in Calls, AcceptAndEncode(t)
  PROVE  /\ thread[t] # None /\ thread[t].at = "accepting" /\ Placed(t)
         /\ thread'[t].at = "sent" /\ \A u \in Calls : u # t => thread'[u] = thread[u]
         /\ \A u \in Calls : (thread'[u] # None <=> thread[u] # None)
                             /\ (thread[u] # None => thread'[u].stripe = thread[u].stripe
                                                     /\ thread'[u].cluster = thread[u].cluster
                                                     /\ thread'[u].home = thread[u].home)
         /\ \E u \in queue : /\ u \in Calls /\ thread[u].cluster = thread[t].cluster
                             /\ queue' = queue \ {u} /\ carries'[t] = ReceivedContent(t, u)
         /\ \A u \in Calls : u # t => carries'[u] = carries[u] /\ pending'[u] = pending[u]
         /\ pending'[t] = Blocks
         /\ UNCHANGED <<script, step, pc, looked, reading, heard, m_mutex, m_cur_stripe_id,
                        m_object_commit_table, m_object_updating_table, m_stripe_table,
                        left, files, truth, relies, contended>>
<1> USE DEF Base
<1>1. thread[t] # None /\ thread[t].at = "accepting" /\ thread' = [thread EXCEPT ![t].at = "sent"]
  BY DEF AcceptAndEncode
<1>2. Placed(t)
  BY <1>1 DEF ThreadsFit, Fit, Placed
<1>3. thread'[t].at = "sent" /\ \A u \in Calls : u # t => thread'[u] = thread[u]
  BY <1>1, ThreadEdit
<1>4. \A u \in Calls : (thread'[u] # None <=> thread[u] # None)
                       /\ (thread[u] # None => thread'[u].stripe = thread[u].stripe
                                               /\ thread'[u].cluster = thread[u].cluster
                                               /\ thread'[u].home = thread[u].home)
  BY <1>1, ThreadEdit
<1>5. \E u \in queue : /\ u \in Calls /\ thread[u].cluster = thread[t].cluster
                       /\ queue' = queue \ {u} /\ carries'[t] = ReceivedContent(t, u)
  BY DEF AcceptAndEncode, QueueWithout, Typed
<1>6. \A u \in Calls : u # t => carries'[u] = carries[u] /\ pending'[u] = pending[u]
  BY DEF AcceptAndEncode, Typed
<1>7. pending'[t] = Blocks
  BY DEF AcceptAndEncode, Typed
<1>. QED
  BY <1>1, <1>2, <1>3, <1>4, <1>5, <1>6, <1>7 DEF AcceptAndEncode, clientVars, coordVars, history

\* A datanode writes a block.
LEMMA WriteEffect ==
  ASSUME Base, NEW t \in Calls, NEW b \in Blocks, handleSet(t, b)
  PROVE  /\ b \in pending[t] /\ Placed(t) /\ thread[t].at \in {"sent", "reported"}
         /\ thread[t].home \in Homes /\ thread[t].stripe \in StripeIds /\ keyOf(t) \in Keys
         /\ Name(t, b) \in AllFiles /\ files'[Name(t, b)] = carries[t]
         /\ \A f \in AllFiles : f # Name(t, b) => files'[f] = files[f]
         /\ pending'[t] = pending[t] \ {b} /\ \A u \in Calls : u # t => pending'[u] = pending[u]
         /\ UNCHANGED <<script, step, pc, looked, reading, heard, m_mutex, m_cur_stripe_id,
                        m_object_commit_table, m_object_updating_table, m_stripe_table,
                        thread, queue, carries, left, truth, relies, contended>>
<1> USE DEF Base
<1>1. b \in pending[t] /\ Placed(t) /\ thread[t].at \in {"sent", "reported"}
  BY DEF handleSet, ThreadsFit, Fit
<1>2. keyOf(t) \in Keys /\ thread[t] \in Thread /\ thread[t].home \in Homes
  BY <1>1, HasThread DEF Placed, ThreadsFit, Fit
<1>3. thread[t].stripe \in StripeIds
  BY <1>2 DEF Thread
<1>4. Name(t, b) \in AllFiles
  BY <1>2, <1>3, FileShape DEF Name
<1>5. files' = [files EXCEPT ![Name(t, b)] = carries[t]]
  BY DEF handleSet, Name
<1>6. /\ files'[Name(t, b)] = carries[t]
      /\ \A f \in AllFiles : f # Name(t, b) => files'[f] = files[f]
  BY <1>4, <1>5 DEF Typed
<1>7. pending'[t] = pending[t] \ {b} /\ \A u \in Calls : u # t => pending'[u] = pending[u]
  BY DEF handleSet, Typed
<1>. QED
  BY <1>1, <1>2, <1>3, <1>4, <1>6, <1>7 DEF handleSet, clientVars, coordVars, proxyVars, history

\* A get or a deletion copies its key's entry, or leaves the mutex locked.
LEMMA CopyEffect ==
  ASSUME Base, NEW c \in Clients, CopyInfo(c)
  PROVE  /\ pc[c] \in {"get", "del"} /\ pc[c] = Kind(c) /\ Lockable
         /\ call(c) \in Calls /\ Key(c) \in Keys /\ thread[call(c)] = None
         /\ \/ /\ m_object_commit_table[Key(c)] = None /\ m_mutex' = "leaked"
               /\ pc'[c] = IF Kind(c) = "get" THEN "lost" ELSE "checking"
               /\ UNCHANGED <<looked, m_object_updating_table>>
            \/ /\ m_object_commit_table[Key(c)] # None /\ UNCHANGED m_mutex
               /\ m_object_commit_table[Key(c)] \in Info
               /\ looked'[c] = m_object_commit_table[Key(c)] /\ pc'[c] = "looking"
               /\ IF Kind(c) = "get" THEN UNCHANGED m_object_updating_table
                  ELSE /\ m_object_updating_table'[Key(c)] = m_object_commit_table[Key(c)]
                       /\ \A x \in Keys : x # Key(c) =>
                            m_object_updating_table'[x] = m_object_updating_table[x]
         /\ \A d \in Clients : d # c => pc'[d] = pc[d] /\ looked'[d] = looked[d]
         /\ UNCHANGED <<script, step, reading, heard, m_cur_stripe_id, m_object_commit_table,
                        m_stripe_table, thread, queue, carries, pending, left, files,
                        truth, relies, contended>>
<1> USE DEF Base
<1>1. pc[c] \in {"get", "del"} /\ Lockable
  BY DEF CopyInfo
<1>2. call(c) \in Calls /\ Key(c) \in Keys /\ Kind(c) = pc[c] /\ thread[call(c)] = None
  BY <1>1, InCall DEF Positions, Position
<1>3. m_object_commit_table[Key(c)] \in Info \union {None}
  BY <1>2 DEF Typed
<1>4. UNCHANGED <<script, step, reading, heard, m_cur_stripe_id, m_object_commit_table,
                  m_stripe_table, thread, queue, carries, pending, left, files,
                  truth, relies, contended>>
  BY DEF CopyInfo, proxyVars, nodeVars, history
<1>5. CASE m_object_commit_table[Key(c)] = None
  <2>1. /\ m_mutex' = "leaked" /\ UNCHANGED <<looked, m_object_updating_table>>
        /\ pc' = [pc EXCEPT ![c] = IF Kind(c) = "get" THEN "lost" ELSE "checking"]
    BY <1>5 DEF CopyInfo
  <2>2. /\ pc'[c] = IF Kind(c) = "get" THEN "lost" ELSE "checking"
        /\ \A d \in Clients : d # c => pc'[d] = pc[d]
    BY <2>1 DEF Typed
  <2>. QED
    BY <1>1, <1>2, <1>4, <1>5, <2>1, <2>2
<1>6. CASE m_object_commit_table[Key(c)] # None
  <2>1. /\ looked' = [looked EXCEPT ![c] = m_object_commit_table[Key(c)]]
        /\ m_object_updating_table' =
             IF Kind(c) = "get" THEN m_object_updating_table
             ELSE [m_object_updating_table EXCEPT ![Key(c)] = m_object_commit_table[Key(c)]]
        /\ pc' = [pc EXCEPT ![c] = "looking"] /\ UNCHANGED m_mutex
    BY <1>6 DEF CopyInfo
  <2>2. /\ looked'[c] = m_object_commit_table[Key(c)] /\ pc'[c] = "looking"
        /\ \A d \in Clients : d # c => pc'[d] = pc[d] /\ looked'[d] = looked[d]
    BY <2>1 DEF Typed
  <2>3. IF Kind(c) = "get" THEN UNCHANGED m_object_updating_table
        ELSE /\ m_object_updating_table'[Key(c)] = m_object_commit_table[Key(c)]
             /\ \A x \in Keys : x # Key(c) =>
                  m_object_updating_table'[x] = m_object_updating_table[x]
    BY <1>2, <2>1 DEF Typed
  <2>. QED
    BY <1>1, <1>2, <1>3, <1>4, <1>6, <2>1, <2>2, <2>3
<1>. QED
  BY <1>5, <1>6

\* The blocks of the copied stripe are looked up, for a get or for a deletion;
\* without a block the coordinator ends.
LEMMA LookEffect ==
  ASSUME Base, NEW c \in Clients, LookUp(c)
  PROVE  /\ pc[c] = "looking" /\ Kind(c) \in {"get", "del"} /\ call(c) \in Calls /\ Key(c) \in Keys
         /\ looked[c] \in Info /\ looked[c].stripe \in StripeIds /\ looked[c].empty \in BOOLEAN
         /\ looked[c].stripe < m_cur_stripe_id /\ thread[call(c)] = None
         /\ UNCHANGED <<script, step, heard, m_mutex, m_cur_stripe_id, m_object_commit_table,
                        m_object_updating_table, m_stripe_table, queue, carries, pending, files,
                        truth, relies, contended>>
         /\ \/ /\ ended' /\ ~HasBlocks(looked[c].stripe, Key(c))
               /\ UNCHANGED <<pc, looked, reading, thread, left>>
            \/ /\ ended' = ended /\ HasBlocks(looked[c].stripe, Key(c))
               /\ \A d \in Clients : d # c => looked'[d] = looked[d] /\ pc'[d] = pc[d]
               /\ \/ /\ Kind(c) = "get" /\ pc'[c] = "reading" /\ UNCHANGED <<thread, left>>
                     /\ reading'[c] \in Readings /\ reading'[c].empty = looked[c].empty
                     /\ reading'[c].names = FilesOf(looked[c].stripe) /\ reading'[c].got = {}
                     /\ \A d \in Clients : d # c => reading'[d] = reading[d]
                  \/ /\ Kind(c) = "del" /\ pc'[c] = "checking" /\ UNCHANGED reading
                     /\ left'[call(c)] = {FilesOf(looked[c].stripe)[b] : b \in Blocks}
                     /\ \A u \in Calls : u # call(c) => left'[u] = left[u] /\ thread'[u] = thread[u]
                     /\ thread'[call(c)] # None /\ thread'[call(c)].at = "deleting"
                     /\ thread'[call(c)].cluster = None
                     /\ thread'[call(c)].stripe = looked[c].stripe
<1> USE DEF Base
<1> DEFINE id == looked[c].stripe
<1>1. pc[c] = "looking"
  BY DEF LookUp
<1>2. /\ Kind(c) \in {"get", "del"} /\ call(c) \in Calls /\ Key(c) \in Keys
      /\ looked[c] \in Info /\ looked[c].stripe < m_cur_stripe_id /\ thread[call(c)] = None
  BY <1>1, InCall DEF Positions, Position
<1>3. looked[c].stripe \in StripeIds /\ looked[c].empty \in BOOLEAN
  BY <1>2 DEF Info
<1>4. UNCHANGED <<script, step, heard, m_mutex, m_cur_stripe_id, m_object_commit_table,
                  m_object_updating_table, m_stripe_table, queue, carries, pending, files,
                  truth, relies, contended>>
  BY DEF LookUp, coordVars, history
<1>5. CASE ~HasBlocks(id, Key(c))
  <2>1. ended' /\ UNCHANGED <<pc, looked, reading, thread, left>>
    BY <1>5 DEF LookUp
  <2>. QED
    BY <1>1, <1>2, <1>3, <1>4, <1>5, <2>1
<1>6. CASE HasBlocks(id, Key(c))
  <2>1. ended' = ended /\ looked' = [looked EXCEPT ![c] = None]
    BY <1>6 DEF LookUp
  <2>2. \A d \in Clients : d # c => looked'[d] = looked[d]
    BY <2>1 DEF Typed
  <2>3. FilesOf(id) \in [Blocks -> AllFiles]
    BY <1>3, <1>6, FilesOfShape DEF HasBlocks
  <2>4. \/ /\ Kind(c) = "get" /\ UNCHANGED <<thread, left>>
           /\ reading' = [reading EXCEPT ![c] =
                [empty |-> looked[c].empty, names |-> FilesOf(id), got |-> {}]]
           /\ pc' = [pc EXCEPT ![c] = "reading"]
        \/ /\ Kind(c) = "del" /\ UNCHANGED reading
           /\ left' = [left EXCEPT ![call(c)] = {FilesOf(id)[b] : b \in Blocks}]
           /\ thread' = [thread EXCEPT ![call(c)] =
                [at |-> "deleting", cluster |-> None, stripe |-> id, home |-> None]]
           /\ pc' = [pc EXCEPT ![c] = "checking"]
    BY <1>6 DEF LookUp
  <2>5. CASE /\ Kind(c) = "get" /\ UNCHANGED <<thread, left>>
             /\ reading' = [reading EXCEPT ![c] =
                  [empty |-> looked[c].empty, names |-> FilesOf(id), got |-> {}]]
             /\ pc' = [pc EXCEPT ![c] = "reading"]
    <3>1. pc'[c] = "reading" /\ \A d \in Clients : d # c => pc'[d] = pc[d]
      BY <2>5 DEF Typed
    <3>2. [empty |-> looked[c].empty, names |-> FilesOf(id), got |-> {}] \in Readings
      BY <1>3, <2>3 DEF Readings
    <3>3. /\ reading'[c] = [empty |-> looked[c].empty, names |-> FilesOf(id), got |-> {}]
          /\ \A d \in Clients : d # c => reading'[d] = reading[d]
      BY <2>5 DEF Typed
    <3>4. /\ reading'[c] \in Readings /\ reading'[c].empty = looked[c].empty
          /\ reading'[c].names = FilesOf(looked[c].stripe) /\ reading'[c].got = {}
      BY <3>2, <3>3
    <3>. QED
      BY <1>1, <1>2, <1>3, <1>4, <1>6, <2>1, <2>2, <2>5, <3>1, <3>3, <3>4
  <2>6. CASE /\ Kind(c) = "del" /\ UNCHANGED reading
             /\ left' = [left EXCEPT ![call(c)] = {FilesOf(id)[b] : b \in Blocks}]
             /\ thread' = [thread EXCEPT ![call(c)] =
                  [at |-> "deleting", cluster |-> None, stripe |-> id, home |-> None]]
             /\ pc' = [pc EXCEPT ![c] = "checking"]
    <3>1. pc'[c] = "checking" /\ \A d \in Clients : d # c => pc'[d] = pc[d]
      BY <2>6 DEF Typed
    <3>2. /\ left'[call(c)] = {FilesOf(id)[b] : b \in Blocks}
          /\ \A u \in Calls : u # call(c) => left'[u] = left[u] /\ thread'[u] = thread[u]
          /\ thread'[call(c)] = [at |-> "deleting", cluster |-> None, stripe |-> id, home |-> None]
      BY <1>2, <2>6 DEF Typed
    <3>3. [at |-> "deleting", cluster |-> None, stripe |-> id, home |-> None] \in Thread
      BY <1>3 DEF Thread
    <3>4. /\ thread'[call(c)] # None /\ thread'[call(c)].at = "deleting"
          /\ thread'[call(c)].cluster = None /\ thread'[call(c)].stripe = looked[c].stripe
      BY <3>2, <3>3, NoNone
    <3>. QED
      BY <1>1, <1>2, <1>3, <1>4, <1>6, <2>1, <2>2, <2>6, <3>1, <3>2, <3>4
  <2>. QED
    BY <2>4, <2>5, <2>6
<1>. QED
  BY <1>5, <1>6

\* A get reads the file of a block, as it is.
LEMMA ReadEffect ==
  ASSUME Base, NEW c \in Clients, NEW b \in Blocks, ReadBlock(c, b)
  PROVE  /\ pc[c] = "reading" /\ Kind(c) = "get" /\ call(c) \in Calls /\ Key(c) \in Keys
         /\ reading[c] \in Readings /\ reading[c].names[b] \in AllFiles
         /\ reading'[c] \in Readings /\ reading'[c].empty = reading[c].empty
         /\ reading'[c].names = reading[c].names
         /\ \E v \in Content :
              /\ reading'[c].got = reading[c].got \union {<<b, v>>}
              /\ files[reading[c].names[b]] = None => v = Garbage
              /\ files[reading[c].names[b]] # None => v = files[reading[c].names[b]]
         /\ \A d \in Clients : d # c => reading'[d] = reading[d]
         /\ UNCHANGED <<script, step, pc, looked, heard, m_mutex, m_cur_stripe_id,
                        m_object_commit_table, m_object_updating_table, m_stripe_table,
                        thread, queue, carries, pending, left, files, truth, relies, contended>>
<1> USE DEF Base
<1> DEFINE v == IF files[reading[c].names[b]] = None THEN Garbage ELSE files[reading[c].names[b]]
<1>1. pc[c] = "reading"
  BY DEF ReadBlock
<1>2. Kind(c) = "get" /\ call(c) \in Calls /\ Key(c) \in Keys /\ reading[c] \in Readings
  BY <1>1, InCall DEF Positions, Position
<1>3. reading[c].names[b] \in AllFiles
  BY <1>2 DEF Readings
<1>4. v \in Content
  BY <1>3 DEF Typed, Content
<1>5. reading' = [reading EXCEPT ![c] = [reading[c] EXCEPT !.got = @ \union {<<b, v>>}]]
  BY DEF ReadBlock
<1>6. /\ files[reading[c].names[b]] = None => v = Garbage
      /\ files[reading[c].names[b]] # None => v = files[reading[c].names[b]]
  OBVIOUS
<1> HIDE DEF v
<1>7. [reading[c] EXCEPT !.got = @ \union {<<b, v>>}] \in Readings
  BY <1>2, <1>4 DEF Readings
<1>8. /\ reading'[c] = [reading[c] EXCEPT !.got = @ \union {<<b, v>>}]
      /\ \A d \in Clients : d # c => reading'[d] = reading[d]
  BY <1>5 DEF Typed
<1>9. /\ reading'[c] \in Readings /\ reading'[c].empty = reading[c].empty
      /\ reading'[c].names = reading[c].names
      /\ reading'[c].got = reading[c].got \union {<<b, v>>}
  BY <1>2, <1>7, <1>8 DEF Readings
<1>9a. \E x \in Content :
         /\ reading'[c].got = reading[c].got \union {<<b, x>>}
         /\ files[reading[c].names[b]] = None => x = Garbage
         /\ files[reading[c].names[b]] # None => x = files[reading[c].names[b]]
  BY <1>4, <1>6, <1>9
<1>10. UNCHANGED <<script, step, pc, looked, heard, m_mutex, m_cur_stripe_id,
                   m_object_commit_table, m_object_updating_table, m_stripe_table,
                   thread, queue, carries, pending, left, files, truth, relies, contended>>
  BY DEF ReadBlock, coordVars, proxyVars, nodeVars, history
<1>. QED
  BY <1>1, <1>2, <1>3, <1>8, <1>9, <1>9a, <1>10

\* A get returns, or its proxy ends.
LEMMA AnswerEffect ==
  ASSUME Base, NEW c \in Clients, AnswerGet(c)
  PROVE  /\ pc[c] = "reading" /\ Enough(reading[c].got) /\ Kind(c) = "get" /\ call(c) \in Calls
         /\ Key(c) \in Keys /\ reading[c] \in Readings
         /\ \/ ended' /\ reading[c].empty /\ UNCHANGED <<pc, reading, heard>>
            \/ /\ ended' = ended /\ ~ reading[c].empty /\ pc'[c] = "idle" /\ reading'[c] = None
               /\ heard'[c] \in Spliced(Decoded(reading[c].got))
               /\ \A d \in Clients : d # c =>
                    pc'[d] = pc[d] /\ reading'[d] = reading[d] /\ heard'[d] = heard[d]
         /\ UNCHANGED <<script, step, looked, m_mutex, m_cur_stripe_id,
                        m_object_commit_table, m_object_updating_table, m_stripe_table,
                        thread, queue, carries, pending, left, files, truth, relies, contended>>
<1> USE DEF Base
<1>1. pc[c] = "reading" /\ Enough(reading[c].got)
  BY DEF AnswerGet
<1>2. Kind(c) = "get" /\ call(c) \in Calls /\ Key(c) \in Keys /\ reading[c] \in Readings
  BY <1>1, InCall DEF Positions, Position
<1>3. UNCHANGED <<script, step, looked, m_mutex, m_cur_stripe_id,
                  m_object_commit_table, m_object_updating_table, m_stripe_table,
                  thread, queue, carries, pending, left, files, truth, relies, contended>>
  BY DEF AnswerGet, clientVars, coordVars, proxyVars, nodeVars, history
<1>4. CASE reading[c].empty
  <2>1. ended' /\ UNCHANGED <<pc, reading, heard>>
    BY <1>4 DEF AnswerGet, clientVars
  <2>. QED
    BY <1>1, <1>2, <1>3, <1>4, <2>1
<1>5. CASE ~ reading[c].empty
  <2>1. PICK v \in Spliced(Decoded(reading[c].got)) : heard' = [heard EXCEPT ![c] = v]
    BY <1>5 DEF AnswerGet
  <2>2. /\ reading' = [reading EXCEPT ![c] = None] /\ pc' = [pc EXCEPT ![c] = "idle"]
        /\ ended' = ended
    BY <1>5 DEF AnswerGet
  <2>3. /\ pc'[c] = "idle" /\ reading'[c] = None /\ heard'[c] = v
        /\ \A d \in Clients : d # c =>
             pc'[d] = pc[d] /\ reading'[d] = reading[d] /\ heard'[d] = heard[d]
    BY <2>1, <2>2 DEF Typed
  <2>. QED
    BY <1>1, <1>2, <1>3, <1>5, <2>1, <2>2, <2>3
<1>. QED
  BY <1>4, <1>5

\* A file is removed.
LEMMA RemoveEffect ==
  ASSUME Base, NEW t \in Calls, NEW f \in left[t], handleDelete(t, f)
  PROVE  /\ thread[t] # None /\ thread[t].at = "deleting" /\ kindOf(t) = "del"
         /\ f \in AllFiles /\ files'[f] = None
         /\ \A g \in AllFiles : g # f => files'[g] = files[g]
         /\ left'[t] = left[t] \ {f} /\ \A u \in Calls : u # t => left'[u] = left[u]
         /\ UNCHANGED <<script, step, pc, looked, reading, heard, m_mutex, m_cur_stripe_id,
                        m_object_commit_table, m_object_updating_table, m_stripe_table,
                        thread, queue, carries, pending, truth, relies, contended>>
<1> USE DEF Base
<1>1. thread[t] # None /\ thread[t].at = "deleting" /\ kindOf(t) = "del"
  BY DEF ThreadsFit, Fit
<1>2. f \in AllFiles
  BY DEF Typed
<1>3. files'[f] = None /\ \A g \in AllFiles : g # f => files'[g] = files[g]
  BY <1>2 DEF handleDelete, Typed
<1>4. left'[t] = left[t] \ {f} /\ \A u \in Calls : u # t => left'[u] = left[u]
  BY DEF handleDelete, Typed
<1>. QED
  BY <1>1, <1>2, <1>3, <1>4 DEF handleDelete, clientVars, coordVars, proxyVars, history

\* Whoever sleeps is woken.
LEMMA NotifyShape ==
  ASSUME Typed, pc' = NotifyAll, NEW c \in Clients
  PROVE  pc'[c] = IF pc[c] = "asleep" THEN "checking" ELSE pc[c]
BY DEF NotifyAll

\* A set's proxy reports.
LEMMA ReportSetEffect ==
  ASSUME Base, NEW t \in Calls, ReportSet(t)
  PROVE  /\ thread[t] # None /\ thread[t].at = "sent" /\ Placed(t) /\ Lockable /\ keyOf(t) \in Keys
         /\ thread'[t].at = "reported" /\ \A u \in Calls : u # t => thread'[u] = thread[u]
         /\ \A u \in Calls : (thread'[u] # None <=> thread[u] # None)
                             /\ (thread[u] # None => thread'[u].stripe = thread[u].stripe
                                                     /\ thread'[u].cluster = thread[u].cluster
                                                     /\ thread'[u].home = thread[u].home)
         /\ m_object_commit_table'[keyOf(t)] # None
         /\ m_object_updating_table[keyOf(t)] # None =>
              m_object_commit_table'[keyOf(t)] = m_object_updating_table[keyOf(t)]
         /\ m_object_updating_table[keyOf(t)] = None => m_object_commit_table'[keyOf(t)] = DefaultInfo
         /\ m_object_updating_table'[keyOf(t)] = None
         /\ \A x \in Keys : x # keyOf(t) =>
              /\ m_object_commit_table'[x] = m_object_commit_table[x]
              /\ m_object_updating_table'[x] = m_object_updating_table[x]
         /\ \A c \in Clients : pc'[c] = IF pc[c] = "asleep" THEN "checking" ELSE pc[c]
         /\ UNCHANGED <<script, step, looked, reading, heard, m_mutex, m_cur_stripe_id,
                        m_stripe_table, queue, carries, pending, left, files,
                        truth, relies, contended>>
<1> USE DEF Base
<1>1. /\ thread[t] # None /\ thread[t].at = "sent" /\ Lockable
      /\ thread' = [thread EXCEPT ![t].at = "reported"]
  BY DEF ReportSet, Done
<1>2. Placed(t) /\ keyOf(t) \in Keys
  BY <1>1, HasThread DEF ThreadsFit, Fit, Placed
<1>3. thread'[t].at = "reported" /\ \A u \in Calls : u # t => thread'[u] = thread[u]
  BY <1>1, ThreadEdit
<1>4. \A u \in Calls : (thread'[u] # None <=> thread[u] # None)
                       /\ (thread[u] # None => thread'[u].stripe = thread[u].stripe
                                               /\ thread'[u].cluster = thread[u].cluster
                                               /\ thread'[u].home = thread[u].home)
  BY <1>1, ThreadEdit
<1>5. DefaultInfo # None
  <2>1. 0 \in StripeIds
    BY CallShape DEF StripeIds
  <2>. QED
    BY <2>1, NoNone DEF DefaultInfo, Info
<1>6. /\ m_object_commit_table'[keyOf(t)] =
           IF m_object_updating_table[keyOf(t)] = None THEN DefaultInfo
           ELSE m_object_updating_table[keyOf(t)]
      /\ m_object_updating_table'[keyOf(t)] = None
      /\ \A x \in Keys : x # keyOf(t) =>
              /\ m_object_commit_table'[x] = m_object_commit_table[x]
              /\ m_object_updating_table'[x] = m_object_updating_table[x]
  BY <1>2 DEF ReportSet, Typed
<1>7. \A c \in Clients : pc'[c] = IF pc[c] = "asleep" THEN "checking" ELSE pc[c]
  BY NotifyShape DEF ReportSet
<1>. QED
  BY <1>1, <1>2, <1>3, <1>4, <1>5, <1>6, <1>7 DEF ReportSet, nodeVars, history

\* A deletion's proxy reports: with an entry, the entries of the key and the
\* stripe of the entry go.
LEMMA ReportDeleteEffect ==
  ASSUME Base, NEW t \in Calls, ReportDelete(t)
  PROVE  /\ thread[t] # None /\ thread[t].at = "deleting" /\ left[t] = {} /\ Lockable
         /\ kindOf(t) = "del" /\ keyOf(t) \in Keys
         /\ thread'[t].at = "reported" /\ \A u \in Calls : u # t => thread'[u] = thread[u]
         /\ \A u \in Calls : (thread'[u] # None <=> thread[u] # None)
                             /\ (thread[u] # None => thread'[u].stripe = thread[u].stripe
                                                     /\ thread'[u].cluster = thread[u].cluster
                                                     /\ thread'[u].home = thread[u].home)
         /\ m_object_commit_table'[keyOf(t)] = None
         /\ \A x \in Keys : x # keyOf(t) =>
              /\ m_object_commit_table'[x] = m_object_commit_table[x]
              /\ m_object_updating_table'[x] = m_object_updating_table[x]
         /\ \A x \in Keys : m_object_updating_table'[x] \in {m_object_updating_table[x], None}
         /\ \A id \in StripeIds : m_stripe_table'[id] # m_stripe_table[id] =>
              m_stripe_table'[id] = None /\ HasBlocks(id, keyOf(t))
         /\ \/ m_object_commit_table[keyOf(t)] = None /\ UNCHANGED pc
            \/ /\ m_object_commit_table[keyOf(t)] # None
               /\ \A c \in Clients : pc'[c] = IF pc[c] = "asleep" THEN "checking" ELSE pc[c]
         /\ UNCHANGED <<script, step, looked, reading, heard, m_mutex, m_cur_stripe_id,
                        queue, carries, pending, left, files, truth, relies, contended>>
<1> USE DEF Base
<1>1. /\ thread[t] # None /\ thread[t].at = "deleting" /\ left[t] = {} /\ Lockable
      /\ thread' = [thread EXCEPT ![t].at = "reported"]
  BY DEF ReportDelete, Done
<1>2. kindOf(t) = "del" /\ keyOf(t) \in Keys
  BY <1>1, HasThread DEF ThreadsFit, Fit
<1>3. thread'[t].at = "reported" /\ \A u \in Calls : u # t => thread'[u] = thread[u]
  BY <1>1, ThreadEdit
<1>4. \A u \in Calls : (thread'[u] # None <=> thread[u] # None)
                       /\ (thread[u] # None => thread'[u].stripe = thread[u].stripe
                                               /\ thread'[u].cluster = thread[u].cluster
                                               /\ thread'[u].home = thread[u].home)
  BY <1>1, ThreadEdit
<1>5. UNCHANGED <<script, step, looked, reading, heard, m_mutex, m_cur_stripe_id,
                  queue, carries, pending, left, files, truth, relies, contended>>
  BY DEF ReportDelete, coordVars, nodeVars, history
<1>6. CASE m_object_commit_table[keyOf(t)] = None
  <2>1. UNCHANGED <<m_object_commit_table, m_object_updating_table, m_stripe_table, pc>>
    BY <1>6 DEF ReportDelete, coordVars
  <2>. QED
    BY <1>1, <1>2, <1>3, <1>4, <1>5, <1>6, <2>1
<1>7. CASE m_object_commit_table[keyOf(t)] # None
  <2> DEFINE id == m_object_commit_table[keyOf(t)].stripe
  <2>1. /\ m_object_commit_table' = [m_object_commit_table EXCEPT ![keyOf(t)] = None]
        /\ m_object_updating_table' = [m_object_updating_table EXCEPT ![keyOf(t)] = None]
        /\ m_stripe_table' = IF HasBlocks(id, keyOf(t))
                             THEN [m_stripe_table EXCEPT ![id] = None] ELSE m_stripe_table
        /\ pc' = NotifyAll
    BY <1>7 DEF ReportDelete
  <2>2. /\ m_object_commit_table'[keyOf(t)] = None
        /\ \A x \in Keys : x # keyOf(t) =>
             /\ m_object_commit_table'[x] = m_object_commit_table[x]
             /\ m_object_updating_table'[x] = m_object_updating_table[x]
        /\ \A x \in Keys : m_object_updating_table'[x] \in {m_object_updating_table[x], None}
    BY <1>2, <2>1 DEF Typed
  <2>3. \A c \in Clients : pc'[c] = IF pc[c] = "asleep" THEN "checking" ELSE pc[c]
    BY <2>1, NotifyShape
  <2>4. \A i \in StripeIds : m_stripe_table'[i] # m_stripe_table[i] =>
          m_stripe_table'[i] = None /\ HasBlocks(i, keyOf(t))
    <3> HIDE DEF id
    <3>. QED
      BY <2>1 DEF Typed
  <2>. QED
    BY <1>1, <1>2, <1>3, <1>4, <1>5, <1>7, <2>2, <2>3, <2>4
<1>. QED
  BY <1>6, <1>7

\* A client finds its call done and returns, or sleeps.
LEMMA CheckEffect ==
  ASSUME Base, NEW c \in Clients, CheckCommitAbort(c)
  PROVE  /\ pc[c] = "checking" /\ Kind(c) \in {"set", "del"} /\ Lockable
         /\ call(c) \in Calls /\ Key(c) \in Keys
         /\ \/ Settled(c) /\ pc'[c] = "idle"
            \/ ~ Settled(c) /\ pc'[c] = "asleep" /\ truth' = truth
         /\ \A d \in Clients : d # c => pc'[d] = pc[d]
         /\ \/ truth' = truth
            \/ /\ Kind(c) = "set" /\ truth[Key(c)] # None /\ truth[Key(c)].by = call(c)
               /\ \A x \in Keys : x # Key(c) => truth'[x] = truth[x]
               /\ truth'[Key(c)].by = call(c) /\ truth'[Key(c)].sure
         /\ Kind(c) = "set" /\ Settled(c) /\ truth'[Key(c)] # None /\ truth'[Key(c)].by = call(c) =>
              truth'[Key(c)].sure
         /\ UNCHANGED <<script, step, looked, reading, heard, m_mutex, m_cur_stripe_id,
                        m_object_commit_table, m_object_updating_table, m_stripe_table,
                        thread, queue, carries, pending, left, files, relies, contended>>
<1> USE DEF Base
<1>1. pc[c] = "checking" /\ Lockable
  BY DEF CheckCommitAbort
<1>2. Kind(c) \in {"set", "del"} /\ call(c) \in Calls /\ Key(c) \in Keys
  BY <1>1, InCall DEF Positions, Position
<1>3. UNCHANGED <<script, step, looked, reading, heard, m_mutex, m_cur_stripe_id,
                  m_object_commit_table, m_object_updating_table, m_stripe_table,
                  thread, queue, carries, pending, left, files, relies, contended>>
  BY DEF CheckCommitAbort, NoteReturn, history, coordVars, proxyVars, nodeVars
<1>4. CASE ~ Settled(c)
  <2>1. pc' = [pc EXCEPT ![c] = "asleep"] /\ truth' = truth
    BY <1>4 DEF CheckCommitAbort, history
  <2>2. pc'[c] = "asleep" /\ \A d \in Clients : d # c => pc'[d] = pc[d]
    BY <2>1 DEF Typed
  <2>. QED
    BY <1>1, <1>2, <1>3, <1>4, <2>1, <2>2
<1>5. CASE Settled(c)
  <2>1. pc' = [pc EXCEPT ![c] = "idle"] /\ NoteReturn(c)
    BY <1>5 DEF CheckCommitAbort
  <2>2. pc'[c] = "idle" /\ \A d \in Clients : d # c => pc'[d] = pc[d]
    BY <2>1 DEF Typed
  <2>3. CASE Kind(c) = "set" /\ truth[Key(c)] # None /\ truth[Key(c)].by = call(c)
    <3>1. truth[Key(c)] \in Truths
      BY <1>2, <2>3 DEF Typed
    <3>2. truth' = [truth EXCEPT ![Key(c)] = [truth[Key(c)] EXCEPT !.sure = TRUE]]
      BY <2>1, <2>3 DEF NoteReturn
    <3>3. /\ [truth[Key(c)] EXCEPT !.sure = TRUE].by = call(c)
          /\ [truth[Key(c)] EXCEPT !.sure = TRUE].sure
      BY <2>3, <3>1 DEF Truths
    <3>4. /\ \A x \in Keys : x # Key(c) => truth'[x] = truth[x]
          /\ truth'[Key(c)].by = call(c) /\ truth'[Key(c)].sure
      BY <1>2, <3>2, <3>3 DEF Typed
    <3>. QED
      BY <1>1, <1>2, <1>3, <1>5, <2>2, <2>3, <3>4
  <2>4. CASE ~ (Kind(c) = "set" /\ truth[Key(c)] # None /\ truth[Key(c)].by = call(c))
    <3>1. truth' = truth
      BY <2>1, <2>4 DEF NoteReturn
    <3>. QED
      BY <1>1, <1>2, <1>3, <1>5, <2>2, <2>4, <3>1
  <2>. QED
    BY <2>3, <2>4
<1>. QED
  BY <1>4, <1>5

-----------------------------------------------------------------------------
(* Where clients and threads are stays true.                               *)

\* What does not concern a client leaves it where it was.
LEMMA PositionFrame ==
  ASSUME Base, NEW d \in Clients, script' = script, step'[d] = step[d],
         pc'[d] = pc[d] \/ (pc[d] = "asleep" /\ pc'[d] = "checking"),
         pc[d] = "placed" \/ pc[d] = "looking" => looked'[d] = looked[d],
         pc[d] = "reading" => reading'[d] \in Readings,
         pc[d] # "idle" =>
           /\ thread'[call(d)] # None <=> thread[call(d)] # None
           /\ thread[call(d)] # None => thread'[call(d)].stripe = thread[call(d)].stripe,
         m_cur_stripe_id' \in {m_cur_stripe_id, m_cur_stripe_id + 1},
         m_mutex' \in {m_mutex, "leaked"}
  PROVE  Position(d)'
<1> USE DEF Base
<1>1. call(d)' = call(d) /\ Kind(d)' = Kind(d)
  BY DEF call, Kind, kindOf
<1>2. Position(d)
  BY DEF Positions
<1>3. m_cur_stripe_id \in Nat /\ Len(script[d]) \in Nat
  BY CallShape, ScriptShape DEF Typed, StripeIds
<1>4. /\ step'[d] \in 0 .. Len(script'[d])
      /\ pc'[d] # "idle" => step'[d] \in 1 .. Len(script'[d])
  BY <1>2 DEF Position
<1>5. /\ pc'[d] \in {"set", "placed", "sending"} => Kind(d)' = "set"
      /\ pc'[d] \in {"get", "reading", "lost"} => Kind(d)' = "get"
      /\ pc'[d] = "del" => Kind(d)' = "del"
      /\ pc'[d] = "looking" => Kind(d)' \in {"get", "del"}
      /\ pc'[d] \in {"checking", "asleep"} => Kind(d)' \in {"set", "del"}
  BY <1>1, <1>2 DEF Position
<1>6. /\ pc'[d] \in {"set", "get", "del", "looking", "reading", "lost"} => thread'[call(d)'] = None
      /\ pc'[d] \in {"placed", "sending"} => thread'[call(d)'] # None
      /\ pc'[d] \in {"checking", "asleep"} /\ Kind(d)' = "set" => thread'[call(d)'] # None
  BY <1>1, <1>2 DEF Position
<1>7. pc'[d] = "placed" => looked'[d] = InfoOf(call(d))'
  BY <1>1, <1>2 DEF Position, InfoOf
<1>8. pc'[d] = "looking" => looked'[d] \in Info /\ looked'[d].stripe < m_cur_stripe_id'
  <2>1. ASSUME pc'[d] = "looking" PROVE looked'[d] \in Info /\ looked'[d].stripe < m_cur_stripe_id'
    <3>1. looked'[d] \in Info /\ looked'[d].stripe < m_cur_stripe_id
      BY <1>2, <2>1 DEF Position
    <3>2. looked'[d].stripe \in Nat
      BY <3>1, CallShape DEF Info, StripeIds
    <3>. QED
      BY <1>3, <3>1, <3>2
  <2>. QED
    BY <2>1
<1>9. /\ pc'[d] = "reading" => reading'[d] \in Readings
      /\ pc'[d] = "lost" => m_mutex' = "leaked"
  BY <1>2 DEF Position
<1>. QED
  BY <1>4, <1>5, <1>6, <1>7, <1>8, <1>9 DEF Position

\* Every client is where the kind of its call and its thread put it.
LEMMA PositionsStays == Base /\ [Next]_vars => Positions'
<1> SUFFICES ASSUME Base, [Next]_vars, NEW d \in Clients PROVE Position(d)'
  BY DEF Positions
<1>b. Typed /\ Positions /\ ThreadsFit /\ Position(d)
  BY DEF Base, Positions
<1>f. pc[d] = "reading" => reading[d] \in Readings
  BY <1>b DEF Position
<1>m. m_cur_stripe_id \in Nat
  BY <1>b, CallShape DEF Typed, StripeIds
<1>c. pc[d] # "idle" => call(d) \in Calls /\ call(d)[1] = d
  BY <1>b, InCall
<1>e. \A x \in Clients : x # d => call(x) # call(d)
  BY DEF call
<1>0. CASE UNCHANGED vars
  BY <1>0, <1>f, PositionFrame DEF vars, clientVars, coordVars, proxyVars
<1>1. ASSUME NEW c \in Clients, StartCall(c) PROVE Position(d)'
  <2>1. CASE d # c
    BY <1>1, <1>f, <2>1, StartEffect, PositionFrame
  <2>2. CASE d = c
    <3>1. /\ step'[c] = step[c] + 1 /\ step[c] \in Nat /\ step[c] + 1 \in 1 .. Len(script[c])
          /\ script' = script /\ pc'[c] = Kind(c)' /\ Kind(c)' \in Kinds
          /\ thread' = thread /\ thread[call(c)'] = None
      BY <1>1, StartEffect
    <3>2. thread'[call(c)'] = None
      BY <3>1
    <3>3. pc'[c] \in {"set", "get", "del"}
      BY <3>1 DEF Kinds
    <3>4. step'[c] \in 0 .. Len(script'[c]) /\ step'[c] \in 1 .. Len(script'[c])
      BY <3>1
    <3>. QED
      BY <2>2, <3>1, <3>2, <3>3, <3>4 DEF Position
  <2>. QED
    BY <2>1, <2>2
<1>2. ASSUME NEW c \in Clients, PlaceObject(c) PROVE Position(d)'
  <2>1. CASE d # c
    <3>1. /\ script' = script /\ step' = step /\ pc'[d] = pc[d] /\ looked'[d] = looked[d]
          /\ reading' = reading /\ m_mutex' = m_mutex /\ m_cur_stripe_id' = m_cur_stripe_id + 1
          /\ \A u \in Calls : u # call(c) => thread'[u] = thread[u]
      BY <1>2, <2>1, PlaceEffect
    <3>2. pc[d] # "idle" => thread'[call(d)] = thread[call(d)]
      BY <1>c, <1>e, <2>1, <3>1
    <3>. QED
      BY <1>f, <3>1, <3>2, PositionFrame
  <2>2. CASE d = c
    <3>1. /\ pc[c] = "set" /\ pc'[c] = "placed" /\ thread'[call(c)] # None /\ Kind(c) = "set"
          /\ script' = script /\ step' = step
          /\ looked'[c] = [empty |-> FALSE, stripe |-> m_cur_stripe_id]
          /\ thread'[call(c)].stripe = m_cur_stripe_id
      BY <1>2, PlaceEffect
    <3>2. call(c)' = call(c) /\ Kind(c)' = Kind(c)
      BY <3>1, SameCalls
    <3>3. looked'[c] = InfoOf(call(c))'
      BY <3>1, <3>2 DEF InfoOf
    <3>. QED
      BY <1>b, <2>2, <3>1, <3>2, <3>3 DEF Position
  <2>. QED
    BY <2>1, <2>2
<1>3. ASSUME NEW c \in Clients, NoteUpdating(c) PROVE Position(d)'
  <2>1. CASE d # c
    BY <1>3, <1>f, <2>1, NoteEffect, PositionFrame
  <2>2. CASE d = c
    <3>1. /\ pc[c] = "placed" /\ pc'[c] = "sending" /\ thread'[call(c)] # None /\ Kind(c) = "set"
          /\ script' = script /\ step' = step
      BY <1>3, NoteEffect
    <3>2. call(c)' = call(c) /\ Kind(c)' = Kind(c)
      BY <3>1, SameCalls
    <3>. QED
      BY <1>b, <2>2, <3>1, <3>2 DEF Position
  <2>. QED
    BY <2>1, <2>2
<1>4. ASSUME NEW c \in Clients, SendValue(c) PROVE Position(d)'
  <2>1. CASE d # c
    BY <1>4, <1>f, <2>1, SendEffect, PositionFrame
  <2>2. CASE d = c
    <3>1. /\ pc[c] = "sending" /\ pc'[c] = "checking" /\ thread'[call(c)] # None /\ Kind(c) = "set"
          /\ script' = script /\ step' = step
      BY <1>4, SendEffect
    <3>2. call(c)' = call(c) /\ Kind(c)' = Kind(c)
      BY <3>1, SameCalls
    <3>. QED
      BY <1>b, <2>2, <3>1, <3>2 DEF Position
  <2>. QED
    BY <2>1, <2>2
<1>5. ASSUME NEW t \in Calls, AcceptAndEncode(t) PROVE Position(d)'
  BY <1>5, <1>c, <1>f, AcceptEffect, PositionFrame
<1>6. ASSUME NEW t \in Calls, NEW b \in Blocks, handleSet(t, b) PROVE Position(d)'
  BY <1>6, <1>f, WriteEffect, PositionFrame
<1>7. ASSUME NEW c \in Clients, CopyInfo(c) PROVE Position(d)'
  <2>1. CASE d # c
    <3>1. m_mutex' \in {m_mutex, "leaked"}
      BY <1>7, CopyEffect
    <3>. QED
      BY <1>7, <1>f, <2>1, <3>1, CopyEffect, PositionFrame
  <2>2. CASE d = c
    <3>1. /\ pc[c] \in {"get", "del"} /\ pc[c] = Kind(c) /\ script' = script /\ step' = step
          /\ thread' = thread /\ thread[call(c)] = None /\ m_cur_stripe_id' = m_cur_stripe_id
          /\ Key(c) \in Keys
      BY <1>7, CopyEffect
    <3>2. call(c)' = call(c) /\ Kind(c)' = Kind(c)
      BY <3>1, SameCalls
    <3>3. CASE m_object_commit_table[Key(c)] = None
      <4>1. m_mutex' = "leaked" /\ pc'[c] = IF Kind(c) = "get" THEN "lost" ELSE "checking"
        BY <1>7, <3>3, CopyEffect
      <4>. QED
        BY <1>b, <2>2, <3>1, <3>2, <4>1 DEF Position
    <3>4. CASE m_object_commit_table[Key(c)] # None
      <4>1. looked'[c] = m_object_commit_table[Key(c)] /\ pc'[c] = "looking"
        BY <1>7, <3>4, CopyEffect
      <4>2. looked'[c] \in Info /\ looked'[c].stripe < m_cur_stripe_id'
        <5>1. m_object_commit_table[Key(c)] \in Info /\ m_object_commit_table[Key(c)].stripe < m_cur_stripe_id
          BY <3>1, <3>4 DEF Base, InfosFit, Typed
        <5>. QED
          BY <3>1, <4>1, <5>1
      <4>. QED
        BY <1>b, <2>2, <3>1, <3>2, <4>1, <4>2 DEF Position
    <3>. QED
      BY <3>3, <3>4
  <2>. QED
    BY <2>1, <2>2
<1>8. ASSUME NEW c \in Clients, LookUp(c) PROVE Position(d)'
  <2>1. CASE d # c \/ UNCHANGED <<pc, looked, reading, thread>>
    <3>1. pc[d] # "idle" => thread'[call(d)] = thread[call(d)]
      BY <1>8, <1>c, <1>e, <2>1, LookEffect
    <3>2. pc'[d] = pc[d] /\ looked'[d] = looked[d] /\ (reading'[d] = reading[d] \/ reading'[d] \in Readings)
      BY <1>8, <2>1, LookEffect
    <3>3. UNCHANGED <<script, step, m_cur_stripe_id, m_mutex>>
      BY <1>8, LookEffect
    <3>. QED
      BY <1>f, <3>1, <3>2, <3>3, PositionFrame
  <2>2. CASE d = c /\ ~ UNCHANGED <<pc, looked, reading, thread>>
    <3>1. /\ pc[c] = "looking" /\ script' = script /\ step' = step
          /\ thread[call(c)] = None /\ m_mutex' = m_mutex
      BY <1>8, LookEffect
    <3>2. call(c)' = call(c) /\ Kind(c)' = Kind(c)
      BY <3>1, SameCalls
    <3>3. \/ /\ Kind(c) = "get" /\ pc'[c] = "reading" /\ thread' = thread
             /\ reading'[c] \in Readings
          \/ Kind(c) = "del" /\ pc'[c] = "checking"
      BY <1>8, <2>2, LookEffect
    <3>. QED
      BY <1>b, <2>2, <3>1, <3>2, <3>3 DEF Position
  <2>. QED
    BY <2>1, <2>2
<1>9. ASSUME NEW c \in Clients, NEW b \in Blocks, ReadBlock(c, b) PROVE Position(d)'
  <2>1. reading'[d] \in Readings \/ reading'[d] = reading[d]
    BY <1>9, ReadEffect
  <2>. QED
    BY <1>9, <1>f, <2>1, ReadEffect, PositionFrame
<1>10. ASSUME NEW c \in Clients, AnswerGet(c) PROVE Position(d)'
  <2>1. CASE d # c \/ UNCHANGED <<pc, reading>>
    BY <1>10, <1>f, <2>1, AnswerEffect, PositionFrame
  <2>2. CASE d = c /\ ~ UNCHANGED <<pc, reading>>
    <3>1. pc'[c] = "idle" /\ script' = script /\ step' = step
      BY <1>10, <2>2, AnswerEffect
    <3>. QED
      BY <1>b, <2>2, <3>1 DEF Position
  <2>. QED
    BY <2>1, <2>2
<1>11. ASSUME NEW t \in Calls, NEW f \in left[t], handleDelete(t, f) PROVE Position(d)'
  BY <1>11, <1>f, RemoveEffect, PositionFrame
<1>12. ASSUME NEW t \in Calls, ReportSet(t) PROVE Position(d)'
  <2>1. pc'[d] = pc[d] \/ (pc[d] = "asleep" /\ pc'[d] = "checking")
    BY <1>12, ReportSetEffect
  <2>. QED
    BY <1>12, <1>c, <1>f, <2>1, ReportSetEffect, PositionFrame
<1>13. ASSUME NEW t \in Calls, ReportDelete(t) PROVE Position(d)'
  <2>1. pc'[d] = pc[d] \/ (pc[d] = "asleep" /\ pc'[d] = "checking")
    BY <1>13, ReportDeleteEffect
  <2>. QED
    BY <1>13, <1>c, <1>f, <2>1, ReportDeleteEffect, PositionFrame
<1>14. ASSUME NEW c \in Clients, CheckCommitAbort(c) PROVE Position(d)'
  <2>1. CASE d # c
    BY <1>14, <1>f, <2>1, CheckEffect, PositionFrame
  <2>2. CASE d = c
    <3>1. /\ pc[c] = "checking" /\ pc'[c] \in {"idle", "asleep"} /\ Kind(c) \in {"set", "del"}
          /\ script' = script /\ step' = step /\ thread' = thread
      BY <1>14, CheckEffect
    <3>2. call(c)' = call(c) /\ Kind(c)' = Kind(c)
      BY <3>1, SameCalls
    <3>. QED
      BY <1>b, <2>2, <3>1, <3>2 DEF Position
  <2>. QED
    BY <2>1, <2>2
<1>. QED
  BY <1>0, <1>1, <1>2, <1>3, <1>4, <1>5, <1>6, <1>7, <1>8, <1>9, <1>10, <1>11, <1>12, <1>13, <1>14
     DEF Next, Running, Calling, Threads, Finished

\* What does not concern a thread leaves it as it was.
LEMMA FitFrame ==
  ASSUME Base, NEW t \in Calls, script' = script, Started(t) => Started(t)',
         thread'[t] = thread[t], pending'[t] \subseteq pending[t], left'[t] \subseteq left[t],
         m_cur_stripe_id' \in {m_cur_stripe_id, m_cur_stripe_id + 1}
  PROVE  Fit(t)'
<1> USE DEF Base
<1>1. Fit(t) /\ kindOf(t)' = kindOf(t)
  BY DEF ThreadsFit, kindOf
<1>2. thread[t] # None => thread[t].stripe < m_cur_stripe_id'
  <2>1. ASSUME thread[t] # None PROVE thread[t].stripe < m_cur_stripe_id'
    <3>1. thread[t].stripe \in Nat /\ m_cur_stripe_id \in Nat
      BY <2>1, CallShape DEF Typed, Thread, StripeIds
    <3>2. thread[t].stripe < m_cur_stripe_id
      BY <1>1, <2>1 DEF Fit
    <3>. QED
      BY <3>1, <3>2
  <2>. QED
    BY <2>1
<1>. QED
  BY <1>1, <1>2 DEF Fit, Placed

\* Threads, blocks to write and files to remove are of calls that have them.
LEMMA ThreadsFitStays == Base /\ [Next]_vars => ThreadsFit'
<1> SUFFICES ASSUME Base, [Next]_vars, NEW t \in Calls PROVE Fit(t)'
  BY DEF ThreadsFit
<1>b. Typed /\ Positions /\ ThreadsFit /\ Fit(t)
  BY DEF Base, ThreadsFit
<1>s. script' = script /\ kindOf(t)' = kindOf(t)
  BY ScriptStays
<1>e. step' = step => (Started(t)' <=> Started(t))
  BY DEF Started
<1>0. CASE UNCHANGED vars
  BY <1>0, <1>e, FitFrame DEF vars, clientVars, coordVars, proxyVars, nodeVars
<1>1. ASSUME NEW c \in Clients, StartCall(c) PROVE Fit(t)'
  <2>1. Started(t) => Started(t)'
    BY <1>1, StartEffect
  <2>. QED
    BY <1>1, <2>1, StartEffect, FitFrame
<1>2. ASSUME NEW c \in Clients, PlaceObject(c) PROVE Fit(t)'
  <2>1. CASE t # call(c)
    BY <1>2, <1>e, <2>1, PlaceEffect, FitFrame
  <2>2. CASE t = call(c)
    <3>1. /\ pc[c] = "set" /\ Kind(c) = "set" /\ step' = step /\ thread[t] = None
          /\ thread'[t] # None /\ thread'[t].at = "accepting" /\ thread'[t].stripe = m_cur_stripe_id
          /\ thread'[t].cluster \in Clusters /\ thread'[t].home \in Homes
          /\ m_cur_stripe_id' = m_cur_stripe_id + 1 /\ m_cur_stripe_id \in Nat
          /\ pending' = pending /\ left' = left
      BY <1>2, <2>2, PlaceEffect
    <3>2. Started(t)' /\ kindOf(t)' = "set"
      BY <1>b, <1>e, <1>s, <2>2, <3>1, InCall
    <3>3. pending[t] = {} /\ left[t] = {}
      BY <1>b, <3>1 DEF Fit, Placed
    <3>4. thread'[t].stripe < m_cur_stripe_id'
      BY <3>1
    <3>. QED
      BY <3>1, <3>2, <3>3, <3>4 DEF Fit
  <2>. QED
    BY <2>1, <2>2
<1>3. ASSUME NEW c \in Clients, NoteUpdating(c) PROVE Fit(t)'
  BY <1>3, <1>e, NoteEffect, FitFrame
<1>4. ASSUME NEW c \in Clients, SendValue(c) PROVE Fit(t)'
  BY <1>4, <1>e, SendEffect, FitFrame
<1>5. ASSUME NEW u \in Calls, AcceptAndEncode(u) PROVE Fit(t)'
  <2>1. CASE t # u
    BY <1>5, <1>e, <2>1, AcceptEffect, FitFrame
  <2>2. CASE t = u
    <3>1. /\ thread[t] # None /\ thread[t].at = "accepting" /\ thread'[t].at = "sent"
          /\ thread'[t] # None /\ thread'[t].stripe = thread[t].stripe
          /\ thread'[t].cluster = thread[t].cluster /\ thread'[t].home = thread[t].home
          /\ step' = step /\ m_cur_stripe_id' = m_cur_stripe_id /\ left' = left
      BY <1>5, <2>2, AcceptEffect
    <3>. QED
      BY <1>b, <1>e, <1>s, <3>1 DEF Fit, Placed
  <2>. QED
    BY <2>1, <2>2
<1>6. ASSUME NEW u \in Calls, NEW b \in Blocks, handleSet(u, b) PROVE Fit(t)'
  <2>1. pending'[t] \subseteq pending[t]
    BY <1>6, WriteEffect
  <2>. QED
    BY <1>6, <1>e, <2>1, WriteEffect, FitFrame
<1>7. ASSUME NEW c \in Clients, CopyInfo(c) PROVE Fit(t)'
  BY <1>7, <1>e, CopyEffect, FitFrame
<1>8. ASSUME NEW c \in Clients, LookUp(c) PROVE Fit(t)'
  <2>1. CASE t # call(c) \/ (thread' = thread /\ left' = left)
    <3>1. thread'[t] = thread[t] /\ left'[t] = left[t]
      BY <1>8, <2>1, LookEffect
    <3>2. UNCHANGED <<script, step, m_cur_stripe_id, pending>>
      BY <1>8, LookEffect
    <3>. QED
      BY <1>e, <3>1, <3>2, FitFrame
  <2>2. CASE t = call(c) /\ ~ (thread' = thread /\ left' = left)
    <3>1. /\ pc[c] = "looking" /\ Kind(c) = "del" /\ step' = step /\ thread[t] = None
          /\ thread'[t] # None /\ thread'[t].at = "deleting" /\ thread'[t].stripe = looked[c].stripe
          /\ m_cur_stripe_id' = m_cur_stripe_id /\ looked[c].stripe < m_cur_stripe_id
          /\ pending' = pending
      BY <1>8, <2>2, LookEffect
    <3>2. Started(t)' /\ kindOf(t)' = "del"
      BY <1>b, <1>e, <1>s, <2>2, <3>1, InCall
    <3>3. pending[t] = {}
      BY <1>b, <3>1 DEF Fit, Placed
    <3>. QED
      BY <3>1, <3>2, <3>3 DEF Fit
  <2>. QED
    BY <2>1, <2>2
<1>9. ASSUME NEW c \in Clients, NEW b \in Blocks, ReadBlock(c, b) PROVE Fit(t)'
  BY <1>9, <1>e, ReadEffect, FitFrame
<1>10. ASSUME NEW c \in Clients, AnswerGet(c) PROVE Fit(t)'
  BY <1>10, <1>e, AnswerEffect, FitFrame
<1>11. ASSUME NEW u \in Calls, NEW f \in left[u], handleDelete(u, f) PROVE Fit(t)'
  <2>1. left'[t] \subseteq left[t]
    BY <1>11, RemoveEffect
  <2>. QED
    BY <1>11, <1>e, <2>1, RemoveEffect, FitFrame
<1>12. ASSUME NEW u \in Calls, ReportSet(u) PROVE Fit(t)'
  <2>1. CASE t # u
    BY <1>12, <1>e, <2>1, ReportSetEffect, FitFrame
  <2>2. CASE t = u
    <3>1. /\ thread[t] # None /\ thread[t].at = "sent" /\ thread'[t].at = "reported"
          /\ thread'[t] # None /\ thread'[t].stripe = thread[t].stripe
          /\ thread'[t].cluster = thread[t].cluster /\ thread'[t].home = thread[t].home
          /\ step' = step /\ m_cur_stripe_id' = m_cur_stripe_id /\ left' = left /\ pending' = pending
      BY <1>12, <2>2, ReportSetEffect
    <3>. QED
      BY <1>b, <1>e, <1>s, <3>1 DEF Fit, Placed
  <2>. QED
    BY <2>1, <2>2
<1>13. ASSUME NEW u \in Calls, ReportDelete(u) PROVE Fit(t)'
  <2>1. CASE t # u
    BY <1>13, <1>e, <2>1, ReportDeleteEffect, FitFrame
  <2>2. CASE t = u
    <3>1. /\ thread[t] # None /\ thread[t].at = "deleting" /\ thread'[t].at = "reported"
          /\ thread'[t] # None /\ thread'[t].stripe = thread[t].stripe /\ left[t] = {}
          /\ step' = step /\ m_cur_stripe_id' = m_cur_stripe_id /\ left' = left /\ pending' = pending
      BY <1>13, <2>2, ReportDeleteEffect
    <3>. QED
      BY <1>b, <1>e, <1>s, <3>1 DEF Fit, Placed
  <2>. QED
    BY <2>1, <2>2
<1>14. ASSUME NEW c \in Clients, CheckCommitAbort(c) PROVE Fit(t)'
  BY <1>14, <1>e, CheckEffect, FitFrame
<1>. QED
  BY <1>0, <1>1, <1>2, <1>3, <1>4, <1>5, <1>6, <1>7, <1>8, <1>9, <1>10, <1>11, <1>12, <1>13, <1>14
     DEF Next, Running, Calling, Threads, Finished

\* The entries of a key are changed by a set that is placed, noted or reported,
\* and by a deletion.
LEMMA InfosFitStays == Base /\ [Next]_vars => InfosFit'
<1> DEFINE Fits(info, m) == info # None => info.stripe < m
<1> SUFFICES ASSUME Base, [Next]_vars, NEW key \in Keys
             PROVE  /\ Fits(m_object_commit_table'[key], m_cur_stripe_id')
                    /\ Fits(m_object_updating_table'[key], m_cur_stripe_id')
  BY DEF InfosFit
<1>b. /\ Fits(m_object_commit_table[key], m_cur_stripe_id)
      /\ Fits(m_object_updating_table[key], m_cur_stripe_id) /\ Typed /\ ThreadsFit
  BY DEF Base, InfosFit
<1>n. ASSUME NEW info \in Info \union {None}, Fits(info, m_cur_stripe_id)
      PROVE  Fits(info, m_cur_stripe_id + 1)
  BY <1>n, <1>b, CallShape DEF Typed, Info, StripeIds
<1>m. Fits(None, m_cur_stripe_id + 1) /\ Fits(None, m_cur_stripe_id)
  OBVIOUS
<1>0. CASE UNCHANGED <<m_object_commit_table, m_object_updating_table, m_cur_stripe_id>>
  BY <1>b, <1>0
<1>1. ASSUME NEW c \in Clients, PlaceObject(c)
      PROVE  /\ Fits(m_object_commit_table'[key], m_cur_stripe_id')
             /\ Fits(m_object_updating_table'[key], m_cur_stripe_id')
  <2>1. /\ m_object_commit_table[key] \in Info \union {None}
        /\ m_object_updating_table[key] \in Info \union {None}
    BY <1>b DEF Typed
  <2>2. m_object_commit_table'[key] = m_object_commit_table[key] \/ m_object_commit_table'[key] = None
    BY <1>1, PlaceEffect
  <2>3. m_object_updating_table' = m_object_updating_table /\ m_cur_stripe_id' = m_cur_stripe_id + 1
    BY <1>1, PlaceEffect
  <2>4. Fits(m_object_commit_table[key], m_cur_stripe_id + 1)
    BY <1>b, <1>n, <2>1
  <2>5. Fits(m_object_updating_table[key], m_cur_stripe_id + 1)
    BY <1>b, <1>n, <2>1
  <2> HIDE DEF Fits
  <2>. QED
    BY <1>m, <2>2, <2>3, <2>4, <2>5
<1>2. ASSUME NEW c \in Clients, NoteUpdating(c)
      PROVE  /\ Fits(m_object_commit_table'[key], m_cur_stripe_id')
             /\ Fits(m_object_updating_table'[key], m_cur_stripe_id')
  <2>1. InfoOf(call(c)).stripe < m_cur_stripe_id
    BY <1>b, <1>2, NoteEffect DEF InfoOf, ThreadsFit, Fit
  <2>. QED
    BY <1>b, <1>2, <2>1, NoteEffect
<1>3. ASSUME NEW c \in Clients, CopyInfo(c)
      PROVE  /\ Fits(m_object_commit_table'[key], m_cur_stripe_id')
             /\ Fits(m_object_updating_table'[key], m_cur_stripe_id')
  <2>1. m_object_updating_table'[key] \in {m_object_updating_table[key], m_object_commit_table[key]}
    BY <1>3, CopyEffect
  <2>2. m_object_commit_table' = m_object_commit_table /\ m_cur_stripe_id' = m_cur_stripe_id
    BY <1>3, CopyEffect
  <2> HIDE DEF Fits
  <2>. QED
    BY <1>b, <2>1, <2>2
<1>4. ASSUME NEW t \in Calls, ReportSet(t)
      PROVE  /\ Fits(m_object_commit_table'[key], m_cur_stripe_id')
             /\ Fits(m_object_updating_table'[key], m_cur_stripe_id')
  <2>1. m_object_updating_table'[key] \in {m_object_updating_table[key], None}
    BY <1>4, ReportSetEffect
  <2>2. m_object_commit_table'[key] \in {m_object_commit_table[key], m_object_updating_table[key], DefaultInfo}
    BY <1>4, ReportSetEffect
  <2>3. m_cur_stripe_id' = m_cur_stripe_id
    BY <1>4, ReportSetEffect
  <2>4. Fits(DefaultInfo, m_cur_stripe_id)
    <3>1. thread[t] # None
      BY <1>4, ReportSetEffect
    <3>2. thread[t].stripe < m_cur_stripe_id /\ thread[t].stripe \in Nat /\ m_cur_stripe_id \in Nat
      BY <1>b, <3>1, CallShape DEF ThreadsFit, Fit, Typed, Thread, StripeIds
    <3>3. DefaultInfo.stripe = 0
      BY DEF DefaultInfo
    <3>. QED
      BY <3>2, <3>3
  <2> HIDE DEF Fits
  <2>. QED
    BY <1>b, <1>m, <2>1, <2>2, <2>3, <2>4
<1>5. ASSUME NEW t \in Calls, ReportDelete(t)
      PROVE  /\ Fits(m_object_commit_table'[key], m_cur_stripe_id')
             /\ Fits(m_object_updating_table'[key], m_cur_stripe_id')
  <2>1. /\ m_object_updating_table'[key] \in {m_object_updating_table[key], None}
        /\ m_object_commit_table'[key] \in {m_object_commit_table[key], None}
        /\ m_cur_stripe_id' = m_cur_stripe_id
    BY <1>5, ReportDeleteEffect
  <2> HIDE DEF Fits
  <2>. QED
    BY <1>b, <1>m, <2>1
<1>6. CASE UNCHANGED vars
  BY <1>0, <1>6 DEF vars, coordVars
<1>7. ASSUME NEW c \in Clients,
             StartCall(c) \/ SendValue(c) \/ CheckCommitAbort(c) \/ LookUp(c) \/ AnswerGet(c)
               \/ \E b \in Blocks : ReadBlock(c, b)
      PROVE  UNCHANGED <<m_object_commit_table, m_object_updating_table, m_cur_stripe_id>>
  BY <1>7 DEF StartCall, SendValue, CheckCommitAbort, LookUp, AnswerGet, ReadBlock, coordVars
<1>8. ASSUME NEW t \in Calls,
             AcceptAndEncode(t) \/ (\E b \in Blocks : handleSet(t, b))
               \/ \E f \in left[t] : handleDelete(t, f)
      PROVE  UNCHANGED <<m_object_commit_table, m_object_updating_table, m_cur_stripe_id>>
  BY <1>8 DEF AcceptAndEncode, handleSet, handleDelete, coordVars
<1> HIDE DEF Fits
<1>. QED
  BY <1>0, <1>1, <1>2, <1>3, <1>4, <1>5, <1>6, <1>7, <1>8
     DEF Next, Running, Calling, Threads, Finished

-----------------------------------------------------------------------------
(* Connections and threads of a proxy stay as many.                        *)

\* The sets of calls that are compared are finite.
LEMMA FiniteConnections ==
  ASSUME Typed, NEW cl
  PROVE  /\ IsFiniteSet(Accepting(cl)) /\ IsFiniteSet(Waiting(cl)) /\ IsFiniteSet(Unsent(cl))
         /\ Cardinality(Accepting(cl)) \in Nat /\ Cardinality(Waiting(cl)) \in Nat
         /\ Cardinality(Unsent(cl)) \in Nat
<1>1. Accepting(cl) \subseteq Calls /\ Waiting(cl) \subseteq Calls /\ Unsent(cl) \subseteq Calls
  BY DEF Accepting, Waiting, Unsent, Typed
<1>2. IsFiniteSet(Calls)
  BY CallShape
<1>3. IsFiniteSet(Accepting(cl)) /\ IsFiniteSet(Waiting(cl)) /\ IsFiniteSet(Unsent(cl))
  BY <1>1, <1>2, FS_Subset
<1>. QED
  BY <1>3, FS_CardinalityType

\* A set that is to send its value has a thread; it is the call of its client.
LEMMA UnsentShape ==
  ASSUME Base, NEW t \in Calls, At(t, {"placed", "sending"})
  PROVE  t = call(t[1]) /\ t[1] \in Clients /\ thread[t] # None /\ Placed(t)
<1>1. t[1] \in Clients /\ t = call(t[1])
  BY CallShape DEF At, call
<1>2. pc[t[1]] \in {"placed", "sending"}
  BY DEF At
<1>3. thread[t] # None /\ Kind(t[1]) = "set"
  BY <1>1, <1>2 DEF Base, Positions, Position
<1>. QED
  BY <1>1, <1>3 DEF Placed, Kind

\* A step that opens and takes no connection keeps both counts.
LEMMA ConnectedFrame ==
  ASSUME Base, Connected, queue' = queue, [Next]_vars,
         \A t \in Calls : At(t, {"placed", "sending"})' <=> At(t, {"placed", "sending"}),
         \A t \in Calls :
           \/ thread'[t] = thread[t]
           \/ /\ thread'[t] # None /\ thread'[t].at # "accepting"
              /\ thread[t] # None => /\ thread[t].at # "accepting"
                                     /\ thread'[t].cluster = thread[t].cluster
  PROVE  Connected'
<1>b. Typed /\ queue \subseteq Calls
  BY DEF Base, Typed
<1>s. \A t : kindOf(t)' = kindOf(t)
  BY ScriptStays
<1>1. \A u \in queue' : Placed(u)' /\ ~ At(u, {"placed", "sending"})'
  BY <1>b, <1>s DEF Connected, Placed
<1>2. ASSUME NEW cl \in Clusters
      PROVE  Accepting(cl)' = Accepting(cl) /\ Waiting(cl)' = Waiting(cl) /\ Unsent(cl)' = Unsent(cl)
  <2>1. Accepting(cl)' = Accepting(cl)
    BY DEF Accepting
  <2>2. Waiting(cl)' = Waiting(cl)
    <3>1. \A u \in queue : thread'[u].cluster = thread[u].cluster
      BY <1>b DEF Connected, Placed
    <3>. QED
      BY <3>1 DEF Waiting
  <2>3. Unsent(cl)' = Unsent(cl)
    <3>1. \A t \in Calls : At(t, {"placed", "sending"}) => thread'[t].cluster = thread[t].cluster
      BY UnsentShape
    <3>2. \A t \in Calls : (At(t, {"placed", "sending"})' /\ thread'[t].cluster = cl)
                             <=> (At(t, {"placed", "sending"}) /\ thread[t].cluster = cl)
      BY <3>1
    <3>3. Unsent(cl)' = {t \in Calls : At(t, {"placed", "sending"})' /\ thread'[t].cluster = cl}
      BY DEF Unsent
    <3>. QED
      BY <3>2, <3>3 DEF Unsent
  <2>. QED
    BY <2>1, <2>2, <2>3
<1>3. \A cl \in Clusters :
        Cardinality(Accepting(cl)') = Cardinality(Waiting(cl)') + Cardinality(Unsent(cl)')
  BY <1>2 DEF Connected
<1>. QED
  BY <1>1, <1>3 DEF Connected

\* A client that does not come from, and does not go to, the points where a
\* value is to be sent.
LEMMA SamePoints ==
  ASSUME NEW where, \A d \in Clients : pc[d] \in where \/ pc'[d] \in where =>
                      step'[d] = step[d] /\ (pc'[d] \in where <=> pc[d] \in where)
  PROVE  \A t \in Calls : At(t, where)' <=> At(t, where)
BY CallShape DEF At

\* A proxy's threads that accept are as many as the connections that wait or are
\* still to be made.
LEMMA ConnectedStays == Base /\ Connected /\ [Next]_vars => Connected'
<1> SUFFICES ASSUME Base, Connected, [Next]_vars PROVE Connected'
  OBVIOUS
<1>b. Typed /\ ThreadsFit /\ queue \subseteq Calls
  BY DEF Base, Typed
<1>s. \A t : kindOf(t)' = kindOf(t)
  BY ScriptStays
<1> DEFINE P == {"placed", "sending"}
<1>0. ASSUME UNCHANGED vars PROVE Connected'
  <2>1. UNCHANGED <<queue, thread, pc, step>>
    BY <1>0 DEF vars, clientVars, proxyVars
  <2>2. \A t \in Calls : At(t, P)' <=> At(t, P)
    BY <2>1 DEF At
  <2>. QED
    BY <2>1, <2>2, ConnectedFrame
<1>1. ASSUME NEW c \in Clients, StartCall(c) PROVE Connected'
  <2>1. \A d \in Clients : pc[d] \in P \/ pc'[d] \in P =>
           step'[d] = step[d] /\ (pc'[d] \in P <=> pc[d] \in P)
    BY <1>1, StartEffect DEF Kinds
  <2>2. \A t \in Calls : At(t, P)' <=> At(t, P)
    BY <2>1, SamePoints
  <2>. QED
    BY <1>1, <2>2, StartEffect, ConnectedFrame
<1>2. ASSUME NEW c \in Clients, PlaceObject(c) PROVE Connected'
  <2>0. PICK t \in Calls : t = call(c)
    BY <1>2, PlaceEffect
  <2>x. PICK x : x = thread'[t].cluster
    OBVIOUS
  <2>1. /\ t \in Calls /\ thread[t] = None /\ thread'[t] # None /\ thread'[t].at = "accepting"
        /\ \A u \in Calls : u # t => thread'[u] = thread[u]
        /\ queue' = queue /\ step' = step /\ script' = script /\ Kind(c) = "set" /\ pc[c] = "set"
        /\ pc'[c] = "placed" /\ \A d \in Clients : d # c => pc'[d] = pc[d]
    BY <1>2, <2>0, PlaceEffect
  <2>2. t[1] = c /\ t[2] = step[c]
    BY <2>0 DEF call
  <2>3. At(t, P)' /\ ~ At(t, P)
    BY <2>1, <2>2 DEF At
  <2>4. \A u \in Calls : u # t => (At(u, P)' <=> At(u, P))
    BY <2>0, <2>1, CallShape DEF At, call
  <2>5. t \notin queue
    BY <2>1 DEF Connected, Placed
  <2> HIDE DEF P
  <2>6. \A u \in queue' : Placed(u)' /\ ~ At(u, {"placed", "sending"})'
    BY <1>b, <1>s, <2>1, <2>4, <2>5 DEF Connected, Placed, P
  <2>7. ASSUME NEW cl \in Clusters
        PROVE  Cardinality(Accepting(cl)') = Cardinality(Waiting(cl)') + Cardinality(Unsent(cl)')
    <3>1. Waiting(cl)' = Waiting(cl)
      BY <1>b, <2>1, <2>5 DEF Waiting
    <3>2. t \notin Accepting(cl) /\ t \notin Unsent(cl)
      BY <2>1, <2>3 DEF Accepting, Unsent, P
    <3>3. Accepting(cl)' = IF x = cl THEN Accepting(cl) \union {t} ELSE Accepting(cl)
      BY <2>1, <2>x DEF Accepting
    <3>4. Unsent(cl)' = IF x = cl THEN Unsent(cl) \union {t} ELSE Unsent(cl)
      <4>1. Unsent(cl)' = {u \in Calls : At(u, P)' /\ thread'[u].cluster = cl}
        BY DEF Unsent, P
      <4>2. Unsent(cl) = {u \in Calls : At(u, P) /\ thread[u].cluster = cl}
        BY DEF Unsent, P
      <4>. QED
        BY <2>1, <2>3, <2>4, <2>x, <4>1, <4>2
    <3>5. Cardinality(Accepting(cl)) = Cardinality(Waiting(cl)) + Cardinality(Unsent(cl))
      BY DEF Connected
    <3>6. /\ IsFiniteSet(Accepting(cl)) /\ IsFiniteSet(Unsent(cl))
          /\ Cardinality(Accepting(cl)) \in Nat /\ Cardinality(Waiting(cl)) \in Nat
          /\ Cardinality(Unsent(cl)) \in Nat
      BY <1>b, FiniteConnections
    <3>7. /\ Cardinality(Accepting(cl) \union {t}) = Cardinality(Accepting(cl)) + 1
          /\ Cardinality(Unsent(cl) \union {t}) = Cardinality(Unsent(cl)) + 1
      BY <3>2, <3>6, FS_AddElement
    <3>. QED
      BY <3>1, <3>3, <3>4, <3>5, <3>6, <3>7
  <2>. QED
    BY <2>6, <2>7 DEF Connected
<1>3. ASSUME NEW c \in Clients, NoteUpdating(c) PROVE Connected'
  <2>1. \A d \in Clients : pc[d] \in P \/ pc'[d] \in P =>
           step'[d] = step[d] /\ (pc'[d] \in P <=> pc[d] \in P)
    BY <1>3, NoteEffect
  <2>2. \A t \in Calls : At(t, P)' <=> At(t, P)
    BY <2>1, SamePoints
  <2>. QED
    BY <1>3, <2>2, NoteEffect, ConnectedFrame
<1>4. ASSUME NEW c \in Clients, SendValue(c) PROVE Connected'
  <2>0. PICK t \in Calls : t = call(c)
    BY <1>4, SendEffect
  <2>x. PICK x : x = thread[t].cluster
    OBVIOUS
  <2>1. /\ t \in Calls /\ thread[t] # None /\ thread' = thread /\ Kind(c) = "set"
        /\ queue' = queue \union {t} /\ step' = step /\ pc[c] = "sending"
        /\ pc'[c] = "checking" /\ \A d \in Clients : d # c => pc'[d] = pc[d]
    BY <1>4, <2>0, SendEffect
  <2>2. t[1] = c /\ t[2] = step[c] /\ kindOf(t) = "set"
    BY <2>0, <2>1 DEF call, Kind
  <2>3. ~ At(t, P)' /\ At(t, P)
    BY <2>1, <2>2 DEF At
  <2>4. \A u \in Calls : u # t => (At(u, P)' <=> At(u, P))
    BY <2>0, <2>1, CallShape DEF At, call
  <2>5. t \notin queue
    BY <2>3 DEF Connected
  <2> HIDE DEF P
  <2>6. \A u \in queue' : Placed(u)' /\ ~ At(u, {"placed", "sending"})'
    BY <1>b, <1>s, <2>1, <2>2, <2>3, <2>4, <2>5 DEF Connected, Placed, P
  <2>7. ASSUME NEW cl \in Clusters
        PROVE  Cardinality(Accepting(cl)') = Cardinality(Waiting(cl)') + Cardinality(Unsent(cl)')
    <3>1. Accepting(cl)' = Accepting(cl)
      BY <2>1 DEF Accepting
    <3>2. t \notin Waiting(cl) /\ (x = cl => t \in Unsent(cl))
      BY <2>1, <2>3, <2>5, <2>x DEF Waiting, Unsent, P
    <3>3. Waiting(cl)' = IF x = cl THEN Waiting(cl) \union {t} ELSE Waiting(cl)
      BY <2>1, <2>x DEF Waiting
    <3>4. Unsent(cl)' = IF x = cl THEN Unsent(cl) \ {t} ELSE Unsent(cl)
      <4>1. Unsent(cl)' = {u \in Calls : At(u, P)' /\ thread'[u].cluster = cl}
        BY DEF Unsent, P
      <4>2. Unsent(cl) = {u \in Calls : At(u, P) /\ thread[u].cluster = cl}
        BY DEF Unsent, P
      <4>. QED
        BY <2>1, <2>3, <2>4, <2>x, <4>1, <4>2
    <3>5. Cardinality(Accepting(cl)) = Cardinality(Waiting(cl)) + Cardinality(Unsent(cl))
      BY DEF Connected
    <3>6. /\ IsFiniteSet(Waiting(cl)) /\ IsFiniteSet(Unsent(cl))
          /\ Cardinality(Accepting(cl)) \in Nat /\ Cardinality(Waiting(cl)) \in Nat
          /\ Cardinality(Unsent(cl)) \in Nat
      BY <1>b, FiniteConnections
    <3>7. Cardinality(Waiting(cl) \union {t}) = Cardinality(Waiting(cl)) + 1
      BY <3>2, <3>6, FS_AddElement
    <3>8. x = cl => Cardinality(Unsent(cl) \ {t}) = Cardinality(Unsent(cl)) - 1
      BY <3>2, <3>6, FS_RemoveElement
    <3>. QED
      BY <3>1, <3>3, <3>4, <3>5, <3>6, <3>7, <3>8
  <2>. QED
    BY <2>6, <2>7 DEF Connected
<1>5. ASSUME NEW t \in Calls, AcceptAndEncode(t) PROVE Connected'
  <2> DEFINE x == thread[t].cluster
  <2>1. /\ thread[t] # None /\ thread[t].at = "accepting" /\ thread'[t].at = "sent"
        /\ \A u \in Calls : u # t => thread'[u] = thread[u]
        /\ \A u \in Calls : (thread'[u] # None <=> thread[u] # None)
        /\ \A u \in Calls : thread[u] # None => thread'[u].cluster = thread[u].cluster
        /\ step' = step /\ pc' = pc
    BY <1>5, AcceptEffect
  <2>2. PICK u \in queue : u \in Calls /\ thread[u].cluster = x /\ queue' = queue \ {u}
    BY <1>5, AcceptEffect
  <2>3. \A v \in Calls : At(v, P)' <=> At(v, P)
    BY <2>1 DEF At
  <2> HIDE DEF P, x
  <2>4. \A v \in queue' : Placed(v)' /\ ~ At(v, {"placed", "sending"})'
    BY <1>b, <1>s, <2>1, <2>2, <2>3 DEF Connected, Placed, P
  <2>5. ASSUME NEW cl \in Clusters
        PROVE  Cardinality(Accepting(cl)') = Cardinality(Waiting(cl)') + Cardinality(Unsent(cl)')
    <3>1. x = cl => t \in Accepting(cl) /\ u \in Waiting(cl)
      BY <2>1, <2>2 DEF Accepting, Waiting, x
    <3>2. Accepting(cl)' = IF x = cl THEN Accepting(cl) \ {t} ELSE Accepting(cl)
      BY <2>1 DEF Accepting, x
    <3>3. Waiting(cl)' = IF x = cl THEN Waiting(cl) \ {u} ELSE Waiting(cl)
      <4>1. \A v \in queue : thread'[v].cluster = thread[v].cluster
        BY <1>b, <2>1 DEF Connected, Placed
      <4>. QED
        BY <2>2, <4>1 DEF Waiting
    <3>4. Unsent(cl)' = Unsent(cl)
      <4>1. Unsent(cl)' = {v \in Calls : At(v, P)' /\ thread'[v].cluster = cl}
        BY DEF Unsent, P
      <4>2. Unsent(cl) = {v \in Calls : At(v, P) /\ thread[v].cluster = cl}
        BY DEF Unsent, P
      <4>3. \A v \in Calls : At(v, P) => thread'[v].cluster = thread[v].cluster
        BY <2>1, UnsentShape DEF P
      <4>. QED
        BY <2>3, <4>1, <4>2, <4>3
    <3>5. Cardinality(Accepting(cl)) = Cardinality(Waiting(cl)) + Cardinality(Unsent(cl))
      BY DEF Connected
    <3>6. /\ IsFiniteSet(Waiting(cl)) /\ IsFiniteSet(Accepting(cl))
          /\ Cardinality(Accepting(cl)) \in Nat /\ Cardinality(Waiting(cl)) \in Nat
          /\ Cardinality(Unsent(cl)) \in Nat
      BY <1>b, FiniteConnections
    <3>7. x = cl => /\ Cardinality(Waiting(cl) \ {u}) = Cardinality(Waiting(cl)) - 1
                    /\ Cardinality(Accepting(cl) \ {t}) = Cardinality(Accepting(cl)) - 1
      BY <3>1, <3>6, FS_RemoveElement
    <3>. QED
      BY <3>2, <3>3, <3>4, <3>5, <3>6, <3>7
  <2>. QED
    BY <2>4, <2>5 DEF Connected
<1>6. ASSUME UNCHANGED <<queue, thread, pc, step>> PROVE Connected'
  <2>2. \A t \in Calls : At(t, P)' <=> At(t, P)
    BY <1>6 DEF At
  <2>. QED
    BY <1>6, <2>2, ConnectedFrame
<1>7. ASSUME NEW c \in Clients, CopyInfo(c) PROVE Connected'
  <2>1. \A d \in Clients : pc[d] \in P \/ pc'[d] \in P =>
           step'[d] = step[d] /\ (pc'[d] \in P <=> pc[d] \in P)
    BY <1>7, CopyEffect
  <2>2. \A t \in Calls : At(t, P)' <=> At(t, P)
    BY <2>1, SamePoints
  <2>. QED
    BY <1>7, <2>2, CopyEffect, ConnectedFrame
<1>8. ASSUME NEW c \in Clients, LookUp(c) PROVE Connected'
  <2>1. \A d \in Clients : pc[d] \in P \/ pc'[d] \in P =>
           step'[d] = step[d] /\ (pc'[d] \in P <=> pc[d] \in P)
    BY <1>8, LookEffect
  <2>2. \A t \in Calls : At(t, P)' <=> At(t, P)
    BY <2>1, SamePoints
  <2>3. \A t \in Calls :
           \/ thread'[t] = thread[t]
           \/ /\ thread'[t] # None /\ thread'[t].at # "accepting" /\ thread[t] = None
    BY <1>8, LookEffect
  <2>4. queue' = queue
    BY <1>8, LookEffect
  <2>. QED
    BY <2>2, <2>3, <2>4, ConnectedFrame
<1>9. ASSUME NEW c \in Clients, AnswerGet(c) PROVE Connected'
  <2>1. \A d \in Clients : pc[d] \in P \/ pc'[d] \in P =>
           step'[d] = step[d] /\ (pc'[d] \in P <=> pc[d] \in P)
    BY <1>9, AnswerEffect
  <2>2. \A t \in Calls : At(t, P)' <=> At(t, P)
    BY <2>1, SamePoints
  <2>. QED
    BY <1>9, <2>2, AnswerEffect, ConnectedFrame
<1>10. ASSUME NEW t \in Calls, ReportSet(t) PROVE Connected'
  <2>1. \A d \in Clients : pc[d] \in P \/ pc'[d] \in P =>
           step'[d] = step[d] /\ (pc'[d] \in P <=> pc[d] \in P)
    BY <1>10, ReportSetEffect
  <2>2. \A u \in Calls : At(u, P)' <=> At(u, P)
    BY <2>1, SamePoints
  <2>3. \A u \in Calls :
           \/ thread'[u] = thread[u]
           \/ /\ thread'[u] # None /\ thread'[u].at # "accepting" /\ thread[u].at # "accepting"
              /\ thread'[u].cluster = thread[u].cluster
    BY <1>10, ReportSetEffect
  <2>4. queue' = queue
    BY <1>10, ReportSetEffect
  <2>. QED
    BY <2>2, <2>3, <2>4, ConnectedFrame
<1>11. ASSUME NEW t \in Calls, ReportDelete(t) PROVE Connected'
  <2>1. \A d \in Clients : pc[d] \in P \/ pc'[d] \in P =>
           step'[d] = step[d] /\ (pc'[d] \in P <=> pc[d] \in P)
    BY <1>11, ReportDeleteEffect
  <2>2. \A u \in Calls : At(u, P)' <=> At(u, P)
    BY <2>1, SamePoints
  <2>3. \A u \in Calls :
           \/ thread'[u] = thread[u]
           \/ /\ thread'[u] # None /\ thread'[u].at # "accepting" /\ thread[u].at # "accepting"
              /\ thread'[u].cluster = thread[u].cluster
    BY <1>11, ReportDeleteEffect
  <2>4. queue' = queue
    BY <1>11, ReportDeleteEffect
  <2>. QED
    BY <2>2, <2>3, <2>4, ConnectedFrame
<1>12. ASSUME NEW c \in Clients, CheckCommitAbort(c) PROVE Connected'
  <2>1. \A d \in Clients : pc[d] \in P \/ pc'[d] \in P =>
           step'[d] = step[d] /\ (pc'[d] \in P <=> pc[d] \in P)
    BY <1>12, CheckEffect
  <2>2. \A t \in Calls : At(t, P)' <=> At(t, P)
    BY <2>1, SamePoints
  <2>. QED
    BY <1>12, <2>2, CheckEffect, ConnectedFrame
<1>13. ASSUME NEW t \in Calls,
              (\E b \in Blocks : handleSet(t, b)) \/ (\E f \in left[t] : handleDelete(t, f))
       PROVE  UNCHANGED <<queue, thread, pc, step>>
  BY <1>13 DEF handleSet, handleDelete, clientVars, proxyVars
<1>14. ASSUME NEW c \in Clients, NEW b \in Blocks, ReadBlock(c, b)
       PROVE  UNCHANGED <<queue, thread, pc, step>>
  BY <1>14 DEF ReadBlock, proxyVars
<1>. QED
  BY <1>0, <1>1, <1>2, <1>3, <1>4, <1>5, <1>6, <1>7, <1>8, <1>9, <1>10, <1>11, <1>12, <1>13, <1>14
     DEF Next, Running, Calling, Threads, Finished

-----------------------------------------------------------------------------
(* Stripes have numbers of their own.                                      *)

\* A step that places no stripe.
LEMMA NumberedFrame ==
  ASSUME Numbered, [Next]_vars, m_cur_stripe_id' = m_cur_stripe_id,
         \A t \in Calls : Placed(t)' <=> Placed(t),
         \A t \in Calls : Placed(t) => /\ thread'[t].stripe = thread[t].stripe
                                       /\ thread'[t].home = thread[t].home,
         \A id \in StripeIds : m_stripe_table'[id] \in {m_stripe_table[id], None}
  PROVE  Numbered'
<1>s. \A t : keyOf(t)' = keyOf(t)
  BY ScriptStays
<1>1. m_cur_stripe_id' = Cardinality({t \in Calls : Placed(t)'})
  <2>1. {t \in Calls : Placed(t)'} = {t \in Calls : Placed(t)}
    OBVIOUS
  <2>. QED
    BY <2>1 DEF Numbered
<1>2. \A t, u \in Calls :
        Placed(t)' /\ Placed(u)' /\ thread'[t].stripe = thread'[u].stripe => t = u
  BY DEF Numbered
<1>3. ASSUME NEW id \in StripeIds, m_stripe_table'[id] # None
      PROVE  \E t \in Calls : /\ Placed(t)' /\ thread'[t].stripe = id
                              /\ m_stripe_table'[id] = [key |-> keyOf(t)', home |-> thread'[t].home]
  <2>1. m_stripe_table'[id] = m_stripe_table[id]
    BY <1>3
  <2>2. PICK t \in Calls : /\ Placed(t) /\ thread[t].stripe = id
                           /\ m_stripe_table[id] = [key |-> keyOf(t), home |-> thread[t].home]
    BY <1>3, <2>1 DEF Numbered
  <2>. QED
    BY <1>s, <2>1, <2>2
<1>. QED
  BY <1>1, <1>2, <1>3 DEF Numbered

\* A set that was placed stays placed, and its stripe where it is.
LEMMA PlacedStays ==
  ASSUME Base, [Next]_vars, NEW t \in Calls, Placed(t)
  PROVE  Placed(t)' /\ thread'[t].stripe = thread[t].stripe /\ thread'[t].home = thread[t].home
         /\ thread'[t].cluster = thread[t].cluster
         /\ Names(t)' = Names(t) /\ \A b : Name(t, b)' = Name(t, b)
         /\ InfoOf(t)' = InfoOf(t)
<1>s. kindOf(t)' = kindOf(t) /\ keyOf(t)' = keyOf(t)
  BY ScriptStays
<1>p. thread[t] # None
  BY DEF Placed
<1> DEFINE Same == /\ thread'[t] # None /\ thread'[t].stripe = thread[t].stripe
                   /\ thread'[t].home = thread[t].home /\ thread'[t].cluster = thread[t].cluster
<1>0. ASSUME thread'[t] = thread[t] PROVE Same
  BY <1>0, <1>p
<1>1. ASSUME NEW c \in Clients, PlaceObject(c) PROVE Same
  BY <1>1, <1>p, PlaceEffect
<1>2. ASSUME NEW u \in Calls, AcceptAndEncode(u) PROVE Same
  BY <1>2, <1>p, AcceptEffect
<1>3. ASSUME NEW c \in Clients, LookUp(c) PROVE Same
  BY <1>3, <1>p, LookEffect
<1>4. ASSUME NEW u \in Calls, ReportSet(u) PROVE Same
  BY <1>4, <1>p, ReportSetEffect
<1>5. ASSUME NEW u \in Calls, ReportDelete(u) PROVE Same
  BY <1>5, <1>p, ReportDeleteEffect
<1>6. ASSUME UNCHANGED vars PROVE thread'[t] = thread[t]
  BY <1>6 DEF vars, proxyVars
<1>7. ASSUME NEW c \in Clients,
             StartCall(c) \/ NoteUpdating(c) \/ SendValue(c) \/ CopyInfo(c) \/ CheckCommitAbort(c)
               \/ AnswerGet(c) \/ \E b \in Blocks : ReadBlock(c, b)
      PROVE  thread' = thread
  BY <1>7 DEF StartCall, NoteUpdating, SendValue, CopyInfo, CheckCommitAbort, AnswerGet, ReadBlock,
              proxyVars
<1>8. ASSUME NEW u \in Calls,
             (\E b \in Blocks : handleSet(u, b)) \/ (\E f \in left[u] : handleDelete(u, f))
      PROVE  thread' = thread
  BY <1>8 DEF handleSet, handleDelete, proxyVars
<1>9. Same
  <2> HIDE DEF Same
  <2>. QED
    BY <1>0, <1>1, <1>2, <1>3, <1>4, <1>5, <1>6, <1>7, <1>8
       DEF Next, Running, Calling, Threads, Finished
<1>. QED
  BY <1>s, <1>9 DEF Placed, Name, Names, InfoOf, FileOf

\* A stripe is placed under a number greater than all the others.
LEMMA NumberedStays == Base /\ Numbered /\ [Next]_vars => Numbered'
<1> SUFFICES ASSUME Base, Numbered, [Next]_vars PROVE Numbered'
  OBVIOUS
<1>b. Typed /\ ThreadsFit
  BY DEF Base
<1>s. \A t : kindOf(t)' = kindOf(t) /\ keyOf(t)' = keyOf(t)
  BY ScriptStays
<1>p. \A t \in Calls : Placed(t) => /\ Placed(t)' /\ thread'[t].stripe = thread[t].stripe
                                    /\ thread'[t].home = thread[t].home
  BY PlacedStays
<1>0. ASSUME m_cur_stripe_id' = m_cur_stripe_id, m_stripe_table' = m_stripe_table,
             \A t \in Calls : Placed(t)' => Placed(t)
      PROVE  Numbered'
  BY <1>0, <1>p, NumberedFrame
<1>t. ASSUME UNCHANGED <<m_cur_stripe_id, m_stripe_table, thread>> PROVE Numbered'
  <2>1. \A t \in Calls : Placed(t)' => Placed(t)
    BY <1>t, <1>s DEF Placed
  <2>. QED
    BY <1>0, <1>t, <2>1
<1>1. ASSUME NEW c \in Clients, PlaceObject(c) PROVE Numbered'
  <2>0. PICK t \in Calls : t = call(c)
    BY <1>1, PlaceEffect
  <2>1. /\ thread[t] = None /\ thread'[t] # None /\ thread'[t].stripe = m_cur_stripe_id
        /\ \A u \in Calls : u # t => thread'[u] = thread[u]
        /\ Kind(c) = "set" /\ m_cur_stripe_id' = m_cur_stripe_id + 1 /\ m_cur_stripe_id \in Nat
        /\ m_stripe_table'[m_cur_stripe_id] = [key |-> Key(c), home |-> thread'[t].home]
        /\ \A id \in StripeIds : id # m_cur_stripe_id => m_stripe_table'[id] = m_stripe_table[id]
    BY <1>1, <2>0, PlaceEffect
  <2>2. Placed(t)' /\ ~ Placed(t) /\ keyOf(t)' = Key(c)
    BY <1>s, <2>0, <2>1 DEF Placed, Kind, Key
  <2>3. \A u \in Calls : u # t => (Placed(u)' <=> Placed(u))
    BY <1>s, <2>1 DEF Placed
  <2>4. \A u \in Calls : Placed(u) => thread[u].stripe # m_cur_stripe_id
    <3>1. \A u \in Calls : Placed(u) => thread[u].stripe < m_cur_stripe_id /\ thread[u].stripe \in Nat
      BY <1>b, CallShape DEF Placed, ThreadsFit, Fit, Typed, Thread, StripeIds
    <3>. QED
      BY <2>1, <3>1
  <2>5. m_cur_stripe_id' = Cardinality({u \in Calls : Placed(u)'})
    <3> DEFINE Q == {u \in Calls : Placed(u)}
    <3>1. {u \in Calls : Placed(u)'} = Q \union {t}
      BY <2>2, <2>3
    <3>2. IsFiniteSet(Q)
      BY CallShape, FS_Subset
    <3>3. t \notin Q
      BY <2>2
    <3>4. m_cur_stripe_id = Cardinality(Q)
      BY DEF Numbered
    <3> HIDE DEF Q
    <3>5. Cardinality(Q \union {t}) = Cardinality(Q) + 1
      BY <3>2, <3>3, FS_AddElement
    <3>. QED
      BY <2>1, <3>1, <3>4, <3>5
  <2>6. \A v, u \in Calls :
          Placed(v)' /\ Placed(u)' /\ thread'[v].stripe = thread'[u].stripe => v = u
    BY <2>1, <2>2, <2>3, <2>4 DEF Numbered
  <2>7. ASSUME NEW id \in StripeIds, m_stripe_table'[id] # None
        PROVE  \E v \in Calls : /\ Placed(v)' /\ thread'[v].stripe = id
                                /\ m_stripe_table'[id] = [key |-> keyOf(v)', home |-> thread'[v].home]
    <3>1. CASE id = m_cur_stripe_id
      BY <2>1, <2>2, <3>1
    <3>2. CASE id # m_cur_stripe_id
      <4>1. PICK v \in Calls : /\ Placed(v) /\ thread[v].stripe = id
                               /\ m_stripe_table[id] = [key |-> keyOf(v), home |-> thread[v].home]
        BY <2>1, <2>7, <3>2 DEF Numbered
      <4>. QED
        BY <1>p, <1>s, <2>1, <3>2, <4>1
    <3>. QED
      BY <3>1, <3>2
  <2>. QED
    BY <2>5, <2>6, <2>7 DEF Numbered
<1>2. ASSUME NEW t \in Calls, AcceptAndEncode(t) PROVE Numbered'
  <2>1. \A u \in Calls : Placed(u)' => Placed(u)
    BY <1>2, <1>s, AcceptEffect DEF Placed
  <2>. QED
    BY <1>0, <1>2, <2>1, AcceptEffect
<1>3. ASSUME NEW c \in Clients, LookUp(c) PROVE Numbered'
  <2>1. \A u \in Calls : Placed(u)' => Placed(u)
    <3>1. \A u \in Calls : thread'[u] = thread[u] \/ (u = call(c) /\ Kind(c) = "del")
      BY <1>3, LookEffect
    <3>. QED
      BY <1>s, <3>1 DEF Placed, Kind
  <2>. QED
    BY <1>0, <1>3, <2>1, LookEffect
<1>4. ASSUME NEW t \in Calls, ReportSet(t) PROVE Numbered'
  <2>1. \A u \in Calls : Placed(u)' => Placed(u)
    BY <1>4, <1>s, ReportSetEffect DEF Placed
  <2>. QED
    BY <1>0, <1>4, <2>1, ReportSetEffect
<1>5. ASSUME NEW t \in Calls, ReportDelete(t) PROVE Numbered'
  <2>1. \A u \in Calls : Placed(u)' => Placed(u)
    BY <1>5, <1>s, ReportDeleteEffect DEF Placed
  <2>2. \A id \in StripeIds : m_stripe_table'[id] \in {m_stripe_table[id], None}
    BY <1>5, ReportDeleteEffect
  <2>3. m_cur_stripe_id' = m_cur_stripe_id
    BY <1>5, ReportDeleteEffect
  <2>. QED
    BY <1>p, <2>1, <2>2, <2>3, NumberedFrame
<1>6. ASSUME UNCHANGED vars PROVE UNCHANGED <<m_cur_stripe_id, m_stripe_table, thread>>
  BY <1>6 DEF vars, coordVars, proxyVars
<1>7. ASSUME NEW c \in Clients,
             StartCall(c) \/ NoteUpdating(c) \/ SendValue(c) \/ CopyInfo(c) \/ CheckCommitAbort(c)
               \/ AnswerGet(c) \/ \E b \in Blocks : ReadBlock(c, b)
      PROVE  UNCHANGED <<m_cur_stripe_id, m_stripe_table, thread>>
  BY <1>7 DEF StartCall, NoteUpdating, SendValue, CopyInfo, CheckCommitAbort, AnswerGet, ReadBlock,
              coordVars, proxyVars
<1>8. ASSUME NEW u \in Calls,
             (\E b \in Blocks : handleSet(u, b)) \/ (\E f \in left[u] : handleDelete(u, f))
      PROVE  UNCHANGED <<m_cur_stripe_id, m_stripe_table, thread>>
  BY <1>8 DEF handleSet, handleDelete, coordVars, proxyVars
<1>. QED
  BY <1>t, <1>1, <1>2, <1>3, <1>4, <1>5, <1>6, <1>7, <1>8
     DEF Next, Running, Calling, Threads, Finished

\* What the later invariants start from.
Ground == Base /\ Connected /\ Numbered

\* At the start there is no stripe and no connection.
LEMMA GroundInit == Init => Ground
<1> SUFFICES ASSUME Init PROVE Ground
  OBVIOUS
<1>1. Base
  BY BaseInit
<1>2. \A t \in Calls : ~ Placed(t)
  BY DEF Init, Placed
<1>3. Connected
  <2>1. \A cl : Accepting(cl) = {} /\ Waiting(cl) = {} /\ Unsent(cl) = {}
    <3>1. \A t \in Calls : ~ At(t, {"placed", "sending"})
      BY CallShape DEF Init, At
    <3>. QED
      BY <3>1 DEF Init, Accepting, Waiting, Unsent
  <2>2. Cardinality({}) = 0
    BY FS_EmptySet
  <2>3. \A cl : /\ Cardinality(Accepting(cl)) = 0 /\ Cardinality(Waiting(cl)) = 0
                 /\ Cardinality(Unsent(cl)) = 0
    BY <2>1, <2>2
  <2>. QED
    BY <2>3 DEF Connected, Init
<1>4. Numbered
  <2>1. {t \in Calls : Placed(t)} = {}
    BY <1>2
  <2>2. Cardinality({}) = 0
    BY FS_EmptySet
  <2>3. m_cur_stripe_id = Cardinality({t \in Calls : Placed(t)})
    BY <2>1, <2>2 DEF Init
  <2>. QED
    BY <1>2, <2>3 DEF Numbered, Init
<1>. QED
  BY <1>1, <1>3, <1>4 DEF Ground

\* It stays so.
LEMMA GroundStays == Ground /\ [Next]_vars => Ground'
BY TypedStays, PositionsStays, ThreadsFitStays, InfosFitStays, ConnectedStays, NumberedStays
   DEF Ground, Base

\* A proxy never has more connections waiting than threads that accept, and
\* what is noted or committed for a key names a stripe that was placed.
THEOREM TypeCorrect == Spec => []TypeOK
<1>1. Ground => TypeOK
  <2> SUFFICES ASSUME Ground PROVE TypeOK
    OBVIOUS
  <2>1. Typed /\ InfosFit /\ Connected
    BY DEF Ground, Base
  <2>2. \A cl \in Clusters : Cardinality(Waiting(cl)) <= Cardinality(Accepting(cl))
    BY <2>1, FiniteConnections DEF Connected
  <2>3. \A key \in Keys : \A info \in {m_object_commit_table[key], m_object_updating_table[key]} :
          info # None => info \in Info /\ info.stripe < m_cur_stripe_id
    BY <2>1 DEF Typed, InfosFit
  <2>4. carries \in [Calls -> Content \union {None}]
    BY <2>1 DEF Typed, Content
  <2>. QED
    BY <2>1, <2>2, <2>3, <2>4 DEF TypeOK, Typed, Waiting, Accepting, AllFiles
<1>. QED
  BY <1>1, GroundInit, GroundStays, PTL DEF Spec

-----------------------------------------------------------------------------
(* Bytes come from sets of the key.                                        *)

\* The sets a key's bytes may come from are the same at every step.
LEMMA SourceStays ==
  ASSUME [Next]_vars
  PROVE  \A key : Source(key)' = Source(key)
BY ScriptStays DEF Source

\* A thread takes its own set's value, that of a set of a key its key begins,
\* or zeros.
LEMMA ReceivedSourced ==
  ASSUME NEW t \in Calls, NEW u \in Calls
  PROVE  ReceivedContent(t, u) \in Source(keyOf(t))
BY DEF ReceivedContent, Source

\* Files of the stripe of a set have bytes of sets of its key.
LEMMA StripeSourced ==
  ASSUME Ground, FilesSourced, NEW t \in Calls, Placed(t), NEW b \in Blocks
  PROVE  files[Name(t, b)] \in Source(keyOf(t)) \union {None} /\ Name(t, b) \in AllFiles
<1>0. Base /\ Numbered
  BY DEF Ground
<1>1. /\ keyOf(t) \in Keys /\ thread[t] \in Thread /\ thread[t].home \in Homes
      /\ thread[t].stripe \in StripeIds
  BY <1>0, HasThread DEF Base, Placed, ThreadsFit, Fit, Thread
<1>2. Name(t, b) \in AllFiles
  BY <1>1, FileShape DEF Name
<1>3. CASE b \in DataBlocks
  <2>1. Name(t, b) = <<"D", keyOf(t), b, thread[t].home[b]>>
    BY <1>3, FileShape DEF Name
  <2>2. thread[t].home[b] \in Nodes
    BY <1>1, <1>3 DEF Homes
  <2>. QED
    BY <1>1, <1>2, <1>3, <2>1, <2>2 DEF FilesSourced
<1>4. CASE b \notin DataBlocks
  <2>1. Name(t, b) = <<"P", thread[t].stripe, b>>
    BY <1>4, FileShape DEF Name
  <2>2. files[Name(t, b)] # None =>
          \E u \in Calls : Placed(u) /\ thread[u].stripe = thread[t].stripe
                           /\ files[Name(t, b)] \in Source(keyOf(u))
    BY <1>1, <1>4, <2>1 DEF FilesSourced
  <2>3. \A u \in Calls : Placed(u) /\ thread[u].stripe = thread[t].stripe => u = t
    BY <1>0 DEF Numbered
  <2>. QED
    BY <1>2, <2>2, <2>3
<1>. QED
  BY <1>3, <1>4

\* A step that writes no file, and gives no thread a value.
LEMMA SourcedFrame ==
  ASSUME Base, FilesSourced, [Next]_vars, carries' = carries,
         \A f \in AllFiles : files'[f] \in {files[f], None},
         \A t \in Calls : Placed(t)' /\ thread'[t].at \in {"sent", "reported"} =>
           Placed(t) /\ thread[t].at \in {"sent", "reported"}
  PROVE  FilesSourced'
<1>s. /\ \A t : keyOf(t)' = keyOf(t)
      /\ \A key : Source(key)' = Source(key)
  BY ScriptStays, SourceStays
<1>p. \A t \in Calls : Placed(t) => Placed(t)' /\ thread'[t].stripe = thread[t].stripe
  BY PlacedStays
<1>1. \A t \in Calls :
        Placed(t)' /\ thread'[t].at \in {"sent", "reported"} => carries'[t] \in Source(keyOf(t))'
  BY <1>s DEF FilesSourced
<1>2. \A key \in Keys, j \in DataBlocks, n \in Nodes :
        files'[<<"D", key, j, n>>] \in Source(key)' \union {None}
  <2>1. \A key \in Keys, j \in DataBlocks, n \in Nodes : <<"D", key, j, n>> \in AllFiles
    BY DEF AllFiles, DataFiles
  <2>. QED
    BY <1>s, <2>1 DEF FilesSourced
<1>3. ASSUME NEW id \in StripeIds, NEW b \in Blocks \ DataBlocks, files'[<<"P", id, b>>] # None
      PROVE  \E t \in Calls : Placed(t)' /\ thread'[t].stripe = id
                              /\ files'[<<"P", id, b>>] \in Source(keyOf(t))'
  <2>1. <<"P", id, b>> \in AllFiles
    BY DEF AllFiles, ParityFiles
  <2>2. files'[<<"P", id, b>>] = files[<<"P", id, b>>]
    BY <1>3, <2>1
  <2>3. PICK t \in Calls : Placed(t) /\ thread[t].stripe = id
                           /\ files[<<"P", id, b>>] \in Source(keyOf(t))
    BY <1>3, <2>2 DEF FilesSourced
  <2>. QED
    BY <1>p, <1>s, <2>2, <2>3
<1>. QED
  BY <1>1, <1>2, <1>3 DEF FilesSourced

\* The bytes of a file are of a set of its key, or of a key that begins with it.
LEMMA FilesSourcedStays == Ground /\ FilesSourced /\ [Next]_vars => FilesSourced'
<1> SUFFICES ASSUME Ground, FilesSourced, [Next]_vars PROVE FilesSourced'
  OBVIOUS
<1>b. Base /\ Typed
  BY DEF Ground, Base
<1>s. /\ \A t : kindOf(t)' = kindOf(t) /\ keyOf(t)' = keyOf(t)
      /\ \A key : Source(key)' = Source(key)
  BY ScriptStays, SourceStays
<1>p. \A t \in Calls : Placed(t) => Placed(t)' /\ thread'[t].stripe = thread[t].stripe
  BY <1>b, PlacedStays
<1>t. ASSUME UNCHANGED <<thread, files, carries>> PROVE FilesSourced'
  <2>1. \A t \in Calls : Placed(t)' /\ thread'[t].at \in {"sent", "reported"} =>
           Placed(t) /\ thread[t].at \in {"sent", "reported"}
    BY <1>s, <1>t DEF Placed
  <2>. QED
    BY <1>b, <1>t, <2>1, SourcedFrame
<1>1. ASSUME NEW c \in Clients, PlaceObject(c) PROVE FilesSourced'
  <2>1. \A t \in Calls : Placed(t)' /\ thread'[t].at \in {"sent", "reported"} =>
           Placed(t) /\ thread[t].at \in {"sent", "reported"}
    BY <1>b, <1>s, <1>1, PlaceEffect DEF Placed
  <2>2. carries' = carries /\ files' = files
    BY <1>b, <1>1, PlaceEffect
  <2>. QED
    BY <1>b, <2>1, <2>2, SourcedFrame
<1>2. ASSUME NEW t \in Calls, AcceptAndEncode(t) PROVE FilesSourced'
  <2>1. PICK u \in Calls : carries'[t] = ReceivedContent(t, u)
    BY <1>b, <1>2, AcceptEffect
  <2>2. carries'[t] \in Source(keyOf(t))
    BY <2>1, ReceivedSourced
  <2>3. /\ files' = files /\ \A v \in Calls : v # t => carries'[v] = carries[v] /\ thread'[v] = thread[v]
    BY <1>b, <1>2, AcceptEffect
  <2>4. \A v \in Calls :
          Placed(v)' /\ thread'[v].at \in {"sent", "reported"} => carries'[v] \in Source(keyOf(v))'
    BY <1>s, <2>2, <2>3 DEF FilesSourced, Placed
  <2>5. \A key \in Keys, j \in DataBlocks, n \in Nodes :
          files'[<<"D", key, j, n>>] \in Source(key)' \union {None}
    BY <1>s, <2>3 DEF FilesSourced
  <2>6. ASSUME NEW id \in StripeIds, NEW b \in Blocks \ DataBlocks, files'[<<"P", id, b>>] # None
        PROVE  \E v \in Calls : Placed(v)' /\ thread'[v].stripe = id
                                /\ files'[<<"P", id, b>>] \in Source(keyOf(v))'
    <3>1. PICK v \in Calls : Placed(v) /\ thread[v].stripe = id
                             /\ files[<<"P", id, b>>] \in Source(keyOf(v))
      BY <2>3, <2>6 DEF FilesSourced
    <3>. QED
      BY <1>p, <1>s, <2>3, <3>1
  <2>. QED
    BY <2>4, <2>5, <2>6 DEF FilesSourced
<1>3. ASSUME NEW t \in Calls, NEW b \in Blocks, handleSet(t, b) PROVE FilesSourced'
  <2>1. /\ Placed(t) /\ thread[t].at \in {"sent", "reported"} /\ thread' = thread /\ carries' = carries
        /\ Name(t, b) \in AllFiles /\ files'[Name(t, b)] = carries[t]
        /\ \A f \in AllFiles : f # Name(t, b) => files'[f] = files[f]
    BY <1>b, <1>3, WriteEffect
  <2>2. carries[t] \in Source(keyOf(t))
    BY <2>1 DEF FilesSourced
  <2>3. \A v \in Calls :
          Placed(v)' /\ thread'[v].at \in {"sent", "reported"} => carries'[v] \in Source(keyOf(v))'
    BY <1>s, <2>1 DEF FilesSourced, Placed
  <2>4. ASSUME NEW key \in Keys, NEW j \in DataBlocks, NEW n \in Nodes
        PROVE  files'[<<"D", key, j, n>>] \in Source(key)' \union {None}
    <3>1. <<"D", key, j, n>> \in AllFiles
      BY DEF AllFiles, DataFiles
    <3>2. CASE <<"D", key, j, n>> = Name(t, b)
      <4>1. keyOf(t) = key
        <5>1. CASE b \in DataBlocks
          BY <3>2, <5>1, FileShape DEF Name
        <5>2. CASE b \notin DataBlocks
          BY <3>2, <5>2, FileShape DEF Name
        <5>. QED
          BY <5>1, <5>2
      <4>. QED
        BY <1>s, <2>1, <2>2, <3>2, <4>1
    <3>3. CASE <<"D", key, j, n>> # Name(t, b)
      BY <1>s, <2>1, <3>1, <3>3 DEF FilesSourced
    <3>. QED
      BY <3>2, <3>3
  <2>5. ASSUME NEW id \in StripeIds, NEW i \in Blocks \ DataBlocks, files'[<<"P", id, i>>] # None
        PROVE  \E v \in Calls : Placed(v)' /\ thread'[v].stripe = id
                                /\ files'[<<"P", id, i>>] \in Source(keyOf(v))'
    <3>1. <<"P", id, i>> \in AllFiles
      BY DEF AllFiles, ParityFiles
    <3>2. CASE <<"P", id, i>> = Name(t, b)
      <4>1. thread[t].stripe = id
        <5>1. CASE b \in DataBlocks
          BY <3>2, <5>1, FileShape DEF Name
        <5>2. CASE b \notin DataBlocks
          BY <3>2, <5>2, FileShape DEF Name
        <5>. QED
          BY <5>1, <5>2
      <4>. QED
        BY <1>p, <1>s, <2>1, <2>2, <3>2, <4>1
    <3>3. CASE <<"P", id, i>> # Name(t, b)
      <4>1. files'[<<"P", id, i>>] = files[<<"P", id, i>>]
        BY <2>1, <3>1, <3>3
      <4>2. PICK v \in Calls : Placed(v) /\ thread[v].stripe = id
                               /\ files[<<"P", id, i>>] \in Source(keyOf(v))
        BY <2>5, <4>1 DEF FilesSourced
      <4>. QED
        BY <1>p, <1>s, <4>1, <4>2
    <3>. QED
      BY <3>2, <3>3
  <2>. QED
    BY <2>3, <2>4, <2>5 DEF FilesSourced
<1>4. ASSUME NEW c \in Clients, LookUp(c) PROVE FilesSourced'
  <2>1. \A u \in Calls : thread'[u] = thread[u] \/ thread'[u].at = "deleting"
    BY <1>b, <1>4, LookEffect
  <2>2. \A t \in Calls : Placed(t)' /\ thread'[t].at \in {"sent", "reported"} =>
           Placed(t) /\ thread[t].at \in {"sent", "reported"}
    BY <1>s, <2>1 DEF Placed
  <2>3. carries' = carries /\ files' = files
    BY <1>b, <1>4, LookEffect
  <2>. QED
    BY <1>b, <2>2, <2>3, SourcedFrame
<1>5. ASSUME NEW u \in Calls, NEW f \in left[u], handleDelete(u, f) PROVE FilesSourced'
  <2>1. /\ \A g \in AllFiles : files'[g] \in {files[g], None}
        /\ carries' = carries /\ thread' = thread
    BY <1>b, <1>5, RemoveEffect
  <2>2. \A t \in Calls : Placed(t)' /\ thread'[t].at \in {"sent", "reported"} =>
           Placed(t) /\ thread[t].at \in {"sent", "reported"}
    BY <1>s, <2>1 DEF Placed
  <2>. QED
    BY <1>b, <2>1, <2>2, SourcedFrame
<1>6. ASSUME NEW u \in Calls, ReportSet(u) PROVE FilesSourced'
  <2>1. \A t \in Calls : Placed(t)' /\ thread'[t].at \in {"sent", "reported"} =>
           Placed(t) /\ thread[t].at \in {"sent", "reported"}
    BY <1>b, <1>s, <1>6, ReportSetEffect DEF Placed
  <2>2. carries' = carries /\ files' = files
    BY <1>b, <1>6, ReportSetEffect
  <2>. QED
    BY <1>b, <2>1, <2>2, SourcedFrame
<1>7. ASSUME NEW u \in Calls, ReportDelete(u) PROVE FilesSourced'
  <2>1. \A t \in Calls : thread'[t] = thread[t] \/ (t = u /\ kindOf(t) = "del")
    BY <1>b, <1>7, ReportDeleteEffect
  <2>2. \A t \in Calls : Placed(t)' /\ thread'[t].at \in {"sent", "reported"} =>
           Placed(t) /\ thread[t].at \in {"sent", "reported"}
    BY <1>s, <2>1 DEF Placed
  <2>3. carries' = carries /\ files' = files
    BY <1>b, <1>7, ReportDeleteEffect
  <2>. QED
    BY <1>b, <2>2, <2>3, SourcedFrame
<1>8. ASSUME UNCHANGED vars PROVE UNCHANGED <<thread, files, carries>>
  BY <1>8 DEF vars, proxyVars, nodeVars
<1>9. ASSUME NEW c \in Clients,
             StartCall(c) \/ NoteUpdating(c) \/ SendValue(c) \/ CopyInfo(c) \/ CheckCommitAbort(c)
               \/ AnswerGet(c) \/ \E b \in Blocks : ReadBlock(c, b)
      PROVE  UNCHANGED <<thread, files, carries>>
  BY <1>9 DEF StartCall, NoteUpdating, SendValue, CopyInfo, CheckCommitAbort, AnswerGet, ReadBlock,
              proxyVars, nodeVars
<1>. QED
  BY <1>t, <1>1, <1>2, <1>3, <1>4, <1>5, <1>6, <1>7, <1>8, <1>9
     DEF Next, Running, Calling, Threads, Finished

\* The blocks of a stripe are those of the set that placed it.
LEMMA StripeOfSet ==
  ASSUME Numbered, NEW id \in StripeIds, NEW key, HasBlocks(id, key)
  PROVE  \E t \in Calls : /\ Placed(t) /\ keyOf(t) = key /\ thread[t].stripe = id
                          /\ m_stripe_table[id] = [key |-> key, home |-> thread[t].home]
                          /\ FilesOf(id) = Names(t)
<1>1. PICK t \in Calls : /\ Placed(t) /\ thread[t].stripe = id
                         /\ m_stripe_table[id] = [key |-> keyOf(t), home |-> thread[t].home]
  BY DEF Numbered, HasBlocks
<1>2. keyOf(t) = key
  BY <1>1 DEF HasBlocks
<1>3. FilesOf(id) = Names(t)
  BY <1>1 DEF FilesOf, Name, Names
<1>. QED
  BY <1>1, <1>2, <1>3

\* A client whose get does not go on.
LEMMA ReadFrame ==
  ASSUME Base, ReadsSourced, [Next]_vars, NEW d \in Clients, step'[d] = step[d],
         pc'[d] = "reading" => pc[d] = "reading" /\ reading'[d] = reading[d],
         heard'[d] = heard[d]
  PROVE  ReadSourced(d)'
<1>1. ReadSourced(d)
  BY DEF ReadsSourced
<1>2. /\ Key(d)' = Key(d) /\ Source(Key(d))' = Source(Key(d))
  <2>1. script' = script /\ \A key : Source(key)' = Source(key)
    BY ScriptStays, SourceStays
  <2>2. Key(d)' = Key(d)
    BY <2>1 DEF Key, keyOf, call
  <2>. QED
    BY <2>1, <2>2
<1>3. ASSUME pc'[d] = "reading"
      PROVE  \E t \in Calls : Placed(t)' /\ keyOf(t)' = Key(d)'
                              /\ reading'[d].names = Names(t)'
  <2>1. PICK t \in Calls : Placed(t) /\ keyOf(t) = Key(d)
                           /\ reading[d].names = Names(t)
    BY <1>1, <1>3 DEF ReadSourced
  <2>2. Placed(t)' /\ keyOf(t)' = keyOf(t) /\ Names(t)' = Names(t)
    BY <2>1, ScriptStays, PlacedStays
  <2>3. reading'[d].names = Names(t)'
    BY <1>3, <2>1, <2>2
  <2>. QED
    BY <1>2, <2>1, <2>2, <2>3
<1>4. pc'[d] = "reading" => \A p \in reading'[d].got : p[2] \in Source(Key(d))' \union {Garbage}
  BY <1>1, <1>2 DEF ReadSourced
<1>5. heard'[d] # None =>
         /\ step'[d] >= 1
         /\ \A i \in DataBlocks : heard'[d][i] \in Source(Key(d))' \union {Garbage}
  BY <1>1, <1>2 DEF ReadSourced
<1>. QED
  BY <1>3, <1>4, <1>5 DEF ReadSourced

\* So are the bytes a get has, and those it answered.
LEMMA ReadsSourcedStays == Ground /\ FilesSourced /\ ReadsSourced /\ [Next]_vars => ReadsSourced'
<1> SUFFICES ASSUME Ground, FilesSourced, ReadsSourced, [Next]_vars, NEW d \in Clients
             PROVE  ReadSourced(d)'
  BY DEF ReadsSourced
<1>b. Base /\ Typed /\ Numbered /\ ReadSourced(d)
  BY DEF Ground, Base, ReadsSourced
<1>s. /\ script' = script /\ \A t : kindOf(t)' = kindOf(t) /\ keyOf(t)' = keyOf(t)
      /\ \A key : Source(key)' = Source(key)
  BY ScriptStays, SourceStays
<1>0. ASSUME UNCHANGED <<step, reading, heard>>, pc'[d] = "reading" => pc[d] = "reading"
      PROVE  ReadSourced(d)'
  BY <1>b, <1>0, ReadFrame
<1>1. ASSUME NEW c \in Clients, StartCall(c) PROVE ReadSourced(d)'
  <2>1. CASE d # c
    <3>1. step'[d] = step[d] /\ pc'[d] = pc[d] /\ heard'[d] = heard[d] /\ reading' = reading
      BY <1>b, <1>1, <2>1, StartEffect
    <3>. QED
      BY <1>b, <3>1, ReadFrame
  <2>2. CASE d = c
    <3>1. heard'[d] = None /\ pc'[d] \in Kinds
      BY <1>b, <1>1, <2>2, StartEffect
    <3>. QED
      BY <3>1 DEF ReadSourced, Kinds
  <2>. QED
    BY <2>1, <2>2
<1>2. ASSUME NEW c \in Clients, LookUp(c) PROVE ReadSourced(d)'
  <2>1. CASE ~ (d = c /\ pc'[c] = "reading")
    <3>1. UNCHANGED <<step, heard>> /\ (pc'[d] = "reading" => pc[d] = "reading" /\ reading'[d] = reading[d])
      BY <1>b, <1>2, <2>1, LookEffect
    <3>. QED
      BY <1>b, <3>1, ReadFrame
  <2>2. CASE d = c /\ pc'[c] = "reading"
    <3> DEFINE id == looked[c].stripe
    <3>1. /\ HasBlocks(id, Key(c)) /\ id \in StripeIds /\ reading'[c].names = FilesOf(id)
          /\ reading'[c].got = {} /\ step' = step /\ heard' = heard
      BY <1>b, <1>2, <2>2, LookEffect
    <3>2. Key(c)' = Key(c)
      BY <1>s, <3>1, SameCalls
    <3>3. PICK t \in Calls : Placed(t) /\ keyOf(t) = Key(c)
                             /\ FilesOf(id) = Names(t)
      <4>1. Numbered /\ HasBlocks(id, Key(c)) /\ id \in StripeIds
        BY <1>b, <3>1
      <4> HIDE DEF id
      <4>. QED
        BY <4>1, StripeOfSet
    <3>4. Placed(t)' /\ keyOf(t)' = Key(c)' /\ Names(t)' = Names(t)
      BY <1>b, <1>s, <3>2, <3>3, PlacedStays
    <3>5. reading'[c].names = Names(t)'
      BY <3>1, <3>3, <3>4
    <3>6. heard'[c] # None =>
            /\ step'[c] >= 1
            /\ \A i \in DataBlocks : heard'[c][i] \in Source(Key(c))' \union {Garbage}
      BY <1>b, <1>s, <2>2, <3>1, <3>2 DEF ReadSourced
    <3>. QED
      BY <2>2, <3>1, <3>4, <3>5, <3>6 DEF ReadSourced
  <2>. QED
    BY <2>1, <2>2
<1>3. ASSUME NEW c \in Clients, NEW b \in Blocks, ReadBlock(c, b) PROVE ReadSourced(d)'
  <2>1. CASE d # c
    <3>1. UNCHANGED <<step, pc, heard>> /\ reading'[d] = reading[d]
      BY <1>b, <1>3, <2>1, ReadEffect
    <3>. QED
      BY <1>b, <3>1, ReadFrame
  <2>2. CASE d = c
    <3>1. /\ pc[c] = "reading" /\ step' = step /\ heard' = heard /\ reading'[c].names = reading[c].names
      BY <1>b, <1>3, ReadEffect
    <3>2. PICK v \in Content :
                   /\ reading'[c].got = reading[c].got \union {<<b, v>>}
                   /\ files[reading[c].names[b]] = None => v = Garbage
                   /\ files[reading[c].names[b]] # None => v = files[reading[c].names[b]]
      BY <1>b, <1>3, ReadEffect
    <3>3. Key(c)' = Key(c)
      BY <1>s, <3>1, SameCalls
    <3>4. PICK t \in Calls : Placed(t) /\ keyOf(t) = Key(c)
                             /\ reading[c].names = Names(t)
      BY <1>b, <2>2, <3>1 DEF ReadSourced
    <3>5. Placed(t)' /\ keyOf(t)' = Key(c)' /\ Names(t)' = Names(t)
      BY <1>b, <1>s, <3>3, <3>4, PlacedStays
    <3>6. reading'[c].names = Names(t)'
      BY <3>1, <3>4, <3>5
    <3>7. v \in Source(Key(c)) \union {Garbage}
      <4>1. files[Name(t, b)] \in Source(keyOf(t)) \union {None}
        BY <3>4, StripeSourced
      <4>2. reading[c].names[b] = Name(t, b)
        BY <3>4 DEF Names
      <4>. QED
        BY <3>2, <3>4, <4>1, <4>2
    <3>8. \A p \in reading'[c].got : p[2] \in Source(Key(c))' \union {Garbage}
      <4>1. \A p \in reading[c].got : p[2] \in Source(Key(c)) \union {Garbage}
        BY <1>b, <2>2, <3>1 DEF ReadSourced
      <4>2. Source(Key(c))' = Source(Key(c))
        BY <1>s, <3>3
      <4>. QED
        BY <3>2, <3>7, <4>1, <4>2
    <3>9. heard'[c] # None =>
            /\ step'[c] >= 1
            /\ \A i \in DataBlocks : heard'[c][i] \in Source(Key(c))' \union {Garbage}
      BY <1>b, <1>s, <2>2, <3>1, <3>3 DEF ReadSourced
    <3>. QED
      BY <2>2, <3>5, <3>6, <3>8, <3>9 DEF ReadSourced
  <2>. QED
    BY <2>1, <2>2
<1>4. ASSUME NEW c \in Clients, AnswerGet(c) PROVE ReadSourced(d)'
  <2>1. CASE d # c \/ UNCHANGED <<pc, reading, heard>>
    <3>1. step' = step /\ pc'[d] = pc[d] /\ reading'[d] = reading[d] /\ heard'[d] = heard[d]
      BY <1>b, <1>4, <2>1, AnswerEffect
    <3>. QED
      BY <1>b, <3>1, ReadFrame
  <2>2. CASE d = c /\ ~ UNCHANGED <<pc, reading, heard>>
    <3>1. /\ pc[c] = "reading" /\ pc'[c] = "idle" /\ step' = step
          /\ heard'[c] \in Spliced(Decoded(reading[c].got)) /\ reading[c] \in Readings
      BY <1>b, <1>4, <2>2, AnswerEffect
    <3>2. Key(c)' = Key(c) /\ step[c] \in 1 .. MaxSteps
      BY <1>b, <1>s, <3>1, SameCalls, InCall DEF Base
    <3>3. reading[c].got \in SUBSET (Blocks \X Content)
      BY <3>1 DEF Readings
    <3>4. \A i \in DataBlocks : heard'[c][i] = Garbage \/ \E p \in reading[c].got : heard'[c][i] = p[2]
      BY <3>1, <3>3, DecodedShape
    <3>5. \A p \in reading[c].got : p[2] \in Source(Key(c)) \union {Garbage}
      BY <1>b, <2>2, <3>1 DEF ReadSourced
    <3>6. Source(Key(c))' = Source(Key(c))
      BY <1>s, <3>2
    <3>7. \A i \in DataBlocks : heard'[c][i] \in Source(Key(c))' \union {Garbage}
      BY <3>4, <3>5, <3>6
    <3>8. step'[c] >= 1
      BY <3>1, <3>2
    <3>. QED
      BY <2>2, <3>1, <3>7, <3>8 DEF ReadSourced
  <2>. QED
    BY <2>1, <2>2
<1>5. ASSUME NEW t \in Calls, ReportSet(t) PROVE ReadSourced(d)'
  <2>1. UNCHANGED <<step, reading, heard>> /\ (pc'[d] = "reading" => pc[d] = "reading")
    BY <1>b, <1>5, ReportSetEffect
  <2>. QED
    BY <1>0, <2>1
<1>6. ASSUME NEW t \in Calls, ReportDelete(t) PROVE ReadSourced(d)'
  <2>1. UNCHANGED <<step, reading, heard>> /\ (pc'[d] = "reading" => pc[d] = "reading")
    BY <1>b, <1>6, ReportDeleteEffect
  <2>. QED
    BY <1>0, <2>1
<1>7. ASSUME UNCHANGED vars PROVE UNCHANGED <<step, reading, heard, pc>>
  BY <1>7 DEF vars, clientVars
<1>8. ASSUME NEW c \in Clients,
             PlaceObject(c) \/ NoteUpdating(c) \/ SendValue(c) \/ CopyInfo(c) \/ CheckCommitAbort(c)
      PROVE  UNCHANGED <<step, reading, heard>> /\ (pc'[d] = "reading" => pc[d] = "reading")
  <2>1. PlaceObject(c) => UNCHANGED <<step, reading, heard>> /\ (pc'[d] = "reading" => pc[d] = "reading")
    BY <1>b, PlaceEffect
  <2>2. NoteUpdating(c) => UNCHANGED <<step, reading, heard>> /\ (pc'[d] = "reading" => pc[d] = "reading")
    BY <1>b, NoteEffect
  <2>3. SendValue(c) => UNCHANGED <<step, reading, heard>> /\ (pc'[d] = "reading" => pc[d] = "reading")
    BY <1>b, SendEffect
  <2>4. CopyInfo(c) => UNCHANGED <<step, reading, heard>> /\ (pc'[d] = "reading" => pc[d] = "reading")
    BY <1>b, CopyEffect
  <2>5. CheckCommitAbort(c) => UNCHANGED <<step, reading, heard>> /\ (pc'[d] = "reading" => pc[d] = "reading")
    BY <1>b, CheckEffect
  <2>. QED
    BY <1>8, <2>1, <2>2, <2>3, <2>4, <2>5
<1>9. ASSUME NEW t \in Calls,
             AcceptAndEncode(t) \/ (\E b \in Blocks : handleSet(t, b)) \/ (\E f \in left[t] : handleDelete(t, f))
      PROVE  UNCHANGED <<step, reading, heard, pc>>
  BY <1>9 DEF AcceptAndEncode, handleSet, handleDelete, clientVars
<1>. QED
  BY <1>0, <1>1, <1>2, <1>3, <1>4, <1>5, <1>6, <1>7, <1>8, <1>9
     DEF Next, Running, Calling, Threads, Finished

\* A deletion is to remove files of stripes of its key.
LEMMA LeftNamedStays == Ground /\ LeftNamed /\ [Next]_vars => LeftNamed'
<1> SUFFICES ASSUME Ground, LeftNamed, [Next]_vars, NEW t \in Calls, NEW f \in left'[t]
             PROVE  \E u \in Calls : Placed(u)' /\ keyOf(u)' = keyOf(t)'
                                     /\ \E b \in Blocks : f = Name(u, b)'
  BY DEF LeftNamed
<1>b. Base /\ Typed /\ Numbered
  BY DEF Ground, Base
<1>s. \A u : kindOf(u)' = kindOf(u) /\ keyOf(u)' = keyOf(u)
  BY ScriptStays
<1>1. ASSUME NEW u \in Calls, Placed(u), keyOf(u) = keyOf(t), NEW b \in Blocks, f = Name(u, b)
      PROVE  \E v \in Calls : Placed(v)' /\ keyOf(v)' = keyOf(t)'
                              /\ \E i \in Blocks : f = Name(v, i)'
  <2>1. Placed(u)' /\ Name(u, b)' = Name(u, b)
    BY <1>b, <1>1, PlacedStays
  <2>. QED
    BY <1>1, <1>s, <2>1
<1>2. CASE f \in left[t]
  BY <1>1, <1>2 DEF LeftNamed
<1>3. ASSUME NEW c \in Clients, LookUp(c), f \notin left[t]
      PROVE  \E u \in Calls : Placed(u) /\ keyOf(u) = keyOf(t) /\ \E b \in Blocks : f = Name(u, b)
  <2> DEFINE id == looked[c].stripe
  <2>1. /\ t = call(c) /\ HasBlocks(id, Key(c)) /\ id \in StripeIds
        /\ left'[t] = {FilesOf(id)[b] : b \in Blocks}
    BY <1>b, <1>3, LookEffect
  <2>2. PICK u \in Calls : Placed(u) /\ keyOf(u) = Key(c)
                           /\ FilesOf(id) = Names(u)
    <3> HIDE DEF id
    <3>. QED
      BY <1>b, <2>1, StripeOfSet
  <2>3. PICK b \in Blocks : f = FilesOf(id)[b]
    BY <2>1
  <2>4. f = Name(u, b) /\ keyOf(t) = Key(c)
    BY <2>1, <2>2, <2>3 DEF Key, Names
  <2>. QED
    BY <2>2, <2>4
<1>4. ASSUME NEW u \in Calls, NEW g \in left[u], handleDelete(u, g) PROVE f \in left[t]
  BY <1>b, <1>4, RemoveEffect
<1>5. ASSUME UNCHANGED vars PROVE left' = left
  BY <1>5 DEF vars, nodeVars
<1>6. ASSUME NEW c \in Clients,
             StartCall(c) \/ PlaceObject(c) \/ NoteUpdating(c) \/ SendValue(c) \/ CopyInfo(c)
               \/ CheckCommitAbort(c) \/ AnswerGet(c) \/ \E b \in Blocks : ReadBlock(c, b)
      PROVE  left' = left
  BY <1>6 DEF StartCall, PlaceObject, NoteUpdating, SendValue, CopyInfo, CheckCommitAbort,
              AnswerGet, ReadBlock, nodeVars
<1>7. ASSUME NEW u \in Calls,
             AcceptAndEncode(u) \/ ReportSet(u) \/ ReportDelete(u) \/ \E b \in Blocks : handleSet(u, b)
      PROVE  left' = left
  BY <1>7 DEF AcceptAndEncode, ReportSet, ReportDelete, handleSet, nodeVars
<1>8. CASE f \notin left[t]
  <2>1. \E c \in Clients : LookUp(c)
    BY <1>4, <1>5, <1>6, <1>7, <1>8 DEF Next, Running, Calling, Threads, Finished
  <2>. QED
    BY <1>1, <1>3, <1>8, <2>1
<1>. QED
  BY <1>2, <1>8

-----------------------------------------------------------------------------
(* A set that nothing disturbs.                                            *)

\* What another client's step, and a step of a client's later call, leave.
LEMMA AtOther ==
  ASSUME NEW c \in Clients, step' = step, \A d \in Clients : d # c => pc'[d] = pc[d],
         NEW t \in Calls, t # call(c)
  PROVE  \A where : At(t, where)' <=> At(t, where)
BY CallShape DEF At, call

\* What waking the sleepers leaves.
LEMMA AtNotify ==
  ASSUME step' = step, NEW t \in Calls, NEW where, "asleep" \in where <=> "checking" \in where,
         \A c \in Clients : pc'[c] = pc[c] \/ (pc[c] = "asleep" /\ pc'[c] = "checking")
  PROVE  At(t, where)' <=> At(t, where)
BY CallShape DEF At

\* A call that is over stays over, and only a start makes another.
LEMMA SettledStays ==
  ASSUME Base, [Next]_vars, NEW u \in Calls, Unsettled(u)'
  PROVE  Unsettled(u) \/ \E c \in Clients : StartCall(c) /\ u = call(c)'
<1> USE DEF Base
<1>u. u[1] \in Clients /\ u = <<u[1], u[2]>>
  BY CallShape
<1>f. ASSUME Started(u)' => Started(u), (u[2] = step'[u[1]] => u[2] = step[u[1]]),
             u[2] = step[u[1]] /\ pc'[u[1]] # "idle" => pc[u[1]] # "idle",
             thread'[u] # None /\ thread'[u].at # "reported" => thread[u] # None /\ thread[u].at # "reported",
             pending'[u] # {} => pending[u] # {}
      PROVE  Unsettled(u)
  BY <1>f DEF Unsettled
<1>e. step' = step => (Started(u)' => Started(u)) /\ (u[2] = step'[u[1]] => u[2] = step[u[1]])
  BY DEF Started
<1>0. ASSUME UNCHANGED <<step, thread, pending>>, \A c \in Clients : pc'[c] # "idle" => pc[c] # "idle"
      PROVE  Unsettled(u)
  BY <1>0, <1>e, <1>f, <1>u
<1>c. ASSUME NEW c \in Clients, pc[c] # "idle", step' = step,
             \A d \in Clients : d # c => pc'[d] = pc[d],
             u # call(c) => thread'[u] = thread[u] /\ pending'[u] = pending[u]
      PROVE  Unsettled(u)
  <2>1. CASE u = call(c)
    BY <1>c, <2>1, InCall
  <2>2. CASE u # call(c)
    <3>1. u[2] = step[u[1]] => u[1] # c
      BY <1>u, <2>2 DEF call
    <3>. QED
      BY <1>c, <1>e, <1>f, <1>u, <2>2, <3>1
  <2>. QED
    BY <2>1, <2>2
<1>t. ASSUME NEW t \in Calls, thread[t] # None,
             thread[t].at # "reported" \/ pending[t] # {}, step' = step,
             \A c \in Clients : pc'[c] # "idle" => pc[c] # "idle",
             u # t => thread'[u] = thread[u] /\ pending'[u] = pending[u]
      PROVE  Unsettled(u)
  <2>1. CASE u = t
    BY <1>t, <2>1 DEF ThreadsFit, Fit, Unsettled
  <2>2. CASE u # t
    BY <1>e, <1>f, <1>t, <1>u, <2>2
  <2>. QED
    BY <2>1, <2>2
<1>1. ASSUME NEW c \in Clients, StartCall(c) PROVE Unsettled(u) \/ u = call(c)'
  <2>1. CASE u # call(c)'
    <3>1. /\ \A d \in Clients : d # c => step'[d] = step[d] /\ pc'[d] = pc[d]
          /\ thread' = thread /\ pending' = pending
          /\ Started(u)' <=> Started(u)
          /\ call(c)' = <<c, step'[c]>>
      BY <1>1, <2>1, StartEffect
    <3>2. u[2] = step'[u[1]] => u[1] # c
      BY <1>u, <2>1, <3>1
    <3>3. CASE u[1] = c
      BY <3>1, <3>2, <3>3 DEF Unsettled
    <3>4. CASE u[1] # c
      BY <1>f, <1>u, <3>1, <3>4
    <3>. QED
      BY <3>3, <3>4
  <2>. QED
    BY <2>1
<1>2. ASSUME NEW c \in Clients, PlaceObject(c) PROVE Unsettled(u)
  BY <1>2, <1>c, PlaceEffect
<1>3. ASSUME NEW c \in Clients, NoteUpdating(c) PROVE Unsettled(u)
  BY <1>3, <1>c, NoteEffect
<1>4. ASSUME NEW c \in Clients, SendValue(c) PROVE Unsettled(u)
  BY <1>4, <1>c, SendEffect
<1>5. ASSUME NEW t \in Calls, AcceptAndEncode(t) PROVE Unsettled(u)
  BY <1>5, <1>t, AcceptEffect
<1>6. ASSUME NEW t \in Calls, NEW b \in Blocks, handleSet(t, b) PROVE Unsettled(u)
  <2>1. /\ thread[t] # None /\ pending[t] # {} /\ step' = step /\ pc' = pc /\ thread' = thread
        /\ (u # t => pending'[u] = pending[u])
    BY <1>6, WriteEffect DEF Placed
  <2>. QED
    BY <1>t, <2>1
<1>7. ASSUME NEW c \in Clients, CopyInfo(c) PROVE Unsettled(u)
  <2>1. /\ pc[c] # "idle" /\ step' = step /\ thread' = thread /\ pending' = pending
        /\ \A d \in Clients : d # c => pc'[d] = pc[d]
    BY <1>7, CopyEffect
  <2>. QED
    BY <1>c, <2>1
<1>8. ASSUME NEW c \in Clients, LookUp(c) PROVE Unsettled(u)
  <2>1. /\ pc[c] # "idle" /\ step' = step /\ pending' = pending
        /\ \A d \in Clients : d # c => pc'[d] = pc[d]
        /\ (u # call(c) => thread'[u] = thread[u])
    BY <1>8, LookEffect
  <2>. QED
    BY <1>c, <2>1
<1>9. ASSUME NEW c \in Clients, NEW b \in Blocks, ReadBlock(c, b) PROVE Unsettled(u)
  BY <1>9, <1>0, ReadEffect
<1>10. ASSUME NEW c \in Clients, AnswerGet(c) PROVE Unsettled(u)
  <2>1. /\ pc[c] # "idle" /\ step' = step /\ pending' = pending /\ thread' = thread
        /\ \A d \in Clients : d # c => pc'[d] = pc[d]
    BY <1>10, AnswerEffect
  <2>. QED
    BY <1>c, <2>1
<1>11. ASSUME NEW t \in Calls, NEW f \in left[t], handleDelete(t, f) PROVE Unsettled(u)
  BY <1>11, <1>0, RemoveEffect
<1>12. ASSUME NEW t \in Calls, ReportSet(t) PROVE Unsettled(u)
  <2>1. /\ thread[t] # None /\ thread[t].at # "reported" /\ step' = step /\ pending' = pending
        /\ \A c \in Clients : pc'[c] # "idle" => pc[c] # "idle"
        /\ (u # t => thread'[u] = thread[u])
    BY <1>12, ReportSetEffect
  <2>. QED
    BY <1>t, <2>1
<1>13. ASSUME NEW t \in Calls, ReportDelete(t) PROVE Unsettled(u)
  <2>1. /\ thread[t] # None /\ thread[t].at # "reported" /\ step' = step /\ pending' = pending
        /\ \A c \in Clients : pc'[c] # "idle" => pc[c] # "idle"
        /\ (u # t => thread'[u] = thread[u])
    BY <1>13, ReportDeleteEffect
  <2>. QED
    BY <1>t, <2>1
<1>14. ASSUME NEW c \in Clients, CheckCommitAbort(c) PROVE Unsettled(u)
  BY <1>14, <1>c, CheckEffect
<1>15. ASSUME UNCHANGED vars PROVE Unsettled(u)
  <2>1. UNCHANGED <<step, thread, pending, pc>>
    BY <1>15 DEF vars, clientVars, proxyVars, nodeVars
  <2>. QED
    BY <1>0, <2>1
<1>. QED
  BY <1>1, <1>2, <1>3, <1>4, <1>5, <1>6, <1>7, <1>8, <1>9, <1>10, <1>11, <1>12, <1>13, <1>14, <1>15
     DEF Next, Running, Calling, Threads, Finished

\* A step that leaves a set's thread, entries and files leaves what it keeps.
LEMMA KeptFrame ==
  ASSUME NEW t \in Calls, NEW key, Kept(t, key), Base, [Next]_vars, kindOf(t) = "set",
         thread'[t] = thread[t], carries'[t] = carries[t], pending'[t] = pending[t],
         At(t, {"set"}) => At(t, {"set"})',
         At(t, {"placed"})' <=> At(t, {"placed"}),
         At(t, {"placed", "sending"})' <=> At(t, {"placed", "sending"}),
         At(t, {"placed", "sending", "checking", "asleep"})
           <=> At(t, {"placed", "sending", "checking", "asleep"})',
         thread[t] # None =>
           /\ m_stripe_table'[thread[t].stripe] = m_stripe_table[thread[t].stripe]
           /\ m_object_commit_table'[key] = m_object_commit_table[key]
           /\ m_object_updating_table'[key] = m_object_updating_table[key]
           /\ \A b \in Blocks : files'[Name(t, b)] = files[Name(t, b)]
  PROVE  Kept(t, key)'
<1>1. CASE thread[t] = None
  BY <1>1 DEF Kept
<1>2. CASE thread[t] # None
  <2>1. InfoOf(t)' = InfoOf(t) /\ \A b : Name(t, b)' = Name(t, b)
    BY <1>2, PlacedStays DEF Placed
  <2>2. m_stripe_table'[thread'[t].stripe] = [key |-> key, home |-> thread'[t].home]
    BY <1>2 DEF Kept
  <2>3. IF thread'[t].at = "reported"
        THEN m_object_commit_table'[key] = InfoOf(t)'
        ELSE /\ m_object_commit_table'[key] = None
             /\ At(t, {"placed", "sending", "checking", "asleep"})'
             /\ ~ At(t, {"placed"})' => m_object_updating_table'[key] = InfoOf(t)'
    BY <1>2, <2>1 DEF Kept
  <2>4. thread'[t].at \in {"sent", "reported"} =>
          /\ ~ At(t, {"placed", "sending"})' /\ carries'[t] = t
          /\ \A b \in Blocks \ pending'[t] : files'[Name(t, b)'] = t
    BY <1>2, <2>1 DEF Kept
  <2>. QED
    BY <1>2, <2>2, <2>3, <2>4 DEF Kept
<1>. QED
  BY <1>1, <1>2

\* A step that starts no call leaves a set as undisturbed as it was.
LEMMA UndisturbedFrame ==
  ASSUME NEW t \in Calls, NEW key, NEW sure, Undisturbed(t, key, sure), [Next]_vars,
         \A u \in Calls : Unsettled(u)' => Unsettled(u),
         thread[t] # None /\ thread[t].at = "reported" => thread'[t] # None /\ thread'[t].at = "reported",
         t[2] = step'[t[1]] /\ pc'[t[1]] # "idle" => t[2] = step[t[1]] /\ pc[t[1]] # "idle",
         At(t, {"set", "placed", "sending", "checking", "asleep"})
           => At(t, {"set", "placed", "sending", "checking", "asleep"})',
         ~ sure => queue' \subseteq {t}
  PROVE  Undisturbed(t, key, sure)'
<1>1. \A u : kindOf(u)' = kindOf(u) /\ keyOf(u)' = keyOf(u)
  BY ScriptStays
<1>2. \A u \in Calls \ {t} : Unsettled(u)' => ~ Touches(u, key, {"set", "del"})'
  BY <1>1 DEF Undisturbed, Touches
<1>. QED
  BY <1>1, <1>2 DEF Undisturbed

\* The stripe of a placed set is not another's.
LEMMA OwnStripe ==
  ASSUME Ground, NEW t \in Calls, NEW u \in Calls, Placed(t), Placed(u), t # u
  PROVE  /\ thread[t].stripe # thread[u].stripe /\ thread[t].stripe # m_cur_stripe_id
         /\ thread[t].stripe \in StripeIds
         /\ keyOf(t) # keyOf(u) => \A b, i \in Blocks : Name(t, b) # Name(u, i)
<1>1. thread[t].stripe # thread[u].stripe
  BY DEF Ground, Numbered
<1>2. thread[t].stripe < m_cur_stripe_id /\ thread[t].stripe \in StripeIds /\ m_cur_stripe_id \in Nat
  BY CallShape DEF Ground, Base, ThreadsFit, Fit, Placed, Typed, Thread, StripeIds
<1>3. thread[t].stripe # m_cur_stripe_id
  BY <1>2, CallShape DEF StripeIds
<1>4. ASSUME keyOf(t) # keyOf(u), NEW b \in Blocks, NEW i \in Blocks PROVE Name(t, b) # Name(u, i)
  <2>1. CASE b \in DataBlocks /\ i \in DataBlocks
    BY <1>4, <2>1, FileShape DEF Name
  <2>2. CASE b \in DataBlocks /\ i \notin DataBlocks
    BY <2>2, FileShape DEF Name
  <2>3. CASE b \notin DataBlocks /\ i \in DataBlocks
    BY <2>3, FileShape DEF Name
  <2>4. CASE b \notin DataBlocks /\ i \notin DataBlocks
    BY <1>1, <2>4, FileShape DEF Name
  <2>. QED
    BY <2>1, <2>2, <2>3, <2>4
<1>. QED
  BY <1>1, <1>2, <1>3, <1>4

\* What was kept of a set stays while calls go on: who could touch its key or
\* its connection is over.  (Its own return is the next lemma.)
LEMMA TruthKept ==
  ASSUME Ground, LeftNamed, [Next]_vars, \A c \in Clients : ~ StartCall(c),
         NEW t \in Calls, NEW key \in Keys, NEW sure \in BOOLEAN, TrueFor(t, key, sure),
         \A c \in Clients : CheckCommitAbort(c) => t # call(c) \/ ~ Settled(c)
  PROVE  TrueFor(t, key, sure)'
<1>b. Base /\ Typed /\ ThreadsFit /\ Numbered /\ Connected
  BY DEF Ground, Base
<1>h. Started(t) /\ kindOf(t) = "set" /\ keyOf(t) = key /\ Kept(t, key) /\ Undisturbed(t, key, sure)
  BY DEF TrueFor
<1>k. \A u : kindOf(u)' = kindOf(u) /\ keyOf(u)' = keyOf(u)
  BY ScriptStays
<1>s. \A u \in Calls : Unsettled(u)' => Unsettled(u)
  BY <1>b, SettledStays
<1>u. \A u \in Calls : u # t /\ Unsettled(u) =>
        /\ kindOf(u) \in {"set", "del"} => keyOf(u) # key
        /\ kindOf(u) = "set" => sure
  BY <1>h DEF Undisturbed, Touches
<1>p. thread[t] # None => Placed(t) /\ thread[t].stripe # m_cur_stripe_id /\ thread[t].stripe \in StripeIds
  BY <1>b, <1>h, CallShape DEF Placed, ThreadsFit, Fit, Typed, Thread, StripeIds
<1>c. \A c \in Clients : pc[c] # "idle" => call(c) \in Calls /\ Unsettled(call(c))
  BY <1>b, InCall DEF Base
<1>a. t[1] \in Clients /\ (t[2] = step[t[1]] => t = call(t[1]))
  BY CallShape DEF call
<1>v. sure => thread[t] # None /\ thread[t].at = "reported" /\ (t[2] = step[t[1]] => pc[t[1]] = "idle")
  BY <1>h DEF Undisturbed
<1>w. ~ sure => /\ At(t, {"set", "placed", "sending", "checking", "asleep"}) /\ queue \subseteq {t}
                /\ t = call(t[1]) /\ pc[t[1]] # "idle"
  BY <1>a, <1>h DEF Undisturbed, At
<1> DEFINE Left ==
      thread[t] # None =>
        /\ m_stripe_table'[thread[t].stripe] = m_stripe_table[thread[t].stripe]
        /\ m_object_commit_table'[key] = m_object_commit_table[key]
        /\ m_object_updating_table'[key] = m_object_updating_table[key]
        /\ \A b \in Blocks : files'[Name(t, b)] = files[Name(t, b)]
      Own == thread'[t] = thread[t] /\ carries'[t] = carries[t] /\ pending'[t] = pending[t]
\* a step of another call's client
<1>o. ASSUME NEW c \in Clients, t # call(c), step' = step,
             \A d \in Clients : d # c => pc'[d] = pc[d], Own, Left,
             ~ sure => queue' \subseteq {t}
      PROVE  TrueFor(t, key, sure)'
  <2>1. \A where : At(t, where)' <=> At(t, where)
    BY <1>o, AtOther
  <2>2. t[2] = step'[t[1]] /\ pc'[t[1]] # "idle" => t[2] = step[t[1]] /\ pc[t[1]] # "idle"
    BY <1>a, <1>o
  <2>3. Kept(t, key)'
    BY <1>b, <1>h, <1>o, <2>1, KeptFrame
  <2>4. Undisturbed(t, key, sure)'
    BY <1>h, <1>o, <1>s, <2>1, <2>2, UndisturbedFrame
  <2>5. Started(t)'
    BY <1>h, <1>o DEF Started
  <2>. QED
    BY <1>h, <1>k, <2>3, <2>4, <2>5 DEF TrueFor
\* a step of another call's thread, which may wake sleepers
<1>n. ASSUME step' = step, \A d \in Clients : pc'[d] = pc[d] \/ (pc[d] = "asleep" /\ pc'[d] = "checking"),
             Own, Left, ~ sure => queue' \subseteq {t}
      PROVE  TrueFor(t, key, sure)'
  <2>1. /\ At(t, {"set"})' <=> At(t, {"set"})
        /\ At(t, {"placed"})' <=> At(t, {"placed"})
        /\ At(t, {"placed", "sending"})' <=> At(t, {"placed", "sending"})
        /\ At(t, {"placed", "sending", "checking", "asleep"})'
             <=> At(t, {"placed", "sending", "checking", "asleep"})
        /\ At(t, {"set", "placed", "sending", "checking", "asleep"})'
             <=> At(t, {"set", "placed", "sending", "checking", "asleep"})
    BY <1>n, <1>a DEF At
  <2>2. t[2] = step'[t[1]] /\ pc'[t[1]] # "idle" => t[2] = step[t[1]] /\ pc[t[1]] # "idle"
    BY <1>a, <1>n
  <2>3. Kept(t, key)'
    BY <1>b, <1>h, <1>n, <2>1, KeptFrame
  <2>4. Undisturbed(t, key, sure)'
    BY <1>h, <1>n, <1>s, <2>1, <2>2, UndisturbedFrame
  <2>5. Started(t)'
    BY <1>h, <1>n DEF Started
  <2>. QED
    BY <1>h, <1>k, <2>3, <2>4, <2>5 DEF TrueFor
<1>2. ASSUME NEW c \in Clients, PlaceObject(c) PROVE TrueFor(t, key, sure)'
  <2>1. CASE t # call(c)
    <3>1. /\ Unsettled(call(c)) /\ call(c) \in Calls /\ kindOf(call(c)) = "set"
          /\ Key(c) = keyOf(call(c))
      BY <1>b, <1>c, <1>2, PlaceEffect DEF Kind, Key
    <3>2. sure /\ Key(c) # key
      BY <1>u, <2>1, <3>1
    <3>3. Own
      BY <1>b, <1>2, <2>1, PlaceEffect
    <3>4. Left
      BY <1>b, <1>p, <1>2, <3>2, PlaceEffect
    <3>5. step' = step /\ \A d \in Clients : d # c => pc'[d] = pc[d]
      BY <1>b, <1>2, PlaceEffect
    <3> HIDE DEF Own, Left
    <3>. QED
      BY <1>o, <2>1, <3>2, <3>3, <3>4, <3>5
  <2>2. CASE t = call(c)
    <3>1. /\ pc[c] = "set" /\ pc'[c] = "placed" /\ Key(c) = key /\ step' = step /\ queue' = queue
          /\ thread[t] = None /\ thread'[t] # None /\ thread'[t].at = "accepting"
          /\ m_stripe_table'[thread'[t].stripe] = [key |-> key, home |-> thread'[t].home]
          /\ m_object_commit_table'[key] = None
      BY <1>b, <1>h, <1>2, <2>2, PlaceEffect DEF Key
    <3>2. t[1] = c /\ t[2] = step[c]
      BY <2>2 DEF call
    <3>3. At(t, {"placed"})' /\ At(t, {"placed", "sending", "checking", "asleep"})'
          /\ At(t, {"set", "placed", "sending", "checking", "asleep"})'
      BY <3>1, <3>2 DEF At
    <3>4. ~ sure
      BY <1>v, <3>1
    <3>5. Kept(t, key)'
      BY <3>1, <3>3 DEF Kept
    <3>6. Undisturbed(t, key, sure)'
      BY <1>h, <1>s, <1>w, <3>1, <3>2, <3>3, <3>4, UndisturbedFrame
    <3>7. Started(t)'
      BY <1>h, <3>1 DEF Started
    <3>. QED
      BY <1>h, <1>k, <3>5, <3>6, <3>7 DEF TrueFor
  <2>. QED
    BY <2>1, <2>2
<1>3. ASSUME NEW c \in Clients, NoteUpdating(c) PROVE TrueFor(t, key, sure)'
  <2>1. CASE t # call(c)
    <3>1. /\ Unsettled(call(c)) /\ call(c) \in Calls /\ kindOf(call(c)) = "set"
          /\ Key(c) = keyOf(call(c))
      BY <1>b, <1>c, <1>3, NoteEffect DEF Kind, Key
    <3>2. sure /\ Key(c) # key
      BY <1>u, <2>1, <3>1
    <3>3. Own /\ Left
      BY <1>b, <1>3, <3>2, NoteEffect
    <3>5. step' = step /\ \A d \in Clients : d # c => pc'[d] = pc[d]
      BY <1>b, <1>3, NoteEffect
    <3> HIDE DEF Own, Left
    <3>. QED
      BY <1>o, <2>1, <3>2, <3>3, <3>5
  <2>2. CASE t = call(c)
    <3>1. /\ pc[c] = "placed" /\ pc'[c] = "sending" /\ Key(c) = key /\ step' = step /\ queue' = queue
          /\ thread' = thread /\ carries' = carries /\ pending' = pending /\ files' = files
          /\ thread[t] # None /\ m_stripe_table' = m_stripe_table
          /\ m_object_commit_table' = m_object_commit_table
          /\ m_object_updating_table'[key] = InfoOf(t)
      BY <1>b, <1>h, <1>3, <2>2, NoteEffect DEF Key
    <3>2. t[1] = c /\ t[2] = step[c]
      BY <2>2 DEF call
    <3>3. /\ At(t, {"placed", "sending", "checking", "asleep"})' /\ At(t, {"placed", "sending"})
          /\ At(t, {"set", "placed", "sending", "checking", "asleep"})'
      BY <3>1, <3>2 DEF At
    <3>4. ~ sure
      BY <1>v, <3>1, <3>2
    <3>5. Kept(t, key)'
      <4>1. thread[t].at \notin {"sent", "reported"}
        BY <1>h, <3>1, <3>3 DEF Kept
      <4>2. InfoOf(t)' = InfoOf(t)
        BY <3>1 DEF InfoOf
      <4>. QED
        BY <1>h, <3>1, <3>3, <4>1, <4>2 DEF Kept
    <3>6. Undisturbed(t, key, sure)'
      BY <1>h, <1>s, <1>w, <3>1, <3>2, <3>3, <3>4, UndisturbedFrame
    <3>7. Started(t)'
      BY <1>h, <3>1 DEF Started
    <3>. QED
      BY <1>h, <1>k, <3>5, <3>6, <3>7 DEF TrueFor
  <2>. QED
    BY <2>1, <2>2
<1>4. ASSUME NEW c \in Clients, SendValue(c) PROVE TrueFor(t, key, sure)'
  <2>0. /\ pc[c] = "sending" /\ step' = step /\ Own /\ Left /\ queue' = queue \union {call(c)}
        /\ call(c) \in Calls /\ Kind(c) = "set" /\ pc'[c] = "checking"
        /\ \A d \in Clients : d # c => pc'[d] = pc[d]
    BY <1>b, <1>4, SendEffect
  <2>1. CASE t # call(c)
    <3>1. Unsettled(call(c)) /\ kindOf(call(c)) = "set"
      BY <1>c, <2>0 DEF Kind
    <3>2. sure
      BY <1>u, <2>0, <2>1, <3>1
    <3> HIDE DEF Own, Left
    <3>. QED
      BY <1>o, <2>0, <2>1, <3>2
  <2>2. CASE t = call(c)
    <3>2. t[1] = c /\ t[2] = step[c]
      BY <2>2 DEF call
    <3>3. /\ At(t, {"placed", "sending", "checking", "asleep"})' /\ At(t, {"placed", "sending"})
          /\ At(t, {"set", "placed", "sending", "checking", "asleep"})'
          /\ ~ At(t, {"placed"}) /\ ~ At(t, {"placed"})'
      BY <2>0, <3>2 DEF At
    <3>4. ~ sure /\ thread[t] # None
      BY <1>b, <1>4, <1>v, <2>0, <2>2, <3>2, SendEffect
    <3>5. Kept(t, key)'
      <4>1. thread[t].at \notin {"sent", "reported"}
        BY <1>h, <3>3, <3>4 DEF Kept
      <4>2. InfoOf(t)' = InfoOf(t)
        BY <2>0 DEF InfoOf
      <4>. QED
        BY <1>h, <2>0, <3>3, <3>4, <4>1, <4>2 DEF Kept
    <3>6. Undisturbed(t, key, sure)'
      BY <1>h, <1>s, <1>w, <2>0, <2>2, <3>2, <3>3, <3>4, UndisturbedFrame
    <3>7. Started(t)'
      BY <1>h, <2>0 DEF Started
    <3>. QED
      BY <1>h, <1>k, <3>5, <3>6, <3>7 DEF TrueFor
  <2>. QED
    BY <2>1, <2>2
<1>5. ASSUME NEW v \in Calls, AcceptAndEncode(v) PROVE TrueFor(t, key, sure)'
  <2>0. /\ step' = step /\ pc' = pc /\ queue' \subseteq queue /\ Left
        /\ thread[v] # None /\ thread[v].at = "accepting" /\ Placed(v)
    BY <1>b, <1>5, AcceptEffect
  <2>1. CASE t # v
    <3>1. Own
      BY <1>b, <1>5, <2>1, AcceptEffect
    <3> HIDE DEF Own, Left
    <3>. QED
      BY <1>n, <1>w, <2>0, <3>1
  <2>2. CASE t = v
    <3>1. ~ sure
      BY <1>v, <2>0, <2>2
    <3>2. PICK u \in queue : carries'[t] = ReceivedContent(t, u)
      BY <1>b, <1>5, <2>2, AcceptEffect
    <3>3. u = t
      BY <1>w, <3>1, <3>2
    <3>4. carries'[t] = t
      BY <3>2, <3>3 DEF ReceivedContent
    <3>5. ~ At(t, {"placed", "sending"})
      BY <1>b, <3>2, <3>3 DEF Connected
    <3>6. /\ At(t, {"placed", "sending", "checking", "asleep"})' <=> At(t, {"placed", "sending", "checking", "asleep"})
          /\ At(t, {"placed", "sending"})' <=> At(t, {"placed", "sending"})
          /\ At(t, {"placed"})' <=> At(t, {"placed"})
          /\ At(t, {"set", "placed", "sending", "checking", "asleep"})'
               <=> At(t, {"set", "placed", "sending", "checking", "asleep"})
      BY <2>0 DEF At
    <3>7. /\ thread'[t] # None /\ thread'[t].at = "sent" /\ thread'[t].stripe = thread[t].stripe
          /\ thread'[t].home = thread[t].home /\ pending'[t] = Blocks
      BY <1>b, <1>5, <2>0, <2>2, AcceptEffect
    <3>8. InfoOf(t)' = InfoOf(t)
      BY <3>7 DEF InfoOf
    <3>9. Kept(t, key)'
      BY <1>h, <2>0, <2>2, <3>4, <3>5, <3>6, <3>7, <3>8 DEF Kept
    <3>10. Undisturbed(t, key, sure)'
      BY <1>h, <1>s, <1>w, <2>0, <2>2, <3>1, <3>6, UndisturbedFrame
    <3>11. Started(t)'
      BY <1>h, <2>0 DEF Started
    <3>. QED
      BY <1>h, <1>k, <3>9, <3>10, <3>11 DEF TrueFor
  <2>. QED
    BY <2>1, <2>2
<1>6. ASSUME NEW v \in Calls, NEW i \in Blocks, handleSet(v, i) PROVE TrueFor(t, key, sure)'
  <2>0. /\ step' = step /\ pc' = pc /\ queue' = queue /\ thread' = thread /\ carries' = carries
        /\ m_stripe_table' = m_stripe_table /\ m_object_commit_table' = m_object_commit_table
        /\ m_object_updating_table' = m_object_updating_table
        /\ i \in pending[v] /\ Placed(v) /\ thread[v].at \in {"sent", "reported"}
        /\ files'[Name(v, i)] = carries[v]
        /\ \A f \in AllFiles : f # Name(v, i) => files'[f] = files[f]
        /\ \A u \in Calls : u # v => pending'[u] = pending[u]
        /\ pending'[v] = pending[v] \ {i}
    BY <1>b, <1>6, WriteEffect
  <2>f. thread[t] # None => \A b \in Blocks : Name(t, b) \in AllFiles
    <3>1. thread[t] # None => thread[t].home \in Homes /\ thread[t].stripe \in StripeIds
      BY <1>b, <1>h DEF ThreadsFit, Fit, Typed, Thread
    <3>. QED
      BY <1>h, <3>1, FileShape DEF Name
  <2>1. CASE t # v
    <3>1. Unsettled(v)
      <4>1. pending[v] # {}
        BY <2>0
      <4>2. Started(v)
        BY <1>b, <2>0 DEF ThreadsFit, Fit, Placed
      <4>. QED
        BY <4>1, <4>2 DEF Unsettled
    <3>2. keyOf(v) # key
      BY <1>u, <2>0, <2>1, <3>1 DEF Placed
    <3>3. thread[t] # None => \A b \in Blocks : Name(t, b) # Name(v, i)
      BY <1>h, <1>p, <2>0, <2>1, <3>2, OwnStripe
    <3>4. Own /\ Left
      BY <2>0, <2>1, <2>f, <3>3
    <3> HIDE DEF Own, Left
    <3>. QED
      BY <1>n, <1>w, <2>0, <3>4
  <2>2. CASE t = v
    <3>1. /\ At(t, {"placed", "sending", "checking", "asleep"})' <=> At(t, {"placed", "sending", "checking", "asleep"})
          /\ At(t, {"placed", "sending"})' <=> At(t, {"placed", "sending"})
          /\ At(t, {"placed"})' <=> At(t, {"placed"})
          /\ At(t, {"set", "placed", "sending", "checking", "asleep"})'
               <=> At(t, {"set", "placed", "sending", "checking", "asleep"})
      BY <2>0 DEF At
    <3>2. InfoOf(t)' = InfoOf(t) /\ \A b : Name(t, b)' = Name(t, b)
      BY <1>b, <2>0, <2>2, PlacedStays
    <3>3. thread[t] # None /\ carries[t] = t
      BY <1>h, <2>0, <2>2 DEF Kept, Placed
    <3>4. \A b \in Blocks \ pending'[t] : files'[Name(t, b)] = t
      <4>1. \A b \in Blocks \ pending[t] : files[Name(t, b)] = t
        BY <1>h, <2>0, <2>2, <3>3 DEF Kept
      <4>2. \A b \in Blocks : files'[Name(t, b)] = files[Name(t, b)] \/ files'[Name(t, b)] = t
        BY <2>0, <2>2, <2>f, <3>3
      <4>3. files'[Name(t, i)] = t
        BY <2>0, <2>2, <3>3
      <4>. QED
        BY <2>0, <2>2, <4>1, <4>2, <4>3
    <3>5. \A b \in Blocks \ pending'[t] : files'[Name(t, b)'] = t
      BY <3>2, <3>4
    <3>6. Kept(t, key)'
      BY <1>h, <2>0, <3>1, <3>2, <3>3, <3>5 DEF Kept
    <3>7. Undisturbed(t, key, sure)'
      BY <1>h, <1>s, <1>w, <2>0, <3>1, UndisturbedFrame
    <3>8. Started(t)'
      BY <1>h, <2>0 DEF Started
    <3>. QED
      BY <1>h, <1>k, <3>6, <3>7, <3>8 DEF TrueFor
  <2>. QED
    BY <2>1, <2>2
<1>7. ASSUME NEW c \in Clients, CopyInfo(c) PROVE TrueFor(t, key, sure)'
  <2>1. /\ pc[c] \in {"get", "del"} /\ Kind(c) = pc[c] /\ step' = step /\ queue' = queue
        /\ call(c) \in Calls /\ \A d \in Clients : d # c => pc'[d] = pc[d]
    BY <1>b, <1>7, CopyEffect
  <2>2. t # call(c) /\ Unsettled(call(c))
    BY <1>c, <1>h, <2>1 DEF Kind
  <2>3. Kind(c) = "del" => Key(c) # key
    BY <1>u, <2>1, <2>2 DEF Kind, Key
  <2>4. Own /\ Left
    BY <1>b, <1>7, <2>1, <2>3, CopyEffect
  <2> HIDE DEF Own, Left
  <2>. QED
    BY <1>o, <1>w, <2>1, <2>2, <2>4
<1>8. ASSUME NEW c \in Clients, LookUp(c) PROVE TrueFor(t, key, sure)'
  <2>1. /\ pc[c] = "looking" /\ Kind(c) \in {"get", "del"} /\ step' = step /\ queue' = queue
        /\ call(c) \in Calls /\ \A d \in Clients : d # c => pc'[d] = pc[d]
    BY <1>b, <1>8, LookEffect
  <2>2. t # call(c)
    BY <1>h, <2>1 DEF Kind
  <2>3. Own
    BY <1>b, <1>8, <2>2, LookEffect
  <2>4. Left
    BY <1>b, <1>8, LookEffect
  <2> HIDE DEF Own, Left
  <2>. QED
    BY <1>o, <1>w, <2>1, <2>2, <2>3, <2>4
<1>9. ASSUME NEW c \in Clients, NEW b \in Blocks, ReadBlock(c, b) PROVE TrueFor(t, key, sure)'
  <2>1. step' = step /\ pc' = pc /\ queue' = queue /\ Own /\ Left
    BY <1>b, <1>9, ReadEffect
  <2> HIDE DEF Own, Left
  <2>. QED
    BY <1>n, <1>w, <2>1
<1>10. ASSUME NEW c \in Clients, AnswerGet(c) PROVE TrueFor(t, key, sure)'
  <2>1. /\ step' = step /\ queue' = queue /\ Own /\ Left /\ Kind(c) = "get"
        /\ \A d \in Clients : d # c => pc'[d] = pc[d]
    BY <1>b, <1>10, AnswerEffect
  <2>2. t # call(c)
    BY <1>h, <2>1 DEF Kind
  <2> HIDE DEF Own, Left
  <2>. QED
    BY <1>o, <1>w, <2>1, <2>2
<1>11. ASSUME NEW v \in Calls, NEW f \in left[v], handleDelete(v, f) PROVE TrueFor(t, key, sure)'
  <2>0. /\ step' = step /\ pc' = pc /\ queue' = queue /\ Own
        /\ m_stripe_table' = m_stripe_table /\ m_object_commit_table' = m_object_commit_table
        /\ m_object_updating_table' = m_object_updating_table
        /\ thread[v] # None /\ thread[v].at = "deleting" /\ kindOf(v) = "del"
        /\ \A g \in AllFiles : g # f => files'[g] = files[g]
    BY <1>b, <1>11, RemoveEffect
  <2>1. t # v /\ Unsettled(v)
    BY <1>b, <1>h, <2>0 DEF ThreadsFit, Fit, Unsettled
  <2>2. keyOf(v) # key
    BY <1>u, <2>0, <2>1
  <2>3. PICK w \in Calls, i \in Blocks : Placed(w) /\ keyOf(w) = keyOf(v) /\ f = Name(w, i)
    BY DEF LeftNamed
  <2>4. thread[t] # None => \A b \in Blocks : Name(t, b) \in AllFiles /\ Name(t, b) # f
    <3>1. thread[t] # None => thread[t].home \in Homes /\ thread[t].stripe \in StripeIds
      BY <1>b, <1>h DEF ThreadsFit, Fit, Typed, Thread
    <3>2. thread[t] # None => \A b \in Blocks : Name(t, b) \in AllFiles
      BY <1>h, <3>1, FileShape DEF Name
    <3>3. w # t
      BY <1>h, <2>2, <2>3
    <3>4. thread[t] # None => \A b \in Blocks : Name(t, b) # Name(w, i)
      BY <1>h, <1>p, <2>2, <2>3, <3>3, OwnStripe
    <3>. QED
      BY <2>3, <3>2, <3>4
  <2>5. Left
    BY <2>0, <2>4
  <2> HIDE DEF Own, Left
  <2>. QED
    BY <1>n, <1>w, <2>0, <2>5
<1>12. ASSUME NEW v \in Calls, ReportSet(v) PROVE TrueFor(t, key, sure)'
  <2>0. /\ step' = step /\ queue' = queue /\ carries' = carries /\ pending' = pending /\ files' = files
        /\ m_stripe_table' = m_stripe_table
        /\ thread[v] # None /\ thread[v].at = "sent" /\ Placed(v)
        /\ \A d \in Clients : pc'[d] = pc[d] \/ (pc[d] = "asleep" /\ pc'[d] = "checking")
    BY <1>b, <1>12, ReportSetEffect
  <2>1. CASE t # v
    <3>1. Unsettled(v)
      BY <1>b, <2>0 DEF Unsettled, ThreadsFit, Fit
    <3>2. keyOf(v) # key
      BY <1>u, <2>0, <2>1, <3>1 DEF Placed
    <3>3. thread'[t] = thread[t]
      BY <1>b, <1>12, <2>1, ReportSetEffect
    <3>4. /\ m_object_commit_table'[key] = m_object_commit_table[key]
          /\ m_object_updating_table'[key] = m_object_updating_table[key]
      BY <1>b, <1>12, <3>2, ReportSetEffect
    <3>5. Own /\ Left
      BY <2>0, <3>3, <3>4
    <3> HIDE DEF Own, Left
    <3>. QED
      BY <1>n, <1>w, <2>0, <3>5
  <2>2. CASE t = v
    <3>1. ~ sure
      BY <1>v, <2>0, <2>2
    <3>2. /\ At(t, {"placed", "sending"})' <=> At(t, {"placed", "sending"})
          /\ At(t, {"set", "placed", "sending", "checking", "asleep"})'
               <=> At(t, {"set", "placed", "sending", "checking", "asleep"})
      BY <1>a, <2>0 DEF At
    <3>3. ~ At(t, {"placed", "sending"}) /\ carries[t] = t
          /\ (\A b \in Blocks \ pending[t] : files[Name(t, b)] = t)
          /\ m_stripe_table[thread[t].stripe] = [key |-> key, home |-> thread[t].home]
      BY <1>h, <2>0, <2>2 DEF Kept
    <3>4. ~ At(t, {"placed"})
      BY <3>3 DEF At
    <3>5. m_object_updating_table[key] = InfoOf(t)
      BY <1>h, <2>0, <2>2, <3>4 DEF Kept
    <3>6. InfoOf(t) # None
      <4>1. InfoOf(t) \in Info
        BY <1>b, <2>0, <2>2 DEF InfoOf, Info, Typed, Thread
      <4>. QED
        BY <4>1, NoNone
    <3>7. m_object_commit_table'[key] = InfoOf(t)
      BY <1>b, <1>h, <1>12, <2>2, <3>5, <3>6, ReportSetEffect
    <3>8. /\ thread'[t] # None /\ thread'[t].at = "reported" /\ thread'[t].stripe = thread[t].stripe
          /\ thread'[t].home = thread[t].home
      BY <1>b, <1>12, <2>0, <2>2, ReportSetEffect
    <3>9. InfoOf(t)' = InfoOf(t) /\ \A b : Name(t, b)' = Name(t, b)
      BY <1>b, <2>0, <2>2, PlacedStays
    <3>10. \A b \in Blocks \ pending'[t] : files'[Name(t, b)'] = t
      BY <2>0, <3>3, <3>9
    <3>11. Kept(t, key)'
      BY <2>0, <3>2, <3>3, <3>7, <3>8, <3>9, <3>10 DEF Kept
    <3>12. Undisturbed(t, key, sure)'
      BY <1>h, <1>s, <1>w, <2>0, <3>1, <3>2, <3>8, UndisturbedFrame
    <3>13. Started(t)'
      BY <1>h, <2>0 DEF Started
    <3>. QED
      BY <1>h, <1>k, <3>11, <3>12, <3>13 DEF TrueFor
  <2>. QED
    BY <2>1, <2>2
<1>13. ASSUME NEW v \in Calls, ReportDelete(v) PROVE TrueFor(t, key, sure)'
  <2>0. /\ step' = step /\ queue' = queue /\ carries' = carries /\ pending' = pending /\ files' = files
        /\ thread[v] # None /\ thread[v].at = "deleting" /\ kindOf(v) = "del"
        /\ \A d \in Clients : pc'[d] = pc[d] \/ (pc[d] = "asleep" /\ pc'[d] = "checking")
    BY <1>b, <1>13, ReportDeleteEffect
  <2>1. t # v /\ Unsettled(v)
    BY <1>b, <1>h, <2>0 DEF ThreadsFit, Fit, Unsettled
  <2>2. keyOf(v) # key
    BY <1>u, <2>0, <2>1
  <2>3. thread'[t] = thread[t]
    BY <1>b, <1>13, <2>1, ReportDeleteEffect
  <2>4. /\ m_object_commit_table'[key] = m_object_commit_table[key]
        /\ m_object_updating_table'[key] = m_object_updating_table[key]
    BY <1>b, <1>13, <2>2, ReportDeleteEffect
  <2>5. thread[t] # None => m_stripe_table'[thread[t].stripe] = m_stripe_table[thread[t].stripe]
    <3>1. ASSUME thread[t] # None PROVE ~ HasBlocks(thread[t].stripe, keyOf(v))
      BY <1>h, <2>2, <3>1 DEF Kept, HasBlocks
    <3>. QED
      BY <1>b, <1>p, <1>13, <3>1, ReportDeleteEffect
  <2>6. Own /\ Left
    BY <2>0, <2>3, <2>4, <2>5
  <2> HIDE DEF Own, Left
  <2>. QED
    BY <1>n, <1>w, <2>0, <2>6
<1>14. ASSUME NEW c \in Clients, CheckCommitAbort(c) PROVE TrueFor(t, key, sure)'
  <2>0. /\ step' = step /\ queue' = queue /\ Own /\ Left /\ pc[c] = "checking"
        /\ \A d \in Clients : d # c => pc'[d] = pc[d]
    BY <1>b, <1>14, CheckEffect
  <2>1. CASE t # call(c)
    <3> HIDE DEF Own, Left
    <3>. QED
      BY <1>o, <1>w, <2>0, <2>1
  <2>2. CASE t = call(c)
    <3>1. pc'[c] = "asleep"
      BY <1>b, <1>14, <2>2, CheckEffect
    <3>2. t[1] = c /\ t[2] = step[c]
      BY <2>2 DEF call
    <3>3. /\ At(t, {"placed", "sending", "checking", "asleep"})' <=> At(t, {"placed", "sending", "checking", "asleep"})
          /\ At(t, {"placed", "sending"})' <=> At(t, {"placed", "sending"})
          /\ At(t, {"placed"})' <=> At(t, {"placed"})
          /\ At(t, {"set"}) => At(t, {"set"})'
          /\ At(t, {"set", "placed", "sending", "checking", "asleep"})'
      BY <2>0, <3>1, <3>2 DEF At
    <3>4. Kept(t, key)'
      BY <1>b, <1>h, <2>0, <3>3, KeptFrame
    <3>5. Undisturbed(t, key, sure)'
      BY <1>h, <1>s, <1>v, <1>w, <2>0, <3>2, <3>3, UndisturbedFrame
    <3>6. Started(t)'
      BY <1>h, <2>0 DEF Started
    <3>. QED
      BY <1>h, <1>k, <3>4, <3>5, <3>6 DEF TrueFor
  <2>. QED
    BY <2>1, <2>2
<1>15. ASSUME UNCHANGED vars PROVE TrueFor(t, key, sure)'
  <2>1. step' = step /\ pc' = pc /\ queue' = queue /\ Own /\ Left
    BY <1>15 DEF vars, clientVars, coordVars, proxyVars, nodeVars
  <2> HIDE DEF Own, Left
  <2>. QED
    BY <1>n, <1>w, <2>1
<1>. QED
  BY <1>2, <1>3, <1>4, <1>5, <1>6, <1>7, <1>8, <1>9, <1>10, <1>11, <1>12, <1>13, <1>14, <1>15
     DEF Next, Running, Calling, Threads, Finished

\* A set that was undisturbed when its client saw it committed is sure.
LEMMA TruthReturn ==
  ASSUME Ground, [Next]_vars, NEW c \in Clients, CheckCommitAbort(c), Settled(c),
         NEW key \in Keys, NEW sure \in BOOLEAN, NEW t \in Calls, t = call(c), TrueFor(t, key, sure)
  PROVE  TrueFor(t, key, TRUE)'
<1>b. Base
  BY DEF Ground
<1>1. t = call(c)
  OBVIOUS
<1>2. t[1] = c /\ t[2] = step[c]
  BY <1>1 DEF call
<1>h. Started(t) /\ kindOf(t) = "set" /\ keyOf(t) = key /\ Kept(t, key) /\ Undisturbed(t, key, sure)
  BY <1>1 DEF TrueFor
<1>3. /\ pc[c] = "checking" /\ pc'[c] = "idle" /\ Kind(c) = "set" /\ Key(c) = key
      /\ UNCHANGED <<step, thread, pending, carries, files, queue, m_stripe_table,
                     m_object_commit_table, m_object_updating_table>>
      /\ \A d \in Clients : d # c => pc'[d] = pc[d]
  BY <1>b, <1>1, <1>h, CheckEffect DEF Kind, Key
<1>4. thread[t] # None
  BY <1>b, <1>1, <1>3 DEF Base, Positions, Position
<1>5. m_object_commit_table[key] # None
  BY <1>3 DEF Settled
<1>6. /\ thread[t].at = "reported" /\ m_object_commit_table[key] = InfoOf(t)
      /\ m_stripe_table[thread[t].stripe] = [key |-> key, home |-> thread[t].home]
      /\ carries[t] = t /\ \A b \in Blocks \ pending[t] : files[Name(t, b)] = t
  BY <1>h, <1>4, <1>5 DEF Kept
<1>k. /\ \A u : kindOf(u)' = kindOf(u) /\ keyOf(u)' = keyOf(u)
      /\ InfoOf(t)' = InfoOf(t) /\ \A b : Name(t, b)' = Name(t, b)
  BY <1>3, ScriptStays DEF InfoOf, Name
<1>7. ~ At(t, {"placed", "sending"})'
  BY <1>2, <1>3 DEF At
<1>8. Kept(t, key)'
  BY <1>3, <1>4, <1>6, <1>7, <1>k DEF Kept
<1>9. \A u \in Calls : Unsettled(u)' => Unsettled(u)
  <2>1. \A d \in Clients : ~ StartCall(d)
    BY <1>b, <1>3, StartEffect
  <2>. QED
    BY <1>b, <2>1, SettledStays
<1>10. Undisturbed(t, key, TRUE)'
  <2>1. \A u \in Calls \ {t} : Unsettled(u)' => ~ Touches(u, key, {"set", "del"})'
    BY <1>h, <1>9, <1>k DEF Undisturbed, Touches
  <2>2. thread'[t] # None /\ thread'[t].at = "reported" /\ pc'[t[1]] = "idle"
    BY <1>2, <1>3, <1>4, <1>6
  <2>. QED
    BY <2>1, <2>2 DEF Undisturbed
<1>11. Started(t)'
  BY <1>h, <1>3 DEF Started
<1>. QED
  BY <1>h, <1>k, <1>8, <1>10, <1>11 DEF TrueFor

\* Where a call of a client that begins another is.
LEMMA AtStart ==
  ASSUME Base, NEW c \in Clients, StartCall(c), NEW t \in Calls, Started(t), NEW where,
         "idle" \notin where
  PROVE  At(t, where)' <=> At(t, where)
<1>1. /\ pc[c] = "idle" /\ step[c] \in Nat /\ step'[c] = step[c] + 1
      /\ \A d \in Clients : d # c => step'[d] = step[d] /\ pc'[d] = pc[d]
  BY StartEffect
<1>2. t[1] \in Clients /\ t[2] \in 1 .. step[t[1]]
  BY CallShape DEF Started
<1>3. CASE t[1] = c
  <2>1. ~ At(t, where)
    BY <1>1, <1>3 DEF At
  <2>2. t[2] # step'[c]
    BY <1>1, <1>2, <1>3
  <2>. QED
    BY <1>3, <2>1, <2>2 DEF At
<1>4. CASE t[1] # c
  BY <1>1, <1>2, <1>4 DEF At
<1>. QED
  BY <1>3, <1>4

\* With no set under way no connection waits.
LEMMA NoQueue ==
  ASSUME Ground, \A u \in Calls : Unsettled(u) => kindOf(u) # "set"
  PROVE  queue = {}
<1>b. Base /\ Typed /\ ThreadsFit /\ Connected
  BY DEF Ground, Base
<1>1. SUFFICES ASSUME NEW x \in queue PROVE FALSE
  OBVIOUS
<1>2. x \in Calls /\ Placed(x)
  BY <1>b DEF Connected, Typed
<1>3. PICK cl \in Clusters : thread[x].cluster = cl
  BY <1>b, <1>2 DEF Placed, ThreadsFit, Fit
<1>4. x \in Waiting(cl)
  BY <1>3 DEF Waiting
<1>5. Cardinality(Waiting(cl)) # 0
  BY <1>b, <1>4, FiniteConnections, FS_EmptySet
<1>6. Cardinality(Accepting(cl)) # 0
  <2>1. Cardinality(Accepting(cl)) = Cardinality(Waiting(cl)) + Cardinality(Unsent(cl))
    BY <1>b DEF Connected
  <2>. QED
    BY <1>b, <1>5, <2>1, FiniteConnections
<1>7. Accepting(cl) # {}
  BY <1>b, <1>6, FiniteConnections, FS_EmptySet
<1>8. PICK y \in Calls : thread[y] # None /\ thread[y].at = "accepting"
  BY <1>7 DEF Accepting
<1>9. Started(y) /\ kindOf(y) = "set"
  BY <1>b, <1>8 DEF ThreadsFit, Fit
<1>10. Unsettled(y)
  BY <1>8, <1>9 DEF Unsettled
<1>. QED
  BY <1>9, <1>10

\* What a start makes of the truth of a key.
LEMMA StartTruth ==
  ASSUME NEW c, NEW kind, NEW x, NoteStart(c, kind, x), NEW key \in Keys, truth'[key] # None
  PROVE  \/ /\ truth'[key] = truth[key]
            /\ kind = "get" \/ (key # x /\ (kind = "set" => truth[key].sure))
         \/ /\ key = x /\ kind = "set" /\ Alone(<<c, step[c] + 1>>)
            /\ truth'[key].by = <<c, step[c] + 1>> /\ ~ truth'[key].sure
<1> DEFINE t == <<c, step[c] + 1>>
           next(y) ==
             IF y = x
             THEN IF kind = "set" /\ Alone(t) THEN [by |-> t, sure |-> FALSE] ELSE None
             ELSE IF kind = "set" /\ truth[y] # None /\ ~truth[y].sure
                  THEN None ELSE truth[y]
<1>1. truth' = IF kind = "get" THEN truth ELSE [y \in Keys |-> next(y)]
  BY DEF NoteStart
<1>2. CASE kind = "get"
  BY <1>1, <1>2
<1>3. CASE kind # "get"
  <2>1. truth'[key] = next(key)
    <3> HIDE DEF next
    <3>. QED
      BY <1>1, <1>3
  <2>2. \/ /\ truth'[key] = truth[key] /\ key # x
           /\ kind = "set" => truth[key].sure
        \/ /\ key = x /\ kind = "set" /\ Alone(t)
           /\ truth'[key] = [by |-> t, sure |-> FALSE]
    <3> HIDE DEF t
    <3>. QED
      BY <2>1
  <2>3. ASSUME NEW v, NEW r, r = [by |-> v, sure |-> FALSE] PROVE r.by = v /\ ~ r.sure
    BY <2>3
  <2>. QED
    BY <2>2, <2>3
<1>. QED
  BY <1>2, <1>3

\* A call that starts leaves the truths it does not touch, and may begin one.
LEMMA TruthStart ==
  ASSUME Ground, TruthHolds, [Next]_vars, NEW c \in Clients, StartCall(c),
         NEW key \in Keys, truth'[key] # None,
         NEW t \in Calls, NEW sure \in BOOLEAN, truth'[key].by = t, truth'[key].sure = sure
  PROVE  TrueFor(t, key, sure)'
<1>b. Base /\ Typed /\ ThreadsFit
  BY DEF Ground, Base
<1>e. /\ pc[c] = "idle" /\ step[c] \in Nat /\ step'[c] = step[c] + 1 /\ pc'[c] = Kind(c)'
      /\ \A d \in Clients : d # c => step'[d] = step[d] /\ pc'[d] = pc[d]
      /\ NoteStart(c, Kind(c)', Key(c)')
      /\ \A x \in Calls : Started(x)' <=> Started(x) \/ x = call(c)'
      /\ UNCHANGED <<thread, pending, carries, files, queue, m_stripe_table,
                     m_object_commit_table, m_object_updating_table>>
  BY <1>b, StartEffect
<1>u. PICK u \in Calls :
        /\ u = call(c)' /\ u = <<c, step[c] + 1>> /\ u[1] = c /\ u[2] = step[c] + 1
        /\ ~ Started(u) /\ thread[u] = None
        /\ Kind(c)' = kindOf(u) /\ Key(c)' = keyOf(u)
  <2>1. /\ call(c)' = <<c, step[c] + 1>> /\ call(c)' \in Calls
        /\ call(c)'[1] = c /\ call(c)'[2] = step[c] + 1
        /\ ~ Started(call(c)') /\ thread[call(c)'] = None
        /\ Kind(c)' = kindOf(call(c)') /\ Key(c)' = keyOf(call(c)')
    BY <1>b, StartEffect
  <2>. QED
    BY <2>1
<1>k. \A x : kindOf(x)' = kindOf(x) /\ keyOf(x)' = keyOf(x)
  BY ScriptStays
<1>s. \A x \in Calls : Unsettled(x)' => Unsettled(x) \/ x = u
  <2>1. \A d \in Clients : StartCall(d) => d = c
    <3>1. \A d \in Clients : StartCall(d) => step'[d] = step[d] + 1 /\ step[d] \in Nat
      BY <1>b, StartEffect
    <3>. QED
      BY <1>e, <3>1
  <2>. QED
    BY <1>b, <1>u, <2>1, SettledStays
<1>1. CASE /\ truth'[key] = truth[key]
           /\ Kind(c)' = "get" \/ (key # Key(c)' /\ (Kind(c)' = "set" => truth[key].sure))
  <2>1. t = truth[key].by /\ sure = truth[key].sure
    BY <1>1
  <2>2. t \in Calls /\ sure \in BOOLEAN
    OBVIOUS
  <2>3. Started(t) /\ kindOf(t) = "set" /\ keyOf(t) = key /\ Kept(t, key) /\ Undisturbed(t, key, sure)
    BY <1>1, <2>1 DEF TruthHolds, TrueFor
  <2>4. \A where : "idle" \notin where => (At(t, where)' <=> At(t, where))
    BY <1>b, <2>2, <2>3, AtStart
  <2>5. /\ At(t, {"set"})' <=> At(t, {"set"})
        /\ At(t, {"placed"})' <=> At(t, {"placed"})
        /\ At(t, {"placed", "sending"})' <=> At(t, {"placed", "sending"})
        /\ At(t, {"placed", "sending", "checking", "asleep"})'
             <=> At(t, {"placed", "sending", "checking", "asleep"})
        /\ At(t, {"set", "placed", "sending", "checking", "asleep"})'
             <=> At(t, {"set", "placed", "sending", "checking", "asleep"})
    <3>1. /\ "idle" \notin {"set"} /\ "idle" \notin {"placed"} /\ "idle" \notin {"placed", "sending"}
          /\ "idle" \notin {"placed", "sending", "checking", "asleep"}
          /\ "idle" \notin {"set", "placed", "sending", "checking", "asleep"}
      OBVIOUS
    <3>. QED
      BY <2>4, <3>1
  <2>6. Kept(t, key)'
    BY <1>b, <1>e, <2>2, <2>3, <2>5, KeptFrame
  <2>7. \A x \in Calls \ {t} : Unsettled(x)' => ~ Touches(x, key, {"set", "del"})'
    <3>1. ~ Touches(u, key, {"set", "del"})
      BY <1>1, <1>u DEF Touches
    <3>. QED
      BY <1>k, <1>s, <2>3, <3>1 DEF Undisturbed, Touches
  <2>8. CASE sure
    <3>1. /\ thread[t] # None /\ thread[t].at = "reported"
          /\ t[2] = step[t[1]] => pc[t[1]] = "idle"
      BY <2>3, <2>8 DEF Undisturbed
    <3>2. t[2] = step'[t[1]] => pc'[t[1]] = "idle"
      <4>1. t[1] \in Clients /\ t[2] \in 1 .. step[t[1]]
        BY <2>2, <2>3, CallShape DEF Started
      <4>2. CASE t[1] = c
        BY <1>e, <4>1, <4>2
      <4>3. CASE t[1] # c
        BY <1>e, <3>1, <4>1, <4>3
      <4>. QED
        BY <4>2, <4>3
    <3>3. Undisturbed(t, key, sure)'
      BY <1>e, <2>7, <2>8, <3>1, <3>2 DEF Undisturbed
    <3>. QED
      BY <1>e, <1>k, <2>3, <2>6, <3>3 DEF TrueFor
  <2>9. CASE ~ sure
    <3>1. /\ At(t, {"set", "placed", "sending", "checking", "asleep"}) /\ queue \subseteq {t}
          /\ \A x \in Calls \ {t} : Unsettled(x) => kindOf(x) # "set"
      BY <2>3, <2>9 DEF Undisturbed
    <3>2. kindOf(u) # "set"
      BY <1>1, <1>u, <2>1, <2>9
    <3>3. \A x \in Calls \ {t} : Unsettled(x)' => kindOf(x)' # "set"
      BY <1>k, <1>s, <3>1, <3>2
    <3>4. Undisturbed(t, key, sure)'
      BY <1>e, <2>5, <2>7, <2>9, <3>1, <3>3 DEF Undisturbed
    <3>. QED
      BY <1>e, <1>k, <2>3, <2>6, <3>4 DEF TrueFor
  <2>. QED
    BY <2>8, <2>9
<1>2. CASE /\ key = Key(c)' /\ Kind(c)' = "set" /\ Alone(u)
           /\ truth'[key].by = u /\ ~ truth'[key].sure
  <2>1. kindOf(u) = "set" /\ keyOf(u) = key /\ u = t /\ sure = FALSE
    <3>1. kindOf(u) = "set" /\ keyOf(u) = key
      BY <1>2, <1>u
    <3>2. u = t /\ sure = FALSE
      BY <1>2
    <3>. QED
      BY <3>1, <3>2
  <2>2. \A x \in Calls \ {u} : Unsettled(x) => kindOf(x) # "set" /\ ~ Touches(x, key, {"del"})
    BY <1>2, <2>1 DEF Alone
  <2>3. ~ Unsettled(u)
    BY <1>u DEF Unsettled
  <2>4. queue = {}
    BY <2>2, <2>3, NoQueue
  <2>5. At(u, {"set"})' /\ At(u, {"set", "placed", "sending", "checking", "asleep"})'
    BY <1>2, <1>e, <1>u DEF At
  <2>6. Kept(u, key)'
    BY <1>e, <1>u, <2>5 DEF Kept
  <2>7. \A x \in Calls \ {u} : Unsettled(x)' =>
          kindOf(x)' # "set" /\ ~ Touches(x, key, {"set", "del"})'
    BY <1>k, <1>s, <2>2 DEF Touches
  <2>8. Undisturbed(u, key, FALSE)'
    BY <1>e, <2>4, <2>5, <2>7 DEF Undisturbed
  <2>9. Started(u)'
    BY <1>e, <1>u
  <2>10. TrueFor(u, key, FALSE)'
    BY <1>k, <2>1, <2>6, <2>8, <2>9 DEF TrueFor
  <2>. QED
    BY <2>1, <2>10
<1>3. \/ /\ truth'[key] = truth[key]
         /\ Kind(c)' = "get" \/ (key # Key(c)' /\ (Kind(c)' = "set" => truth[key].sure))
      \/ /\ key = Key(c)' /\ Kind(c)' = "set" /\ Alone(u)
         /\ truth'[key].by = u /\ ~ truth'[key].sure
  <2>1. ASSUME NEW kind, NEW x, NoteStart(c, kind, x)
        PROVE  \/ /\ truth'[key] = truth[key]
                  /\ kind = "get" \/ (key # x /\ (kind = "set" => truth[key].sure))
               \/ /\ key = x /\ kind = "set" /\ Alone(<<c, step[c] + 1>>)
                  /\ truth'[key].by = <<c, step[c] + 1>> /\ ~ truth'[key].sure
    BY <2>1, StartTruth
  <2>. QED
    BY <1>e, <1>u, <2>1
<1>. QED
  BY <1>1, <1>2, <1>3

\* Between starts the history changes only when a client sees its own set,
\* undisturbed so far, committed.
LEMMA HistoryStays ==
  ASSUME Base, [Next]_vars, \A c \in Clients : ~ StartCall(c)
  PROVE  /\ relies' = relies /\ contended' = contended
         /\ \/ truth' = truth
            \/ \E c \in Clients :
                 /\ CheckCommitAbort(c) /\ Settled(c) /\ Key(c) \in Keys
                 /\ truth[Key(c)] # None /\ truth[Key(c)].by = call(c)
                 /\ truth'[Key(c)].by = call(c) /\ truth'[Key(c)].sure
                 /\ \A x \in Keys : x # Key(c) => truth'[x] = truth[x]
<1>1. ASSUME NEW c \in Clients, PlaceObject(c) PROVE UNCHANGED history
  BY <1>1 DEF PlaceObject
<1>2. ASSUME NEW c \in Clients, NoteUpdating(c) PROVE UNCHANGED history
  BY <1>2 DEF NoteUpdating
<1>3. ASSUME NEW c \in Clients, SendValue(c) PROVE UNCHANGED history
  BY <1>3 DEF SendValue
<1>4. ASSUME NEW c \in Clients, CopyInfo(c) PROVE UNCHANGED history
  BY <1>4 DEF CopyInfo
<1>5. ASSUME NEW c \in Clients, NEW b \in Blocks, ReadBlock(c, b) PROVE UNCHANGED history
  BY <1>5 DEF ReadBlock
<1>6. ASSUME NEW c \in Clients, LookUp(c) PROVE UNCHANGED history
  BY <1>6 DEF LookUp
<1>7. ASSUME NEW c \in Clients, AnswerGet(c) PROVE UNCHANGED history
  BY <1>7 DEF AnswerGet, history
<1>8. ASSUME NEW t \in Calls, Threads(t) PROVE UNCHANGED history
  BY <1>8 DEF Threads, AcceptAndEncode, ReportSet, ReportDelete, handleSet, handleDelete
<1>9. ASSUME UNCHANGED vars PROVE UNCHANGED history
  BY <1>9 DEF vars
<1>10. ASSUME NEW c \in Clients, CheckCommitAbort(c)
       PROVE  /\ relies' = relies /\ contended' = contended
              /\ \/ truth' = truth
                 \/ /\ Settled(c) /\ Key(c) \in Keys
                    /\ truth[Key(c)] # None /\ truth[Key(c)].by = call(c)
                    /\ truth'[Key(c)].by = call(c) /\ truth'[Key(c)].sure
                    /\ \A x \in Keys : x # Key(c) => truth'[x] = truth[x]
  BY <1>10, CheckEffect
<1>. QED
  BY <1>1, <1>2, <1>3, <1>4, <1>5, <1>6, <1>7, <1>8, <1>9, <1>10
     DEF Next, Running, Calling, Finished, history

\* What is held for true of a key stays true.
LEMMA TruthHoldsStays ==
  ASSUME Ground, LeftNamed, TruthHolds, [Next]_vars
  PROVE  TruthHolds'
<1>b. Base /\ Typed
  BY DEF Ground, Base
<1> SUFFICES ASSUME NEW key \in Keys, truth'[key] # None,
                    NEW t \in Calls, NEW sure \in BOOLEAN, truth'[key].by = t, truth'[key].sure = sure
             PROVE  TrueFor(t, key, sure)'
  BY DEF TruthHolds
<1>1. CASE \E c \in Clients : StartCall(c)
  BY <1>1, TruthStart
<1>2. CASE \A c \in Clients : ~ StartCall(c)
  <2>1. CASE truth[key] # None /\ \E c \in Clients : CheckCommitAbort(c) /\ Settled(c) /\ truth[key].by = call(c)
    <3>1. PICK c \in Clients : CheckCommitAbort(c) /\ Settled(c) /\ truth[key].by = call(c)
      BY <2>1
    <3>2. truth[key] \in Truths
      BY <1>b, <2>1 DEF Typed
    <3>3. PICK u \in Calls, v \in BOOLEAN : truth[key].by = u /\ truth[key].sure = v
      BY <3>2 DEF Truths
    <3>4. u = call(c) /\ TrueFor(u, key, v)
      BY <2>1, <3>1, <3>3 DEF TruthHolds
    <3>8. TrueFor(u, key, TRUE)'
      BY <3>1, <3>4, TruthReturn
    <3>5. Kind(c) = "set" /\ Key(c) = key
      BY <3>4 DEF TrueFor, Kind, Key
    <3>6. truth'[key].by = call(c)
      BY <1>b, <2>1, <3>1, <3>5, CheckEffect
    <3>7. truth'[key].sure
      BY <1>b, <3>1, <3>5, <3>6, CheckEffect
    <3>. QED
      BY <3>4, <3>6, <3>7, <3>8
  <2>2. CASE truth[key] # None /\ \A c \in Clients : CheckCommitAbort(c) => truth[key].by # call(c) \/ ~ Settled(c)
    <3>1. truth'[key] = truth[key]
      BY <1>2, <1>b, <2>2, HistoryStays
    <3>2. TrueFor(t, key, sure)
      BY <2>2, <3>1 DEF TruthHolds
    <3>. QED
      BY <1>2, <2>2, <3>1, <3>2, TruthKept
  <2>3. CASE truth[key] = None
    BY <1>2, <1>b, <2>3, HistoryStays
  <2>. QED
    BY <2>1, <2>2, <2>3
<1>. QED
  BY <1>1, <1>2

-----------------------------------------------------------------------------
(* What a get hears.                                                       *)

\* Enough blocks without the first data block are with the local parity.
LEMMA EnoughShape ==
  ASSUME NEW got \in SUBSET (Blocks \X Content), Enough(got), 0 \notin Received(got)
  PROVE  Local \in Received(got)
<1>k. k \in Nat \ {0} /\ g_m \in {0, 1}
  BY ObjectAssumption
<1>1. Received(got) \subseteq Blocks
  BY DEF Received
<1>2. 0 \in DataBlocks
  BY BlockShape
<1>3. Cardinality(Received(got)) >= k + 1
  BY <1>2 DEF Enough, check_received_block
<1> SUFFICES ASSUME Local \notin Received(got) PROVE FALSE
  OBVIOUS
<1>4. Received(got) \subseteq 1 .. k + g_m - 1
  BY <1>1, <1>k DEF Blocks, Local
<1>m. PICK m \in Nat : m = k + g_m - 1
  BY <1>k
<1>5. IsFiniteSet(1 .. m) /\ Cardinality(1 .. m) = m
  <2>1. IsFiniteSet(1 .. m) /\ Cardinality(1 .. m) = IF 1 > m THEN 0 ELSE m - 1 + 1
    BY FS_Interval
  <2>. QED
    BY <2>1
<1>6. Received(got) \subseteq 1 .. m
  BY <1>4, <1>m
<1>7. IsFiniteSet(Received(got)) /\ Cardinality(Received(got)) <= Cardinality(1 .. m)
  BY <1>5, <1>6, FS_Subset
<1>8. Cardinality(Received(got)) \in Nat
  BY <1>7, FS_CardinalityType
<1>. QED
  BY <1>k, <1>m, <1>3, <1>5, <1>7, <1>8

\* From blocks of one value the first data block is that value's.
LEMMA DecodedFirst ==
  ASSUME NEW got \in SUBSET (Blocks \X Content), Enough(got), NEW t, \A p \in got : p[2] = t
  PROVE  Decoded(got)[0] = t
<1> DEFINE group == {p[2] : p \in {q \in got : q[1] \in DataBlocks \union {Local}}}
<1>1. Decoded(got)[0] = IF 0 \in Received(got) THEN (CHOOSE p \in got : p[1] = 0)[2]
                        ELSE IF Cardinality(group) = 1 THEN CHOOSE x \in group : TRUE ELSE Garbage
  BY BlockShape DEF Decoded
<1>2. CASE 0 \in Received(got)
  <2>1. \E p \in got : p[1] = 0
    BY <1>2 DEF Received
  <2>. QED
    BY <1>1, <1>2, <2>1
<1>3. CASE 0 \notin Received(got)
  <2>1. Local \in Received(got)
    BY <1>3, EnoughShape
  <2>2. \E q \in got : q[1] = Local
    BY <2>1 DEF Received
  <2>3. group = {t}
    BY <2>2
  <2>4. \A S : S = {t} => Cardinality(S) = 1 /\ (CHOOSE x \in S : TRUE) = t
    BY FS_Singleton
  <2> HIDE DEF group
  <2>. QED
    BY <1>1, <1>3, <2>3, <2>4
<1>. QED
  BY <1>2, <1>3

\* What a get that counts on a set finds.
LEMMA RelyFacts ==
  ASSUME Ground, TruthHolds, NEW c \in Clients, NEW t \in Calls, relies[c] # None, RelyFor(c, t),
         relies[c].by = t
  PROVE  /\ Placed(t) /\ thread[t].at = "reported"
         /\ t[2] = step[t[1]] => pc[t[1]] = "idle"
         /\ m_object_commit_table[keyOf(t)] = InfoOf(t)
         /\ FilesOf(thread[t].stripe) = Names(t)
         /\ \A b \in Blocks : files[Name(t, b)] = t
<1>b. Typed
  BY DEF Ground, Base
<1>1. /\ truth[keyOf(t)] = relies[c] /\ relies[c].sure /\ pending[t] = {} /\ keyOf(t) \in Keys
  BY DEF RelyFor
<1>2. relies[c] \in Truths
  BY <1>b DEF Typed
<1>3. PICK sure \in BOOLEAN : relies[c].sure = sure
  BY <1>2 DEF Truths
<1>4. sure
  BY <1>1, <1>3
<1>5. TrueFor(t, keyOf(t), sure)
  BY <1>1, <1>3 DEF TruthHolds
<1>6. kindOf(t) = "set" /\ Kept(t, keyOf(t)) /\ Undisturbed(t, keyOf(t), sure)
  BY <1>5 DEF TrueFor
<1>7. thread[t] # None /\ thread[t].at = "reported" /\ (t[2] = step[t[1]] => pc[t[1]] = "idle")
  BY <1>4, <1>6 DEF Undisturbed
<1>8. /\ m_object_commit_table[keyOf(t)] = InfoOf(t)
      /\ m_stripe_table[thread[t].stripe] = [key |-> keyOf(t), home |-> thread[t].home]
      /\ \A b \in Blocks : files[Name(t, b)] = t
  BY <1>1, <1>6, <1>7 DEF Kept
<1>9. FilesOf(thread[t].stripe) = Names(t)
  BY <1>8 DEF FilesOf, Name, Names
<1>. QED
  BY <1>6, <1>7, <1>8, <1>9 DEF Placed

\* A start leaves the sure truths of the keys it does not write.
LEMMA StartKeeps ==
  ASSUME NEW c, NEW kind, NEW x, NoteStart(c, kind, x), NEW key \in Keys,
         kind = "get" \/ key # x, truth[key].sure
  PROVE  truth'[key] = truth[key]
<1> DEFINE next(y) ==
             IF y = x
             THEN IF kind = "set" /\ Alone(<<c, step[c] + 1>>)
                  THEN [by |-> <<c, step[c] + 1>>, sure |-> FALSE] ELSE None
             ELSE IF kind = "set" /\ truth[y] # None /\ ~truth[y].sure
                  THEN None ELSE truth[y]
<1>1. truth' = IF kind = "get" THEN truth ELSE [y \in Keys |-> next(y)]
  BY DEF NoteStart
<1>2. CASE kind = "get"
  BY <1>1, <1>2
<1>3. CASE kind # "get"
  <2>1. truth'[key] = next(key)
    <3> HIDE DEF next
    <3>. QED
      BY <1>1, <1>3
  <2>2. key # x
    BY <1>3
  <2>. QED
    BY <2>1, <2>2
<1>. QED
  BY <1>2, <1>3

\* What a start makes of what a get counts on.
LEMMA StartRelies ==
  ASSUME NEW c, NEW kind, NEW x, NoteStart(c, kind, x), NEW d \in Clients, relies'[d] # None
  PROVE  \/ /\ d = c /\ kind = "get" /\ relies'[d] = truth[x]
            /\ truth[x].sure /\ pending[truth[x].by] = {} /\ truth' = truth
         \/ /\ d # c /\ relies'[d] = relies[d]
            /\ kind = "get" \/ keyOf(relies[d].by) # x
<1>1. kind = "get" => truth' = truth
  BY DEF NoteStart
<1>2. relies'[d] =
        IF d = c
        THEN IF /\ kind = "get" /\ truth[x] # None
                /\ truth[x].sure /\ pending[truth[x].by] = {}
             THEN truth[x] ELSE None
        ELSE IF kind # "get" /\ relies[d] # None /\ keyOf(relies[d].by) = x
             THEN None ELSE relies[d]
  BY DEF NoteStart
<1>. QED
  BY <1>1, <1>2

\* A get goes on to count on a set if what it copied, reads or heard is the set's.
LEMMA RelyFrame ==
  ASSUME Ground, TruthHolds, [Next]_vars, \A c \in Clients : ~ StartCall(c),
         NEW d \in Clients, NEW t \in Calls, relies[d] # None, relies[d].by = t, RelyFor(d, t),
         pc'[d] = "looking" => looked'[d] = InfoOf(t),
         pc'[d] = "reading" => /\ ~ reading'[d].empty /\ reading'[d].names = Names(t)
                               /\ \A p \in reading'[d].got : p[2] = t,
         heard'[d] # None =>
           heard'[d][0] = t /\ \A i \in DataBlocks : heard'[d][i] \in {t, Garbage},
         step' = step, pending'[t] = pending[t]
  PROVE  RelyFor(d, t)'
<1>b. Base
  BY DEF Ground
<1>1. Placed(t) /\ (t[2] = step[t[1]] => pc[t[1]] = "idle")
  BY RelyFacts
<1>2. InfoOf(t)' = InfoOf(t) /\ Names(t)' = Names(t)
  BY <1>b, <1>1, PlacedStays
<1>3. /\ kindOf(t)' = kindOf(t) /\ keyOf(t)' = keyOf(t) /\ Kind(d)' = Kind(d) /\ Key(d)' = Key(d)
  BY ScriptStays, SameCalls
<1>4. /\ truth[keyOf(t)] = relies[d] /\ relies[d].sure /\ pending[t] = {} /\ keyOf(t) \in Keys
      /\ step[d] >= 1 /\ Kind(d) = "get" /\ Key(d) = keyOf(t)
  BY DEF RelyFor
<1>5. relies' = relies
  BY <1>b, HistoryStays
<1>6. truth'[keyOf(t)] = truth[keyOf(t)]
  <2>1. ASSUME NEW c \in Clients, CheckCommitAbort(c), truth[Key(c)].by = call(c)
        PROVE  Key(c) # keyOf(t)
    <3>1. pc[c] = "checking"
      BY <2>1 DEF CheckCommitAbort
    <3>2. t # call(c)
      BY <1>1, <3>1 DEF call
    <3>. QED
      BY <1>4, <2>1, <3>2
  <2>. QED
    BY <1>4, <1>b, <2>1, HistoryStays
<1>. QED
  BY <1>2, <1>3, <1>4, <1>5, <1>6 DEF RelyFor

\* What gets count on stays.
LEMMA ReliesHoldStays ==
  ASSUME Ground, TruthHolds, ReliesHold, [Next]_vars
  PROVE  ReliesHold'
<1>b. Base /\ Typed
  BY DEF Ground, Base
<1> SUFFICES ASSUME NEW d \in Clients, NEW t \in Calls, relies'[d] # None, relies'[d].by = t
             PROVE  RelyFor(d, t)'
  BY DEF ReliesHold
<1>1. ASSUME NEW c \in Clients, StartCall(c) PROVE RelyFor(d, t)'
  <2>e. /\ step[c] \in Nat /\ step'[c] = step[c] + 1 /\ pc'[c] = Kind(c)' /\ heard'[c] = None
        /\ NoteStart(c, Kind(c)', Key(c)') /\ Key(c)' \in Keys
        /\ \A x \in Clients : x # c =>
              /\ step'[x] = step[x] /\ pc'[x] = pc[x] /\ heard'[x] = heard[x]
              /\ Kind(x)' = Kind(x) /\ Key(x)' = Key(x)
        /\ \A u : kindOf(u)' = kindOf(u) /\ keyOf(u)' = keyOf(u)
        /\ UNCHANGED <<looked, reading, thread, pending>>
    BY <1>1, <1>b, StartEffect
  <2>n. \/ /\ d = c /\ Kind(c)' = "get" /\ relies'[d] = truth[Key(c)']
           /\ truth[Key(c)'].sure /\ pending[truth[Key(c)'].by] = {} /\ truth' = truth
        \/ /\ d # c /\ relies'[d] = relies[d]
           /\ Kind(c)' = "get" \/ keyOf(relies[d].by) # Key(c)'
    <3>1. ASSUME NEW kind, NEW x, NoteStart(c, kind, x)
          PROVE  \/ /\ d = c /\ kind = "get" /\ relies'[d] = truth[x]
                    /\ truth[x].sure /\ pending[truth[x].by] = {} /\ truth' = truth
                 \/ /\ d # c /\ relies'[d] = relies[d]
                    /\ kind = "get" \/ keyOf(relies[d].by) # x
      BY <3>1, StartRelies
    <3>. QED
      BY <2>e, <3>1
  <2>1. CASE /\ d = c /\ Kind(c)' = "get" /\ relies'[d] = truth[Key(c)']
             /\ truth[Key(c)'].sure /\ pending[truth[Key(c)'].by] = {} /\ truth' = truth
    <3>1. PICK key \in Keys : key = Key(c)'
      BY <2>e
    <3>2. truth[key] # None /\ truth[key].by = t /\ truth[key].sure /\ pending[t] = {}
      BY <2>1, <3>1
    <3>3. truth[key] \in Truths
      BY <1>b, <3>2 DEF Typed
    <3>4. PICK sure \in BOOLEAN : truth[key].sure = sure
      BY <3>3 DEF Truths
    <3>5. keyOf(t) = key
      BY <3>2, <3>4 DEF TruthHolds, TrueFor
    <3>. QED
      BY <2>1, <2>e, <3>1, <3>2, <3>5 DEF RelyFor
  <2>2. CASE /\ d # c /\ relies'[d] = relies[d]
             /\ Kind(c)' = "get" \/ keyOf(relies[d].by) # Key(c)'
    <3>1. relies[d] # None /\ relies[d].by = t /\ RelyFor(d, t)
      BY <2>2 DEF ReliesHold
    <3>2. truth[keyOf(t)].sure /\ keyOf(t) \in Keys
      BY <3>1 DEF RelyFor
    <3>3. truth'[keyOf(t)] = truth[keyOf(t)]
      <4>1. ASSUME NEW kind, NEW x, NoteStart(c, kind, x), kind = "get" \/ keyOf(t) # x
            PROVE  truth'[keyOf(t)] = truth[keyOf(t)]
        BY <3>2, <4>1, StartKeeps
      <4>. QED
        BY <2>2, <2>e, <3>1, <4>1
    <3>4. InfoOf(t)' = InfoOf(t) /\ Names(t)' = Names(t)
      BY <2>e DEF InfoOf, Names, Name
    <3>. QED
      BY <2>2, <2>e, <3>1, <3>3, <3>4 DEF RelyFor
  <2>. QED
    BY <2>n, <2>1, <2>2
<1>2. CASE \A c \in Clients : ~ StartCall(c)
  <2>r. relies[d] # None /\ relies[d].by = t /\ RelyFor(d, t)
    BY <1>2, <1>b, HistoryStays DEF ReliesHold
  <2>f. /\ Placed(t) /\ thread[t].at = "reported" /\ m_object_commit_table[keyOf(t)] = InfoOf(t)
        /\ FilesOf(thread[t].stripe) = Names(t) /\ \A b \in Blocks : files[Name(t, b)] = t
    BY <2>r, RelyFacts
  <2>v. /\ pending[t] = {} /\ Kind(d) = "get" /\ Key(d) = keyOf(t)
        /\ pc[d] = "looking" => looked[d] = InfoOf(t)
        /\ pc[d] = "reading" => /\ ~ reading[d].empty /\ reading[d].names = Names(t)
                                /\ \A p \in reading[d].got : p[2] = t
        /\ heard[d] # None =>
             heard[d][0] = t /\ \A i \in DataBlocks : heard[d][i] \in {t, Garbage}
    BY <2>r DEF RelyFor
  \* what this get has is what it had
  <2>s. ASSUME step' = step, pending'[t] = pending[t], heard'[d] = heard[d],
               pc'[d] = "looking" => pc[d] = "looking" /\ looked'[d] = looked[d],
               pc'[d] = "reading" => pc[d] = "reading" /\ reading'[d] = reading[d]
        PROVE  RelyFor(d, t)'
    BY <1>2, <2>r, <2>s, <2>v, RelyFrame
  <2>2. ASSUME NEW c \in Clients, PlaceObject(c) PROVE RelyFor(d, t)'
    <3>1. /\ pc[c] = "set" /\ pc'[c] = "placed" /\ step' = step /\ pending' = pending
          /\ heard' = heard /\ reading' = reading
          /\ \A x \in Clients : x # c => pc'[x] = pc[x] /\ looked'[x] = looked[x]
      BY <1>b, <2>2, PlaceEffect
    <3>. QED
      BY <2>s, <3>1
  <2>3. ASSUME NEW c \in Clients, NoteUpdating(c) PROVE RelyFor(d, t)'
    <3>1. /\ pc[c] = "placed" /\ pc'[c] = "sending" /\ step' = step /\ pending' = pending
          /\ heard' = heard /\ reading' = reading
          /\ \A x \in Clients : x # c => pc'[x] = pc[x] /\ looked'[x] = looked[x]
      BY <1>b, <2>3, NoteEffect
    <3>. QED
      BY <2>s, <3>1
  <2>4. ASSUME NEW c \in Clients, SendValue(c) PROVE RelyFor(d, t)'
    <3>1. /\ pc'[c] = "checking" /\ step' = step /\ pending' = pending
          /\ heard' = heard /\ reading' = reading /\ looked' = looked
          /\ \A x \in Clients : x # c => pc'[x] = pc[x]
      BY <1>b, <2>4, SendEffect
    <3>. QED
      BY <2>s, <3>1
  <2>5. ASSUME NEW v \in Calls, AcceptAndEncode(v) PROVE RelyFor(d, t)'
    <3>1. /\ pc' = pc /\ step' = step /\ heard' = heard /\ reading' = reading /\ looked' = looked
          /\ thread[v].at = "accepting" /\ (t # v => pending'[t] = pending[t])
      BY <1>b, <2>5, AcceptEffect
    <3>. QED
      BY <2>f, <2>s, <3>1
  <2>6. ASSUME NEW v \in Calls, NEW b \in Blocks, handleSet(v, b) PROVE RelyFor(d, t)'
    <3>1. /\ pc' = pc /\ step' = step /\ heard' = heard /\ reading' = reading /\ looked' = looked
          /\ b \in pending[v] /\ (t # v => pending'[t] = pending[t])
      BY <1>b, <2>6, WriteEffect
    <3>. QED
      BY <2>s, <2>v, <3>1
  <2>7. ASSUME NEW c \in Clients, CopyInfo(c) PROVE RelyFor(d, t)'
    <3>1. /\ step' = step /\ heard' = heard /\ reading' = reading /\ pending' = pending
          /\ \/ pc'[c] \in {"lost", "checking"}
             \/ pc'[c] = "looking" /\ looked'[c] = m_object_commit_table[Key(c)]
          /\ \A x \in Clients : x # c => pc'[x] = pc[x] /\ looked'[x] = looked[x]
      BY <1>b, <2>7, CopyEffect
    <3>2. CASE d # c
      BY <2>s, <3>1, <3>2
    <3>3. CASE d = c
      <4>1. pc'[d] = "looking" => looked'[d] = InfoOf(t)
        BY <2>f, <2>v, <3>1, <3>3
      <4>2. pc'[d] # "reading"
        BY <3>1, <3>3
      <4>. QED
        BY <1>2, <2>r, <2>v, <3>1, <4>1, <4>2, RelyFrame
    <3>. QED
      BY <3>2, <3>3
  <2>8. ASSUME NEW c \in Clients, LookUp(c) PROVE RelyFor(d, t)'
    <3>1. /\ step' = step /\ heard' = heard /\ pending' = pending /\ pc[c] = "looking"
          /\ \/ UNCHANGED <<pc, looked, reading>>
             \/ /\ \A x \in Clients : x # c => pc'[x] = pc[x] /\ looked'[x] = looked[x]
                                               /\ reading'[x] = reading[x]
                /\ \/ Kind(c) = "del"
                   \/ /\ pc'[c] = "reading" /\ reading'[c].empty = looked[c].empty
                      /\ reading'[c].names = FilesOf(looked[c].stripe) /\ reading'[c].got = {}
      BY <1>b, <2>8, LookEffect
    <3>2. CASE UNCHANGED <<pc, looked, reading>>
      BY <2>s, <3>1, <3>2
    <3>3. CASE d # c
      BY <2>s, <3>1, <3>3
    <3>4. CASE /\ d = c /\ pc'[c] = "reading" /\ reading'[c].empty = looked[c].empty
               /\ reading'[c].names = FilesOf(looked[c].stripe) /\ reading'[c].got = {}
      <4>1. looked[d] = InfoOf(t)
        BY <2>v, <3>1, <3>4
      <4>2. looked[d].empty = FALSE /\ looked[d].stripe = thread[t].stripe
        BY <4>1 DEF InfoOf
      <4>3. ~ reading'[d].empty /\ reading'[d].names = Names(t) /\ \A p \in reading'[d].got : p[2] = t
        BY <2>f, <3>4, <4>2
      <4>. QED
        BY <1>2, <2>r, <2>v, <3>1, <3>4, <4>3, RelyFrame
    <3>. QED
      BY <2>v, <3>1, <3>2, <3>3, <3>4
  <2>9. ASSUME NEW c \in Clients, NEW b \in Blocks, ReadBlock(c, b) PROVE RelyFor(d, t)'
    <3>1. /\ step' = step /\ heard' = heard /\ pending' = pending /\ pc' = pc /\ looked' = looked
          /\ pc[c] = "reading" /\ \A x \in Clients : x # c => reading'[x] = reading[x]
      BY <1>b, <2>9, ReadEffect
    <3>2. CASE d # c
      BY <2>s, <3>1, <3>2
    <3>3. CASE d = c
      <4>1. reading[d].names = Names(t) /\ ~ reading[d].empty
        BY <2>v, <3>1, <3>3
      <4>2. files[reading[d].names[b]] = t
        BY <2>f, <4>1 DEF Names
      <4>3. files[reading[d].names[b]] # None
        BY <4>2, NoNone
      <4>4. /\ reading'[d].empty = reading[d].empty /\ reading'[d].names = reading[d].names
            /\ reading'[d].got = reading[d].got \union {<<b, t>>}
        BY <1>b, <2>9, <3>3, <4>2, <4>3, ReadEffect
      <4>5. ~ reading'[d].empty /\ reading'[d].names = Names(t) /\ \A p \in reading'[d].got : p[2] = t
        BY <2>v, <3>1, <3>3, <4>1, <4>4
      <4>. QED
        BY <1>2, <2>r, <2>v, <3>1, <3>3, <4>5, RelyFrame
    <3>. QED
      BY <3>2, <3>3
  <2>10. ASSUME NEW c \in Clients, AnswerGet(c) PROVE RelyFor(d, t)'
    <3>1. /\ step' = step /\ pending' = pending /\ looked' = looked /\ pc[c] = "reading"
          /\ Enough(reading[c].got) /\ reading[c] \in Readings
          /\ \/ reading[c].empty /\ UNCHANGED <<pc, reading, heard>>
             \/ /\ pc'[c] = "idle" /\ heard'[c] \in Spliced(Decoded(reading[c].got))
                /\ \A x \in Clients : x # c =>
                     pc'[x] = pc[x] /\ reading'[x] = reading[x] /\ heard'[x] = heard[x]
      BY <1>b, <2>10, AnswerEffect
    <3>2. CASE UNCHANGED <<pc, reading, heard>>
      BY <2>s, <3>1, <3>2
    <3>3. CASE /\ pc'[c] = "idle" /\ heard'[c] \in Spliced(Decoded(reading[c].got))
               /\ \A x \in Clients : x # c =>
                    pc'[x] = pc[x] /\ reading'[x] = reading[x] /\ heard'[x] = heard[x]
      <4>1. CASE d # c
        BY <2>s, <3>1, <3>3, <4>1
      <4>2. CASE d = c
        <5>1. PICK got \in SUBSET (Blocks \X Content) : got = reading[d].got
          BY <3>1, <4>2 DEF Readings
        <5>2. Enough(got) /\ \A p \in got : p[2] = t
          BY <2>v, <3>1, <4>2, <5>1
        <5>3. PICK v \in Spliced(Decoded(got)) : heard'[d] = v
          BY <3>3, <4>2, <5>1
        <5>4. /\ v[0] = Decoded(got)[0]
              /\ \A i \in DataBlocks : v[i] = Garbage \/ \E p \in got : v[i] = p[2]
          BY DecodedShape
        <5>5. v[0] = t /\ \A i \in DataBlocks : v[i] \in {t, Garbage}
          BY <5>2, <5>4, DecodedFirst
        <5>. QED
          BY <1>2, <2>r, <3>1, <3>3, <4>2, <5>3, <5>5, RelyFrame
      <4>. QED
        BY <4>1, <4>2
    <3>. QED
      BY <3>1, <3>2, <3>3
  <2>11. ASSUME NEW v \in Calls, NEW f \in left[v], handleDelete(v, f) PROVE RelyFor(d, t)'
    <3>1. UNCHANGED <<step, pc, looked, reading, heard, pending>>
      BY <1>b, <2>11, RemoveEffect
    <3>. QED
      BY <2>s, <3>1
  <2>12. ASSUME NEW v \in Calls, ReportSet(v) PROVE RelyFor(d, t)'
    <3>1. /\ UNCHANGED <<step, looked, reading, heard, pending>>
          /\ pc'[d] = IF pc[d] = "asleep" THEN "checking" ELSE pc[d]
      BY <1>b, <2>12, ReportSetEffect
    <3>. QED
      BY <2>s, <3>1
  <2>13. ASSUME NEW v \in Calls, ReportDelete(v) PROVE RelyFor(d, t)'
    <3>1. /\ UNCHANGED <<step, looked, reading, heard, pending>>
          /\ pc'[d] = pc[d] \/ pc'[d] = "checking"
      BY <1>b, <2>13, ReportDeleteEffect
    <3>. QED
      BY <2>s, <3>1
  <2>14. ASSUME NEW c \in Clients, CheckCommitAbort(c) PROVE RelyFor(d, t)'
    <3>1. /\ UNCHANGED <<step, looked, reading, heard, pending>>
          /\ pc'[c] \in {"idle", "asleep"} /\ \A x \in Clients : x # c => pc'[x] = pc[x]
      BY <1>b, <2>14, CheckEffect
    <3>. QED
      BY <2>s, <3>1
  <2>15. ASSUME UNCHANGED vars PROVE RelyFor(d, t)'
    <3>1. UNCHANGED <<step, pc, looked, reading, heard, pending>>
      BY <2>15 DEF vars, clientVars, nodeVars
    <3>. QED
      BY <2>s, <3>1
  <2>. QED
    BY <1>2, <2>2, <2>3, <2>4, <2>5, <2>6, <2>7, <2>8, <2>9, <2>10, <2>11, <2>12, <2>13, <2>14, <2>15
       DEF Next, Running, Calling, Threads, Finished
<1>. QED
  BY <1>1, <1>2

-----------------------------------------------------------------------------
(* What a get hears, for good.                                             *)

Truthful == /\ Ground /\ FilesSourced /\ ReadsSourced /\ LeftNamed
            /\ TruthHolds /\ ReliesHold

\* At the start no file has bytes, and no get counts on anything.
LEMMA TruthfulInit == Init => Truthful
<1> SUFFICES ASSUME Init PROVE Truthful
  OBVIOUS
<1>1. Ground
  BY GroundInit
<1>2. \A t \in Calls : ~ Placed(t) /\ left[t] = {}
  BY DEF Init, Placed
<1>3. \A f \in AllFiles : files[f] = None
  BY DEF Init, AllFiles
<1>4. FilesSourced
  <2>1. \A key \in Keys, j \in DataBlocks, n \in Nodes : <<"D", key, j, n>> \in AllFiles
    BY DEF AllFiles, DataFiles
  <2>2. \A id \in StripeIds, b \in Blocks \ DataBlocks : <<"P", id, b>> \in AllFiles
    BY DEF AllFiles, ParityFiles
  <2>. QED
    BY <1>2, <1>3, <2>1, <2>2 DEF FilesSourced
<1>5. ReadsSourced /\ LeftNamed
  BY <1>2 DEF Init, ReadsSourced, ReadSourced, LeftNamed
<1>6. TruthHolds /\ ReliesHold
  BY DEF Init, TruthHolds, ReliesHold
<1>. QED
  BY <1>1, <1>4, <1>5, <1>6 DEF Truthful

\* It stays so.
LEMMA TruthfulStays == Truthful /\ [Next]_vars => Truthful'
BY GroundStays, FilesSourcedStays, ReadsSourcedStays, LeftNamedStays, TruthHoldsStays,
   ReliesHoldStays DEF Truthful

\* A get hears what was set for its key or for one that its key begins, and a
\* set's own value when that set was alone and its blocks are written.
THEOREM GetsTheSetValueHolds == Spec => []GetsTheSetValue
<1>1. Truthful => GetsTheSetValue
  <2> SUFFICES ASSUME Truthful, NEW c \in Clients, heard[c] # None
               PROVE  LET of(t) == keyOf(t) = Key(c) \/ <<Key(c), keyOf(t)>> \in Begins
                      IN  /\ \A d \in DataBlocks :
                               heard[c][d] \in {t \in Calls : of(t)} \union {Zero, Garbage}
                          /\ relies[c] # None =>
                               /\ heard[c][0] = relies[c].by
                               /\ \A d \in DataBlocks : heard[c][d] \in {relies[c].by, Garbage}
    BY DEF GetsTheSetValue
  <2>1. \A d \in DataBlocks : heard[c][d] \in Source(Key(c)) \union {Garbage}
    BY DEF Truthful, ReadsSourced, ReadSourced
  <2>2. \A d \in DataBlocks :
          heard[c][d] \in {t \in Calls : keyOf(t) = Key(c) \/ <<Key(c), keyOf(t)>> \in Begins}
                            \union {Zero, Garbage}
    BY <2>1 DEF Source
  <2>3. ASSUME relies[c] # None
        PROVE  /\ heard[c][0] = relies[c].by
               /\ \A d \in DataBlocks : heard[c][d] \in {relies[c].by, Garbage}
    <3>1. relies[c] \in Truths
      BY <2>3 DEF Truthful, Ground, Base, Typed
    <3>2. PICK t \in Calls : relies[c].by = t
      BY <3>1 DEF Truths
    <3>3. RelyFor(c, t)
      BY <2>3, <3>2 DEF Truthful, ReliesHold
    <3>. QED
      BY <3>2, <3>3 DEF RelyFor
  <2>. QED
    BY <2>2, <2>3
<1>. QED
  BY <1>1, TruthfulInit, TruthfulStays, PTL DEF Spec

-----------------------------------------------------------------------------
(* Who sleeps, and who is to wake them.                                    *)

\* A set and a deletion of a key that run at one time were seen to.
LEMMA ContendedStays ==
  ASSUME Base, Contended, [Next]_vars
  PROVE  Contended' /\ contended \subseteq contended'
<1>k. \A x : kindOf(x)' = kindOf(x) /\ keyOf(x)' = keyOf(x)
  BY ScriptStays
<1>1. CASE \A c \in Clients : ~ StartCall(c)
  <2>1. contended' = contended
    BY <1>1, HistoryStays
  <2>2. \A x \in Calls : Unsettled(x)' => Unsettled(x)
    BY <1>1, SettledStays
  <2>. QED
    BY <1>k, <2>1, <2>2 DEF Contended
<1>2. ASSUME NEW c \in Clients, StartCall(c) PROVE Contended' /\ contended \subseteq contended'
  <2>1. /\ step[c] \in Nat /\ step'[c] = step[c] + 1 /\ NoteStart(c, Kind(c)', Key(c)')
        /\ \A d \in Clients : d # c => step'[d] = step[d]
    BY <1>2, StartEffect
  <2>2. PICK w \in Calls : /\ w = call(c)' /\ w = <<c, step[c] + 1>>
                           /\ Kind(c)' = kindOf(w) /\ Key(c)' = keyOf(w)
    <3>1. /\ call(c)' = <<c, step[c] + 1>> /\ call(c)' \in Calls
          /\ Kind(c)' = kindOf(call(c)') /\ Key(c)' = keyOf(call(c)')
      BY <1>2, StartEffect
    <3>. QED
      BY <3>1
  <2>3. \A x \in Calls : Unsettled(x)' => Unsettled(x) \/ x = w
    <3>1. \A d \in Clients : StartCall(d) => d = c
      <4>1. \A d \in Clients : StartCall(d) => step'[d] = step[d] + 1 /\ step[d] \in Nat
        BY StartEffect
      <4>. QED
        BY <2>1, <4>1
    <3>. QED
      BY <2>2, <3>1, SettledStays
  <2>4. /\ contended \subseteq contended'
        /\ kindOf(w) # "get" =>
             \A u \in Calls \ {w} :
               Unsettled(u) /\ Touches(u, keyOf(w), {"set", "del"} \ {kindOf(w)}) => keyOf(w) \in contended'
    <3>1. ASSUME NEW kind, NEW key, NoteStart(c, kind, key)
          PROVE  /\ contended \subseteq contended'
                 /\ kind # "get" =>
                      \A u \in Calls \ {w} :
                        Unsettled(u) /\ Touches(u, key, {"set", "del"} \ {kind}) => key \in contended'
      BY <2>2, <3>1 DEF NoteStart
    <3>. QED
      BY <2>1, <2>2, <3>1
  <2>5. ASSUME NEW u \in Calls, NEW v \in Calls, Unsettled(u)', kindOf(u) = "set",
               Unsettled(v)', kindOf(v) = "del", keyOf(u) = keyOf(v)
        PROVE  keyOf(u) \in contended'
    <3>1. CASE u = w
      <4>1. v # w /\ Unsettled(v) /\ Touches(v, keyOf(w), {"set", "del"} \ {kindOf(w)})
        BY <2>3, <2>5, <3>1 DEF Touches
      <4>. QED
        BY <2>4, <2>5, <3>1, <4>1
    <3>2. CASE v = w
      <4>1. u # w /\ Unsettled(u) /\ Touches(u, keyOf(w), {"set", "del"} \ {kindOf(w)})
        BY <2>3, <2>5, <3>2 DEF Touches
      <4>. QED
        BY <2>4, <2>5, <3>2, <4>1
    <3>3. CASE u # w /\ v # w
      BY <2>3, <2>4, <2>5, <3>3 DEF Contended
    <3>. QED
      BY <3>1, <3>2, <3>3
  <2>. QED
    BY <1>k, <2>4, <2>5 DEF Contended
<1>. QED
  BY <1>1, <1>2

\* A client's reason to sleep stays while the key's entry does and its threads
\* go on.
LEMMA AwakeFrame ==
  ASSUME Base, Contended, [Next]_vars, NEW c \in Clients, NEW key \in Keys, Awake(c, key),
         Kind(c)' = Kind(c), pc'[c] # "asleep" \/ pc[c] = "asleep",
         pc'[c] \in {"placed", "sending", "checking", "asleep"} /\ Kind(c) = "set" =>
           pc[c] \in {"placed", "sending", "checking", "asleep"},
         pc'[c] \in {"checking", "asleep"} /\ Kind(c) = "del" => pc[c] \in {"checking", "asleep"},
         Lockable' => Lockable,
         m_object_commit_table'[key] = m_object_commit_table[key],
         \A u \in Calls : thread[u] # None =>
           /\ thread'[u] # None
           /\ \/ thread'[u].at = thread[u].at
              \/ thread[u].at = "accepting" /\ thread'[u].at = "sent"
              \/ keyOf(u) # key
  PROVE  Awake(c, key)'
<1>k. \A x : kindOf(x)' = kindOf(x) /\ keyOf(x)' = keyOf(x)
  BY ScriptStays
<1>1. contended \subseteq contended'
  BY ContendedStays
<1>2. SetComing(key) => SetComing(key)'
  BY <1>k DEF SetComing, Placed
<1>3. DeletionComing(key) => DeletionComing(key)'
  BY <1>k DEF DeletionComing
<1>. QED
  BY <1>1, <1>2, <1>3 DEF Awake

\* Whoever sleeps goes on to have a reason, and someone to wake it.
LEMMA WokenStays ==
  ASSUME Base, Contended, Woken, [Next]_vars
  PROVE  Woken'
<1>b. Typed /\ Positions /\ ThreadsFit
  BY DEF Base
<1> SUFFICES ASSUME NEW c \in Clients, NEW key \in Keys, pc'[c] # "idle", Key(c)' = key
             PROVE  Awake(c, key)'
  BY DEF Woken
<1>k. \A x : kindOf(x)' = kindOf(x) /\ keyOf(x)' = keyOf(x)
  BY ScriptStays
<1>m. contended \subseteq contended'
  BY ContendedStays
<1>w. pc[c] # "idle" /\ Key(c) = key => Awake(c, key)
  BY DEF Woken
<1>u. pc[c] # "idle" => /\ call(c) \in Calls /\ Unsettled(call(c)) /\ Kind(c) = kindOf(call(c))
                        /\ Key(c) = keyOf(call(c))
  BY <1>b, InCall
\* a step that neither writes the key's entry nor ends its threads
<1>f. ASSUME pc[c] # "idle", step' = step, pc'[c] # "asleep" \/ pc[c] = "asleep",
             pc'[c] \in {"placed", "sending", "checking", "asleep"} /\ Kind(c) = "set" =>
               pc[c] \in {"placed", "sending", "checking", "asleep"},
             pc'[c] \in {"checking", "asleep"} /\ Kind(c) = "del" => pc[c] \in {"checking", "asleep"},
             Lockable' => Lockable,
             m_object_commit_table'[key] = m_object_commit_table[key],
             \A u \in Calls : thread[u] # None =>
               /\ thread'[u] # None
               /\ \/ thread'[u].at = thread[u].at
                  \/ thread[u].at = "accepting" /\ thread'[u].at = "sent"
                  \/ keyOf(u) # key
      PROVE  Awake(c, key)'
  <2>1. Kind(c)' = Kind(c) /\ Key(c)' = Key(c)
    BY <1>f, ScriptStays, SameCalls
  <2>2. Awake(c, key)
    BY <1>f, <1>w, <2>1
  <2>. QED
    BY <1>f, <2>1, <2>2, AwakeFrame
<1>s. step' = step => Kind(c)' = Kind(c) /\ Key(c)' = Key(c)
  BY ScriptStays, SameCalls
\* the entry is emptied for a set
<1>2. ASSUME NEW d \in Clients, PlaceObject(d) PROVE Awake(c, key)'
  <2>a. /\ step' = step /\ pc[d] = "set" /\ pc'[d] = "placed" /\ Kind(d) = "set"
        /\ call(d) \in Calls /\ m_mutex' = m_mutex
        /\ \A x \in Clients : x # d => pc'[x] = pc[x]
    BY <1>2, PlaceEffect
  <2>c. /\ thread'[call(d)] # None /\ thread'[call(d)].at = "accepting"
        /\ \A u \in Calls : u # call(d) => thread'[u] = thread[u]
        /\ thread[call(d)] = None
    BY <1>2, PlaceEffect
  <2>e. /\ m_object_commit_table'[Key(d)] = None
        /\ Key(d) # key => m_object_commit_table'[key] = m_object_commit_table[key]
    BY <1>2, PlaceEffect
  <2>1. /\ step' = step /\ pc[d] = "set" /\ pc'[d] = "placed" /\ Kind(d) = "set"
        /\ call(d) \in Calls /\ m_mutex' = m_mutex
        /\ thread'[call(d)] # None /\ thread'[call(d)].at = "accepting"
        /\ \A u \in Calls : u # call(d) => thread'[u] = thread[u]
        /\ thread[call(d)] = None
        /\ m_object_commit_table'[Key(d)] = None
        /\ Key(d) # key => m_object_commit_table'[key] = m_object_commit_table[key]
        /\ \A x \in Clients : x # d => pc'[x] = pc[x]
    BY <2>a, <2>c, <2>e
  <2>2. Unsettled(call(d)) /\ kindOf(call(d)) = "set" /\ Key(d) = keyOf(call(d))
    BY <1>b, <2>1, InCall DEF Kind
  <2>3. CASE Key(d) # key
    <3>1. c # d
      BY <1>s, <2>1, <2>3
    <3>. QED
      BY <1>f, <2>1, <2>3, <3>1 DEF Lockable
  <2>4. CASE Key(d) = key
    <3>1. SetComing(key)'
      <4>1. PICK u \in Calls : u = call(d)
        BY <2>1
      <4>2. Placed(u)' /\ keyOf(u)' = key /\ thread'[u].at \in {"accepting", "sent"}
        BY <1>k, <2>1, <2>2, <2>4, <4>1 DEF Placed
      <4>. QED
        BY <4>2 DEF SetComing
    <3>2. pc[c] # "idle" /\ Kind(c)' = Kind(c)
      BY <1>s, <2>1
    <3>3. m_object_commit_table'[key] = None
      BY <2>1, <2>4
    <3>4. CASE Kind(c) # "del"
      BY <3>1, <3>2, <3>3, <3>4 DEF Awake
    <3>5. CASE Kind(c) = "del"
      <4>1. key \in contended'
        <5>1. PICK u \in Calls, v \in Calls : u = call(d) /\ v = call(c)
          BY <1>u, <2>1, <3>2
        <5>2. Unsettled(u) /\ kindOf(u) = "set" /\ keyOf(u) = key
          BY <2>2, <2>4, <5>1
        <5>3. Unsettled(v) /\ kindOf(v) = "del" /\ keyOf(v) = key
          BY <1>s, <1>u, <2>1, <3>2, <3>5, <5>1
        <5>. QED
          BY <1>m, <5>2, <5>3 DEF Contended
      <4>. QED
        BY <3>2, <3>5, <4>1 DEF Awake
    <3>. QED
      BY <3>4, <3>5
  <2>. QED
    BY <2>3, <2>4
<1>3. ASSUME NEW d \in Clients, NoteUpdating(d) PROVE Awake(c, key)'
  <2>1. /\ step' = step /\ pc[d] = "placed" /\ pc'[d] = "sending" /\ Kind(d) = "set"
        /\ UNCHANGED <<m_mutex, thread, m_object_commit_table>>
        /\ \A x \in Clients : x # d => pc'[x] = pc[x]
    BY <1>3, NoteEffect
  <2>. QED
    BY <1>f, <2>1 DEF Lockable
<1>4. ASSUME NEW d \in Clients, SendValue(d) PROVE Awake(c, key)'
  <2>1. /\ step' = step /\ pc[d] = "sending" /\ pc'[d] = "checking" /\ Kind(d) = "set"
        /\ UNCHANGED <<m_mutex, thread, m_object_commit_table>>
        /\ \A x \in Clients : x # d => pc'[x] = pc[x]
    BY <1>4, SendEffect
  <2>. QED
    BY <1>f, <2>1 DEF Lockable
<1>5. ASSUME NEW t \in Calls, AcceptAndEncode(t) PROVE Awake(c, key)'
  <2>1. /\ UNCHANGED <<step, pc, m_mutex, m_object_commit_table>>
        /\ thread[t] # None /\ thread[t].at = "accepting" /\ thread'[t].at = "sent"
        /\ \A u \in Calls : u # t => thread'[u] = thread[u]
        /\ \A u \in Calls : (thread'[u] # None <=> thread[u] # None)
    BY <1>5, AcceptEffect
  <2>. QED
    BY <1>f, <2>1 DEF Lockable
<1>6. ASSUME NEW t \in Calls, NEW b \in Blocks, handleSet(t, b) PROVE Awake(c, key)'
  <2>1. UNCHANGED <<step, pc, m_mutex, m_object_commit_table, thread>>
    BY <1>6, WriteEffect
  <2>. QED
    BY <1>f, <2>1 DEF Lockable
\* a deletion that found no entry left the mutex locked
<1>7. ASSUME NEW d \in Clients, CopyInfo(d) PROVE Awake(c, key)'
  <2>1. /\ step' = step /\ pc[d] \in {"get", "del"} /\ Kind(d) = pc[d] /\ Lockable
        /\ UNCHANGED <<m_object_commit_table, thread>>
        /\ \/ m_mutex' = "leaked" /\ pc'[d] \in {"lost", "checking"}
           \/ m_mutex' = m_mutex /\ pc'[d] = "looking"
        /\ \A x \in Clients : x # d => pc'[x] = pc[x]
    BY <1>7, CopyEffect
  <2>2. CASE c # d
    BY <1>f, <2>1, <2>2 DEF Lockable
  <2>3. CASE c = d
    <3>1. Kind(c)' # "set" /\ pc'[c] # "asleep" /\ (pc'[c] = "checking" => ~ Lockable')
      BY <1>s, <2>1, <2>3 DEF Lockable
    <3>. QED
      BY <3>1 DEF Awake
  <2>. QED
    BY <2>2, <2>3
<1>8. ASSUME NEW d \in Clients, LookUp(d) PROVE Awake(c, key)'
  <2>1. /\ step' = step /\ pc[d] = "looking" /\ Kind(d) \in {"get", "del"} /\ call(d) \in Calls
        /\ UNCHANGED <<m_mutex, m_object_commit_table>> /\ thread[call(d)] = None
        /\ \A u \in Calls : u # call(d) => thread'[u] = thread[u]
        /\ \/ UNCHANGED <<pc, thread>>
           \/ /\ \A x \in Clients : x # d => pc'[x] = pc[x]
              /\ \/ Kind(d) = "get" /\ pc'[d] = "reading"
                 \/ /\ Kind(d) = "del" /\ pc'[d] = "checking"
                    /\ thread'[call(d)] # None /\ thread'[call(d)].at = "deleting"
    BY <1>8, LookEffect
  <2>2. CASE c # d
    <3>1. pc'[c] = pc[c]
      BY <2>1, <2>2
    <3>. QED
      BY <1>f, <2>1, <3>1 DEF Lockable
  <2>3. CASE c = d
    <3>1. Kind(c)' = Kind(c) /\ Key(c)' = Key(c) /\ Kind(c) # "set" /\ pc'[c] # "asleep"
      BY <1>s, <2>1, <2>3
    <3>2. pc'[c] = "checking" => DeletionComing(key)'
      <4>1. SUFFICES ASSUME pc'[c] = "checking" PROVE DeletionComing(key)'
        OBVIOUS
      <4>2. PICK u \in Calls : u = call(c)
        BY <2>1, <2>3
      <4>3. /\ thread'[u] # None /\ thread'[u].at = "deleting" /\ kindOf(u)' = "del"
            /\ keyOf(u)' = key
        BY <1>k, <2>1, <2>3, <3>1, <4>1, <4>2 DEF Kind, Key
      <4>. QED
        BY <4>3 DEF DeletionComing
    <3>. QED
      BY <3>1, <3>2 DEF Awake
  <2>. QED
    BY <2>2, <2>3
<1>9. ASSUME NEW d \in Clients, NEW b \in Blocks, ReadBlock(d, b) PROVE Awake(c, key)'
  <2>1. UNCHANGED <<step, pc, m_mutex, m_object_commit_table, thread>>
    BY <1>9, ReadEffect
  <2>. QED
    BY <1>f, <2>1 DEF Lockable
<1>10. ASSUME NEW d \in Clients, AnswerGet(d) PROVE Awake(c, key)'
  <2>1. /\ UNCHANGED <<step, m_mutex, m_object_commit_table, thread>>
        /\ \/ pc' = pc
           \/ pc'[d] = "idle" /\ \A x \in Clients : x # d => pc'[x] = pc[x]
    BY <1>10, AnswerEffect
  <2>2. pc'[c] = pc[c]
    BY <2>1
  <2>. QED
    BY <1>f, <2>1, <2>2 DEF Lockable
<1>11. ASSUME NEW t \in Calls, NEW f \in left[t], handleDelete(t, f) PROVE Awake(c, key)'
  <2>1. UNCHANGED <<step, pc, m_mutex, m_object_commit_table, thread>>
    BY <1>11, RemoveEffect
  <2>. QED
    BY <1>f, <2>1 DEF Lockable
\* the entry is filled, and all are woken
<1>12. ASSUME NEW t \in Calls, ReportSet(t) PROVE Awake(c, key)'
  <2>1. /\ step' = step /\ m_mutex' = m_mutex
        /\ thread[t] # None /\ thread[t].at = "sent" /\ Placed(t)
        /\ m_object_commit_table'[keyOf(t)] # None
        /\ keyOf(t) # key => m_object_commit_table'[key] = m_object_commit_table[key]
        /\ \A u \in Calls : u # t => thread'[u] = thread[u]
        /\ \A u \in Calls : (thread'[u] # None <=> thread[u] # None)
        /\ pc'[c] = IF pc[c] = "asleep" THEN "checking" ELSE pc[c]
    BY <1>12, ReportSetEffect
  <2>2. CASE keyOf(t) # key
    <3>1. pc[c] # "idle" /\ pc'[c] # "asleep"
      BY <2>1
    <3>. QED
      BY <1>f, <2>1, <2>2, <3>1 DEF Lockable
  <2>3. CASE keyOf(t) = key
    <3>1. SetComing(key)' /\ pc'[c] # "asleep" /\ Kind(c)' = Kind(c) /\ pc[c] # "idle"
      BY <1>s, <2>1, <2>3 DEF SetComing
    <3>2. CASE Kind(c) # "del"
      BY <3>1, <3>2 DEF Awake
    <3>3. CASE Kind(c) = "del"
      <4>1. Unsettled(t) /\ kindOf(t) = "set"
        BY <1>b, <2>1 DEF Unsettled, ThreadsFit, Fit, Placed
      <4>2. key \in contended'
        BY <1>m, <1>s, <1>u, <2>1, <2>3, <3>1, <3>3, <4>1 DEF Contended
      <4>. QED
        BY <3>1, <3>3, <4>2 DEF Awake
    <3>. QED
      BY <3>2, <3>3
  <2>. QED
    BY <2>2, <2>3
\* the entry is emptied for a deletion, and all are woken if there was one
<1>13. ASSUME NEW t \in Calls, ReportDelete(t) PROVE Awake(c, key)'
  <2>1. /\ step' = step /\ m_mutex' = m_mutex
        /\ thread[t] # None /\ thread[t].at = "deleting" /\ kindOf(t) = "del"
        /\ m_object_commit_table'[keyOf(t)] = None
        /\ keyOf(t) # key => m_object_commit_table'[key] = m_object_commit_table[key]
        /\ \A u \in Calls : u # t => thread'[u] = thread[u]
        /\ \A u \in Calls : (thread'[u] # None <=> thread[u] # None)
        /\ \/ m_object_commit_table[keyOf(t)] = None /\ pc'[c] = pc[c]
           \/ pc'[c] = IF pc[c] = "asleep" THEN "checking" ELSE pc[c]
    BY <1>13, ReportDeleteEffect
  <2>2. CASE keyOf(t) # key
    <3>1. /\ pc[c] # "idle" /\ (pc'[c] # "asleep" \/ pc[c] = "asleep")
          /\ (pc'[c] = pc[c] \/ (pc[c] = "asleep" /\ pc'[c] = "checking"))
      BY <2>1
    <3>. QED
      BY <1>f, <2>1, <2>2, <3>1 DEF Lockable
  <2>3. CASE keyOf(t) = key
    <3>1. /\ Kind(c)' = Kind(c) /\ Key(c) = key /\ pc[c] # "idle"
          /\ m_object_commit_table'[key] = None
      BY <1>s, <2>1, <2>3
    <3>2. DeletionComing(key)'
      BY <3>1 DEF DeletionComing
    <3>3. CASE Kind(c) = "set"
      <4>1. Unsettled(t)
        BY <1>b, <2>1 DEF Unsettled, ThreadsFit, Fit
      <4>2. key \in contended'
        BY <1>m, <1>u, <2>1, <2>3, <3>1, <3>3, <4>1 DEF Contended
      <4>. QED
        BY <3>1, <3>3, <4>2 DEF Awake
    <3>4. CASE Kind(c) # "set"
      <4>1. Awake(c, key)
        BY <1>w, <3>1
      <4>2. key \notin contended' /\ Kind(c) = "del" => pc'[c] # "asleep"
        BY <1>m, <2>1, <2>3, <4>1 DEF Awake
      <4>. QED
        BY <3>1, <3>2, <3>4, <4>2 DEF Awake
    <3>. QED
      BY <3>3, <3>4
  <2>. QED
    BY <2>2, <2>3
\* a client falls asleep
<1>14. ASSUME NEW d \in Clients, CheckCommitAbort(d) PROVE Awake(c, key)'
  <2>1. /\ UNCHANGED <<step, m_mutex, m_object_commit_table, thread>> /\ pc[d] = "checking"
        /\ Kind(d) \in {"set", "del"}
        /\ \/ pc'[d] = "idle"
           \/ pc'[d] = "asleep" /\ ~ Settled(d)
        /\ \A x \in Clients : x # d => pc'[x] = pc[x]
    BY <1>14, CheckEffect
  <2>2. CASE c # d
    BY <1>f, <2>1, <2>2 DEF Lockable
  <2>3. CASE c = d
    <3>1. /\ pc'[c] = "asleep" /\ ~ Settled(c) /\ Kind(c)' = Kind(c) /\ Key(c) = key
      BY <1>s, <2>1, <2>3
    <3>2. Awake(c, key) /\ pc[c] = "checking"
      BY <1>w, <2>1, <2>3, <3>1
    <3>3. /\ Kind(c) = "set" => m_object_commit_table[key] = None
          /\ Kind(c) = "del" => m_object_commit_table[key] # None
      BY <3>1 DEF Settled
    <3>4. SetComing(key)' <=> SetComing(key)
      BY <1>k, <2>1 DEF SetComing, Placed
    <3>5. DeletionComing(key)' <=> DeletionComing(key)
      BY <1>k, <2>1 DEF DeletionComing
    <3>. QED
      BY <1>m, <2>1, <3>1, <3>2, <3>3, <3>4, <3>5 DEF Awake, Lockable
  <2>. QED
    BY <2>2, <2>3
<1>15. ASSUME UNCHANGED vars PROVE Awake(c, key)'
  <2>1. UNCHANGED <<step, pc, m_mutex, m_object_commit_table, thread>>
    BY <1>15 DEF vars, clientVars, coordVars, proxyVars
  <2>. QED
    BY <1>f, <2>1 DEF Lockable
<1>1. ASSUME NEW d \in Clients, StartCall(d) PROVE Awake(c, key)'
  <2>1. /\ pc'[d] = Kind(d)' /\ Kind(d)' \in Kinds
        /\ \A x \in Clients : x # d => pc'[x] = pc[x] /\ Kind(x)' = Kind(x) /\ Key(x)' = Key(x)
        /\ UNCHANGED <<m_mutex, m_object_commit_table, thread>>
    BY <1>1, StartEffect
  <2>2. CASE c = d
    BY <2>1, <2>2 DEF Awake, Kinds
  <2>3. CASE c # d
    <3>1. Awake(c, key) /\ pc'[c] = pc[c] /\ Kind(c)' = Kind(c)
      BY <1>w, <2>1, <2>3
    <3>2. Lockable' => Lockable
      BY <2>1 DEF Lockable
    <3>. QED
      BY <2>1, <3>1, <3>2, AwakeFrame
  <2>. QED
    BY <2>2, <2>3
<1>. QED
  BY <1>1, <1>2, <1>3, <1>4, <1>5, <1>6, <1>7, <1>8, <1>9, <1>10, <1>11, <1>12, <1>13, <1>14, <1>15
     DEF Next, Running, Calling, Threads, Finished

-----------------------------------------------------------------------------
(* Every call returns.                                                     *)

\* When nothing runs and the mutex is free no connection is left to accept, and
\* no set and no deletion to report.
LEMMA QuietThreads ==
  ASSUME Ground, Quiet, Lockable, NEW t \in Calls, thread[t] # None
  PROVE  thread[t].at = "reported"
<1>b. Typed /\ Positions /\ ThreadsFit /\ Connected
  BY DEF Ground, Base
<1>1. \/ thread[t].at = "reported"
      \/ thread[t].at = "accepting" /\ \A u \in queue : thread[u].cluster # thread[t].cluster
  BY DEF Quiet, Halted
<1>2. ASSUME thread[t].at = "accepting", \A u \in queue : thread[u].cluster # thread[t].cluster
      PROVE  FALSE
  <2>1. PICK cl \in Clusters : thread[t].cluster = cl
    BY <1>2, <1>b DEF ThreadsFit, Fit
  <2>2. Waiting(cl) = {}
    BY <1>2, <2>1 DEF Waiting
  <2>3. Unsent(cl) = {}
    <3>1. \A u \in Calls : ~ At(u, {"placed", "sending"})
      BY CallShape DEF Quiet, Waits, At
    <3>. QED
      BY <3>1 DEF Unsent
  <2>4. t \in Accepting(cl)
    BY <1>2, <2>1 DEF Accepting
  <2>5. Cardinality(Accepting(cl)) = 0
    <3>1. Cardinality(Waiting(cl)) = 0 /\ Cardinality(Unsent(cl)) = 0
      BY <2>2, <2>3, FS_EmptySet
    <3>2. Cardinality(Accepting(cl)) = Cardinality(Waiting(cl)) + Cardinality(Unsent(cl))
      BY <1>b DEF Connected
    <3>. QED
      BY <3>1, <3>2
  <2>. QED
    BY <1>b, <2>4, <2>5, FiniteConnections, FS_EmptySet
<1>. QED
  BY <1>1, <1>2

\* When nothing runs any more, every call has returned, or the mutex was left
\* locked, a process ended, or the call's key was set and deleted at one time.
THEOREM CallsReturnHolds == Spec => []CallsReturn
<1>1. Init => Ground /\ Contended /\ Woken
  <2> SUFFICES ASSUME Init PROVE Ground /\ Contended /\ Woken
    OBVIOUS
  <2>1. \A t \in Calls : ~ Unsettled(t)
    <3>1. \A t \in Calls : t[1] \in Clients /\ pc[t[1]] = "idle"
      BY CallShape DEF Init
    <3>. QED
      BY <3>1 DEF Init, Unsettled
  <2>. QED
    BY <2>1, GroundInit DEF Init, Contended, Woken
<1>2. Ground /\ Contended /\ Woken /\ [Next]_vars => (Ground /\ Contended /\ Woken)'
  BY GroundStays, ContendedStays, WokenStays DEF Ground
<1>3. Ground /\ Woken => CallsReturn
  <2> SUFFICES ASSUME Ground, Woken, Quiet, Lockable, NEW c \in Clients, pc[c] # "idle",
                      Key(c) \notin contended
               PROVE  FALSE
    BY DEF CallsReturn
  <2>b. Typed /\ Positions /\ ThreadsFit
    BY DEF Ground, Base
  <2>1. pc[c] \in {"asleep", "lost"}
    BY DEF Quiet, Waits
  <2>2. pc[c] # "lost"
    BY <2>b DEF Positions, Position, Lockable
  <2>3. pc[c] = "asleep" /\ Kind(c) \in {"set", "del"} /\ Key(c) \in Keys
    BY <2>1, <2>2, <2>b, InCall DEF Positions, Position
  <2>4. PICK key \in Keys : key = Key(c)
    BY <2>3
  <2>5. Awake(c, key) /\ key \notin contended
    BY <2>4 DEF Woken
  <2>6. CASE Kind(c) = "set"
    <3>1. SetComing(key) /\ m_object_commit_table[key] = None
      BY <2>3, <2>5, <2>6 DEF Awake
    <3>2. PICK u \in Calls : Placed(u) /\ thread[u].at \in {"accepting", "sent"}
      BY <3>1 DEF SetComing
    <3>. QED
      BY <3>2, QuietThreads DEF Placed
  <2>7. CASE Kind(c) = "del"
    <3>1. DeletionComing(key) /\ m_object_commit_table[key] # None
      BY <2>3, <2>5, <2>7 DEF Awake
    <3>2. PICK u \in Calls : thread[u] # None /\ thread[u].at = "deleting"
      BY <3>1 DEF DeletionComing
    <3>. QED
      BY <3>2, QuietThreads
  <2>. QED
    BY <2>3, <2>6, <2>7
<1>. QED
  BY <1>1, <1>2, <1>3, PTL DEF Spec
=============================================================================
