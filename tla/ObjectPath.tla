----------------------------- MODULE ObjectPath -----------------------------
(***************************************************************************)
(* Objects under keys: Client::set(key, value), get(key, value) and        *)
(* delete_key, the coordinator's uploadOriginKeyValue, getValue and        *)
(* delByKey, the proxies' encodeAndSetObject, decodeAndGetObject and       *)
(* deleteBlock, and handleSet, handleGet and handleDelete of the           *)
(* datanodes.  A key may be set again, read and deleted at any time.       *)
(*                                                                         *)
(* Each set makes a stripe of its own.  The file of a data block is named  *)
(* by the key and that of a parity by the stripe.  A content is the set    *)
(* whose value it is a block of; values have one size.  A handler here     *)
(* writes the block it was called for, and the stripe counter is read and  *)
(* raised in one step: DatanodeIO has handlers that take each other's      *)
(* connections, SetPath has handlers that read one id.                     *)
(***************************************************************************)
EXTENDS Integers, FiniteSets, Sequences

CONSTANTS
  Clients,
  Keys,
  Begins,    \* pairs of keys: the first begins the second
  Clusters,  \* each has a proxy
  Nodes,
  k, g_m,    \* data blocks and global parities; one local group (l = 1)
  Scripts,   \* the calls each client makes, in order
  MaxSteps,  \* bound: the calls of a client
  None, Zero, Garbage

DataBlocks == 0 .. k - 1
Blocks     == 0 .. k + g_m
Local      == k + g_m

Kinds == {"set", "get", "del"}

ASSUME ObjectAssumption ==
  /\ IsFiniteSet(Clients)
  /\ k \in Nat \ {0} /\ g_m \in {0, 1}
  /\ Begins \subseteq Keys \X Keys
  /\ MaxSteps \in Nat
  /\ Scripts \subseteq [Clients -> Seq([kind : Kinds, key : Keys])]
  /\ \A s \in Scripts : \A c \in Clients : Len(s[c]) <= MaxSteps

VARIABLES
  script,
  step,       \* the call a client is in, by its number in the script
  pc,         \* and where in it
  looked,     \* the ObjectInfo its handler copied
  reading,    \* what decode_and_get has of the client's get
  heard,      \* the value its get returned
  m_mutex,
  m_cur_stripe_id,
  m_object_commit_table,
  m_object_updating_table,
  m_stripe_table, \* key and nodes of a stripe
  thread,     \* encode_and_save or delete_blocks of a call at a proxy
  queue,      \* connections to the proxies no thread has accepted
  carries,    \* the content a thread encoded
  pending,    \* the blocks of a set no handleSet has written
  left,       \* the files of a deletion still to be removed
  files,
  ended,      \* a process ended; the run goes no further
  truth,      \* history: the set of a key that nothing disturbed
  relies,     \* history: the truth when a get began, if nothing was unsettled
  contended   \* history: keys set and deleted at one time

clientVars == <<script, step, pc, looked, reading, heard>>
coordVars  == <<m_mutex, m_cur_stripe_id, m_object_commit_table,
                m_object_updating_table, m_stripe_table>>
proxyVars  == <<thread, queue, carries>>
nodeVars   == <<pending, left, files>>
history    == <<truth, relies, contended>>
vars == <<clientVars, coordVars, proxyVars, nodeVars, ended, history>>

\* calls are named by client and number
Calls     == Clients \X (1 .. MaxSteps)
call(c)   == <<c, step[c]>>
kindOf(t) == script[t[1]][t[2]].kind
keyOf(t)  == script[t[1]][t[2]].key
Kind(c)   == kindOf(call(c))
Key(c)    == keyOf(call(c))

StripeIds == 0 .. Cardinality(Calls)
\* operator[] of a map makes an ObjectInfo of zeros
Info     == [empty : BOOLEAN, stripe : StripeIds]
DefaultInfo == [empty |-> TRUE, stripe |-> 0]
Homes    == {h \in [DataBlocks -> Nodes] : \A i, j \in DataBlocks : i # j => h[i] # h[j]}
DataFiles   == {<<"D", key, j, n>> : key \in Keys, j \in DataBlocks, n \in Nodes}
ParityFiles == {<<"P", id, b>> : id \in StripeIds, b \in Blocks \ DataBlocks}
Content  == Calls \union {Zero, Garbage}
Stripe   == [key : Keys, home : Homes]
Thread   == [at : {"accepting", "sent", "deleting", "reported"},
             cluster : Clusters \union {None}, stripe : StripeIds, home : Homes \union {None}]

ASSUME NoneAssumption ==
  None \notin Calls \union {Zero} /\ None \notin Info /\ None \notin Stripe /\ None \notin Thread

\* block_key of generate_placement, on the node of the block
FileOf(key, id, home, b) ==
  IF b \in DataBlocks THEN <<"D", key, b, home[b]>> ELSE <<"P", id, b>>
FilesOf(id) == [b \in Blocks |-> FileOf(m_stripe_table[id].key, id, m_stripe_table[id].home, b)]

Init ==
  /\ script \in Scripts
  /\ step = [c \in Clients |-> 0] /\ pc = [c \in Clients |-> "idle"]
  /\ looked = [c \in Clients |-> None] /\ reading = [c \in Clients |-> None]
  /\ heard = [c \in Clients |-> None]
  /\ m_mutex = "free" /\ m_cur_stripe_id = 0
  /\ m_object_commit_table = [key \in Keys |-> None]
  /\ m_object_updating_table = [key \in Keys |-> None]
  /\ m_stripe_table = [id \in StripeIds |-> None]
  /\ thread = [t \in Calls |-> None] /\ queue = {}
  /\ carries = [t \in Calls |-> None]
  /\ pending = [t \in Calls |-> {}] /\ left = [t \in Calls |-> {}]
  /\ files = [f \in DataFiles \union ParityFiles |-> None]
  /\ ended = FALSE
  /\ truth = [key \in Keys |-> None] /\ relies = [c \in Clients |-> None]
  /\ contended = {}

-----------------------------------------------------------------------------
(* History: what a get may count on, and which calls got in each other's   *)
(* way.                                                                    *)

Started(t) == t[2] \in 1 .. step[t[1]]
\* a call that is not over, or a thread or a handler of it
Unsettled(t) ==
  /\ Started(t)
  /\ \/ t[2] = step[t[1]] /\ pc[t[1]] # "idle"
     \/ thread[t] # None /\ thread[t].at # "reported"
     \/ pending[t] # {}
Touches(t, key, kinds) == kindOf(t) \in kinds /\ keyOf(t) = key

\* threads of sets may take each other's connection, whatever the key
Alone(t) ==
  \A u \in Calls \ {t} : Unsettled(u) =>
    /\ kindOf(u) # "set"
    /\ ~Touches(u, keyOf(t), {"del"})

\* truth is <<call>> once nothing else happened from its start to its return
NoteStart(c, kind, key) ==
  LET t == <<c, step[c] + 1>> IN
  /\ truth' =
       IF kind = "get" THEN truth
       ELSE [x \in Keys |->
               IF x = key
               THEN IF kind = "set" /\ Alone(t) THEN [by |-> t, sure |-> FALSE] ELSE None
               ELSE IF kind = "set" /\ truth[x] # None /\ ~truth[x].sure
                    THEN None ELSE truth[x]]
  /\ relies' =
       [d \in Clients |->
          IF d = c
          THEN IF /\ kind = "get" /\ truth[key] # None
                  /\ truth[key].sure /\ pending[truth[key].by] = {}
               THEN truth[key] ELSE None
          ELSE IF kind # "get" /\ relies[d] # None /\ keyOf(relies[d].by) = key
               THEN None ELSE relies[d]]
  /\ contended' =
       IF kind # "get" /\ \E u \in Calls \ {t} :
            Unsettled(u) /\ Touches(u, key, {"set", "del"} \ {kind})
       THEN contended \union {key} ELSE contended

NoteReturn(c) ==
  /\ truth' = IF Kind(c) = "set" /\ truth[Key(c)] # None /\ truth[Key(c)].by = call(c)
              THEN [truth EXCEPT ![Key(c)].sure = TRUE] ELSE truth
  /\ UNCHANGED <<relies, contended>>
-----------------------------------------------------------------------------
(* Client and coordinator: set.                                            *)

Lockable == m_mutex = "free"

StartCall(c) ==
  /\ pc[c] = "idle" /\ step[c] < Len(script[c])
  /\ step' = [step EXCEPT ![c] = @ + 1]
  /\ pc' = [pc EXCEPT ![c] = script[c][step[c] + 1].kind]
  /\ heard' = [heard EXCEPT ![c] = None]
  /\ NoteStart(c, script[c][step[c] + 1].kind, script[c][step[c] + 1].key)
  /\ UNCHANGED <<script, looked, reading, coordVars, proxyVars, nodeVars>>

\* uploadOriginKeyValue up to its call of encodeAndSetObject: the key is not
\* committed, the stripe is placed, a proxy of one of its clusters has a thread
PlaceObject(c) ==
  /\ pc[c] = "set" /\ Lockable
  /\ m_object_commit_table' = [m_object_commit_table EXCEPT ![Key(c)] = None]
  /\ m_cur_stripe_id' = m_cur_stripe_id + 1
  /\ looked' = [looked EXCEPT ![c] = [empty |-> FALSE, stripe |-> m_cur_stripe_id]]
  /\ \E h \in Homes, cl \in Clusters :
       /\ m_stripe_table' = [m_stripe_table EXCEPT ![m_cur_stripe_id] = [key |-> Key(c), home |-> h]]
       /\ thread' = [thread EXCEPT ![call(c)] =
            [at |-> "accepting", cluster |-> cl, stripe |-> m_cur_stripe_id, home |-> h]]
  /\ pc' = [pc EXCEPT ![c] = "placed"]
  /\ UNCHANGED <<script, step, reading, heard, m_mutex, m_object_updating_table,
                 queue, carries, nodeVars, history>>

\* the rest of it, once the proxy answered
NoteUpdating(c) ==
  /\ pc[c] = "placed" /\ Lockable
  /\ m_object_updating_table' = [m_object_updating_table EXCEPT ![Key(c)] = looked[c]]
  /\ looked' = [looked EXCEPT ![c] = None]
  /\ pc' = [pc EXCEPT ![c] = "sending"]
  /\ UNCHANGED <<script, step, reading, heard, m_mutex, m_cur_stripe_id,
                 m_object_commit_table, m_stripe_table, proxyVars, nodeVars, history>>

SendValue(c) ==
  /\ pc[c] = "sending"
  /\ queue' = queue \union {call(c)}
  /\ pc' = [pc EXCEPT ![c] = "checking"]
  /\ UNCHANGED <<script, step, looked, reading, heard, coordVars, thread, carries,
                 nodeVars, history>>

-----------------------------------------------------------------------------
(* Proxy and datanode: encodeAndSetObject, handleSet.                      *)

\* only as many bytes are compared as the thread's key has; with another key
\* the value stays the buffer's zeros, and is encoded and committed all the same
UncheckedBug(t, u) == u
ReceivedContent(t, u) ==
  IF keyOf(t) = keyOf(u) \/ <<keyOf(t), keyOf(u)>> \in Begins THEN u ELSE Zero

NotTakenBug(u) == queue
QueueWithout(u) == queue \ {u}

\* any connection to this proxy; SetToDatanode hands each block to a handler
AcceptAndEncode(t) ==
  /\ thread[t] # None /\ thread[t].at = "accepting"
  /\ \E u \in queue :
       /\ thread[u].cluster = thread[t].cluster
       /\ queue' = QueueWithout(u)
       /\ carries' = [carries EXCEPT ![t] = ReceivedContent(t, u)]
  /\ pending' = [pending EXCEPT ![t] = Blocks]
  /\ thread' = [thread EXCEPT ![t].at = "sent"]
  /\ UNCHANGED <<clientVars, coordVars, left, files, history>>

\* the file is truncated and written, whatever was written to it since
handleSet(t, b) ==
  /\ b \in pending[t]
  /\ files' = [files EXCEPT ![FileOf(keyOf(t), thread[t].stripe, thread[t].home, b)] = carries[t]]
  /\ pending' = [pending EXCEPT ![t] = @ \ {b}]
  /\ UNCHANGED <<clientVars, coordVars, proxyVars, left, history>>

-----------------------------------------------------------------------------
(* Coordinator and proxy: getValue, delByKey, decodeAndGetObject,          *)
(* deleteBlock.                                                            *)

\* m_object_commit_table.at(key) between lock and unlock: without an entry the
\* mutex stays locked.  The client of a get goes on to wait for a connection,
\* that of a deletion to ask for the commit.
CopyInfo(c) ==
  /\ pc[c] \in {"get", "del"} /\ Lockable
  /\ IF m_object_commit_table[Key(c)] = None
     THEN /\ m_mutex' = "leaked"
          /\ pc' = [pc EXCEPT ![c] = IF Kind(c) = "get" THEN "lost" ELSE "checking"]
          /\ UNCHANGED <<looked, m_object_updating_table>>
     ELSE /\ looked' = [looked EXCEPT ![c] = m_object_commit_table[Key(c)]]
          /\ m_object_updating_table' =
               IF Kind(c) = "get" THEN m_object_updating_table
               ELSE [m_object_updating_table EXCEPT ![Key(c)] = m_object_commit_table[Key(c)]]
          /\ pc' = [pc EXCEPT ![c] = "looking"]
          /\ UNCHANGED m_mutex
  /\ UNCHANGED <<script, step, reading, heard, m_cur_stripe_id, m_object_commit_table,
                 m_stripe_table, proxyVars, nodeVars, history>>

\* the stripe has blocks whose map2key is the key
HasBlocks(id, key) == m_stripe_table[id] # None /\ m_stripe_table[id].key = key

\* no block, no cluster to draw a proxy from: the coordinator ends
LookUp(c) ==
  LET id == looked[c].stripe IN
  /\ pc[c] = "looking"
  /\ IF ~HasBlocks(id, Key(c))
     THEN ended' = TRUE /\ UNCHANGED <<pc, looked, reading, thread, left>>
     ELSE /\ UNCHANGED ended
          /\ \/ /\ Kind(c) = "get"
                /\ reading' = [reading EXCEPT ![c] =
                     [empty |-> looked[c].empty, names |-> FilesOf(id), got |-> {}]]
                /\ pc' = [pc EXCEPT ![c] = "reading"]
                /\ UNCHANGED <<thread, left>>
             \/ /\ Kind(c) = "del"
                /\ left' = [left EXCEPT ![call(c)] = {FilesOf(id)[b] : b \in Blocks}]
                /\ thread' = [thread EXCEPT ![call(c)] =
                     [at |-> "deleting", cluster |-> None, stripe |-> id, home |-> None]]
                /\ pc' = [pc EXCEPT ![c] = "checking"]
                /\ UNCHANGED reading
          /\ looked' = [looked EXCEPT ![c] = None]
  /\ UNCHANGED <<script, step, heard, coordVars, queue, carries, pending, files, history>>

Received(got) == {p[1] : p \in got}
\* the data blocks alone, or as many blocks as decoding may need
check_received_block(expect_block_number, idxs) ==
  \/ Cardinality(idxs) >= expect_block_number
  \/ Cardinality(idxs) = k /\ DataBlocks \subseteq idxs
Enough(got) == check_received_block(k + 1, Received(got))

\* GetFromDatanode and handleGet; a file that is not there is a buffer nobody
\* filled.  Blocks that come when there are enough are dropped.
ReadBlock(c, b) ==
  LET content == files[reading[c].names[b]] IN
  /\ pc[c] = "reading"
  /\ ~Enough(reading[c].got) /\ b \notin Received(reading[c].got)
  /\ reading' = [reading EXCEPT ![c].got =
       @ \union {<<b, IF content = None THEN Garbage ELSE content>>}]
  /\ UNCHANGED <<script, step, pc, looked, heard, coordVars, proxyVars, nodeVars, history>>

\* a data block that did not come is computed from the others of the local
\* group: blocks of different values make bytes of none
Decoded(got) ==
  [d \in DataBlocks |->
     LET group == {p[2] : p \in {q \in got : q[1] \in DataBlocks \union {Local}}}
     IN  IF d \in Received(got) THEN (CHOOSE p \in got : p[1] = d)[2]
         ELSE IF Cardinality(group) = 1 THEN CHOOSE x \in group : TRUE ELSE Garbage]

\* value += std::string(data[j]) runs to the next zero byte: only the first
\* block is certain to be in its place
Spliced(v) == {v, [d \in DataBlocks |-> IF d = 0 THEN v[d] ELSE Garbage]}

\* std::string of the null pointer of a value without bytes throws in a thread
\* that does not catch: the proxy ends
AnswerGet(c) ==
  /\ pc[c] = "reading" /\ Enough(reading[c].got)
  /\ IF reading[c].empty
     THEN ended' = TRUE /\ UNCHANGED <<clientVars, history>>
     ELSE /\ \E v \in Spliced(Decoded(reading[c].got)) : heard' = [heard EXCEPT ![c] = v]
          /\ reading' = [reading EXCEPT ![c] = None]
          /\ pc' = [pc EXCEPT ![c] = "idle"]
          /\ UNCHANGED <<script, step, looked, ended, history>>
  /\ UNCHANGED <<coordVars, proxyVars, nodeVars>>

handleDelete(t, f) ==
  /\ f \in left[t]
  /\ left' = [left EXCEPT ![t] = @ \ {f}]
  /\ files' = [files EXCEPT ![f] = None]
  /\ UNCHANGED <<clientVars, coordVars, proxyVars, pending, history>>

-----------------------------------------------------------------------------
(* Coordinator: reportCommitAbort, checkCommitAbort.                       *)

SilentBug == pc
NotifyAll == [c \in Clients |-> IF pc[c] = "asleep" THEN "checking" ELSE pc[c]]
Done(t)   == thread' = [thread EXCEPT ![t].at = "reported"]

\* what was noted last for the key, by whatever set; with nothing noted, zeros
ReportSet(t) ==
  LET key == keyOf(t) IN
  /\ thread[t] # None /\ thread[t].at = "sent" /\ Lockable
  /\ m_object_commit_table' = [m_object_commit_table EXCEPT ![key] =
       IF m_object_updating_table[key] = None THEN DefaultInfo ELSE m_object_updating_table[key]]
  /\ m_object_updating_table' = [m_object_updating_table EXCEPT ![key] = None]
  /\ pc' = NotifyAll /\ Done(t)
  /\ UNCHANGED <<script, step, looked, reading, heard, m_mutex, m_cur_stripe_id,
                 m_stripe_table, queue, carries, nodeVars, history>>

\* the key is looked up again: a stripe set since is the one that goes
ReportDelete(t) ==
  LET key == keyOf(t)
      info == m_object_commit_table[key]
  IN
  /\ thread[t] # None /\ thread[t].at = "deleting" /\ left[t] = {} /\ Lockable
  /\ IF info = None THEN UNCHANGED <<coordVars, pc>>
     ELSE /\ m_object_commit_table' = [m_object_commit_table EXCEPT ![key] = None]
          /\ m_object_updating_table' = [m_object_updating_table EXCEPT ![key] = None]
          /\ m_stripe_table' = IF HasBlocks(info.stripe, key)
                               THEN [m_stripe_table EXCEPT ![info.stripe] = None]
                               ELSE m_stripe_table
          /\ pc' = NotifyAll
          /\ UNCHANGED <<m_mutex, m_cur_stripe_id>>
  /\ Done(t)
  /\ UNCHANGED <<script, step, looked, reading, heard, queue, carries, nodeVars, history>>

Settled(c) == (m_object_commit_table[Key(c)] # None) <=> (Kind(c) = "set")

\* a turn of the loop of checkCommitAbort, up to the next cv.wait
CheckCommitAbort(c) ==
  /\ pc[c] = "checking" /\ Lockable
  /\ IF Settled(c)
     THEN pc' = [pc EXCEPT ![c] = "idle"] /\ NoteReturn(c)
     ELSE pc' = [pc EXCEPT ![c] = "asleep"] /\ UNCHANGED history
  /\ UNCHANGED <<script, step, looked, reading, heard, coordVars, proxyVars, nodeVars>>

-----------------------------------------------------------------------------
\* the steps of a call at its client and in its handlers
Calling(c) ==
  \/ (PlaceObject(c) \/ NoteUpdating(c) \/ SendValue(c) \/ CopyInfo(c)
        \/ CheckCommitAbort(c) \/ \E b \in Blocks : ReadBlock(c, b)) /\ UNCHANGED ended
  \/ LookUp(c) \/ AnswerGet(c)

\* its threads at a proxy and at the datanodes
Threads(t) ==
  /\ \/ AcceptAndEncode(t) \/ ReportSet(t) \/ ReportDelete(t)
     \/ \E b \in Blocks : handleSet(t, b)
     \/ \E f \in left[t] : handleDelete(t, f)
  /\ UNCHANGED ended

Running ==
  /\ ~ended
  /\ (\E c \in Clients : Calling(c)) \/ (\E t \in Calls : Threads(t))

\* Nothing of a call is running: its client has returned, sleeps in cv.wait, is
\* left without a connection or waits for a mutex that was leaked; its threads
\* are over or have no connection to accept.
Waits(c) ==
  \/ pc[c] \in {"idle", "asleep", "lost"}
  \/ pc[c] \in {"set", "placed", "get", "del", "checking"} /\ ~Lockable
Halted(t) ==
  /\ pending[t] = {} /\ left[t] = {}
  /\ thread[t] # None =>
       \/ thread[t].at = "reported"
       \/ thread[t].at = "accepting" /\ \A u \in queue : thread[u].cluster # thread[t].cluster
       \/ thread[t].at \in {"sent", "deleting"} /\ ~Lockable
Quiet == (\A c \in Clients : Waits(c)) /\ (\A t \in Calls : Halted(t))

Finished ==
  /\ ended \/ Quiet
  /\ UNCHANGED vars

Next ==
  \/ Running
  \/ Finished
  \/ \E c \in Clients : ~ended /\ StartCall(c) /\ UNCHANGED ended

Spec == Init /\ [][Next]_vars

-----------------------------------------------------------------------------
(* Properties.                                                             *)

\* TypeOK: among the rest, what is noted or committed for a key names a stripe
\* that was placed, and a connection waits for one thread.
TypeOK ==
  /\ script \in Scripts /\ step \in [Clients -> 0 .. MaxSteps]
  /\ pc \in [Clients -> {"idle", "set", "placed", "sending", "get", "del", "looking",
                         "reading", "lost", "checking", "asleep"}]
  /\ m_mutex \in {"free", "leaked"} /\ ended \in BOOLEAN
  /\ \A key \in Keys : \A info \in {m_object_commit_table[key], m_object_updating_table[key]} :
       info # None => info \in Info /\ info.stripe < m_cur_stripe_id
  /\ carries \in [Calls -> Content \union {None}]
  /\ files \in [DataFiles \union ParityFiles -> Calls \union {Zero, None}]
  /\ \A cl \in Clusters :
       Cardinality({t \in queue : thread[t].cluster = cl}) <=
         Cardinality({t \in Calls : thread[t] # None /\ thread[t].at = "accepting"
                                                   /\ thread[t].cluster = cl})

\* GetsTheSetValue: whatever a get hears was stored for its key, or for a key
\* that begins with it: the threads of a proxy may take each other's
\* connection, and check the key.  When the key's last set was alone (no other
\* set, and no deletion of the key, from its start to its return), its blocks
\* are written, and neither comes while the get runs, the get hears that
\* set's value, as far as splicing leaves it in its place.
GetsTheSetValue ==
  \A c \in Clients : heard[c] # None =>
    LET of(t) == keyOf(t) = Key(c) \/ <<Key(c), keyOf(t)>> \in Begins
    IN  /\ \A d \in DataBlocks : heard[c][d] \in {t \in Calls : of(t)} \union {Zero, Garbage}
        /\ relies[c] # None =>
             /\ heard[c][0] = relies[c].by
             /\ \A d \in DataBlocks : heard[c][d] \in {relies[c].by, Garbage}

\* CallsReturn: when no thread of a client, handler, proxy or datanode runs any
\* more (each has a bounded number of steps), every call has returned to its
\* client, unless a get or a deletion of a key that was not committed left the
\* mutex locked, a process met a stripe that was gone and ended, or the key was
\* set and deleted at one time.
CallsReturn ==
  Quiet /\ ~ended /\ Lockable =>
    \A c \in Clients : pc[c] # "idle" => Key(c) \in contended
=============================================================================
