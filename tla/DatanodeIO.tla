----------------------------- MODULE DatanodeIO -----------------------------
(***************************************************************************)
(* The data socket of a datanode, as the proxies use it.  A transfer is a  *)
(* call that makes the datanode start a handler, and a connection for the  *)
(* handler to accept.  Handlers of every kind wait in accept() on the one  *)
(* socket of the node and a connection carries bytes and no key, so which  *)
(* handler meets which connection is left to chance.                       *)
(*                                                                         *)
(* Kinds: "append" brings the bytes of a block, the call and the           *)
(* connection over before anyone waits; "get" fetches a block; "recover"   *)
(* brings a rebuilt block and waits until it is written.                   *)
(***************************************************************************)
EXTENDS Naturals, FiniteSets

CONSTANTS
  Transfers,  \* triples of kind, request and block
  Blocks,
  Nodes,
  MaxDown,    \* bound: how many datanodes crash
  MayCrash,   \* bound: which may; no target of a repair, for a proxy that
              \* cannot reach the target exits
  Garbage,    \* bytes nobody wrote: the heap of a new[]
  None

VARIABLES
  at,         \* the node a transfer goes to
  call,       \* the proxy's end of a transfer
  buf,        \* the proxy's buffer: what it sends, or what it got
  handler,    \* the datanode's end: the thread of the handler
  page,       \* what a get handler read before it accepts
  met,        \* the connection a handler accepted
  backlog,    \* connections no handler has accepted
  file,       \* the content of the block files of a node
  down        \* crashed nodes

ioVars == <<at, call, buf, handler, page, met, backlog, file, down>>

kind(t)    == t[1]
request(t) == t[2]
block(t)   == t[3]
Content    == Blocks \union {Garbage}

ASSUME TransfersAssumption ==
  /\ \A t \in Transfers : block(t) \in Blocks
  /\ None \notin Content \union Nodes

\* the files are there except those a running append brings and those absent
IOInit(placed, running, absent) ==
  /\ at = [t \in Transfers |-> IF t \in running THEN placed[block(t)] ELSE None]
  /\ call = [t \in Transfers |-> IF t \in running THEN "done" ELSE "none"]
  /\ buf = [t \in Transfers |-> IF t \in running THEN block(t) ELSE Garbage]
  /\ handler = [t \in Transfers |-> IF t \in running THEN "accepting" ELSE "none"]
  /\ page = [t \in Transfers |-> Garbage]
  /\ met = [t \in Transfers |-> None]
  /\ backlog = running
  /\ file = [n \in Nodes |-> [b \in Blocks |->
               IF placed[b] = n /\ b \notin absent /\ \A t \in running : block(t) # b
               THEN b ELSE None]]
  /\ down = {}

-----------------------------------------------------------------------------
(* Proxy: GetFromDatanode and RecoveryToDatanode.                          *)

StartTransfer(t, n, bytes) ==
  /\ call[t] = "none"
  /\ at' = [at EXCEPT ![t] = n]
  /\ buf' = [buf EXCEPT ![t] = bytes]
  /\ call' = [call EXCEPT ![t] = "started"]
  /\ UNCHANGED <<handler, page, met, backlog, file, down>>

\* what handleGet reads: a buffer nobody filled when there is no file
UncheckedBug(t) == file[at[t]][block(t)]
FileRead(t)     == IF file[at[t]][block(t)] = None THEN Garbage ELSE file[at[t]][block(t)]

\* The call: the datanode starts the handler.  A get reads the file first.
\* A repair makes the call in a thread of its own, so it may come after the
\* connection.
CallNode(t) ==
  /\ call[t] \in IF kind(t) = "recover" THEN {"started", "connected"} ELSE {"started"}
  /\ handler[t] = "none"
  /\ page' = IF kind(t) = "get" THEN [page EXCEPT ![t] = FileRead(t)] ELSE page
  /\ handler' = [handler EXCEPT ![t] = IF at[t] \in down THEN "lost" ELSE "accepting"]
  /\ UNCHANGED <<at, call, buf, met, backlog, file, down>>

\* The connection.  GetFromDatanode catches the failure to connect, leaves its
\* buffer as it is and returns true.
Connect(t) ==
  /\ call[t] = "started"
  /\ kind(t) = "get" => handler[t] # "none"
  /\ IF at[t] \in down
     THEN call' = [call EXCEPT ![t] = "done"] /\ UNCHANGED backlog
     ELSE call' = [call EXCEPT ![t] = "connected"] /\ backlog' = backlog \union {t}
  /\ UNCHANGED <<at, buf, handler, page, met, file, down>>

RepairUnjoinedBug(t) == TRUE
RepairJoined(t)      == handler[t] = "done"

\* a repair ends when the handler it called has ended
FinishRepair(t) ==
  /\ kind(t) = "recover" /\ call[t] = "connected"
  /\ RepairJoined(t)
  /\ call' = [call EXCEPT ![t] = "done"]
  /\ UNCHANGED <<at, buf, handler, page, met, backlog, file, down>>

-----------------------------------------------------------------------------
(* Datanode: the threads of handleAppend, handleGet, handleRecovery.       *)

Accept(h, c) ==
  /\ handler[h] = "accepting"
  /\ c \in backlog /\ at[c] = at[h]
  /\ handler' = [handler EXCEPT ![h] = "serving"]
  /\ met' = [met EXCEPT ![h] = c]
  /\ backlog' = backlog \ {c}
  /\ UNCHANGED <<at, call, buf, page, file, down>>

\* A handler that reads, on a connection that brings bytes: they go to the file
\* of the handler's block.  On the connection of a get it reads for ever, for
\* the other end reads as well.
WriteFile(h) ==
  /\ handler[h] = "serving" /\ kind(h) # "get"
  /\ kind(met[h]) # "get"
  /\ file' = [file EXCEPT ![at[h]][block(h)] = buf[met[h]]]
  /\ handler' = [handler EXCEPT ![h] = "done"]
  /\ UNCHANGED <<at, call, buf, page, met, backlog, down>>

\* A handler of a get writes its page to whoever it met; the reader of a get
\* copies it to its buffer.
SendFile(h) ==
  LET c == met[h] IN
  /\ handler[h] = "serving" /\ kind(h) = "get"
  /\ handler' = [handler EXCEPT ![h] = "done"]
  /\ IF kind(c) = "get"
     THEN buf' = [buf EXCEPT ![c] = page[h]] /\ call' = [call EXCEPT ![c] = "done"]
     ELSE UNCHANGED <<buf, call>>
  /\ UNCHANGED <<at, page, met, backlog, file, down>>

\* A crash ends the node's threads and connections and keeps its files; a get
\* that was connected copies what its receive buffer held.
CrashNode(n) ==
  /\ n \in MayCrash \ down /\ Cardinality(down) < MaxDown
  /\ down' = down \union {n}
  /\ backlog' = {c \in backlog : at[c] # n}
  /\ handler' = [h \in Transfers |->
       IF at[h] = n /\ handler[h] \in {"accepting", "serving"} THEN "lost" ELSE handler[h]]
  /\ call' = [t \in Transfers |->
       IF at[t] = n /\ call[t] = "connected" THEN "done" ELSE call[t]]
  /\ UNCHANGED <<at, buf, page, met, file>>

Transfer(t) ==
  \/ CallNode(t) \/ Connect(t) \/ FinishRepair(t)
  \/ \E c \in backlog : Accept(t, c)
  \/ WriteFile(t) \/ SendFile(t)

IONext ==
  \/ \E t \in Transfers : Transfer(t)
  \/ \E n \in Nodes : CrashNode(n)

IOTypeOK ==
  /\ at \in [Transfers -> Nodes \union {None}]
  /\ call \in [Transfers -> {"none", "started", "connected", "done"}]
  /\ buf \in [Transfers -> Content]
  /\ handler \in [Transfers -> {"none", "accepting", "serving", "done", "lost"}]
  /\ page \in [Transfers -> Content]
  /\ met \in [Transfers -> Transfers \union {None}]
  /\ backlog \subseteq Transfers
  /\ file \in [Nodes -> [Blocks -> Content \union {None}]]
  /\ down \subseteq Nodes

-----------------------------------------------------------------------------
(* What every user of the socket may count on, whatever the transfers,      *)
(* nodes and crashes.                                                       *)

\* a transfer that has not begun is nowhere, one that waits in accept()'s queue
\* was connected
NotBegun ==
  \A t \in Transfers :
    /\ IF call[t] = "none"
       THEN at[t] = None /\ handler[t] = "none"
       ELSE at[t] \in Nodes
    /\ handler[t] = "none" => page[t] = Garbage
    /\ t \in backlog => call[t] \in {"connected", "done"}

\* a connection that was accepted is out of the backlog, has begun, leads to the
\* node of the handler that has it, and no other handler has it
Paired ==
  \A h \in Transfers : handler[h] \in {"serving", "done"} =>
    /\ met[h] \in Transfers /\ met[h] \notin backlog
    /\ call[met[h]] \in {"connected", "done"} /\ at[met[h]] = at[h]
    /\ \A g \in Transfers \ {h} : handler[g] \in {"serving", "done"} => met[g] # met[h]

IOInv == IOTypeOK /\ NotBegun /\ Paired
=============================================================================
