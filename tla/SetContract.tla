---------------------------- MODULE SetContract ----------------------------
(***************************************************************************)
(* What a stripe write promises its client: the groups of the stripe are   *)
(* committed one at a time and stay committed, and the client is told of   *)
(* success only when every group of its plan is.                           *)
(***************************************************************************)
CONSTANTS Ops, Groups, Plans

VARIABLES phase, planned, committed

vars == <<phase, planned, committed>>

Init ==
  /\ phase = [o \in Ops |-> "idle"]
  /\ planned = [o \in Ops |-> {}]
  /\ committed = {}

Begin(o) ==
  /\ phase[o] = "idle"
  /\ phase' = [phase EXCEPT ![o] = "uploading"]
  /\ planned' \in {[planned EXCEPT ![o] = p] : p \in Plans}
  /\ UNCHANGED committed

Commit(o, g) ==
  /\ phase[o] = "uploading"
  /\ g \in planned[o] /\ <<o, g>> \notin committed
  /\ committed' = committed \union {<<o, g>>}
  /\ UNCHANGED <<phase, planned>>

Acknowledge(o) ==
  /\ phase[o] = "uploading"
  /\ \A g \in planned[o] : <<o, g>> \in committed
  /\ phase' = [phase EXCEPT ![o] = "acked"]
  /\ UNCHANGED <<planned, committed>>

Next == \E o \in Ops : Begin(o) \/ Acknowledge(o) \/ \E g \in Groups : Commit(o, g)

Spec == Init /\ [][Next]_vars
=============================================================================
