---------------------------- MODULE MCIdleScale ----------------------------
(***************************************************************************)
(* An instance of IdleScale for TLC: a Deployment.                         *)
(***************************************************************************)
EXTENDS IdleScale

CONSTANT web

WebKind == [w \in {web} |-> "Deployment"]

Replicas == [w \in {web} |-> {[replicas |-> n] : n \in 0..2}]
=============================================================================
