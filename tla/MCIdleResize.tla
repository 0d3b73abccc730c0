---------------------------- MODULE MCIdleResize ----------------------------
(***************************************************************************)
(* Instances of IdleResize for TLC.                                        *)
(***************************************************************************)
EXTENDS IdleResize

CONSTANTS web, web1, web2

WebOf == [p \in {web1, web2} |-> web]

(* One container; and a sidecar before the main container.                 *)
OneContainer == {<<100>>, <<80>>}

Sidecar == {<<20, 100>>}

(* The workload is idle at first, and is edited to request less.           *)
MCInit == Init /\ template = [w \in {web} |-> <<100>>] /\ usage = [w \in {web} |-> 4]

MCSpec == MCInit /\ [][Next]_vars /\ Fairness
=============================================================================
