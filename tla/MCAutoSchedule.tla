--------------------------- MODULE MCAutoSchedule ---------------------------
(***************************************************************************)
(* Instances of AutoSchedule for TLC.                                      *)
(***************************************************************************)
EXTENDS AutoSchedule, TLC

Spec1(suspend, name, serves) == [suspend |-> suspend, name |-> name, serves |-> serves]

(* A policy that lacks the profile of office namespaces, one that names    *)
(* its schedules differently, and a suspended one that has both profiles.  *)
SpecChoices ==
  {Spec1(FALSE, "auto-sleep", "night" :> "strict" @@ "office" :> Missing),
   Spec1(FALSE, "other", "night" :> "relaxed"),
   Spec1(TRUE, "auto-sleep", "night" :> "strict" @@ "office" :> "relaxed")}

BoundChoices == {[changes |-> 1, aborts |-> 1], [changes |-> 2, aborts |-> 1]}

(* One change from any start; two where one policy serves one of the two   *)
(* namespaces and the other policy overlaps with it or is not there yet.   *)
MCInit ==
  /\ Init
  /\ left.changes = 2 =>
       /\ policy["p"].exists /\ policy["p"].spec.name = "auto-sleep" /\ ~policy["p"].spec.suspend
       /\ policy["q"].exists => policy["q"].spec.name = "other"
       /\ label = "acme" :> "night" @@ "beta" :> "bare"

MCSpec == MCInit /\ [][Next]_vars /\ Fairness
=============================================================================
