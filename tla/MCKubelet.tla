------------------------------- MODULE MCKubelet -------------------------------
(* Instances of Kubelet for TLC: an ephemeral volume e with its pod's target *)
(* te, a persistent volume p with targets p1 and p2, of which p2 is          *)
(* published read-only.                                                      *)
EXTENDS Kubelet, TLC

CONSTANTS e, p, te, p1, p2, h1, h2

BothVolumes    == te :> e @@ p1 :> p @@ p2 :> p
OneOfEach      == te :> e @@ p1 :> p
OneEphemeral   == te :> e
OnePersistent  == p1 :> p @@ p2 :> p
AllButStat     == FaultPoints \ {"stat"}
=============================================================================
