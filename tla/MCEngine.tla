------------------------------ MODULE MCEngine ------------------------------
(***************************************************************************)
(* Small instances of Engine: two targets, up to two API goroutines, and   *)
(* the requests, settings and failures each run is about.                  *)
(***************************************************************************)
EXTENDS Engine, TLC

Mixed == [mode |-> "mixed", dns |-> "dnsmasq"]
TProxy == [mode |-> "tproxy", dns |-> "redirect"]
FullTun == [mode |-> "tun", dns |-> "dnsmasq"]
Redirect == [mode |-> "redirect", dns |-> "off"]

OnePlan == {Mixed}
TunPlan == {FullTun}
TwoPlans == {Mixed, TProxy}
AllPlans == {Mixed, TProxy, FullTun, Redirect}

CallerSymmetry == Permutations(Callers)
=============================================================================
