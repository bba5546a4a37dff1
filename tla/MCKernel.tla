------------------------------ MODULE MCKernel ------------------------------
(***************************************************************************)
(* Instances of the two parts that live in the kernel and share nothing:   *)
(* the tunnel with its policy routes, a few children and crashes, and the  *)
(* capture rules, every mode with every switch, with two LAN devices and   *)
(* with none detected.  A behaviour is one of one of them, the other       *)
(* standing still at an initial state.                                     *)
(***************************************************************************)
EXTENDS TunDevice, Firewall

Lans == {<<>>, <<"lan", "guest">>}
\* The switch for QUIC is read in one mode only, and the upstream's device
\* only where there is no other.
SomePlans ==
  {p \in [mode : Modes, hijack : BOOLEAN, router : BOOLEAN, quic : BOOLEAN,
          lan : Lans, wan : {"wan", ""}] :
     /\ p.quic => p.mode = "redirect"
     /\ p.wan = "" => p.lan = <<>>}

VARIABLE part   \* the part that runs

TunnelRests == TunInit
RulesRest == /\ Init /\ backend = "nft"
             /\ plan = [mode |-> "tun", hijack |-> FALSE, router |-> FALSE,
                        quic |-> FALSE, lan |-> <<>>, wan |-> ""]

KernelInit ==
  \/ part = "tunnel" /\ TunInit /\ RulesRest
  \/ part = "rules" /\ Init /\ TunnelRests

KernelNext ==
  /\ UNCHANGED part
  /\ \/ part = "tunnel" /\ TunNext /\ UNCHANGED vars
     \/ part = "rules" /\ Next /\ UNCHANGED allVars

\* The fairness is the tunnel's; where the rules run it asks for nothing, since
\* a tunnel that was never made has no step to take.
KernelSpec ==
  /\ KernelInit /\ [][KernelNext]_<<part, allVars, vars>>
  /\ Fairness /\ WF_allVars(Starting \/ Stopping)
=============================================================================
