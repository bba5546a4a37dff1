---------------------------- MODULE TrafficGate ----------------------------
(***************************************************************************)
(* What xwrtd promises about the traffic of the LAN, whatever it does to   *)
(* get there: traffic is steered, by capture rules or by the resolver,     *)
(* only into a tunnel that has been seen to carry data, and a tunnel comes *)
(* down only after the last thing that steers into it is gone.  Only the   *)
(* end of the daemon breaks the order, and then no new daemon raises a     *)
(* tunnel before it has swept away what steers into the old one.           *)
(***************************************************************************)
CONSTANT Capture     \* the ways traffic can be steered
VARIABLES
  tunnel,            \* "unattended", "down", "raised" or "trusted"
  steered            \* the ways that are in effect

gate == <<tunnel, steered>>

Init == tunnel = "unattended" /\ steered = {}

Raise == tunnel = "down" /\ steered = {} /\ tunnel' = "raised" /\ steered' = {}

\* The far end has answered through the tunnel.
Trust ==
  /\ tunnel = "raised" /\ steered = {}
  /\ tunnel' = "trusted" /\ steered' = {}

Steer(way) ==
  /\ tunnel = "trusted"
  /\ steered' = steered \cup {way}
  /\ UNCHANGED tunnel

\* The daemon takes a way back, or the system does under its feet.
Unsteer ==
  /\ steered' \subseteq steered
  /\ UNCHANGED tunnel

Lower ==
  /\ tunnel \in {"raised", "trusted"} /\ steered = {}
  /\ tunnel' = "down" /\ steered' = {}

\* The daemon ends, in order or not.
Abandon ==
  /\ tunnel' = "unattended"
  /\ steered' \subseteq steered

\* A new one has cleared up and takes charge.
Attend ==
  /\ tunnel = "unattended" /\ steered = {}
  /\ tunnel' = "down" /\ steered' = {}

Next ==
  \/ Raise \/ Trust \/ Unsteer \/ Lower \/ Abandon \/ Attend
  \/ \E way \in Capture : Steer(way)

Spec == Init /\ [][Next]_gate
=============================================================================
