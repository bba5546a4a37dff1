----------------------------- MODULE TunDevice -----------------------------
(***************************************************************************)
(* The TUN device, the tunnel process behind it and the policy routes into *)
(* it: internal/mode/tun.go, as the engine drives it, over the supervised  *)
(* process of Supervisor.                                                  *)
(*                                                                         *)
(* The kernel makes the device for the process and takes it away with the  *)
(* process, and with the device every route through it; policy rules stay  *)
(* until somebody deletes them.  A device can also be left behind.  The    *)
(* daemon may be killed, or the power cut, between any two commands.       *)
(***************************************************************************)
EXTENDS Supervisor

CONSTANTS
  Nets,        \* how many networks the settings and the LAN exempt
  Tries,       \* how often removeRoutes deletes one preference (32)
  Failures,    \* the steps that can fail in this instance
  MaxCrashes   \* bound on kills and power cuts

Scopes == {"all", "udp"}
Prefs == {"nets", "core", "udp", "all"}
Fallible == {"open", "link", "route", "core", "nets", "divert"}

ASSUME NetsAssumption == Nets \in Nat
ASSUME TriesAssumption == Tries \in Nat \ {0}
ASSUME FailuresAssumption == Failures \subseteq Fallible
ASSUME CrashesAssumption == MaxCrashes \in Nat

VARIABLES
  up,          \* the daemon runs
  tun,         \* e.tun is not nil
  scope,       \* t.Scope
  applied,     \* t.applied
  pc,          \* the next step of Start, Stop or CleanStale, "idle" outside
  todo,        \* removeRoutes: the preferences still to be deleted
  device,      \* the interface exists
  rules,       \* how many policy rules each preference has
  route,       \* the table has its default route
  orphan,      \* the tunnel of a daemon that was killed still runs
  crashes

object == <<tun, scope, applied>>
network == <<device, rules, route>>
life == <<up, orphan, crashes>>
tunVars == <<object, network, life, pc, todo>>
allVars == <<procVars, tunVars>>

\* The order in which removeRoutes goes through them.
Rank == [nets |-> 1, core |-> 2, udp |-> 3, all |-> 4]

NoRules == [p \in Prefs |-> 0]
AddRules(p, n) == rules' = [rules EXCEPT ![p] = @ + n]

\* How many of the networks get their rule: a command that fails is ignored.
NetCounts == IF "nets" \in Failures THEN 0..Nets ELSE {Nets}

\* What a complete installation looks like.
Installation(s, n) ==
  [p \in Prefs |-> CASE p = "nets"        -> n
                     [] p \in {"core", s} -> 1
                     [] OTHER             -> 0]

-----------------------------------------------------------------------------
\* Tun.Start.

NewTun ==
  /\ up /\ pc = "idle" /\ ~tun
  /\ child < MaxSpawns
  /\ tun' = TRUE /\ scope' \in Scopes /\ pc' = "open"
  /\ UNCHANGED <<procVars, applied, network, life, todo>>

\* The device node is opened, the configuration written, the process started.
Launch ==
  /\ pc = "open"
  /\ Start /\ pc' = "starting"
  /\ UNCHANGED <<object, network, life, todo>>

CannotOpen ==
  /\ pc = "open" /\ "open" \in Failures
  /\ pc' = "failed"
  /\ UNCHANGED <<procVars, object, network, life, todo>>

CannotLaunch ==
  /\ pc = "starting"
  /\ StartFails /\ pc' = "failed"
  /\ UNCHANGED <<object, network, life, todo>>

Launched ==
  /\ pc = "starting" /\ start = "idle"
  /\ pc' = "await"
  /\ UNCHANGED <<procVars, object, network, life, todo>>

\* waitForDevice, which gives up after five seconds.
Await ==
  /\ pc = "await"
  /\ \/ device /\ pc' = "link"
     \/ ~device /\ pc' = "halt"
  /\ UNCHANGED <<procVars, object, network, life, todo>>

\* configureDevice, then removeRoutes at the beginning of installRoutes.
Configure ==
  /\ pc = "link"
  /\ \/ device /\ pc' = "clear" /\ todo' = Prefs
     \/ /\ ~device \/ "link" \in Failures
        /\ pc' = "halt" /\ UNCHANGED todo
  /\ UNCHANGED <<procVars, object, network, life>>

Unwind == pc' = "unwind" /\ todo' = Prefs

AddRoute ==
  /\ pc = "route"
  /\ \/ device /\ route' = TRUE /\ pc' = "core" /\ UNCHANGED todo
     \/ /\ ~device \/ "route" \in Failures
        /\ Unwind /\ UNCHANGED route
  /\ UNCHANGED <<procVars, object, device, rules, life>>

AddCore_ForgetsNets ==
  /\ pc = "core"
  /\ \/ AddRules("core", 1) /\ pc' = "divert" /\ UNCHANGED todo
     \/ "core" \in Failures /\ Unwind /\ UNCHANGED rules
  /\ UNCHANGED <<procVars, object, device, route, life>>

AddCore ==
  /\ pc = "core"
  /\ \/ AddRules("core", 1) /\ pc' = "nets" /\ UNCHANGED todo
     \/ "core" \in Failures /\ Unwind /\ UNCHANGED rules
  /\ UNCHANGED <<procVars, object, device, route, life>>

AddNets ==
  /\ pc = "nets"
  /\ \E n \in NetCounts : AddRules("nets", n)
  /\ pc' = "divert"
  /\ UNCHANGED <<procVars, object, device, route, life, todo>>

AddDivert_AnyScope ==
  /\ pc = "divert"
  /\ \/ AddRules("all", 1) /\ applied' = TRUE /\ pc' = "idle" /\ UNCHANGED todo
     \/ "divert" \in Failures /\ Unwind /\ UNCHANGED <<rules, applied>>
  /\ UNCHANGED <<procVars, tun, scope, device, route, life>>

\* Start returns nil.
AddDivert ==
  /\ pc = "divert"
  /\ \/ AddRules(scope, 1) /\ applied' = TRUE /\ pc' = "idle" /\ UNCHANGED todo
     \/ "divert" \in Failures /\ Unwind /\ UNCHANGED <<rules, applied>>
  /\ UNCHANGED <<procVars, tun, scope, device, route, life>>

-----------------------------------------------------------------------------
\* removeRoutes, which Start, Stop and CleanStale all call.

Removing == pc \in {"clear", "unwind", "stop", "stale"}

RemoveRule_BelowNone ==
  /\ Removing
  /\ \E p \in todo :
       /\ \A q \in todo : Rank[p] <= Rank[q]
       /\ rules' = [rules EXCEPT ![p] = @ - 1]
       /\ todo' = todo \ {p}
  /\ UNCHANGED <<procVars, object, device, route, life, pc>>

RemoveRule ==
  /\ Removing
  /\ \E p \in todo :
       /\ \A q \in todo : Rank[p] <= Rank[q]
       /\ rules' = [rules EXCEPT ![p] = IF @ > Tries THEN @ - Tries ELSE 0]
       /\ todo' = todo \ {p}
  /\ UNCHANGED <<procVars, object, device, route, life, pc>>

Flush ==
  /\ Removing /\ todo = {}
  /\ route' = FALSE
  /\ pc' = CASE pc = "clear" -> "route"
             [] pc = "stale" -> "delete"
             [] OTHER        -> "halt"
  /\ applied' = (applied /\ pc # "stop")
  /\ UNCHANGED <<procVars, tun, scope, device, rules, life, todo>>

-----------------------------------------------------------------------------
\* Tun.Stop, and the stops inside Start.

\* The engine takes down what failed, or what is connected.
TearDown ==
  /\ up /\ tun /\ pc \in {"idle", "failed"}
  /\ IF applied THEN pc' = "stop" /\ todo' = Prefs
                ELSE pc' = "halt" /\ UNCHANGED todo
  /\ tun' = FALSE
  /\ UNCHANGED <<procVars, scope, applied, network, life>>

Halt_EvenWhenOver ==
  /\ pc = "halt"
  /\ StopBegin
  /\ pc' = "halting"
  /\ UNCHANGED <<object, network, life, todo>>

Halt ==
  /\ pc = "halt"
  /\ IF running THEN StopBegin ELSE UNCHANGED procVars
  /\ pc' = "halting"
  /\ UNCHANGED <<object, network, life, todo>>

\* A Start that failed leaves the rest to the teardown.
Halted ==
  /\ pc = "halting" /\ stop = "idle"
  /\ pc' = IF tun THEN "failed" ELSE "delete"
  /\ UNCHANGED <<procVars, object, network, life, todo>>

DeleteDevice ==
  /\ pc = "delete"
  /\ device' = FALSE /\ route' = FALSE
  /\ pc' = "idle"
  /\ UNCHANGED <<procVars, object, rules, life, todo>>

-----------------------------------------------------------------------------
\* The daemon's life.

Lose ==
  /\ up /\ crashes < MaxCrashes
  /\ crashes' = crashes + 1
  /\ up' = FALSE /\ tun' = FALSE /\ applied' = FALSE
  /\ pc' = "idle" /\ todo' = {}
  /\ running' = FALSE /\ stopped' = FALSE /\ exits' = 0 /\ cmd' = 0
  /\ ctx' = "live"
  /\ sup' = "none" /\ first' = TRUE /\ seen' = FALSE /\ told' = "nothing"
  /\ procs' = {} /\ termed' = FALSE
  /\ start' = "idle" /\ stop' = "idle" /\ aim' = 0
  /\ UNCHANGED <<scope, child>>

\* The tunnel process is in a group of its own and goes on.
KillDaemon ==
  /\ Lose
  /\ orphan' = (orphan \/ "child" \in procs)
  /\ UNCHANGED network

PowerCut ==
  /\ Lose
  /\ orphan' = FALSE
  /\ device' = FALSE /\ rules' = NoRules /\ route' = FALSE

StartDaemon_ForgetsNets ==
  /\ ~up
  /\ up' = TRUE /\ orphan' = FALSE
  /\ pc' = "stale" /\ todo' = Prefs \ {"nets"}
  /\ UNCHANGED <<procVars, object, network, crashes>>

\* ClearStaleState kills what a dead daemon left running and calls CleanStale.
StartDaemon ==
  /\ ~up
  /\ up' = TRUE /\ orphan' = FALSE
  /\ pc' = "stale" /\ todo' = Prefs
  /\ UNCHANGED <<procVars, object, network, crashes>>

-----------------------------------------------------------------------------
\* The kernel and the tunnel process.

Appear ==
  /\ ~device /\ ("child" \in procs \/ orphan)
  /\ device' = TRUE
  /\ UNCHANGED <<procVars, object, rules, route, life, pc, todo>>

Vanish ==
  /\ device /\ "child" \notin procs /\ ~orphan
  /\ device' = FALSE /\ route' = FALSE
  /\ UNCHANGED <<procVars, object, rules, life, pc, todo>>

OrphanDies ==
  /\ orphan /\ orphan' = FALSE
  /\ UNCHANGED <<procVars, object, network, up, crashes, pc, todo>>

Process ==
  /\ StopTerm \/ StopKill \/ StopReturn \/ Die \/ HelperEnds \/ ContextKill
     \/ Supervise
  /\ UNCHANGED tunVars

-----------------------------------------------------------------------------
TunInit ==
  /\ ProcInit
  /\ up = FALSE /\ tun = FALSE /\ scope = "all" /\ applied = FALSE
  /\ pc = "idle" /\ todo = {}
  /\ device = FALSE /\ rules = NoRules /\ route = FALSE
  /\ orphan = FALSE /\ crashes = 0

Starting ==
  \/ Launch \/ CannotOpen \/ CannotLaunch \/ Launched \/ Await
  \/ Configure \/ AddRoute \/ AddCore \/ AddNets \/ AddDivert

Stopping == RemoveRule \/ Flush \/ Halt \/ Halted \/ DeleteDevice

World ==
  \/ KillDaemon \/ PowerCut \/ StartDaemon
  \/ Appear \/ Vanish \/ OrphanDies \/ Process

TunNext == NewTun \/ TearDown \/ Starting \/ Stopping \/ World

TunSpec == TunInit /\ [][TunNext]_allVars

\* The engine's goroutine goes on as well.
TunFairSpec == TunSpec /\ Fairness /\ WF_allVars(Starting \/ Stopping)

-----------------------------------------------------------------------------
\* Properties.

TunSteps == {"idle", "open", "starting", "await", "link", "clear", "route",
             "core", "nets", "divert", "unwind", "halt", "halting", "failed",
             "stop", "delete", "stale"}

\* Every variable has its type.
TunTypeOK ==
  /\ up \in BOOLEAN /\ tun \in BOOLEAN /\ scope \in Scopes
  /\ applied \in BOOLEAN /\ pc \in TunSteps /\ todo \subseteq Prefs
  /\ device \in BOOLEAN /\ rules \in [Prefs -> Nat] /\ route \in BOOLEAN
  /\ orphan \in BOOLEAN /\ crashes \in Nat

\* A daemon without a tunnel has left no rule, no route, no device and no tunnel
\* process, whatever failed and wherever it or its predecessor was killed.
NothingStranded ==
  (up /\ pc = "idle" /\ ~tun) =>
    rules = NoRules /\ ~route /\ ~device /\ ~orphan /\ "child" \notin procs

\* A tunnel in use has exactly its rules: both escapes, one diversion of its own
\* scope, and nothing a run before it left.
OneSetOfRules ==
  (applied /\ pc = "idle") => \E n \in NetCounts : rules = Installation(scope, n)

\* The core's sockets and the LAN have their escapes at the moment anything is
\* first diverted.
EscapesComeFirst ==
  [][\A p \in Scopes : (rules'[p] > rules[p])
       => rules["core"] = 1 /\ rules["nets"] \in NetCounts]_allVars

\* Start and Stop return, whatever the tunnel process does meanwhile.
TunReturns == pc \in TunSteps \ {"idle", "failed"} ~> pc \in {"idle", "failed"}

\* fw/nft.go:24, of TUN mode: "Routing carries every packet into the tunnel".
TunnelCarries == (applied /\ pc = "idle" /\ device) => route
=============================================================================
