------------------------------- MODULE Engine -------------------------------
(***************************************************************************)
(* The connection engine of xwrtd: internal/daemon/engine.go, with the     *)
(* pin check (pincheck.go), the upstream watch (wanwatch.go), the daemon's *)
(* start and stop (internal/app/daemon.go) and the API handlers that call  *)
(* it (internal/api/server.go).                                            *)
(*                                                                         *)
(* Every operation of the engine runs under one mutex, so the model has    *)
(* one program counter for whoever holds it and one record per thread that *)
(* waits for it.  What a thread read before it had to wait is kept in its  *)
(* record and used, stale, when it gets the lock.  A step of the holder is *)
(* one call that changes the device or the memory of the daemon, with its  *)
(* success and its failure as alternatives.                                *)
(*                                                                         *)
(* Four parts of the device are built and torn down: the core process, the *)
(* TUN device with its policy routes, the firewall's capture rules and the *)
(* resolver's upstream.  For each the daemon has a handle (held: e.core,   *)
(* e.tun, e.firewall, e.dns not nil) and the device has the thing itself   *)
(* (inst); a crash loses the first and leaves the second.                  *)
(***************************************************************************)
EXTENDS Naturals, FiniteSets

CONSTANTS
  Targets,     \* identifiers of profiles and groups
  None,        \* the empty identifier, ""
  AutoPin,     \* the profiles that accept a changed certificate unseen
  Twins,       \* profiles that are one server, listed more than once
  Dead,        \* the targets whose server does not answer
  Callers,     \* goroutines serving API requests
  Requests,    \* the operations the callers and the signal loop may ask for
  Plans,       \* the settings an operator may save
  HasTProxy,   \* whether the kernel supports TPROXY
  Grounds,     \* the upstreams the device may be given
  NoGateway,   \* the upstream without a gateway
  MayFail,     \* the steps that can fail in this instance
  Sticky,      \* the parts whose removal can fail
  MaxMoves,    \* bound on changes of the upstream
  MaxCrashes   \* bound on crashes and power cuts

Parts == {"core", "tun", "fw", "dns"}
Capture == {"fw", "dns"}
Modes == {"redirect", "mixed", "tproxy", "tun"}
DnsModes == {"dnsmasq", "redirect", "off"}
Threads == Callers \cup {"main", "restorer"}
Requestable == {"connect", "disconnect", "reset", "settings", "auto", "delete",
                "create", "config", "refresh", "upstream", "reapply", "env",
                "reload", "close"}
Failable == {"load", "read", "config", "core", "tun", "reach", "fw", "dns",
             "save"}

ASSUME NoneAssumption == None \notin Targets
ASSUME TargetAssumption == AutoPin \cup Dead \cup Twins \subseteq Targets
ASSUME CallersAssumption == Callers \cap {"main", "restorer", "nobody"} = {}
ASSUME RequestsAssumption == Requests \subseteq Requestable
ASSUME PlansAssumption == Plans \subseteq [mode : Modes, dns : DnsModes]
ASSUME HasTProxyAssumption == HasTProxy \in BOOLEAN
ASSUME GroundsAssumption == NoGateway \in Grounds
ASSUME FailAssumption == MayFail \subseteq Failable /\ Sticky \subseteq Parts
ASSUME BoundsAssumption == MaxMoves \in Nat /\ MaxCrashes \in Nat

VARIABLES
  \* the configuration in /etc/config/xwrt
  active,       \* Settings.Active: the selection a reboot brings back
  known,        \* the targets that resolve to a valid profile or group
  settings,     \* how a connection is to be built
  auto,         \* Settings.AutoConnect
  edited,       \* history: a client has rewritten active since the last connect
  \* the memory of the daemon
  up,           \* the process exists
  live,         \* the connected profile or group, None when not connected
  cfg,          \* e.settings: what the connection was built from
  env,          \* e.env: the upstream as last detected
  peeked,       \* history: env has changed under the connection, unannounced
  held,         \* the handles that are not nil
  proven,       \* the far end answered through the core that is held
  pinAccepted,  \* e.pinAccepted
  stopping,     \* e.stopping
  \* the mutex, its holder and those who want it
  owner, pc, job, call,
  \* the device
  inst,         \* the parts that are really there
  builtOn,      \* the upstream the routes and rules were written against
  ground,       \* the upstream there is now
  hooks,        \* hotplug events not yet delivered
  moves, crashes

store == <<active, known, settings, auto, edited>>
control == <<owner, pc, job, call>>
session == <<live, cfg, env, peeked, pinAccepted>>
device == <<ground, hooks, moves>>
parts == <<held, inst, proven, builtOn>>
process == <<up, stopping, crashes>>
vars == <<store, process, session, parts, control, device>>

-----------------------------------------------------------------------------
\* What the settings ask for (model.go, Mode predicates; engine.go:660, 737).

NeedsTProxy(p) == p.mode = "tproxy"
NeedsTunProcess(p) == p.mode \in {"mixed", "tun"}
NeedsFirewall(p) == p.mode # "tun" \/ p.dns = "redirect"
SteersResolver(p) == p.dns = "dnsmasq"

PartsOf(p) ==
  {"core"} \cup (IF NeedsTunProcess(p) THEN {"tun"} ELSE {})
           \cup (IF NeedsFirewall(p) THEN {"fw"} ELSE {})
           \cup (IF SteersResolver(p) THEN {"dns"} ELSE {})

WouldRestore == auto /\ active # None

ShouldFallBack_Never(was, attempted) == FALSE

ShouldFallBack(was, attempted) == was # None /\ was # attempted

UpstreamVerdict_NoReturn(connected, before, after) ==
  IF ~connected \/ before \in {after, NoGateway} THEN "ignore"
  ELSE IF after = NoGateway THEN "wait" ELSE "rebuild"

UpstreamVerdict(connected, before, after) ==
  IF ~connected \/ before = after THEN "ignore"
  ELSE IF after = NoGateway THEN "wait" ELSE "rebuild"

\* The parts a teardown, and the clearing of stale state, deal with first.
TornBefore_CoreFirst == [dns |-> {"core"}, fw |-> {"core", "dns"},
                         tun |-> {"core", "dns", "fw"}, core |-> {}]

TornBefore == [dns |-> {}, fw |-> {"dns"}, tun |-> {"dns", "fw"},
               core |-> {"dns", "fw", "tun"}]
ClearedBefore == [fw |-> {}, core |-> {"fw"}, tun |-> {"fw", "core"},
                  dns |-> {"fw", "core", "tun"}]

-----------------------------------------------------------------------------
\* The threads and the job of the thread that holds the mutex.

Ops == {"idle", "connect", "disconnect", "reset", "apply", "upstream",
        "reapply", "env", "reload", "refresh",
        "close", "takedown", "gone",              \* Close, and its return
        "check", "dial", "recheck", "sleep"}      \* restoreLoop
Call == [op : Ops, arg : Targets \cup {None}]
Wants(op, arg) == [op |-> op, arg |-> arg]
Idle == Wants("idle", None)

Steps == {"free", "stale", "load", "teardown", "prepare", "core", "tun",
          "reach", "fw", "dns", "commit", "startFailed", "decide", "factory",
          "finish", "closed"}
Plan == [mode : Modes, dns : DnsModes]
Job == [was : Targets \cup {None}, arg : Targets \cup {None},
        goal : Targets \cup {None}, retry : BOOLEAN, undoing : BOOLEAN,
        plan : Plan, next : Steps, starts : Nat]

DefaultPlan == [mode |-> "mixed", dns |-> "dnsmasq"]     \* model.Defaults()
NoJob == [was |-> None, arg |-> None, goal |-> None, retry |-> FALSE,
          undoing |-> FALSE, plan |-> DefaultPlan, next |-> "finish",
          starts |-> 0]

\* The API server accepts requests: it is up and main has not shut it down.
Serving == up /\ pc # "stale"
              /\ call["main"].op \notin {"close", "takedown", "gone"}

Free == up /\ pc = "free"

Become(t, c) == call' = [call EXCEPT ![t] = c]

Release_NoReturn(ok) ==
  /\ owner' = "nobody" /\ pc' = "free" /\ job' = NoJob
  /\ Become(owner, IF owner = "restorer" /\ ~ok THEN Wants("recheck", None)
                   ELSE Idle)

\* The holder lets go of the mutex, having done what it came for or not.
Release(ok) ==
  /\ owner' = "nobody" /\ pc' = "free" /\ job' = NoJob
  /\ Become(owner,
            IF pc = "closed" THEN Wants("gone", None)
            ELSE IF owner = "restorer" /\ ~ok THEN Wants("recheck", None)
            ELSE Idle)

-----------------------------------------------------------------------------
\* What the outside world asks for, and what it does to the device.

AskConnect(c, t) ==
  /\ Serving /\ "connect" \in Requests /\ call[c] = Idle
  /\ Become(c, Wants("connect", t))
  /\ UNCHANGED <<store, process, session, parts, device, owner, pc, job>>

Ask(c, op) ==
  /\ Serving /\ op \in Requests /\ call[c] = Idle
  /\ Become(c, Wants(op, None))
  /\ UNCHANGED <<store, process, session, parts, device, owner, pc, job>>

\* The hotplug hooks call the API as any other client does.
Deliver(c, op) ==
  /\ Serving /\ op \in hooks /\ call[c] = Idle
  /\ Become(c, Wants(op, None))
  /\ hooks' = hooks \ {op}
  /\ UNCHANGED <<store, process, session, parts, ground, moves, owner, pc,
                 job>>

\* putSettings writes first and looks at the engine afterwards.
SaveSettings(c, p) ==
  /\ Serving /\ "settings" \in Requests /\ call[c] = Idle
  /\ p # settings
  /\ settings' = p
  /\ Become(c, Wants("apply", None))
  /\ UNCHANGED <<active, known, auto, edited, process, session, parts, device,
                 owner, pc, job>>

SetAutoConnect ==
  /\ Serving /\ "auto" \in Requests
  /\ auto' = ~auto
  /\ UNCHANGED <<active, known, settings, edited, process, session, parts,
                 control, device>>

\* A client has written what is selected.
Selected(a) == active' = a /\ edited' = (edited \/ a # active)

\* One profile or group, or those of a subscription that goes.  The selection goes
\* with what it names; a group is also forgotten with any subscription, and stays
\* selected when it has lost its members.
Delete(gone) ==
  /\ Serving /\ "delete" \in Requests /\ gone # {} /\ gone \subseteq known
  /\ known' = known \ gone
  /\ \E a \in {active, None} : Selected(a)
  /\ UNCHANGED <<settings, auto, process, session, parts, control, device>>

Create(t) ==
  /\ Serving /\ "create" \in Requests /\ t \notin known
  /\ known' = known \cup {t}
  /\ UNCHANGED <<active, settings, auto, edited, process, session, parts,
                 control, device>>

\* putConfig: a whole document, which says itself what it selects.  It is saved
\* and nothing is connected.
PutConfig(a, k, p, b) ==
  /\ Serving /\ "config" \in Requests
  /\ a \in k \cup {None}
  /\ Selected(a)
  /\ known' = k /\ settings' = p /\ auto' = b
  /\ UNCHANGED <<process, session, parts, control, device>>

\* refresh: the selection is read, the listing downloaded, and then the server
\* that was selected is looked for in it.  A group is looked for, too, and not
\* found: only profiles are.
AskRefresh(c) ==
  /\ Serving /\ "refresh" \in Requests /\ call[c] = Idle
  /\ \E a \in {active, None} : Become(c, Wants("refresh", a))
  /\ UNCHANGED <<store, process, session, parts, device, owner, pc, job>>

SameEndpoint(t) == IF t \in Twins THEN Twins ELSE {t}

Refresh(c) ==
  /\ up /\ call[c].op = "refresh"
  /\ Become(c, Idle)
  /\ \/ UNCHANGED store                     \* the download or the save failed
     \/ \E k \in SUBSET Targets :
          /\ known' = k
          /\ \/ \E t \in SameEndpoint(call[c].arg) \cap k : Selected(t)
             \/ \E a \in {None} \cup ({active} \cap k) : Selected(a)
          /\ UNCHANGED <<settings, auto>>
  /\ UNCHANGED <<process, session, parts, device, owner, pc, job>>

\* netifd announces a link that came up, not one that went away.
MoveUpstream(g) ==
  /\ moves < MaxMoves /\ g # ground
  /\ moves' = moves + 1
  /\ ground' = g
  /\ hooks' = IF up /\ g # NoGateway THEN hooks \cup {"upstream"} ELSE hooks
  /\ UNCHANGED <<store, process, session, parts, control>>

\* A reload of the system's firewall takes the capture rules with it.
FlushFirewall ==
  /\ moves < MaxMoves /\ "fw" \in inst
  /\ moves' = moves + 1
  /\ inst' = inst \ {"fw"}
  /\ hooks' = IF up THEN hooks \cup {"reapply"} ELSE hooks
  /\ UNCHANGED <<store, process, session, control, held, proven, builtOn,
                 ground>>

-----------------------------------------------------------------------------
\* Critical sections that are over as soon as they have begun.

Reload_ReturnsLocked ==
  /\ Free /\ call["main"].op = "reload"
  /\ owner' = IF live = None THEN "main" ELSE "nobody"
  /\ Become("main", IF live = None THEN Idle ELSE Wants("connect", live))
  /\ UNCHANGED <<store, process, session, parts, device, pc, job>>

\* Reload, up to the unlock: what is connected is read here, used later.
Reload ==
  /\ Free /\ call["main"].op = "reload"
  /\ Become("main", IF live = None THEN Idle ELSE Wants("connect", live))
  /\ UNCHANGED <<store, process, session, parts, device, owner, pc, job>>

\* putSettings again: Status().Connected, then Connect("").
ApplySettings(c) ==
  /\ Free /\ call[c].op = "apply"
  /\ Become(c, IF live = None THEN Idle ELSE Wants("connect", None))
  /\ UNCHANGED <<store, process, session, parts, device, owner, pc, job>>

UpstreamChanged(c) ==
  /\ Free /\ call[c].op = "upstream"
  /\ env' = IF live = None THEN env ELSE ground
  /\ Become(c, IF UpstreamVerdict(live # None, env, env') = "rebuild"
               THEN Wants("connect", live) ELSE Idle)
  /\ UNCHANGED <<store, process, parts, device, live, cfg, peeked, pinAccepted,
                 owner, pc, job>>

\* The upstream is detected outside of what announces it.
Peek ==
  /\ env' = ground
  /\ peeked' = (peeked \/ (live # None /\ env # ground))

\* Env: the status pages detect the network anew every thirty seconds.
DetectEnv(c) ==
  /\ Free /\ call[c].op = "env"
  /\ Peek
  /\ Become(c, Idle)
  /\ UNCHANGED <<store, process, parts, device, live, cfg, pinAccepted, owner,
                 pc, job>>

ReapplyFirewall(c) ==
  /\ Free /\ call[c].op = "reapply"
  /\ Become(c, Idle)
  /\ IF live # None /\ "fw" \in held \ inst
     THEN /\ Peek
          /\ \/ inst' = inst \cup {"fw"}
             \/ "fw" \in MayFail /\ inst' = inst
     ELSE UNCHANGED <<env, peeked, inst>>
  /\ UNCHANGED <<store, process, device, live, cfg, pinAccepted, held, proven,
                 builtOn, owner, pc, job>>

\* Close, up to the unlock.
AnnounceStop ==
  /\ Free /\ call["main"].op = "close"
  /\ stopping' = TRUE
  /\ Become("main", Wants("takedown", None))
  /\ UNCHANGED <<store, session, parts, device, up, crashes, owner, pc, job>>

RestoreCheck_OneAttempt ==
  /\ Free /\ call["restorer"].op \in {"check", "recheck"}
  /\ Become("restorer",
            IF \/ live # None \/ stopping \/ ~WouldRestore
               \/ call["restorer"].op = "recheck"
            THEN Idle ELSE Wants("dial", None))
  /\ UNCHANGED <<store, process, session, parts, device, owner, pc, job>>

\* restoreLoop: done(), before and after an attempt.
RestoreCheck ==
  /\ Free /\ call["restorer"].op \in {"check", "recheck"}
  /\ Become("restorer",
            IF live # None \/ stopping \/ ~WouldRestore THEN Idle
            ELSE IF call["restorer"].op = "check" THEN Wants("dial", None)
            ELSE Wants("sleep", None))
  /\ UNCHANGED <<store, process, session, parts, device, owner, pc, job>>

RestoreDial_GivesUp ==
  /\ up /\ call["restorer"].op = "dial"
  /\ Become("restorer", IF ground = NoGateway THEN Idle
                        ELSE Wants("connect", active))
  /\ UNCHANGED <<store, process, session, parts, device, owner, pc, job>>

\* An attempt: wait for a gateway, read the selection, ask for the mutex.
RestoreDial ==
  /\ up /\ call["restorer"].op = "dial"
  /\ Become("restorer", IF ground = NoGateway THEN Wants("recheck", None)
                        ELSE Wants("connect", active))
  /\ UNCHANGED <<store, process, session, parts, device, owner, pc, job>>

RestoreWake ==
  /\ up /\ call["restorer"].op = "sleep"
  /\ Become("restorer", IF stopping THEN Idle ELSE Wants("check", None))
  /\ UNCHANGED <<store, process, session, parts, device, owner, pc, job>>

-----------------------------------------------------------------------------
\* Taking the mutex for an operation of several steps.

BeginConnect(t) ==
  /\ Free /\ call[t].op = "connect"
  /\ owner' = t /\ pc' = "load"
  /\ job' = [NoJob EXCEPT !.was = live, !.arg = call[t].arg,
                          !.goal = call[t].arg, !.retry = TRUE]
  /\ UNCHANGED <<store, process, session, parts, device, call>>

\* Disconnect, FactoryReset and the second half of Close.
BeginTeardown(t) ==
  /\ Free /\ call[t].op \in {"disconnect", "reset", "takedown"}
  /\ owner' = t /\ pc' = "teardown"
  /\ job' = [NoJob EXCEPT !.next = CASE call[t].op = "reset"    -> "factory"
                                     [] call[t].op = "takedown" -> "closed"
                                     [] OTHER                   -> "finish"]
  /\ UNCHANGED <<store, process, session, parts, device, call>>

-----------------------------------------------------------------------------
\* Steps of the holder: teardownLocked.

Remove(p) ==
  \/ inst' = inst \ {p}
  \/ p \in Sticky /\ inst' = inst

TearDown(p) ==
  /\ up /\ pc = "teardown" /\ p \in held
  /\ TornBefore[p] \cap held = {}
  /\ held' = held \ {p}
  /\ Remove(p)
  /\ proven' = (proven /\ p # "core")
  /\ UNCHANGED <<store, process, session, builtOn, control, device>>

TornDown ==
  /\ up /\ pc = "teardown" /\ held = {}
  /\ live' = None
  /\ pc' = job.next
  /\ UNCHANGED <<store, process, cfg, env, peeked, pinAccepted, parts, owner,
                 job, call, device>>

-----------------------------------------------------------------------------
\* Steps of the holder: connectLockedOnce and startLocked.

Abandon_LeavesParts ==
  /\ pc' = IF job.undoing THEN "finish" ELSE "decide"
  /\ UNCHANGED job

\* Connect's error path: everything down, then the decision to fall back.
Abandon ==
  /\ pc' = "teardown"
  /\ job' = [job EXCEPT !.next = IF job.undoing THEN "finish" ELSE "decide"]

Goal == IF job.goal = None THEN active ELSE job.goal

Load ==
  /\ up /\ pc = "load"
  /\ \/ /\ Goal \in known
        /\ pc' = "teardown"
        /\ job' = [job EXCEPT !.goal = Goal, !.plan = settings,
                              !.next = "prepare"]
     \/ /\ Goal \notin known \/ "load" \in MayFail
        /\ Abandon
  /\ UNCHANGED <<store, process, session, parts, device, owner, call>>

\* The network is detected, the core's configuration written and validated.
Prepare ==
  /\ up /\ pc = "prepare"
  /\ job' = [job EXCEPT !.starts = @ + 1]
  /\ cfg' = job.plan /\ env' = ground /\ builtOn' = ground
  /\ peeked' = FALSE
  /\ LET noTProxy == NeedsTProxy(job.plan) /\ ~HasTProxy
     IN  \/ ~noTProxy /\ pc' = "core"
         \/ (noTProxy \/ "config" \in MayFail) /\ pc' = "startFailed"
  /\ UNCHANGED <<store, process, live, pinAccepted, held, inst, proven, owner,
                 call, device>>

\* The core is started and waited for; the resolver's handle is made.
StartCore ==
  /\ up /\ pc = "core"
  /\ \/ /\ pc' = "tun"
        /\ held' = held \cup {"core", "dns"}
        /\ inst' = inst \cup {"core"}
     \/ /\ "core" \in MayFail /\ pc' = "startFailed"
        /\ held' = held \cup {"core"}
        /\ inst' \in {inst, inst \cup {"core"}}
  /\ UNCHANGED <<store, process, session, proven, builtOn, owner, job, call,
                 device>>

\* A tunnel that fails to start cleans up after itself; one the firewall
\* would drop everything from is up when the connect fails.
StartTun ==
  /\ up /\ pc = "tun"
  /\ \/ /\ ~NeedsTunProcess(job.plan)
        /\ pc' = "reach" /\ UNCHANGED <<held, inst>>
     \/ /\ NeedsTunProcess(job.plan)
        /\ pc' = "reach"
        /\ held' = held \cup {"tun"} /\ inst' = inst \cup {"tun"}
     \/ /\ NeedsTunProcess(job.plan) /\ "tun" \in MayFail
        /\ pc' = "startFailed"
        /\ held' = held \cup {"tun"}
        /\ \/ inst' = inst
           \/ job.plan.mode = "tun" /\ inst' = inst \cup {"tun"}
  /\ UNCHANGED <<store, process, session, proven, builtOn, owner, job, call,
                 device>>

\* The new pin is stored, so the profile must still be there to store it in.
AcceptsNewPin(t) == t \in AutoPin \cap known

Reach_OnlyWarns ==
  /\ up /\ pc = "reach"
  /\ pc' = "fw"
  /\ \/ job.goal \notin Dead /\ proven' = TRUE
     \/ /\ job.goal \in Dead \/ ground = NoGateway \/ "reach" \in MayFail
        /\ UNCHANGED proven
  /\ UNCHANGED <<store, process, session, held, inst, builtOn, owner, job,
                 call, device>>

\* Does anything actually pass?  If not, a changed certificate may be the
\* reason, and a profile that asked for it takes the new one.
Reach ==
  /\ up /\ pc = "reach"
  /\ \/ /\ job.goal \notin Dead
        /\ pc' = "fw"
        /\ proven' = TRUE /\ UNCHANGED pinAccepted
     \/ /\ job.goal \in Dead \/ ground = NoGateway \/ "reach" \in MayFail
        /\ pc' = "startFailed"
        /\ UNCHANGED proven
        /\ \/ UNCHANGED pinAccepted
           \/ AcceptsNewPin(job.goal) /\ pinAccepted' = TRUE
  /\ UNCHANGED <<store, process, live, cfg, env, peeked, held, inst, builtOn,
                 owner, job, call, device>>

ApplyFirewall_HandleAfterwards ==
  /\ up /\ pc = "fw"
  /\ \/ /\ ~NeedsFirewall(job.plan)
        /\ pc' = "dns" /\ UNCHANGED <<held, inst>>
     \/ /\ NeedsFirewall(job.plan)
        /\ pc' = "dns"
        /\ held' = held \cup {"fw"} /\ inst' = inst \cup {"fw"}
     \/ /\ NeedsFirewall(job.plan) /\ "fw" \in MayFail
        /\ pc' = "startFailed"
        /\ UNCHANGED held /\ inst' \in {inst, inst \cup {"fw"}}
  /\ UNCHANGED <<store, process, session, proven, builtOn, owner, job, call,
                 device>>

ApplyFirewall ==
  /\ up /\ pc = "fw"
  /\ \/ /\ ~NeedsFirewall(job.plan)
        /\ pc' = "dns" /\ UNCHANGED <<held, inst>>
     \/ /\ NeedsFirewall(job.plan)
        /\ pc' = "dns"
        /\ held' = held \cup {"fw"} /\ inst' = inst \cup {"fw"}
     \/ /\ NeedsFirewall(job.plan) /\ "fw" \in MayFail
        /\ pc' = "startFailed"
        /\ \/ UNCHANGED <<held, inst>>              \* no backend at all
           \/ /\ held' = held \cup {"fw"}
              /\ inst' \in {inst, inst \cup {"fw"}}
  /\ UNCHANGED <<store, process, session, proven, builtOn, owner, job, call,
                 device>>

ApplyDns ==
  /\ up /\ pc = "dns"
  /\ \/ /\ pc' = "commit"
        /\ inst' = inst \cup ({"dns"} \cap PartsOf(job.plan))
     \/ /\ SteersResolver(job.plan) /\ "dns" \in MayFail
        /\ pc' = "startFailed"
        /\ inst' \in {inst, inst \cup {"dns"}}
  /\ UNCHANGED <<store, process, session, held, proven, builtOn, owner, job,
                 call, device>>

Commit_SavesAttempted ==
  /\ up /\ pc = "commit"
  /\ live' = job.goal
  /\ active' = IF job.arg = None THEN job.goal ELSE job.arg
  /\ edited' = FALSE
  /\ Release(TRUE)
  /\ UNCHANGED <<known, settings, auto, process, cfg, env, peeked, pinAccepted,
                 parts, device>>

Commit ==
  /\ up /\ pc = "commit"
  /\ live' = job.goal
  /\ \/ active' = job.goal /\ edited' = FALSE
     \/ "save" \in MayFail /\ UNCHANGED <<active, edited>>
  /\ Release(TRUE)
  /\ UNCHANGED <<known, settings, auto, process, cfg, env, peeked, pinAccepted,
                 parts, device>>

StartFailed_ClearsOnRetry ==
  /\ up /\ pc = "startFailed"
  /\ IF pinAccepted /\ job.retry
     THEN /\ pc' = "load" /\ job' = [job EXCEPT !.retry = FALSE]
          /\ pinAccepted' = FALSE
     ELSE Abandon /\ UNCHANGED pinAccepted
  /\ UNCHANGED <<store, process, live, cfg, env, peeked, parts, owner, call,
                 device>>

StartFailed_KeepsRetrying ==
  /\ up /\ pc = "startFailed"
  /\ pinAccepted' = FALSE
  /\ IF pinAccepted THEN pc' = "load" /\ UNCHANGED job ELSE Abandon
  /\ UNCHANGED <<store, process, live, cfg, env, peeked, parts, owner, call,
                 device>>

\* A certificate accepted by the attempt earns one rebuild, no more.
StartFailed ==
  /\ up /\ pc = "startFailed"
  /\ pinAccepted' = FALSE
  /\ IF pinAccepted /\ job.retry
     THEN pc' = "load" /\ job' = [job EXCEPT !.retry = FALSE]
     ELSE Abandon
  /\ UNCHANGED <<store, process, live, cfg, env, peeked, parts, owner, call,
                 device>>

\* fallBackLocked
Decide ==
  /\ up /\ pc = "decide"
  /\ IF ShouldFallBack(job.was, job.arg)
     THEN /\ pc' = "load"
          /\ job' = [job EXCEPT !.goal = job.was, !.retry = TRUE,
                                !.undoing = TRUE]
     ELSE pc' = "finish" /\ UNCHANGED job
  /\ UNCHANGED <<store, process, session, parts, owner, call, device>>

WriteFactory ==
  /\ up /\ pc = "factory"
  /\ \/ /\ active' = None /\ known' = {}
        /\ settings' = DefaultPlan /\ auto' = TRUE /\ UNCHANGED edited
     \/ "save" \in MayFail /\ UNCHANGED store
  /\ Release(TRUE)
  /\ UNCHANGED <<process, session, parts, device>>

Finish ==
  /\ up /\ pc \in {"finish", "closed"}
  /\ Release(FALSE)
  /\ UNCHANGED <<store, process, session, parts, device>>

-----------------------------------------------------------------------------
\* Start, stop and crash of the daemon.

Lose ==
  /\ up' = FALSE /\ stopping' = FALSE
  /\ live' = None /\ cfg' = DefaultPlan /\ env' = NoGateway
  /\ peeked' = FALSE /\ pinAccepted' = FALSE /\ held' = {} /\ proven' = FALSE
  /\ owner' = "nobody" /\ pc' = "free" /\ job' = NoJob
  /\ call' = [t \in Threads |-> Idle]
  /\ hooks' = {}

\* RunDaemon, up to ClearStaleState.
Start ==
  /\ ~up
  /\ up' = TRUE
  /\ owner' = "main" /\ pc' = "stale"
  /\ env' = ground
  /\ held' = Parts
  /\ UNCHANGED <<store, stopping, crashes, live, cfg, peeked, pinAccepted, inst,
                 proven, builtOn, job, call, device>>

\* ClearStaleState makes a handle for every part, whoever installed it.
ClearStale(p) ==
  /\ up /\ pc = "stale" /\ p \in held
  /\ ClearedBefore[p] \cap held = {}
  /\ held' = held \ {p}
  /\ Remove(p)
  /\ UNCHANGED <<store, process, session, proven, builtOn, control, device>>

StaleUnread ==
  /\ up /\ pc = "stale" /\ held = Parts /\ "read" \in MayFail
  /\ held' = {}
  /\ UNCHANGED <<store, process, session, proven, builtOn, control, inst,
                 device>>

\* The API server and the goroutine that restores the connection begin.  Restore
\* first asks wouldRestore, which done() asks again before the first attempt.
Open ==
  /\ up /\ pc = "stale" /\ held = {}
  /\ owner' = "nobody" /\ pc' = "free"
  /\ Become("restorer", Wants("check", None))
  /\ UNCHANGED <<store, process, session, parts, device, job>>

\* main returns; whatever other threads were doing ends there.
Exit ==
  /\ up /\ call["main"].op = "gone"
  /\ Lose
  /\ UNCHANGED <<store, crashes, inst, builtOn, ground, moves>>

\* The daemon is killed and leaves everything, or the power is cut and only
\* what was written to flash remains.
Crash ==
  /\ up /\ crashes < MaxCrashes
  /\ crashes' = crashes + 1
  /\ Lose
  /\ inst' \in {inst, inst \cap {"dns"}, {}}
  /\ UNCHANGED <<store, builtOn, ground, moves>>

-----------------------------------------------------------------------------
Init ==
  /\ known \in SUBSET Targets
  /\ active \in known \cup {None}
  /\ settings \in Plans /\ auto \in BOOLEAN /\ edited = FALSE
  /\ up = FALSE /\ stopping = FALSE /\ crashes = 0
  /\ live = None /\ cfg = DefaultPlan /\ env = NoGateway
  /\ peeked = FALSE /\ pinAccepted = FALSE /\ held = {} /\ proven = FALSE
  /\ owner = "nobody" /\ pc = "free" /\ job = NoJob
  /\ call = [t \in Threads |-> Idle]
  /\ inst = {}
  /\ ground \in Grounds /\ builtOn = ground
  /\ hooks = {} /\ moves = 0

CallerOps == {"disconnect", "reset", "upstream", "reapply", "env"}

Clients ==
  \/ \E c \in Callers, t \in Targets \cup {None} : AskConnect(c, t)
  \/ \E c \in Callers, op \in CallerOps : Ask(c, op)
  \/ \E op \in {"reload", "close"} : Ask("main", op)
  \/ \E c \in Callers, op \in CallerOps : Deliver(c, op)
  \/ \E c \in Callers, p \in Plans : SaveSettings(c, p)
  \/ SetAutoConnect
  \/ \E gone \in SUBSET Targets : Delete(gone)
  \/ \E t \in Targets : Create(t)
  \/ \E a \in Targets \cup {None}, k \in SUBSET Targets, p \in Plans,
       b \in BOOLEAN : PutConfig(a, k, p, b)
  \/ \E c \in Callers : AskRefresh(c) \/ Refresh(c)

World ==
  \/ \E g \in Grounds : MoveUpstream(g)
  \/ FlushFirewall
  \/ Crash

\* Everything a thread does first when it is given the mutex.
TakesLock(t) ==
  \/ BeginConnect(t) \/ BeginTeardown(t)
  \/ t \in Callers /\ (\/ ApplySettings(t) \/ UpstreamChanged(t)
                       \/ DetectEnv(t) \/ ReapplyFirewall(t))
  \/ t = "main" /\ (Reload \/ AnnounceStop)
  \/ t = "restorer" /\ RestoreCheck

Wait == RestoreDial \/ RestoreWake

Build ==
  \/ Load \/ Prepare \/ StartCore \/ StartTun \/ Reach
  \/ ApplyFirewall \/ ApplyDns \/ Commit

Undo ==
  \/ \E p \in Parts : TearDown(p)
  \/ TornDown \/ StartFailed \/ Decide \/ WriteFactory \/ Finish

Boot ==
  \/ \E p \in Parts : ClearStale(p)
  \/ StaleUnread \/ Open

Next ==
  \/ Clients \/ World \/ Wait \/ Build \/ Undo \/ Boot \/ Start \/ Exit
  \/ \E t \in Threads : TakesLock(t)

Spec == Init /\ [][Next]_vars

\* What the holder of the mutex does is bounded by a timeout at every call, and
\* Go's mutex hands itself to the longest waiter once that one has waited a
\* millisecond, so no thread waits for it forever.  Operators, the network and
\* the init system owe the daemon nothing.
Fairness ==
  /\ WF_vars(Build \/ Undo \/ Boot) /\ WF_vars(Wait) /\ WF_vars(Exit)
  /\ \A t \in Threads : SF_vars(TakesLock(t))

FairSpec == Spec /\ Fairness

-----------------------------------------------------------------------------
\* Properties.

Types ==
  /\ active \in Targets \cup {None} /\ known \subseteq Targets
  /\ settings \in Plan /\ auto \in BOOLEAN
  /\ edited \in BOOLEAN /\ peeked \in BOOLEAN
  /\ up \in BOOLEAN /\ stopping \in BOOLEAN /\ crashes \in Nat
  /\ live \in Targets \cup {None} /\ cfg \in Plan
  /\ env \in Grounds /\ ground \in Grounds /\ builtOn \in Grounds
  /\ pinAccepted \in BOOLEAN /\ proven \in BOOLEAN
  /\ held \subseteq Parts /\ inst \subseteq Parts
  /\ owner \in Threads \cup {"nobody"} /\ pc \in Steps /\ job \in Job
  /\ call \in [Threads -> Call]
  /\ hooks \subseteq {"upstream", "reapply"} /\ moves \in Nat

Lengthy == {"connect", "disconnect", "reset", "takedown"}

\* Every variable has its type, and the mutex is let go of on every way out of
\* every operation, the early returns included: it has an owner while there is
\* a step to take, one that asked for an operation of several steps, and at
\* rest nothing is left of its job.
TypeOK ==
  /\ Types
  /\ owner = "nobody" <=> pc = "free"
  /\ pc \in {"free", "stale"} => job = NoJob
  /\ pc \notin {"free", "stale"} => call[owner].op \in Lengthy

\* Nothing is on the device that the daemon does not hold a handle to, or has
\* tried and failed to remove: no failure at any step of a connect, and no
\* crash once the next start has cleared up, loses track of a part.
NothingUntracked ==
  (up /\ "read" \notin MayFail) => inst \subseteq held \cup Sticky

\* A daemon at rest is either connected, with every part its settings ask for
\* in place (the capture rules may have been flushed from outside), or it is
\* not and has nothing on the device.
AllOrNothing ==
  (Free /\ "read" \notin MayFail) =>
    IF live = None THEN held = {} /\ inst \subseteq Sticky
    ELSE PartsOf(cfg) \ {"fw"} \subseteq inst

\* The LAN is steered, by capture rules or by the resolver, only into a core
\* this daemon supervises and through which the far end has answered.
SteeredOnlyIntoProvenCore ==
  (up /\ pc # "stale" /\ "read" \notin MayFail
      /\ (inst \cap Capture) \ Sticky # {}) => proven /\ "core" \in held

\* An accepted certificate is spent by the attempt that accepted it, so it
\* never earns a rebuild for another one.
PinIsSpent == pc \notin {"startFailed"} => ~pinAccepted

\* One Connect starts a core four times at most: the attempt and the fallback,
\* each with one rebuild for a changed certificate.
StartsAreBounded == job.starts <= 4

\* What is connected is what a reboot would bring back, unless a client has
\* written another selection since it was connected (deleted it, saved a
\* document, refreshed a subscription): whatever switches failed and fell back,
\* and whatever clients wrote while they ran, Connect leaves the store naming
\* what it left connected.
SelectionIsLive ==
  (live # None /\ ~edited /\ "save" \notin MayFail) => active = live

\* Whoever is connected through a server that answers does not lose the
\* connection by asking for another one: when Connect returns, the new target
\* or the old one is connected.
SwitchCostsNothing ==
  [][(/\ pc # "free" /\ pc' = "free" /\ up'
      /\ MayFail = {} /\ ground # NoGateway /\ moves = 0
      /\ job.was \in known \ Dead
      /\ NeedsTProxy(job.plan) => HasTProxy) => live' # None]_vars

\* Once every announcement has been dealt with, the daemon knows the upstream
\* there is, as long as that one has a gateway, and a connection stands on it
\* unless Env or ReapplyFirewall noticed a move before its announcement did.
Settled == Free /\ "upstream" \notin hooks
                /\ \A t \in Threads : call[t].op \notin {"upstream", "connect"}

MovesAreNoticed ==
  (Settled /\ live # None /\ ground # NoGateway) =>
    env = ground /\ (builtOn = ground \/ peeked)

\* The daemon that is told to stop ends, whatever is in progress or waiting.
StopCompletes == call["main"].op = "close" ~> ~up

\* A boot connect that failed tries again until a connection is up, the
\* operator changed the configuration, or the daemon stops.
RestoreKeepsTrying ==
  call["restorer"].op \in {"recheck", "sleep"} ~>
    (call["restorer"].op = "dial" \/ live # None \/ stopping \/ ~up
                                  \/ ~WouldRestore)

\* A daemon that is started with the box ticked gets connected once, however
\* late the upstream and the server become good, if nobody takes the tick, the
\* selection or the daemon away meanwhile.
BootConnects ==
  [](pc = "stale" =>
       (([](up /\ ~stopping /\ WouldRestore)
         /\ <>[](ground # NoGateway /\ active \in known \ Dead))
          => <>(live # None)))

\* The engine implements TrafficGate: the tunnel is up when the daemon holds a
\* core, trusted once the far end has answered through it, and unattended when
\* there is no daemon or it has not yet cleared what the last one left.
Tunnel ==
  IF ~up \/ pc = "stale" THEN "unattended"
  ELSE IF "core" \notin held THEN "down"
  ELSE IF proven THEN "trusted" ELSE "raised"

Gate == INSTANCE TrafficGate WITH tunnel <- Tunnel, steered <- inst \cap Capture
ImplementsGate == Gate!Spec

-----------------------------------------------------------------------------
\* What the documentation and the comments say, and the code does not do.

\* init.d/xwrt:4: "stopping the service always leaves the device's networking
\* in the state it was before".
StopLeavesNothing == [][Exit => inst' \subseteq Sticky]_vars

\* wanwatch.go:112: "It reconnects if the connection this daemon built is
\* standing on ground that has moved."
StandsOnTheGround ==
  (Settled /\ live # None /\ ground # NoGateway) => builtOn = ground

\* engine.go:463: "Remember the selection so a reboot reconnects to the same
\* target."  A refresh that read the selection before a switch, and found the
\* server it had read in the listing, selects that one again after it.
RebootReconnects ==
  (live # None /\ "save" \notin MayFail) => active \in {live, None}
=============================================================================
