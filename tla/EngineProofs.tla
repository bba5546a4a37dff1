---------------------------- MODULE EngineProofs ----------------------------
(***************************************************************************)
(* Theorems about Engine, for every number of targets, callers, plans and  *)
(* upstreams.                                                              *)
(*                                                                         *)
(* None of the safety invariants is inductive alone.  What makes them so   *)
(* is what the daemon holds at each step (Handles): nothing is held where  *)
(* a core is about to be started, a proven core is held where the LAN is   *)
(* about to be steered, and a daemon at rest holds a proven core or no     *)
(* handle at all.                                                          *)
(***************************************************************************)
EXTENDS Engine, TLAPS

\* Where nothing is held, where a started core is, and where a proven one is.
Empty == {"prepare", "core", "decide", "factory", "finish", "closed"}
Started == {"tun", "reach", "fw", "dns", "commit"}
Proving == {"fw", "dns", "commit"}

Absent == ~up => held = {} /\ pc = "free" /\ live = None

Handles ==
  /\ pc = "free" => IF live = None THEN held = {} ELSE proven
  /\ pc = "stale" => live = None
  /\ pc \in Empty => held = {} /\ live = None
  /\ pc \in Started => {"core", "dns"} \subseteq held
  /\ pc \in Proving => proven
  /\ proven => up /\ pc # "stale" /\ "core" \in held

\* The target of a connect is known before anything is built for it, and a
\* teardown returns to where it was asked for.
Aim ==
  /\ pc \in Started \cup {"core", "prepare"} => job.goal \in Targets
  /\ pc = "teardown" =>
       /\ job.next \in {"prepare", "decide", "factory", "finish", "closed"}
       /\ job.next = "prepare" => job.goal \in Targets

\* Everything on the device is held, and what steers is backed by the core.
Accounted == up => inst \subseteq held \cup Sticky
Backed ==
  (up /\ pc # "stale" /\ (inst \cap Capture) \ Sticky # {}) => proven

\* What has been put together so far, of what the settings ask for.
Assembled ==
  /\ pc \in Started \cup {"core"} => cfg = job.plan
  /\ pc \in Started => "core" \in inst
  /\ pc \in Started \ {"tun"} /\ NeedsTunProcess(job.plan) => "tun" \in inst
  /\ pc = "commit" /\ SteersResolver(job.plan) => "dns" \in inst
  /\ pc = "free" /\ live # None => PartsOf(cfg) \ {"fw"} \subseteq inst

\* The starts a connect may have behind it, and whether one is still to come.
Spent == (IF job.undoing THEN 2 ELSE 0) + (IF job.retry THEN 0 ELSE 1)
Ahead == \/ pc \in {"load", "prepare"}
         \/ pc = "teardown" /\ job.next = "prepare"
Budget ==
  /\ job.starts <= Spent + (IF Ahead THEN 0 ELSE 1)
  /\ (pc = "decide" \/ (pc = "teardown" /\ job.next = "decide"))
       => ~job.undoing

-----------------------------------------------------------------------------
\* Type correctness.

LEMMA BecomeType ==
  ASSUME Types, NEW t, NEW c \in Call, Become(t, c)
  PROVE  call' \in [Threads -> Call]
BY DEF Types, Become

LEMMA ReleaseType ==
  ASSUME Types, NEW ok, Release(ok)
  PROVE  /\ owner' = "nobody" /\ pc' = "free" /\ job' = NoJob
         /\ job' \in Job /\ pc' \in Steps
         /\ call' \in [Threads -> Call]
BY BecomeType DEF Release, NoJob, Job, Plan, DefaultPlan, Steps, Modes, DnsModes,
                  Call, Ops, Wants, Idle

LEMMA LoseType ==
  ASSUME Types, Lose
  PROVE  /\ up' \in BOOLEAN /\ stopping' \in BOOLEAN
         /\ live' \in Targets \cup {None}
         /\ cfg' \in Plan /\ env' \in Grounds
         /\ peeked' \in BOOLEAN /\ pinAccepted' \in BOOLEAN
         /\ held' \subseteq Parts /\ proven' \in BOOLEAN
         /\ owner' \in Threads \cup {"nobody"} /\ pc' \in Steps
         /\ job' \in Job /\ call' \in [Threads -> Call]
         /\ hooks' \subseteq {"upstream", "reapply"}
BY GroundsAssumption DEF Lose, DefaultPlan, Plan, Modes, DnsModes, NoJob, Job,
                         Steps, Idle, Wants, Call, Ops

LEMMA AbandonType ==
  ASSUME Types, Abandon
  PROVE  job' \in Job /\ pc' \in Steps
BY DEF Types, Abandon, Job, Steps

LEMMA TypeInit == Init => Types
<1> SUFFICES ASSUME Init PROVE Types
  OBVIOUS
<1>1. settings \in Plan /\ cfg \in Plan
  BY PlansAssumption DEF Init, Plan, DefaultPlan, Modes, DnsModes
<1>2. job \in Job
  BY DEF Init, Job, NoJob, Plan, DefaultPlan, Steps, Modes, DnsModes
<1>3. call \in [Threads -> Call]
  BY DEF Init, Call, Idle, Wants, Ops
<1> QED
  BY <1>1, <1>2, <1>3, GroundsAssumption DEF Types, Init, Steps, Parts

LEMMA TypeStep == Types /\ [Next]_vars => Types'
<1> SUFFICES ASSUME Types, [Next]_vars PROVE Types'
  OBVIOUS
<1> USE DEF Types, store, process, session, device, parts, control
<1>1. CASE UNCHANGED vars
  BY <1>1 DEF vars
<1>2. CASE Clients
  <2>1. ASSUME NEW c \in Callers, NEW t \in Targets \cup {None},
               AskConnect(c, t)
        PROVE  Types'
    <3> Wants("connect", t) \in Call
      BY DEF Wants, Call, Ops
    <3> QED
      BY <2>1, BecomeType DEF AskConnect
  <2>2. ASSUME NEW c, NEW op \in CallerOps \cup {"reload", "close"}, Ask(c, op)
        PROVE  Types'
    <3> Wants(op, None) \in Call
      BY DEF Wants, Call, Ops, CallerOps
    <3> QED
      BY <2>2, BecomeType DEF Ask
  <2>3. ASSUME NEW c \in Callers, NEW op \in CallerOps, Deliver(c, op)
        PROVE  Types'
    <3> Wants(op, None) \in Call
      BY DEF Wants, Call, Ops, CallerOps
    <3> QED
      BY <2>3, BecomeType DEF Deliver
  <2>4. ASSUME NEW c \in Callers, NEW p \in Plans, SaveSettings(c, p)
        PROVE  Types'
    <3> Wants("apply", None) \in Call /\ p \in Plan
      BY PlansAssumption DEF Wants, Call, Ops, Plan
    <3> QED
      BY <2>4, BecomeType DEF SaveSettings
  <2>5. CASE SetAutoConnect
    BY <2>5 DEF SetAutoConnect
  <2>6. ASSUME NEW gone \in SUBSET Targets, Delete(gone)
        PROVE  Types'
    BY <2>6 DEF Delete, Selected
  <2>7. ASSUME NEW t \in Targets, Create(t)
        PROVE  Types'
    BY <2>7 DEF Create
  <2>8. ASSUME NEW a \in Targets \cup {None}, NEW k \in SUBSET Targets,
               NEW p \in Plans, NEW b \in BOOLEAN, PutConfig(a, k, p, b)
        PROVE  Types'
    <3> p \in Plan
      BY PlansAssumption DEF Plan
    <3> QED
      BY <2>8 DEF PutConfig, Selected
  <2>9. ASSUME NEW c \in Callers, AskRefresh(c)
        PROVE  Types'
    <3> /\ Wants("refresh", active) \in Call
        /\ Wants("refresh", None) \in Call
      BY DEF Wants, Call, Ops
    <3> QED
      BY <2>9, BecomeType DEF AskRefresh
  <2>10. ASSUME NEW c \in Callers, Refresh(c)
         PROVE  Types'
    <3>1. Idle \in Call /\ call[c].arg \in Targets \cup {None}
      BY DEF Wants, Call, Ops, Idle, Threads
    <3>2. call' \in [Threads -> Call]
      BY <2>10, <3>1, BecomeType DEF Refresh
    <3>3. CASE UNCHANGED store
      BY <2>10, <3>2, <3>3 DEF Refresh
    <3>4. ASSUME NEW k \in SUBSET Targets, known' = k,
                 NEW t \in Targets \cup {None}, Selected(t),
                 UNCHANGED <<settings, auto>>
          PROVE  Types'
      BY <2>10, <3>2, <3>4 DEF Refresh, Selected
    <3> QED
      BY <2>10, <3>3, <3>4 DEF Refresh
  <2> QED
    BY <1>2, <2>1, <2>2, <2>3, <2>4, <2>5, <2>6, <2>7, <2>8, <2>9, <2>10
       DEF Clients
<1>3. CASE World
  <2>1. ASSUME NEW g \in Grounds, MoveUpstream(g)
        PROVE  Types'
    BY <2>1 DEF MoveUpstream
  <2>2. CASE FlushFirewall
    BY <2>2 DEF FlushFirewall
  <2>3. CASE Crash
    <3>1. UNCHANGED <<store, builtOn, ground, moves>> /\ Lose
      BY <2>3 DEF Crash
    <3>2. inst' \subseteq Parts /\ crashes' \in Nat
      BY <2>3 DEF Crash
    <3> QED
      BY <3>1, <3>2, LoseType
  <2> QED
    BY <1>3, <2>1, <2>2, <2>3 DEF World
<1>4. CASE Wait
  <2>1. CASE RestoreDial
    <3> Wants("recheck", None) \in Call /\ Wants("connect", active) \in Call
      BY DEF Wants, Call, Ops
    <3> QED
      BY <2>1, BecomeType DEF RestoreDial
  <2>2. CASE RestoreWake
    <3> Idle \in Call /\ Wants("check", None) \in Call
      BY DEF Wants, Call, Ops, Idle
    <3> QED
      BY <2>2, BecomeType DEF RestoreWake
  <2> QED
    BY <1>4, <2>1, <2>2 DEF Wait
<1>5. CASE Build
  <2>1. CASE Load
    <3>1. Goal \in Targets \cup {None}
      BY DEF Goal, Job
    <3>2. CASE /\ pc' = "teardown"
               /\ job' = [job EXCEPT !.goal = Goal, !.plan = settings,
                                     !.next = "prepare"]
      <4> job' \in Job
        BY <3>1, <3>2 DEF Job, Steps
      <4> QED
        BY <2>1, <3>2 DEF Load, Steps
    <3>3. CASE Abandon
      BY <2>1, <3>3, AbandonType DEF Load
    <3> QED
      BY <2>1, <3>2, <3>3 DEF Load
  <2>2. CASE Prepare
    <3>1. job' \in Job /\ pc' \in Steps /\ cfg' \in Plan
      BY <2>2 DEF Prepare, Job, Steps
    <3>2. env' \in Grounds /\ builtOn' \in Grounds /\ peeked' \in BOOLEAN
      BY <2>2 DEF Prepare
    <3>3. UNCHANGED <<store, process, live, pinAccepted, held, inst, proven,
                      owner, call, device>>
      BY <2>2 DEF Prepare
    <3> HIDE <2>2
    <3> QED
      BY <3>1, <3>2, <3>3
  <2>3. CASE StartCore \/ StartTun \/ ApplyFirewall \/ ApplyDns
    <3>1. CASE StartCore
      <4>1. held' \subseteq Parts /\ inst' \subseteq Parts
        BY <3>1 DEF StartCore, Parts
      <4>2. /\ pc' \in Steps
            /\ UNCHANGED <<store, process, session, proven, builtOn, owner, job,
                           call, device>>
        BY <3>1 DEF StartCore, Steps
      <4> QED
        BY <4>1, <4>2
    <3>2. CASE StartTun
      <4>1. held' \subseteq Parts /\ inst' \subseteq Parts
        BY <3>2 DEF StartTun, Parts
      <4>2. /\ pc' \in Steps
            /\ UNCHANGED <<store, process, session, proven, builtOn, owner, job,
                           call, device>>
        BY <3>2 DEF StartTun, Steps
      <4> QED
        BY <4>1, <4>2
    <3>3. CASE ApplyFirewall
      <4>1. held' \subseteq Parts /\ inst' \subseteq Parts
        BY <3>3 DEF ApplyFirewall, Parts
      <4>2. /\ pc' \in Steps
            /\ UNCHANGED <<store, process, session, proven, builtOn, owner, job,
                           call, device>>
        BY <3>3 DEF ApplyFirewall, Steps
      <4> QED
        BY <4>1, <4>2
    <3>4. CASE ApplyDns
      <4>1. held' \subseteq Parts /\ inst' \subseteq Parts
        BY <3>4 DEF ApplyDns, Parts
      <4>2. /\ pc' \in Steps
            /\ UNCHANGED <<store, process, session, proven, builtOn, owner, job,
                           call, device>>
        BY <3>4 DEF ApplyDns, Steps
      <4> QED
        BY <4>1, <4>2
    <3> QED
      BY <2>3, <3>1, <3>2, <3>3, <3>4
  <2>4. CASE Reach
    <3>1. pc' \in Steps /\ proven' \in BOOLEAN /\ pinAccepted' \in BOOLEAN
      BY <2>4 DEF Reach, Steps
    <3>2. UNCHANGED <<store, process, live, cfg, env, peeked, held, inst, builtOn,
                      owner, job, call, device>>
      BY <2>4 DEF Reach
    <3> QED
      BY <3>1, <3>2
  <2>5. CASE Commit
    BY <2>5, ReleaseType DEF Commit, Job
  <2> QED
    BY <1>5, <2>1, <2>2, <2>3, <2>4, <2>5 DEF Build
<1>6. CASE Undo
  <2>1. ASSUME NEW p \in Parts, TearDown(p)
        PROVE  Types'
    BY <2>1 DEF TearDown, Remove
  <2>2. CASE TornDown
    BY <2>2 DEF TornDown, Job
  <2>3. CASE StartFailed
    <3>1. CASE pinAccepted /\ job.retry
      <4> job' \in Job
        BY <2>3, <3>1 DEF StartFailed, Job
      <4> QED
        BY <2>3, <3>1 DEF StartFailed, Steps
    <3>2. CASE ~(pinAccepted /\ job.retry)
      BY <2>3, <3>2, AbandonType DEF StartFailed
    <3> QED
      BY <3>1, <3>2
  <2>4. CASE Decide
    <3> job' \in Job
      BY <2>4 DEF Decide, Job
    <3> QED
      BY <2>4 DEF Decide, Steps
  <2>5. CASE WriteFactory
    <3> DefaultPlan \in Plan
      BY DEF DefaultPlan, Plan, Modes, DnsModes
    <3> QED
      BY <2>5, ReleaseType DEF WriteFactory
  <2>6. CASE Finish
    BY <2>6, ReleaseType DEF Finish
  <2> QED
    BY <1>6, <2>1, <2>2, <2>3, <2>4, <2>5, <2>6 DEF Undo
<1>7. CASE Boot
  <2>1. ASSUME NEW p \in Parts, ClearStale(p)
        PROVE  Types'
    BY <2>1 DEF ClearStale, Remove
  <2>2. CASE StaleUnread
    BY <2>2 DEF StaleUnread
  <2>3. CASE Open
    <3> Wants("check", None) \in Call
      BY DEF Wants, Call, Ops
    <3> QED
      BY <2>3, BecomeType DEF Open, Steps
  <2> QED
    BY <1>7, <2>1, <2>2, <2>3 DEF Boot
<1>8. CASE Start
  BY <1>8 DEF Start, Threads, Steps
<1>9. CASE Exit
  <2>1. UNCHANGED <<store, crashes, inst, builtOn, ground, moves>> /\ Lose
    BY <1>9 DEF Exit
  <2> QED
    BY <2>1, LoseType
<1>10. ASSUME NEW t \in Threads, TakesLock(t)
       PROVE  Types'
  <2>1. Idle \in Call /\ \A op \in Ops, a \in Targets \cup {None} :
                          Wants(op, a) \in Call
    BY DEF Wants, Call, Ops, Idle
  <2>2. CASE BeginConnect(t)
    <3>1. call[t].arg \in Targets \cup {None}
      BY DEF Call
    <3>2. job' \in Job
      BY <2>2, <3>1 DEF BeginConnect, NoJob, Job, Plan, DefaultPlan, Modes,
                        DnsModes, Steps
    <3> QED
      BY <2>2, <3>2 DEF BeginConnect, Steps
  <2>3. CASE BeginTeardown(t)
    <3>1. job' \in Job
      <4> DEFINE next == CASE call[t].op = "reset"    -> "factory"
                           [] call[t].op = "takedown" -> "closed"
                           [] OTHER                   -> "finish"
      <4>1. NoJob \in Job
        BY DEF NoJob, Job, Plan, DefaultPlan, Modes, DnsModes, Steps
      <4>2. job' = [NoJob EXCEPT !.next = next]
        BY <2>3 DEF BeginTeardown
      <4>3. next \in Steps
        BY DEF Steps
      <4> HIDE DEF next
      <4> QED BY <4>1, <4>2, <4>3 DEF Job
    <3> QED
      BY <2>3, <3>1 DEF BeginTeardown, Steps
  <2>4. CASE t \in Callers /\ ApplySettings(t)
    <3>1. Wants("connect", None) \in Call
      BY <2>1 DEF Ops
    <3> QED
      BY <2>1, <2>4, <3>1, BecomeType DEF ApplySettings
  <2>5. CASE t \in Callers /\ UpstreamChanged(t)
    <3>1. Wants("connect", live) \in Call
      BY <2>1 DEF Ops
    <3> QED
      BY <2>1, <2>5, <3>1, BecomeType DEF UpstreamChanged
  <2>6. CASE t \in Callers /\ (DetectEnv(t) \/ ReapplyFirewall(t))
    BY <2>1, <2>6, BecomeType DEF DetectEnv, ReapplyFirewall, Peek, Parts
  <2>7. CASE Reload
    <3>1. Wants("connect", live) \in Call
      BY <2>1 DEF Ops
    <3> QED
      BY <2>1, <2>7, <3>1, BecomeType DEF Reload
  <2>8. CASE AnnounceStop
    <3>1. Wants("takedown", None) \in Call
      BY <2>1 DEF Ops
    <3> QED
      BY <2>8, <3>1, BecomeType DEF AnnounceStop
  <2>9. CASE RestoreCheck
    <3>1. Wants("dial", None) \in Call /\ Wants("sleep", None) \in Call
      BY <2>1 DEF Ops
    <3> QED
      BY <2>1, <2>9, <3>1, BecomeType DEF RestoreCheck
  <2> QED
    BY <1>10, <2>2, <2>3, <2>4, <2>5, <2>6, <2>7, <2>8, <2>9 DEF TakesLock
<1> QED
  BY <1>1, <1>2, <1>3, <1>4, <1>5, <1>6, <1>7, <1>8, <1>9, <1>10 DEF Next

LEMMA TypesAlways == Spec => []Types
<1>1. Init => Types
  BY TypeInit
<1>2. Types /\ [Next]_vars => Types'
  BY TypeStep
<1> QED
  BY <1>1, <1>2, PTL DEF Spec

-----------------------------------------------------------------------------
\* Steps that touch neither the connection nor the connect in progress.

built == <<up, live, cfg, held, inst, proven, pc, job, pinAccepted>>

LEMMA QuietSteps ==
  /\ Clients => UNCHANGED built
  /\ Wait => UNCHANGED built
  /\ \A g \in Grounds : MoveUpstream(g) => UNCHANGED built
  /\ \A t \in Callers :
       ApplySettings(t) \/ UpstreamChanged(t) \/ DetectEnv(t) => UNCHANGED built
  /\ Reload \/ AnnounceStop \/ RestoreCheck => UNCHANGED built
<1> USE DEF built, store, process, session, parts, control, device
<1>1. Clients => UNCHANGED built
  BY DEF Clients, AskConnect, Ask, Deliver, SaveSettings, SetAutoConnect, Delete,
         Create, PutConfig, AskRefresh, Refresh
<1>2. Wait => UNCHANGED built
  BY DEF Wait, RestoreDial, RestoreWake
<1>3. \A g \in Grounds : MoveUpstream(g) => UNCHANGED built
  BY DEF MoveUpstream
<1>4. \A t \in Callers :
        ApplySettings(t) \/ UpstreamChanged(t) \/ DetectEnv(t) => UNCHANGED built
  BY DEF ApplySettings, UpstreamChanged, DetectEnv
<1>5. Reload \/ AnnounceStop \/ RestoreCheck => UNCHANGED built
  BY DEF Reload, AnnounceStop, RestoreCheck
<1> QED
  BY <1>1, <1>2, <1>3, <1>4, <1>5

\* The steps that do, one by one.
LoudStep ==
  \/ FlushFirewall \/ Crash \/ Start \/ Exit
  \/ Build \/ Undo \/ Boot
  \/ \E t \in Threads : BeginConnect(t) \/ BeginTeardown(t)
  \/ \E t \in Callers : ReapplyFirewall(t)

LEMMA LoudOrQuiet == [Next]_vars => LoudStep \/ UNCHANGED built
<1> SUFFICES ASSUME [Next]_vars PROVE LoudStep \/ UNCHANGED built
  OBVIOUS
<1>1. CASE UNCHANGED vars
  BY <1>1 DEF vars, built, store, process, session, parts, control, device
<1>2. ASSUME NEW t \in Threads, TakesLock(t)
      PROVE  LoudStep \/ UNCHANGED built
  BY <1>2, QuietSteps DEF TakesLock, LoudStep
<1>3. CASE Clients \/ World \/ Wait \/ Build \/ Undo \/ Boot \/ Start \/ Exit
  BY <1>3, QuietSteps DEF World, LoudStep
<1> QED
  BY <1>1, <1>2, <1>3 DEF Next

-----------------------------------------------------------------------------
\* The job of the holder.

LEMMA BeginConnectJob ==
  ASSUME Types, NEW t \in Threads, BeginConnect(t)
  PROVE  /\ pc' = "load" /\ job'.starts = 0
         /\ job'.retry /\ ~job'.undoing
BY DEF BeginConnect, NoJob

LEMMA BeginTeardownJob ==
  ASSUME NEW t \in Threads, BeginTeardown(t)
  PROVE  /\ pc' = "teardown" /\ job'.starts = 0
         /\ ~job'.retry /\ ~job'.undoing
         /\ job'.next \in {"factory", "closed", "finish"}
BY DEF BeginTeardown, NoJob

LEMMA AbandonJob ==
  ASSUME Types, Abandon
  PROVE  /\ pc' = "teardown"
         /\ job'.next = IF job.undoing THEN "finish" ELSE "decide"
         /\ job'.starts = job.starts /\ (job'.retry <=> job.retry)
         /\ (job'.undoing <=> job.undoing) /\ job'.goal = job.goal
BY DEF Types, Job, Abandon

LEMMA LoadJob ==
  ASSUME Types, Load
  PROVE  /\ pc = "load" /\ pc' = "teardown"
         /\ \/ job'.next = "prepare" /\ job'.goal \in Targets
            \/ job'.next = IF job.undoing THEN "finish" ELSE "decide"
         /\ job'.starts = job.starts /\ (job'.retry <=> job.retry)
         /\ (job'.undoing <=> job.undoing)
<1>1. CASE /\ Goal \in known
           /\ job' = [job EXCEPT !.goal = Goal, !.plan = settings,
                                 !.next = "prepare"]
  <2>1. job \in Job /\ Goal \in Targets
    BY <1>1 DEF Types
  <2>2. /\ job'.next = "prepare" /\ job'.goal = Goal
        /\ job'.starts = job.starts /\ (job'.retry <=> job.retry)
        /\ (job'.undoing <=> job.undoing)
    BY <1>1, <2>1 DEF Job
  <2>3. pc = "load" /\ pc' = "teardown"
    BY DEF Load, Abandon
  <2> QED
    BY <2>1, <2>2, <2>3
<1>2. CASE Abandon
  BY <1>2, AbandonJob DEF Load
<1> QED
  BY <1>1, <1>2 DEF Load

LEMMA StartFailedJob ==
  ASSUME Types, StartFailed
  PROVE  /\ pc = "startFailed" /\ pinAccepted' = FALSE
         /\ \/ /\ job.retry /\ pc' = "load"
               /\ ~job'.retry /\ job'.starts = job.starts
               /\ (job'.undoing <=> job.undoing)
            \/ Abandon
BY DEF StartFailed, Types, Job

LEMMA DecideJob ==
  ASSUME Types, Decide
  PROVE  /\ pc = "decide"
         /\ \/ /\ pc' = "load" /\ job'.starts = job.starts
               /\ job'.retry /\ job'.undoing
            \/ pc' = "finish" /\ job' = job
BY DEF Decide, Types, Job

\* While there is no daemon it holds nothing and does nothing.
LEMMA AbsentStep == Absent /\ [Next]_vars => Absent'
<1> SUFFICES ASSUME Absent, [Next]_vars PROVE Absent'
  OBVIOUS
<1> USE DEF Absent, store, process, session, parts, control
<1>1. CASE UNCHANGED built
  BY <1>1 DEF built
<1>2. CASE FlushFirewall
  BY <1>2 DEF FlushFirewall
<1>3. CASE Crash \/ Exit
  BY <1>3 DEF Crash, Exit, Lose
<1>4. CASE Start
  BY <1>4 DEF Start
<1>5. CASE Build
  BY <1>5 DEF Build, Load, Prepare, StartCore, StartTun, Reach, ApplyFirewall,
              ApplyDns, Commit
<1>6. CASE Undo
  BY <1>6 DEF Undo, TearDown, TornDown, StartFailed, Decide, WriteFactory, Finish
<1>7. CASE Boot
  BY <1>7 DEF Boot, ClearStale, StaleUnread, Open
<1>8. ASSUME NEW t, BeginConnect(t) \/ BeginTeardown(t) \/ ReapplyFirewall(t)
      PROVE  Absent'
  BY <1>8 DEF BeginConnect, BeginTeardown, ReapplyFirewall, Free
<1> QED
  BY <1>1, <1>2, <1>3, <1>4, <1>5, <1>6, <1>7, <1>8, LoudOrQuiet DEF LoudStep

LEMMA AimStep == Types /\ Absent /\ Aim /\ [Next]_vars => Aim'
<1> SUFFICES ASSUME Types, Absent, Aim, [Next]_vars PROVE Aim'
  OBVIOUS
<1> USE DEF Aim, Started, control
<1>1. CASE UNCHANGED built
  BY <1>1 DEF built
<1>2. CASE FlushFirewall \/ Start
  BY <1>2 DEF FlushFirewall, Start
<1>3. CASE Crash \/ Exit
  BY <1>3 DEF Crash, Exit, Lose
<1>4. CASE Build
  <2>1. CASE Load
    BY <2>1, LoadJob
  <2>2. CASE Prepare
    <3> job'.goal = job.goal
      BY <2>2 DEF Prepare, Types, Job
    <3> QED
      BY <2>2 DEF Prepare
  <2>3. CASE StartCore \/ StartTun \/ Reach \/ ApplyFirewall \/ ApplyDns
    BY <2>3 DEF StartCore, StartTun, Reach, ApplyFirewall, ApplyDns
  <2>4. CASE Commit
    BY <2>4 DEF Commit, Release
  <2> QED
    BY <1>4, <2>1, <2>2, <2>3, <2>4 DEF Build
<1>5. CASE Undo
  <2>1. ASSUME NEW p \in Parts, TearDown(p)
        PROVE  Aim'
    BY <2>1 DEF TearDown
  <2>2. CASE TornDown
    BY <2>2 DEF TornDown
  <2>3. CASE StartFailed
    BY <2>3, StartFailedJob, AbandonJob
  <2>4. CASE Decide
    BY <2>4, DecideJob
  <2>5. CASE WriteFactory \/ Finish
    BY <2>5 DEF WriteFactory, Finish, Release
  <2> QED
    BY <1>5, <2>1, <2>2, <2>3, <2>4, <2>5 DEF Undo
<1>6. CASE Boot
  BY <1>6 DEF Boot, ClearStale, StaleUnread, Open
<1>7. ASSUME NEW t \in Threads, BeginConnect(t) \/ BeginTeardown(t)
      PROVE  Aim'
  BY <1>7, BeginConnectJob, BeginTeardownJob
<1>8. ASSUME NEW t \in Callers, ReapplyFirewall(t)
      PROVE  Aim'
  BY <1>8 DEF ReapplyFirewall
<1> QED
  BY <1>1, <1>2, <1>3, <1>4, <1>5, <1>6, <1>7, <1>8, LoudOrQuiet DEF LoudStep

-----------------------------------------------------------------------------
\* An accepted certificate earns one rebuild, and the rebuilds are bounded.

LEMMA PinStep == Absent /\ PinIsSpent /\ [Next]_vars => PinIsSpent'
<1> SUFFICES ASSUME Absent, PinIsSpent, [Next]_vars PROVE PinIsSpent'
  OBVIOUS
<1> USE DEF PinIsSpent, session, control
<1>1. CASE UNCHANGED built
  BY <1>1 DEF built
<1>2. CASE FlushFirewall
  BY <1>2 DEF FlushFirewall
<1>3. CASE Crash \/ Exit
  BY <1>3 DEF Crash, Exit, Lose
<1>4. CASE Start
  BY <1>4 DEF Start, Absent
<1>5. CASE Build
  BY <1>5 DEF Build, Load, Prepare, StartCore, StartTun, Reach, ApplyFirewall,
              ApplyDns, Commit, Abandon
<1>6. CASE Undo
  BY <1>6 DEF Undo, TearDown, TornDown, StartFailed, Decide, WriteFactory, Finish
<1>7. CASE Boot
  BY <1>7 DEF Boot, ClearStale, StaleUnread, Open
<1>8. ASSUME NEW t, BeginConnect(t) \/ BeginTeardown(t) \/ ReapplyFirewall(t)
      PROVE  PinIsSpent'
  BY <1>8 DEF BeginConnect, BeginTeardown, ReapplyFirewall, Free
<1> QED
  BY <1>1, <1>2, <1>3, <1>4, <1>5, <1>6, <1>7, <1>8, LoudOrQuiet DEF LoudStep

\* Nothing is accepted outside the attempt that is failing, so no certificate
\* accepted for one connection rebuilds another.
THEOREM PinAlwaysSpent == Spec => []PinIsSpent
<1>1. Init => PinIsSpent /\ Absent
  BY DEF Init, PinIsSpent, Absent
<1> QED
  BY <1>1, PinStep, AbsentStep, PTL DEF Spec

LEMMA BudgetStep == Types /\ Aim /\ Budget /\ [Next]_vars => Budget'
<1> SUFFICES ASSUME Types, Aim, Budget, [Next]_vars PROVE Budget'
  OBVIOUS
<1> USE DEF Budget, Spent, Ahead, control
<1>0. /\ job \in Job /\ job.starts \in Nat
      /\ job.retry \in BOOLEAN /\ job.undoing \in BOOLEAN
  BY DEF Types, Job
<1>1. CASE UNCHANGED built
  BY <1>1 DEF built
<1>2. CASE FlushFirewall \/ Start
  BY <1>0, <1>2 DEF FlushFirewall, Start
<1>3. CASE Crash \/ Exit
  BY <1>3 DEF Crash, Exit, Lose, NoJob
<1>4. CASE Build
  <2>1. CASE Load
    BY <1>0, <2>1, LoadJob
  <2>2. CASE Prepare
    <3> /\ job'.starts = job.starts + 1
        /\ (job'.retry <=> job.retry) /\ (job'.undoing <=> job.undoing)
      BY <1>0, <2>2 DEF Prepare, Job
    <3> QED
      BY <1>0, <2>2 DEF Prepare
  <2>3. CASE StartCore \/ StartTun \/ Reach \/ ApplyFirewall \/ ApplyDns
    BY <1>0, <2>3 DEF StartCore, StartTun, Reach, ApplyFirewall, ApplyDns
  <2>4. CASE Commit
    BY <2>4 DEF Commit, Release, NoJob
  <2> QED
    BY <1>4, <2>1, <2>2, <2>3, <2>4 DEF Build
<1>5. CASE Undo
  <2>1. ASSUME NEW p \in Parts, TearDown(p)
        PROVE  Budget'
    BY <2>1 DEF TearDown
  <2>2. CASE TornDown
    BY <1>0, <2>2 DEF TornDown, Aim
  <2>3. CASE StartFailed
    BY <1>0, <2>3, StartFailedJob, AbandonJob
  <2>4. CASE Decide
    BY <1>0, <2>4, DecideJob
  <2>5. CASE WriteFactory \/ Finish
    BY <2>5 DEF WriteFactory, Finish, Release, NoJob
  <2> QED
    BY <1>5, <2>1, <2>2, <2>3, <2>4, <2>5 DEF Undo
<1>6. CASE Boot
  BY <1>0, <1>6 DEF Boot, ClearStale, StaleUnread, Open
<1>7. ASSUME NEW t \in Threads, BeginConnect(t) \/ BeginTeardown(t)
      PROVE  Budget'
  BY <1>7, BeginConnectJob, BeginTeardownJob
<1>8. ASSUME NEW t \in Callers, ReapplyFirewall(t)
      PROVE  Budget'
  BY <1>8 DEF ReapplyFirewall
<1> QED
  BY <1>1, <1>2, <1>3, <1>4, <1>5, <1>6, <1>7, <1>8, LoudOrQuiet DEF LoudStep

\* However certificates and servers behave, one Connect starts the core at most
\* four times: connectLockedOnce and fallBackLocked cannot loop.
THEOREM BoundedStarts == Spec => []StartsAreBounded
<1>1. Init => Absent /\ Aim /\ Budget
  BY DEF Init, Absent, Aim, Started, Budget, Spent, Ahead, NoJob
<1>2. Types /\ Budget => StartsAreBounded
  BY DEF Types, Job, Budget, Spent, StartsAreBounded
<1> QED
  BY <1>1, <1>2, AbsentStep, AimStep, BudgetStep, TypesAlways, PTL DEF Spec

-----------------------------------------------------------------------------
\* What the daemon holds at each step.

LEMMA HandlesStep ==
  Types /\ Absent /\ Aim /\ Handles /\ [Next]_vars => Handles'
<1> SUFFICES ASSUME Types, Absent, Aim, Handles, [Next]_vars
             PROVE  Handles'
  OBVIOUS
<1> USE DEF Handles, Empty, Started, Proving, store, process, session, parts,
            control
<1>1. CASE UNCHANGED built
  BY <1>1 DEF built
<1>2. CASE FlushFirewall
  BY <1>2 DEF FlushFirewall
<1>3. CASE Crash \/ Exit
  BY <1>3 DEF Crash, Exit, Lose
<1>4. CASE Start
  BY <1>4 DEF Start, Absent
<1>5. CASE Build
  <2>1. CASE Load
    BY <2>1, LoadJob DEF Load
  <2>2. CASE Prepare
    BY <2>2 DEF Prepare
  <2>3. CASE StartCore
    BY <2>3 DEF StartCore
  <2>4. CASE StartTun
    BY <2>4 DEF StartTun
  <2>5. CASE Reach
    BY <2>5 DEF Reach
  <2>6. CASE ApplyFirewall
    BY <2>6 DEF ApplyFirewall
  <2>7. CASE ApplyDns
    BY <2>7 DEF ApplyDns
  <2>8. CASE Commit
    BY <2>8, NoneAssumption DEF Commit, Release, Aim
  <2> QED
    BY <1>5, <2>1, <2>2, <2>3, <2>4, <2>5, <2>6, <2>7, <2>8 DEF Build
<1>6. CASE Undo
  <2>1. ASSUME NEW p \in Parts, TearDown(p)
        PROVE  Handles'
    BY <2>1 DEF TearDown
  <2>2. CASE TornDown
    BY <2>2 DEF TornDown, Aim
  <2>3. CASE StartFailed
    BY <2>3, StartFailedJob, AbandonJob DEF StartFailed
  <2>4. CASE Decide
    BY <2>4, DecideJob DEF Decide
  <2>5. CASE WriteFactory \/ Finish
    BY <2>5 DEF WriteFactory, Finish, Release
  <2> QED
    BY <1>6, <2>1, <2>2, <2>3, <2>4, <2>5 DEF Undo
<1>7. CASE Boot
  BY <1>7 DEF Boot, ClearStale, StaleUnread, Open
<1>8. ASSUME NEW t \in Threads, BeginConnect(t) \/ BeginTeardown(t)
      PROVE  Handles'
  <2>1. pc' \in {"load", "teardown"}
    BY <1>8, BeginConnectJob, BeginTeardownJob
  <2>2. up /\ UNCHANGED <<up, held, live, proven>>
    BY <1>8 DEF BeginConnect, BeginTeardown, Free
  <2> QED
    BY <2>1, <2>2
<1>9. ASSUME NEW t \in Callers, ReapplyFirewall(t)
      PROVE  Handles'
  BY <1>9 DEF ReapplyFirewall
<1> QED
  BY <1>1, <1>2, <1>3, <1>4, <1>5, <1>6, <1>7, <1>8, <1>9, LoudOrQuiet
     DEF LoudStep

-----------------------------------------------------------------------------
\* The device: nothing is there that is not held, and nothing steers the LAN
\* that the proven core does not back.

LEMMA DeviceStep ==
  ASSUME "read" \notin MayFail
  PROVE  /\ Types /\ Absent /\ Handles
         /\ Accounted /\ Backed /\ [Next]_vars
         => Accounted' /\ Backed'
<1> SUFFICES ASSUME Types, Absent, Handles, Accounted, Backed,
                    [Next]_vars
             PROVE  Accounted' /\ Backed'
  OBVIOUS
<1> USE DEF Accounted, Backed, Capture, store, process, session, parts, control
<1>1. CASE UNCHANGED built
  BY <1>1 DEF built
<1>2. CASE FlushFirewall
  BY <1>2 DEF FlushFirewall
<1>3. CASE Crash \/ Exit
  BY <1>3 DEF Crash, Exit, Lose
<1>4. CASE Start
  BY <1>4 DEF Start, Types
<1>5. CASE Build
  <2>1. CASE Load
    BY <2>1 DEF Load
  <2>2. CASE Prepare
    BY <2>2 DEF Prepare
  <2>3. CASE StartCore
    BY <2>3 DEF StartCore
  <2>4. CASE StartTun
    BY <2>4 DEF StartTun
  <2>5. CASE Reach
    BY <2>5 DEF Reach
  <2>6. CASE ApplyFirewall
    BY <2>6 DEF ApplyFirewall, Handles, Proving, Started
  <2>7. CASE ApplyDns
    BY <2>7 DEF ApplyDns, Handles, Proving, Started
  <2>8. CASE Commit
    BY <2>8 DEF Commit, Release
  <2> QED
    BY <1>5, <2>1, <2>2, <2>3, <2>4, <2>5, <2>6, <2>7, <2>8 DEF Build
<1>6. CASE Undo
  <2>1. ASSUME NEW p \in Parts, TearDown(p)
        PROVE  Accounted' /\ Backed'
    <3>1. Accounted' /\ (p # "core" => Backed')
      BY <2>1 DEF TearDown, Remove
    <3>2. CASE p = "core"
      <4>1. held \subseteq {"core"}
        BY <2>1, <3>2 DEF TearDown, TornBefore, Types, Parts
      <4>2. inst \cap Capture \subseteq Sticky
        BY <2>1, <4>1 DEF TearDown
      <4>3. inst' \subseteq inst
        BY <2>1 DEF TearDown, Remove
      <4> QED
        BY <3>1, <4>2, <4>3
    <3> QED
      BY <3>1, <3>2
  <2>2. CASE TornDown
    BY <2>2 DEF TornDown
  <2>3. CASE StartFailed
    BY <2>3 DEF StartFailed
  <2>4. CASE Decide
    BY <2>4 DEF Decide
  <2>5. CASE WriteFactory \/ Finish
    BY <2>5 DEF WriteFactory, Finish, Release
  <2> QED
    BY <1>6, <2>1, <2>2, <2>3, <2>4, <2>5 DEF Undo
<1>7. CASE Boot
  <2>1. ASSUME NEW p \in Parts, ClearStale(p)
        PROVE  Accounted' /\ Backed'
    BY <2>1 DEF ClearStale, Remove
  <2>2. CASE StaleUnread
    BY <2>2 DEF StaleUnread
  <2>3. CASE Open
    BY <2>3 DEF Open
  <2> QED
    BY <1>7, <2>1, <2>2, <2>3 DEF Boot
<1>8. ASSUME NEW t \in Threads, BeginConnect(t) \/ BeginTeardown(t)
      PROVE  Accounted' /\ Backed'
  BY <1>8 DEF BeginConnect, BeginTeardown, Free
<1>9. ASSUME NEW t \in Callers, ReapplyFirewall(t)
      PROVE  Accounted' /\ Backed'
  BY <1>9 DEF ReapplyFirewall, Free, Handles
<1> QED
  BY <1>1, <1>2, <1>3, <1>4, <1>5, <1>6, <1>7, <1>8, <1>9, LoudOrQuiet
     DEF LoudStep

\* The four, in every behaviour.
LEMMA HandlesAlways == Spec => [](Types /\ Absent /\ Aim /\ Handles)
<1>1. Init => Absent /\ Aim /\ Handles
  BY DEF Init, Absent, Aim, Started, Handles, Empty, Proving
<1> QED
  BY <1>1, TypesAlways, AbsentStep, AimStep, HandlesStep, PTL DEF Spec

LEMMA DeviceAlways ==
  ASSUME "read" \notin MayFail
  PROVE  Spec => [](Accounted /\ Backed)
<1>1. Init => Accounted /\ Backed
  BY DEF Init, Accounted, Backed
<1> QED
  BY <1>1, DeviceStep, HandlesAlways, PTL DEF Spec

\* No failure of startLocked or teardownLocked, and no crash once
\* ClearStaleState has run, loses track of a part of the device.
THEOREM NothingIsUntracked == Spec => []NothingUntracked
<1>1. CASE "read" \in MayFail
  <2>1. NothingUntracked
    BY <1>1 DEF NothingUntracked
  <2> QED
    BY <2>1, PTL
<1>2. CASE "read" \notin MayFail
  <2>1. Accounted => NothingUntracked
    BY DEF Accounted, NothingUntracked
  <2> QED
    BY <1>2, <2>1, DeviceAlways, PTL
<1> QED
  BY <1>1, <1>2

\* The order of startLocked and of teardownLocked: capture rules and resolver
\* point at a core only after it carried data and until they are taken back.
THEOREM SteeringIsSafe == Spec => []SteeredOnlyIntoProvenCore
<1>1. CASE "read" \in MayFail
  <2>1. SteeredOnlyIntoProvenCore
    BY <1>1 DEF SteeredOnlyIntoProvenCore
  <2> QED
    BY <2>1, PTL
<1>2. CASE "read" \notin MayFail
  <2>1. Handles /\ Backed => SteeredOnlyIntoProvenCore
    BY DEF Handles, Backed, SteeredOnlyIntoProvenCore
  <2> QED
    BY <1>2, <2>1, DeviceAlways, HandlesAlways, PTL
<1> QED
  BY <1>1, <1>2

-----------------------------------------------------------------------------
\* A daemon at rest.

LEMMA AssembledStep ==
  Types /\ Aim /\ Handles /\ Assembled /\ [Next]_vars => Assembled'
<1> SUFFICES ASSUME Types, Aim, Handles, Assembled, [Next]_vars
             PROVE  Assembled'
  OBVIOUS
<1> USE DEF Assembled, Started, PartsOf, store, process, session, parts, control
<1>1. CASE UNCHANGED built
  BY <1>1 DEF built
<1>2. CASE FlushFirewall
  BY <1>2 DEF FlushFirewall
<1>3. CASE Crash \/ Exit
  BY <1>3 DEF Crash, Exit, Lose
<1>4. CASE Start
  BY <1>4 DEF Start
<1>5. CASE Build
  <2>1. CASE Load
    BY <2>1, LoadJob
  <2>2. CASE Prepare
    <3> job'.plan = job.plan
      BY <2>2 DEF Prepare, Types, Job
    <3> QED
      BY <2>2 DEF Prepare
  <2>3. CASE StartCore
    BY <2>3 DEF StartCore
  <2>4. CASE StartTun
    BY <2>4 DEF StartTun
  <2>5. CASE Reach
    BY <2>5 DEF Reach
  <2>6. CASE ApplyFirewall
    BY <2>6 DEF ApplyFirewall
  <2>7. CASE ApplyDns
    BY <2>7 DEF ApplyDns
  <2>8. CASE Commit
    BY <2>8 DEF Commit, Release
  <2> QED
    BY <1>5, <2>1, <2>2, <2>3, <2>4, <2>5, <2>6, <2>7, <2>8 DEF Build
<1>6. CASE Undo
  <2>1. ASSUME NEW p \in Parts, TearDown(p)
        PROVE  Assembled'
    BY <2>1 DEF TearDown
  <2>2. CASE TornDown
    BY <2>2 DEF TornDown, Aim
  <2>5. CASE WriteFactory \/ Finish
    BY <2>5 DEF WriteFactory, Finish, Release, Handles, Empty
  <2>3. CASE StartFailed
    BY <2>3, StartFailedJob, AbandonJob
  <2>4. CASE Decide
    BY <2>4, DecideJob
  <2> QED
    BY <1>6, <2>1, <2>2, <2>3, <2>4, <2>5 DEF Undo
<1>7. CASE Boot
  BY <1>7 DEF Boot, ClearStale, StaleUnread, Open, Handles
<1>8. ASSUME NEW t \in Threads, BeginConnect(t) \/ BeginTeardown(t)
      PROVE  Assembled'
  BY <1>8, BeginConnectJob, BeginTeardownJob
<1>9. ASSUME NEW t \in Callers, ReapplyFirewall(t)
      PROVE  Assembled'
  BY <1>9 DEF ReapplyFirewall, Free
<1> QED
  BY <1>1, <1>2, <1>3, <1>4, <1>5, <1>6, <1>7, <1>8, <1>9, LoudOrQuiet
     DEF LoudStep

\* Connect, Disconnect, FactoryReset and Close leave everything the settings
\* ask for, or nothing at all.
THEOREM NothingHalfBuilt == Spec => []AllOrNothing
<1>1. Init => Assembled
  BY DEF Init, Assembled, Started
<1>2. Spec => []Assembled
  BY <1>1, AssembledStep, HandlesAlways, PTL DEF Spec
<1>3. CASE "read" \in MayFail
  <2>1. AllOrNothing
    BY <1>3 DEF AllOrNothing
  <2> QED
    BY <2>1, PTL
<1>4. CASE "read" \notin MayFail
  <2>1. Handles /\ Accounted /\ Assembled => AllOrNothing
    BY DEF Handles, Accounted, Assembled, AllOrNothing, Free
  <2> QED
    BY <1>2, <1>4, <2>1, DeviceAlways, HandlesAlways, PTL
<1> QED
  BY <1>3, <1>4

LEMMA SelectionStep ==
  Types /\ Absent /\ Handles /\ SelectionIsLive /\ [Next]_vars
    => SelectionIsLive'
<1> SUFFICES ASSUME Types, Absent, Handles, SelectionIsLive, [Next]_vars
             PROVE  SelectionIsLive'
  OBVIOUS
<1> USE DEF SelectionIsLive, store, process, session, parts, control
<1>1. CASE UNCHANGED <<active, live, edited>>
  BY <1>1
<1>2. CASE live' = None
  BY <1>2
<1>3. CASE Commit
  BY <1>3 DEF Commit
<1>4. CASE WriteFactory
  BY <1>4 DEF WriteFactory, Handles, Empty
<1>5. ASSUME NEW a, Selected(a), UNCHANGED live
      PROVE  SelectionIsLive'
  BY <1>5 DEF Selected
<1>6. CASE Clients
  BY <1>1, <1>5, <1>6 DEF Clients, AskConnect, Ask, Deliver, SaveSettings,
                          SetAutoConnect, Create, Delete, PutConfig, AskRefresh,
                          Refresh
<1>7. CASE World
  BY <1>1, <1>2, <1>7 DEF World, MoveUpstream, FlushFirewall, Crash, Lose
<1>8. CASE Wait \/ Boot \/ Start \/ Exit
  BY <1>1, <1>2, <1>8 DEF Wait, RestoreDial, RestoreWake, Boot, ClearStale,
                          StaleUnread, Open, Start, Exit, Lose
<1>9. CASE Build
  BY <1>1, <1>3, <1>9 DEF Build, Load, Prepare, StartCore, StartTun, Reach,
                          ApplyFirewall, ApplyDns
<1>10. CASE Undo
  BY <1>1, <1>2, <1>4, <1>10 DEF Undo, TearDown, TornDown, StartFailed, Decide,
                                 Finish
<1>11. ASSUME NEW t \in Threads, TakesLock(t)
       PROVE  SelectionIsLive'
  BY <1>1, <1>11 DEF TakesLock, BeginConnect, BeginTeardown, ApplySettings,
                     UpstreamChanged, DetectEnv, ReapplyFirewall, Reload,
                     AnnounceStop, RestoreCheck
<1> QED
  BY <1>1, <1>6, <1>7, <1>8, <1>9, <1>10, <1>11 DEF Next, vars

\* connectLockedOnce saves the selection it connected, whatever failed and fell
\* back before: as long as the store can be written and no client has selected
\* something since, a reboot brings back what is live.
THEOREM SelectionAlwaysLive == Spec => []SelectionIsLive
<1>1. Init => SelectionIsLive
  BY DEF Init, SelectionIsLive
<1> QED
  BY <1>1, SelectionStep, HandlesAlways, PTL DEF Spec

-----------------------------------------------------------------------------
\* The engine implements TrafficGate.

GateInv == Types /\ Absent /\ Aim /\ Handles /\ Accounted /\ Backed

LEMMA GateStep ==
  ASSUME "read" \notin MayFail, Sticky = {}
  PROVE  GateInv /\ GateInv' /\ [Next]_vars => [Gate!Next]_(Gate!gate)
<1> SUFFICES ASSUME GateInv, GateInv', [Next]_vars
             PROVE  Gate!Next \/ UNCHANGED Gate!gate
  OBVIOUS
<1> DEFINE Steered == inst \cap Capture
<1> USE DEF Gate!gate, Gate!Next, Tunnel, store, process, session, parts, control
<1>0. /\ Tunnel = "trusted" <=> proven
      /\ Tunnel \in {"down", "raised"} => Steered = {}
      /\ up /\ held = {} => Steered = {}
      /\ ~up => Tunnel = "unattended"
  <2>1. up \in BOOLEAN /\ proven \in BOOLEAN
    BY DEF GateInv, Types
  <2>2. Tunnel = "trusted" <=> proven
    BY <2>1 DEF GateInv, Handles
  <2>3. up /\ pc # "stale" /\ ~proven => Steered = {}
    BY DEF GateInv, Backed
  <2>4. up /\ held = {} => Steered = {}
    BY DEF GateInv, Accounted
  <2> QED
    BY <2>1, <2>2, <2>3, <2>4 DEF GateInv, Handles
<1>1. CASE UNCHANGED built
  BY <1>1 DEF built
<1>2. CASE FlushFirewall
  <2>1. Steered' \subseteq Steered /\ UNCHANGED Tunnel
    BY <1>2 DEF FlushFirewall
  <2> QED
    BY <2>1 DEF Gate!Unsteer
<1>3. CASE Crash \/ Exit
  <2>1. Steered' \subseteq Steered /\ Tunnel' = "unattended"
    BY <1>3 DEF Crash, Exit, Lose
  <2> QED
    BY <2>1 DEF Gate!Abandon
<1>4. CASE Start
  BY <1>4 DEF Start
<1>5. CASE Build
  <2>1. CASE Load
    BY <2>1 DEF Load, Abandon
  <2>2. CASE Prepare
    BY <2>2 DEF Prepare
  <2>3. CASE StartCore
    <3>1. Tunnel = "down" /\ Tunnel' = "raised" /\ UNCHANGED Steered
      BY <2>3 DEF StartCore, GateInv, Handles, Empty, Capture
    <3> QED
      BY <1>0, <3>1 DEF Gate!Raise
  <2>4. CASE StartTun
    BY <2>4 DEF StartTun, Capture
  <2>5. CASE Reach
    <3>1. UNCHANGED Steered /\ (Tunnel' = Tunnel \/ Tunnel' = "trusted")
      BY <2>5 DEF Reach, GateInv, Handles, Started
    <3>2. Tunnel \in {"raised", "trusted"}
      BY <2>5 DEF Reach, GateInv, Handles, Started
    <3> QED
      BY <1>0, <3>1, <3>2 DEF Gate!Trust
  <2>6. CASE ApplyFirewall
    <3>1. Tunnel = "trusted" /\ UNCHANGED Tunnel
      BY <2>6 DEF ApplyFirewall, GateInv, Handles, Proving
    <3>2. Steered' = Steered \/ Steered' = Steered \cup {"fw"}
      BY <2>6 DEF ApplyFirewall, Capture
    <3> QED
      BY <3>1, <3>2 DEF Gate!Steer, Capture
  <2>7. CASE ApplyDns
    <3>1. Tunnel = "trusted" /\ UNCHANGED Tunnel
      BY <2>7 DEF ApplyDns, GateInv, Handles, Proving
    <3>2. Steered' = Steered \/ Steered' = Steered \cup {"dns"}
      BY <2>7 DEF ApplyDns, Capture
    <3> QED
      BY <3>1, <3>2 DEF Gate!Steer, Capture
  <2>8. CASE Commit
    BY <2>8 DEF Commit, Release
  <2> QED
    BY <1>5, <2>1, <2>2, <2>3, <2>4, <2>5, <2>6, <2>7, <2>8 DEF Build
<1>6. CASE Undo
  <2>1. ASSUME NEW p \in Parts \ {"core"}, TearDown(p)
        PROVE  Gate!Unsteer
    BY <2>1 DEF TearDown, Remove, Gate!Unsteer
  <2>2. CASE TearDown("core")
    <3>1. held = {"core"} /\ Tunnel \in {"raised", "trusted"}
      BY <2>2 DEF TearDown, TornBefore, GateInv, Types, Parts
    <3>2. Steered = {} /\ Steered' = {} /\ Tunnel' = "down"
      BY <2>2, <3>1 DEF TearDown, Remove, GateInv, Accounted, Capture
    <3> QED
      BY <3>1, <3>2 DEF Gate!Lower
  <2>3. CASE TornDown \/ StartFailed \/ Decide \/ WriteFactory \/ Finish
    <3>1. pc # "stale" /\ pc' # "stale" /\ UNCHANGED <<up, parts>>
      BY <2>3 DEF TornDown, StartFailed, Decide, WriteFactory, Finish, Abandon,
                  Release, GateInv, Aim
    <3> QED
      BY <3>1
  <2> QED
    BY <1>6, <2>1, <2>2, <2>3 DEF Undo
<1>7. CASE Boot
  <2>1. ASSUME NEW p \in Parts, ClearStale(p)
        PROVE  Gate!Unsteer
    BY <2>1 DEF ClearStale, Remove, Gate!Unsteer
  <2>2. CASE Open
    <3>1. Tunnel = "unattended" /\ Tunnel' = "down" /\ UNCHANGED Steered
      BY <2>2 DEF Open
    <3>2. up /\ held = {}
      BY <2>2 DEF Open
    <3> QED
      BY <1>0, <3>1, <3>2 DEF Gate!Attend
  <2> QED
    BY <1>7, <2>1, <2>2 DEF Boot, StaleUnread
<1>8. ASSUME NEW t \in Threads, BeginConnect(t) \/ BeginTeardown(t)
      PROVE  UNCHANGED Gate!gate
  BY <1>8 DEF BeginConnect, BeginTeardown, Free
<1>9. ASSUME NEW t \in Callers, ReapplyFirewall(t)
      PROVE  Gate!Next \/ UNCHANGED Gate!gate
  <2>1. CASE UNCHANGED inst
    BY <1>9, <2>1 DEF ReapplyFirewall, Free
  <2>2. CASE live # None /\ inst' = inst \cup {"fw"}
    <3>1. Tunnel = "trusted" /\ UNCHANGED Tunnel
      BY <1>9, <2>2 DEF ReapplyFirewall, Free, GateInv, Handles
    <3>2. Steered' = Steered \cup {"fw"}
      BY <2>2 DEF Capture
    <3> QED
      BY <3>1, <3>2 DEF Gate!Steer, Capture
  <2> QED
    BY <1>9, <2>1, <2>2 DEF ReapplyFirewall
<1> QED
  BY <1>1, <1>2, <1>3, <1>4, <1>5, <1>6, <1>7, <1>8, <1>9, LoudOrQuiet
     DEF LoudStep

\* On a device where removals take effect and the configuration can be read at
\* startup, every step of the engine is a step of TrafficGate or none.
THEOREM EngineImplementsGate ==
  ASSUME "read" \notin MayFail, Sticky = {}
  PROVE  Spec => ImplementsGate
<1>1. Init => Gate!Init
  BY DEF Init, Gate!Init, Tunnel
<1>2. Spec => []GateInv
  BY HandlesAlways, DeviceAlways, PTL DEF GateInv
<1>3. GateInv /\ GateInv' /\ [Next]_vars => [Gate!Next]_(Gate!gate)
  BY GateStep
<1> QED
  BY <1>1, <1>2, <1>3, PTL DEF Spec, ImplementsGate, Gate!Spec

-----------------------------------------------------------------------------
\* Who holds the mutex, and what the threads that wait for it want.

Owned ==
  /\ owner = "nobody" <=> pc = "free"
  /\ pc \in {"free", "stale"} => job = NoJob
  /\ pc \notin {"free", "stale"} => owner \in Threads /\ call[owner].op \in Lengthy

\* What a step leaves that no thread waiting for the mutex touches.
apart == <<up, live, env, peeked, builtOn, ground, owner, pc, job>>

\* A thread that was not waiting takes something on; if it is what a hook
\* announced, the hook is done with.
TakesOn(t) ==
  /\ up /\ call[t].op \in {"idle", "dial", "sleep", "refresh"}
  /\ \E c \in Call : Become(t, c)
  /\ "upstream" \in hooks => "upstream" \in hooks' \/ call'[t].op = "upstream"
  /\ UNCHANGED apart

LEMMA CallsAreCalls ==
  /\ \A op \in Ops, a \in Targets \cup {None} :
       Wants(op, a) \in Call /\ Wants(op, a).op = op
  /\ Idle \in Call /\ Idle.op = "idle"
BY DEF Wants, Call, Ops, Idle

LEMMA BecomeCalls ==
  ASSUME Types, NEW t \in Threads, NEW c, Become(t, c)
  PROVE  /\ call'[t] = c
         /\ \A u \in Threads \ {t} : call'[u] = call[u]
BY DEF Types, Become

LEMMA WaitingSteps ==
  Types /\ (Clients \/ Wait) =>
    \/ \E t \in Threads : TakesOn(t)
    \/ UNCHANGED <<apart, hooks, call>>
<1> SUFFICES ASSUME Types, Clients \/ Wait
             PROVE  \/ \E t \in Threads : TakesOn(t)
                    \/ UNCHANGED <<apart, hooks, call>>
  OBVIOUS
<1> USE CallsAreCalls, BecomeCalls
    DEF TakesOn, apart, store, process, session, parts, device, Threads,
        Serving
<1>1. ASSUME NEW c \in Callers, NEW t \in Targets \cup {None}, AskConnect(c, t)
      PROVE  TakesOn(c)
  <2> Wants("connect", t) \in Call
    BY DEF Ops
  <2> QED BY <1>1 DEF AskConnect
<1>2. ASSUME NEW c \in Callers \cup {"main"},
             NEW op \in CallerOps \cup {"reload", "close"}, Ask(c, op)
      PROVE  TakesOn(c)
  <2> Wants(op, None) \in Call
    BY DEF Ops, CallerOps
  <2> QED BY <1>2 DEF Ask
<1>3. ASSUME NEW c \in Callers, NEW op \in CallerOps, Deliver(c, op)
      PROVE  TakesOn(c)
  <2>1. Wants(op, None) \in Call /\ Wants(op, None).op = op
    BY DEF Ops, CallerOps
  <2>2. call'[c].op = op
    BY <1>3, <2>1 DEF Deliver
  <2> QED BY <1>3, <2>1, <2>2 DEF Deliver
<1>4. ASSUME NEW c \in Callers, NEW p \in Plans, SaveSettings(c, p)
      PROVE  TakesOn(c)
  <2> Wants("apply", None) \in Call
    BY DEF Ops
  <2> QED BY <1>4 DEF SaveSettings
<1>5. CASE RestoreDial
  <2> Wants("recheck", None) \in Call /\ Wants("connect", active) \in Call
    BY DEF Ops, Types
  <2> TakesOn("restorer")
    BY <1>5 DEF RestoreDial
  <2> QED OBVIOUS
<1>6. CASE RestoreWake
  <2> Wants("check", None) \in Call
    BY DEF Ops
  <2> TakesOn("restorer")
    BY <1>6 DEF RestoreWake
  <2> QED OBVIOUS
<1>7. ASSUME NEW c \in Callers, AskRefresh(c)
      PROVE  TakesOn(c)
  <2> /\ Wants("refresh", active) \in Call
      /\ Wants("refresh", None) \in Call
    BY DEF Ops, Types
  <2> QED BY <1>7 DEF AskRefresh
<1>8. ASSUME NEW c \in Callers, Refresh(c)
      PROVE  TakesOn(c)
  BY <1>8 DEF Refresh
<1>9. CASE \/ SetAutoConnect
           \/ \E gone \in SUBSET Targets : Delete(gone)
           \/ \E t \in Targets : Create(t)
           \/ \E a \in Targets \cup {None}, k \in SUBSET Targets, p \in Plans,
                 b \in BOOLEAN : PutConfig(a, k, p, b)
  BY <1>9 DEF SetAutoConnect, Delete, Create, PutConfig, control
<1> QED
  BY <1>1, <1>2, <1>3, <1>4, <1>5, <1>6, <1>7, <1>8, <1>9 DEF Clients, Wait

\* A thread that is done as soon as it has the mutex.
Brief ==
  \/ \E t \in Callers : \/ ApplySettings(t) \/ UpstreamChanged(t)
                        \/ DetectEnv(t) \/ ReapplyFirewall(t)
  \/ Reload \/ AnnounceStop \/ RestoreCheck

LEMMA OwnedStep == Types /\ Absent /\ Aim /\ Owned /\ [Next]_vars => Owned'
<1> SUFFICES ASSUME Types, Absent, Aim, Owned, [Next]_vars PROVE Owned'
  OBVIOUS
<1> USE DEF Owned, store, process, session, parts, device, control
<1>1. CASE UNCHANGED vars
  BY <1>1 DEF vars
<1>2. CASE Clients \/ Wait
  BY <1>2, WaitingSteps, BecomeCalls DEF TakesOn, apart, Lengthy
<1>3. CASE World
  BY <1>3 DEF World, MoveUpstream, FlushFirewall, Crash, Lose
<1>4. CASE Build
  <2>1. CASE Load \/ Prepare
    BY <2>1 DEF Load, Abandon, Prepare
  <2>2. CASE StartCore \/ StartTun \/ Reach \/ ApplyFirewall \/ ApplyDns
    BY <2>2 DEF StartCore, StartTun, Reach, ApplyFirewall, ApplyDns
  <2>3. CASE Commit
    BY <2>3 DEF Commit, Release
  <2> QED BY <1>4, <2>1, <2>2, <2>3 DEF Build
<1>5. CASE Undo
  <2>1. ASSUME NEW p \in Parts, TearDown(p)
        PROVE  Owned'
    BY <2>1 DEF TearDown
  <2>2. CASE TornDown
    BY <2>2 DEF TornDown, Aim
  <2>3. CASE StartFailed \/ Decide
    BY <2>3 DEF StartFailed, Abandon, Decide
  <2>4. CASE WriteFactory \/ Finish
    BY <2>4 DEF WriteFactory, Finish, Release
  <2> QED BY <1>5, <2>1, <2>2, <2>3, <2>4 DEF Undo
<1>6. CASE Boot
  BY <1>6 DEF Boot, ClearStale, StaleUnread, Open
<1>7. CASE Start \/ Exit
  BY <1>7 DEF Start, Exit, Lose, Absent
<1>8. ASSUME NEW t \in Threads, BeginConnect(t) \/ BeginTeardown(t)
      PROVE  Owned'
  BY <1>8, CallersAssumption DEF BeginConnect, BeginTeardown, Lengthy, Threads
<1>9. CASE Brief
  BY <1>9 DEF Brief, ApplySettings, UpstreamChanged, DetectEnv, ReapplyFirewall,
              Reload, AnnounceStop, RestoreCheck, Free
<1> QED
  BY <1>1, <1>2, <1>3, <1>4, <1>5, <1>6, <1>7, <1>8, <1>9
     DEF Next, TakesLock, Brief

\* Every variable keeps its type in every behaviour of the engine (startLocked,
\* teardownLocked, Connect, Close and the rest, in any order the mutex allows),
\* and the mutex is held exactly while an operation is under way.
THEOREM TypeCorrect == Spec => []TypeOK
<1>1. Init => Owned
  BY DEF Init, Owned
<1>2. Types /\ Owned => TypeOK
  BY DEF TypeOK, Owned
<1> QED
  BY <1>1, <1>2, OwnedStep, HandlesAlways, PTL DEF Spec

-----------------------------------------------------------------------------
\* The upstream the connection stands on.

RebuildPends == \E t \in Threads : call[t].op = "connect"
NewsPends == "upstream" \in hooks \/ \E t \in Threads : call[t].op = "upstream"

Standing == pc = "free" /\ live # None
Raising == pc \in Started \cup {"core"}

\* What is being built stands on what the daemon has detected; what stands does
\* too, or is about to be rebuilt, or was cut off.  And what was detected is how
\* it is, unless it was cut off since or the news is on its way.
Informed ==
  /\ Standing \/ Raising => ground \in {env, NoGateway} \/ NewsPends
  /\ Raising => builtOn = env
  /\ Standing => builtOn = env \/ env = NoGateway \/ RebuildPends \/ peeked

LEMMA InformedStep ==
  Types /\ Absent /\ Aim /\ Handles /\ Owned /\ Informed
    /\ [Next]_vars => Informed'
<1> SUFFICES ASSUME Types, Absent, Aim, Handles, Owned, Informed,
                    [Next]_vars
             PROVE  Informed'
  OBVIOUS
<1> USE DEF Standing, Raising, Started, store, process, session, parts, device,
            control
<1>0. /\ pc = "free" /\ live = None => held = {}
      /\ pc \in Empty => live = None
  BY DEF Handles
<1>1. CASE UNCHANGED vars
  BY <1>1 DEF vars, Informed, RebuildPends, NewsPends
<1>2. CASE Clients \/ Wait
  <2>1. CASE UNCHANGED <<apart, hooks, call>>
    BY <2>1 DEF apart, Informed, RebuildPends, NewsPends
  <2>2. ASSUME NEW t \in Threads, TakesOn(t)
        PROVE  Informed'
    <3>1. \A u \in Threads : call[u].op \in {"upstream", "connect"} =>
                               call'[u] = call[u]
      BY <2>2, BecomeCalls DEF TakesOn
    <3>2. (RebuildPends => RebuildPends') /\ (NewsPends => NewsPends')
      BY <2>2, <3>1 DEF RebuildPends, NewsPends, TakesOn
    <3> QED BY <2>2, <3>2 DEF Informed, TakesOn, apart
  <2> QED BY <1>2, <2>1, <2>2, WaitingSteps
<1>3. CASE World
  <2>1. ASSUME NEW g \in Grounds, MoveUpstream(g)
        PROVE  Informed'
    <3>1. UNCHANGED <<pc, live, env, peeked, builtOn, call, up>> /\ ground' = g
      BY <2>1 DEF MoveUpstream
    <3>2. up /\ g # NoGateway => NewsPends'
      BY <2>1 DEF MoveUpstream, NewsPends
    <3>3. Standing \/ Raising => up
      BY DEF Absent
    <3>4. RebuildPends' <=> RebuildPends
      BY <3>1 DEF RebuildPends
    <3> QED BY <3>1, <3>2, <3>3, <3>4 DEF Informed
  <2>2. CASE FlushFirewall
    <3>1. /\ UNCHANGED <<pc, live, env, peeked, builtOn, ground, call>>
          /\ hooks \subseteq hooks'
      BY <2>2 DEF FlushFirewall
    <3> QED BY <3>1 DEF Informed, RebuildPends, NewsPends
  <2>3. CASE Crash
    BY <2>3 DEF Crash, Lose, Informed
  <2> QED BY <1>3, <2>1, <2>2, <2>3 DEF World
<1>4. CASE Build
  <2>1. CASE Load
    BY <2>1 DEF Load, Abandon, Informed
  <2>2. CASE Prepare
    BY <2>2 DEF Prepare, Informed
  <2>3. CASE StartCore \/ StartTun \/ Reach \/ ApplyFirewall \/ ApplyDns
    <3>1. /\ UNCHANGED <<env, builtOn, ground, hooks, call>>
          /\ Raising /\ pc' # "free"
      BY <2>3 DEF StartCore, StartTun, Reach, ApplyFirewall, ApplyDns
    <3> QED BY <3>1 DEF Informed, NewsPends
  <2>4. CASE Commit
    <3>1. /\ UNCHANGED <<env, builtOn, ground, hooks>>
          /\ Raising /\ pc' = "free" /\ pc = "commit"
      BY <2>4 DEF Commit, Release
    <3>2. \A u \in Threads : call[u].op = "upstream" => call'[u] = call[u]
      BY <2>4, BecomeCalls DEF Commit, Release, Owned, Lengthy
    <3>3. NewsPends => NewsPends'
      BY <3>1, <3>2 DEF NewsPends
    <3> QED BY <3>1, <3>3 DEF Informed
  <2> QED BY <1>4, <2>1, <2>2, <2>3, <2>4 DEF Build
<1>5. CASE Undo
  <2>1. ~Standing' /\ ~Raising'
    <3>1. ASSUME NEW p \in Parts, TearDown(p)
          PROVE  ~Standing' /\ ~Raising'
      BY <3>1 DEF TearDown
    <3>2. CASE TornDown
      BY <3>2 DEF TornDown, Aim
    <3>3. CASE StartFailed \/ Decide
      BY <3>3 DEF StartFailed, Abandon, Decide
    <3>4. CASE WriteFactory \/ Finish
      BY <1>0, <3>4 DEF WriteFactory, Finish, Release, Empty
    <3> QED BY <1>5, <3>1, <3>2, <3>3, <3>4 DEF Undo
  <2> QED BY <2>1 DEF Informed
<1>6. CASE Boot
  <2>1. ~Standing' /\ ~Raising'
    BY <1>6 DEF Boot, ClearStale, StaleUnread, Open, Handles
  <2> QED BY <2>1 DEF Informed
<1>7. CASE Start \/ Exit
  BY <1>7 DEF Start, Exit, Lose, Informed
<1>8. ASSUME NEW t \in Threads, BeginConnect(t) \/ BeginTeardown(t)
      PROVE  Informed'
  BY <1>8 DEF BeginConnect, BeginTeardown, Informed
<1>9. CASE Brief
  <2>1. ASSUME NEW t \in Callers, UpstreamChanged(t)
        PROVE  Informed'
    <3>1. t \in Threads /\ pc = "free" /\ pc' = "free"
      BY <2>1 DEF UpstreamChanged, Free, Threads
    <3>2. CASE live = None
      BY <2>1, <3>1, <3>2 DEF UpstreamChanged, Informed
    <3>3. CASE live # None
      <4>1. /\ env' = ground
            /\ UNCHANGED <<live, ground, builtOn, peeked, hooks>>
        BY <2>1, <3>3 DEF UpstreamChanged
      <4>2. CASE env = ground
        <5>1. RebuildPends => RebuildPends'
          BY <2>1, <3>1, BecomeCalls DEF UpstreamChanged, RebuildPends
        <5> QED BY <3>1, <3>3, <4>1, <4>2, <5>1 DEF Informed
      <4>3. CASE env # ground /\ ground # NoGateway
        <5>1. call'[t].op = "connect"
          BY <2>1, <3>1, <3>3, <4>1, <4>3, BecomeCalls
             DEF UpstreamChanged, UpstreamVerdict, Wants
        <5> QED BY <3>1, <4>1, <5>1 DEF Informed, RebuildPends
      <4>4. CASE ground = NoGateway
        BY <3>1, <4>1, <4>4 DEF Informed
      <4> QED BY <4>2, <4>3, <4>4
    <3> QED BY <3>2, <3>3
  <2>2. ASSUME NEW t \in Threads,
               \/ t \in Callers /\ (\/ ApplySettings(t) \/ DetectEnv(t)
                                    \/ ReapplyFirewall(t))
               \/ t = "main" /\ (Reload \/ AnnounceStop)
               \/ t = "restorer" /\ RestoreCheck
        PROVE  Informed'
    <3>1. /\ pc = "free" /\ pc' = "free"
          /\ UNCHANGED <<live, ground, builtOn, hooks>>
          /\ Peek \/ UNCHANGED <<env, peeked>>
      BY <2>2 DEF ApplySettings, DetectEnv, ReapplyFirewall, Reload,
                  AnnounceStop, RestoreCheck, Free
    <3>2. /\ call[t].op \notin {"upstream", "connect"}
          /\ \E c : Become(t, c)
      BY <2>2 DEF ApplySettings, DetectEnv, ReapplyFirewall, Reload,
                  AnnounceStop, RestoreCheck
    <3>3. \A u \in Threads : call[u].op \in {"upstream", "connect"} =>
                               call'[u] = call[u]
      BY <3>2, BecomeCalls
    <3>4. (RebuildPends => RebuildPends') /\ (NewsPends => NewsPends')
      BY <3>1, <3>3 DEF RebuildPends, NewsPends
    <3>5. CASE Peek
      BY <3>1, <3>4, <3>5 DEF Informed, Peek
    <3>6. CASE UNCHANGED <<env, peeked>>
      BY <3>1, <3>4, <3>6 DEF Informed
    <3> QED BY <3>1, <3>5, <3>6
  <2> QED BY <1>9, <2>1, <2>2 DEF Brief, Threads
<1> QED
  BY <1>1, <1>2, <1>3, <1>4, <1>5, <1>6, <1>7, <1>8, <1>9
     DEF Next, TakesLock, Brief

\* UpstreamChanged and the hotplug hook: once the announcements are dealt with,
\* e.env is the upstream there is, and a connection at rest stands on it unless
\* Env or ReapplyFirewall had noticed the move first.
THEOREM MovesAreAlwaysNoticed == Spec => []MovesAreNoticed
<1>1. Init => Owned /\ Informed
  BY DEF Init, Owned, Informed, Standing, Raising, Started
<1>2. Informed => MovesAreNoticed
  BY DEF Informed, MovesAreNoticed, Settled, Free, Standing, RebuildPends,
         NewsPends
<1> QED
  BY <1>1, <1>2, OwnedStep, InformedStep, HandlesAlways, PTL DEF Spec

-----------------------------------------------------------------------------
\* A switch costs nothing.

\* Whether a core can be built for a plan at all, and whether the connect under
\* way may count on what was connected before it.
Sound(p) == NeedsTProxy(p) => HasTProxy
CanFallBack == moves = 0 /\ ground # NoGateway /\ job.was \in known \ Dead
At(s) == pc = s \/ (pc = "teardown" /\ job.next = s)

Errand ==
  /\ pc \in {"free", "stale"} => job.was = None
  /\ job.undoing => job.goal = job.was /\ job.was # None
  /\ ~job.undoing /\ job.arg # None => job.goal = job.arg
  /\ At("factory") \/ At("closed") => job.was = None

\* An attempt that failed has a target that is dead or a plan that is not sound;
\* the second to fail, or the only one, was for what had been connected.
Blamed ==
  /\ pc = "startFailed" /\ CanFallBack => job.goal \in Dead \/ ~Sound(job.plan)
  /\ At("decide") /\ CanFallBack /\ job.arg = job.was => ~Sound(job.plan)
  /\ At("finish") /\ CanFallBack => ~Sound(job.plan)

\* The target that was connected is not deleted and created anew meanwhile.
KeepsOld == job.was \in known' => job.was \in known
OldKept == [][KeepsOld]_vars

LEMMA FallBackBefore ==
  Types /\ [Next]_vars /\ (KeepsOld \/ UNCHANGED vars) =>
    (job'.was = job.was /\ CanFallBack' => CanFallBack)
<1> SUFFICES ASSUME Types, [Next]_vars, KeepsOld \/ UNCHANGED vars
             PROVE  job'.was = job.was /\ CanFallBack' => CanFallBack
  OBVIOUS
<1> USE DEF store, process, session, parts, device, control
<1>1. \/ UNCHANGED <<ground, moves>>
      \/ moves' = moves + 1
  <2>1. CASE UNCHANGED vars
    BY <2>1 DEF vars
  <2>2. CASE Clients
    BY <2>2 DEF Clients, AskConnect, Ask, Deliver, SaveSettings, SetAutoConnect,
                Delete, Create, PutConfig, AskRefresh, Refresh
  <2>3. CASE World
    BY <2>3 DEF World, MoveUpstream, FlushFirewall, Crash, Lose
  <2>4. CASE Wait \/ Boot \/ Start \/ Exit
    BY <2>4 DEF Wait, RestoreDial, RestoreWake, Boot, ClearStale, StaleUnread,
                Open, Start, Exit, Lose
  <2>5. CASE Build
    BY <2>5 DEF Build, Load, Prepare, StartCore, StartTun, Reach, ApplyFirewall,
                ApplyDns, Commit
  <2>6. CASE Undo
    BY <2>6 DEF Undo, TearDown, TornDown, StartFailed, Decide, WriteFactory,
                Finish
  <2>7. ASSUME NEW t \in Threads, TakesLock(t)
        PROVE  UNCHANGED <<ground, moves>>
    BY <2>7 DEF TakesLock, BeginConnect, BeginTeardown, ApplySettings,
                UpstreamChanged, DetectEnv, ReapplyFirewall, Reload,
                AnnounceStop, RestoreCheck
  <2> QED BY <2>1, <2>2, <2>3, <2>4, <2>5, <2>6, <2>7 DEF Next
<1>2. job.was \in known' => job.was \in known
  BY DEF KeepsOld, vars
<1> QED BY <1>1, <1>2 DEF CanFallBack, Types

LEMMA ErrandStep == Types /\ Absent /\ Aim /\ Errand /\ [Next]_vars => Errand'
<1> SUFFICES ASSUME Types, Absent, Aim, Errand, [Next]_vars PROVE Errand'
  OBVIOUS
<1> USE DEF Errand, At, control
<1>0. job \in Job
  BY DEF Types
<1>1. CASE UNCHANGED built
  BY <1>1 DEF built
<1>2. CASE FlushFirewall \/ Start
  BY <1>2 DEF FlushFirewall, Start, Absent
<1>3. CASE Crash \/ Exit
  BY <1>3 DEF Crash, Exit, Lose, NoJob
<1>4. CASE Build
  <2>1. CASE Load
    BY <1>0, <2>1 DEF Load, Abandon, Goal, Job
  <2>2. CASE Prepare
    BY <1>0, <2>2 DEF Prepare, Job
  <2>3. CASE StartCore \/ StartTun \/ Reach \/ ApplyFirewall \/ ApplyDns
    BY <2>3 DEF StartCore, StartTun, Reach, ApplyFirewall, ApplyDns
  <2>4. CASE Commit
    BY <2>4 DEF Commit, Release, NoJob
  <2> QED
    BY <1>4, <2>1, <2>2, <2>3, <2>4 DEF Build
<1>5. CASE Undo
  <2>1. ASSUME NEW p \in Parts, TearDown(p)
        PROVE  Errand'
    BY <2>1 DEF TearDown
  <2>2. CASE TornDown
    BY <2>2 DEF TornDown, Aim
  <2>3. CASE StartFailed
    BY <1>0, <2>3 DEF StartFailed, Abandon, Job
  <2>4. CASE Decide
    BY <1>0, <2>4 DEF Decide, ShouldFallBack, Job
  <2>5. CASE WriteFactory \/ Finish
    BY <2>5 DEF WriteFactory, Finish, Release, NoJob
  <2> QED
    BY <1>5, <2>1, <2>2, <2>3, <2>4, <2>5 DEF Undo
<1>6. CASE Boot
  BY <1>6 DEF Boot, ClearStale, StaleUnread, Open
<1>7. ASSUME NEW t \in Threads, BeginConnect(t) \/ BeginTeardown(t)
      PROVE  Errand'
  <2>1. ASSUME BeginConnect(t) PROVE Errand'
    <3>1. pc' = "load" /\ job'.undoing = FALSE /\ job'.goal = job'.arg
      BY <2>1 DEF BeginConnect, NoJob
    <3> QED BY <3>1
  <2>2. ASSUME BeginTeardown(t) PROVE Errand'
    <3>1. /\ pc' = "teardown" /\ job'.undoing = FALSE
          /\ job'.arg = None /\ job'.was = None
      BY <2>2 DEF BeginTeardown, NoJob
    <3> QED BY <3>1
  <2> QED BY <1>7, <2>1, <2>2
<1>8. ASSUME NEW t \in Callers, ReapplyFirewall(t)
      PROVE  Errand'
  BY <1>8 DEF ReapplyFirewall
<1> QED
  BY <1>1, <1>2, <1>3, <1>4, <1>5, <1>6, <1>7, <1>8, LoudOrQuiet DEF LoudStep

LEMMA BlamedStep ==
  ASSUME MayFail = {}
  PROVE  Types /\ Absent /\ Aim /\ Errand /\ Blamed /\ [Next]_vars
           /\ (KeepsOld \/ UNCHANGED vars) => Blamed'
<1> SUFFICES ASSUME Types, Absent, Aim, Errand, Blamed, [Next]_vars,
                    KeepsOld \/ UNCHANGED vars
             PROVE  Blamed'
  OBVIOUS
<1> USE DEF Blamed, At, Sound, control
<1>0. /\ job \in Job
      /\ job'.was = job.was /\ CanFallBack' => CanFallBack
      /\ CanFallBack => job.was \in known \ Dead /\ job.was # None
                 /\ ground # NoGateway
  BY FallBackBefore, NoneAssumption DEF Types, CanFallBack
<1>1. CASE UNCHANGED built
  BY <1>0, <1>1 DEF built
<1>2. CASE FlushFirewall \/ Start
  BY <1>0, <1>2 DEF FlushFirewall, Start, Absent
<1>3. CASE Crash \/ Exit
  BY <1>3 DEF Crash, Exit, Lose, NoJob
<1>4. CASE Build
  <2>1. CASE Load
    BY <1>0, <2>1 DEF Load, Abandon, Goal, Job, Errand
  <2>2. CASE Prepare
    BY <1>0, <2>2 DEF Prepare, Job
  <2>3. CASE StartCore \/ StartTun \/ Reach \/ ApplyFirewall \/ ApplyDns
    BY <1>0, <2>3 DEF StartCore, StartTun, Reach, ApplyFirewall, ApplyDns
  <2>4. CASE Commit
    BY <2>4 DEF Commit, Release, NoJob
  <2> QED
    BY <1>4, <2>1, <2>2, <2>3, <2>4 DEF Build
<1>5. CASE Undo
  <2>1. ASSUME NEW p \in Parts, TearDown(p)
        PROVE  Blamed'
    BY <1>0, <2>1 DEF TearDown
  <2>2. CASE TornDown
    BY <1>0, <2>2 DEF TornDown, Aim
  <2>3. CASE StartFailed
    <3>1. CASE pc' = "load"
      BY <3>1
    <3>2. CASE Abandon
      BY <1>0, <2>3, <3>2 DEF StartFailed, Abandon, Job, Errand
    <3> QED BY <2>3, <3>1, <3>2 DEF StartFailed
  <2>4. CASE Decide
    BY <1>0, <2>4 DEF Decide, ShouldFallBack, Job
  <2>5. CASE WriteFactory \/ Finish
    BY <2>5 DEF WriteFactory, Finish, Release, NoJob
  <2> QED
    BY <1>5, <2>1, <2>2, <2>3, <2>4, <2>5 DEF Undo
<1>6. CASE Boot
  BY <1>0, <1>6 DEF Boot, ClearStale, StaleUnread, Open
<1>7. ASSUME NEW t \in Threads, BeginConnect(t) \/ BeginTeardown(t)
      PROVE  Blamed'
  <2>1. CASE BeginConnect(t)
    BY <2>1 DEF BeginConnect
  <2>2. CASE BeginTeardown(t)
    <3>1. job'.was = None /\ UNCHANGED known /\ pc' = "teardown"
      BY <2>2 DEF BeginTeardown, NoJob, store
    <3>2. ~CanFallBack'
      BY <3>1, NoneAssumption DEF CanFallBack, Types
    <3> QED BY <3>1, <3>2
  <2> QED BY <1>7, <2>1, <2>2
<1>8. ASSUME NEW t \in Callers, ReapplyFirewall(t)
      PROVE  Blamed'
  BY <1>0, <1>8 DEF ReapplyFirewall
<1> QED
  BY <1>1, <1>2, <1>3, <1>4, <1>5, <1>6, <1>7, <1>8, LoudOrQuiet DEF LoudStep

Returns == pc # "free" /\ pc' = "free" /\ up'

LEMMA ReturnStep ==
  Types /\ Absent /\ Aim /\ Errand /\ Blamed /\ [Next]_vars /\ Returns
    => live' # None \/ ~CanFallBack \/ ~Sound(job.plan)
<1> SUFFICES ASSUME Types, Absent, Aim, Errand, Blamed, [Next]_vars, Returns
             PROVE  live' # None \/ ~CanFallBack \/ ~Sound(job.plan)
  OBVIOUS
<1> USE DEF Returns, control
<1>0. job.was = None => ~CanFallBack
  BY NoneAssumption DEF CanFallBack, Types
<1>1. CASE UNCHANGED built
  BY <1>1 DEF built
<1>2. CASE FlushFirewall \/ Start
  BY <1>2 DEF FlushFirewall, Start
<1>3. CASE Crash \/ Exit
  BY <1>3 DEF Crash, Exit, Lose
<1>4. CASE Build
  <2>1. CASE Commit
    BY <2>1, NoneAssumption DEF Commit, Aim, Started
  <2>2. CASE ~Commit
    BY <1>4, <2>2 DEF Build, Load, Abandon, Prepare, StartCore, StartTun, Reach,
                      ApplyFirewall, ApplyDns
  <2> QED BY <2>1, <2>2
<1>5. CASE Undo
  <2>1. ASSUME NEW p \in Parts, TearDown(p)
        PROVE  FALSE
    BY <2>1 DEF TearDown
  <2>2. CASE TornDown
    BY <2>2 DEF TornDown, Aim
  <2>3. CASE StartFailed \/ Decide
    BY <2>3 DEF StartFailed, Abandon, Decide
  <2>4. CASE WriteFactory \/ Finish
    BY <1>0, <2>4 DEF WriteFactory, Finish, Errand, Blamed, At
  <2> QED
    BY <1>5, <2>1, <2>2, <2>3, <2>4 DEF Undo
<1>6. CASE Boot
  BY <1>0, <1>6 DEF Boot, ClearStale, StaleUnread, Open, Errand
<1>7. ASSUME NEW t \in Threads, BeginConnect(t) \/ BeginTeardown(t)
      PROVE  FALSE
  BY <1>7 DEF BeginConnect, BeginTeardown, Free
<1>8. ASSUME NEW t \in Callers, ReapplyFirewall(t)
      PROVE  FALSE
  BY <1>8 DEF ReapplyFirewall
<1> QED
  BY <1>1, <1>2, <1>3, <1>4, <1>5, <1>6, <1>7, <1>8, LoudOrQuiet DEF LoudStep

\* Connect and fallBackLocked: whoever asks for a switch that fails is connected
\* to what was connected before, if that still can be.
THEOREM SwitchesCostNothing == Spec /\ OldKept => SwitchCostsNothing
<1>1. CASE MayFail = {}
  <2>1. Init => Absent /\ Aim /\ Errand /\ Blamed
    BY DEF Init, Absent, Aim, Started, Errand, At, NoJob, Blamed
  <2>2. Types /\ Absent /\ Aim /\ Errand /\ Blamed /\ [Next]_vars =>
          [(/\ pc # "free" /\ pc' = "free" /\ up'
            /\ MayFail = {} /\ ground # NoGateway /\ moves = 0
            /\ job.was \in known \ Dead
            /\ NeedsTProxy(job.plan) => HasTProxy) => live' # None]_vars
    BY ReturnStep DEF Returns, CanFallBack, Sound
  <2> QED
    BY <1>1, <2>1, <2>2, TypesAlways, AbsentStep, AimStep, ErrandStep,
       BlamedStep, PTL DEF Spec, OldKept, SwitchCostsNothing
<1>2. CASE MayFail # {}
  <2>1. [(/\ pc # "free" /\ pc' = "free" /\ up'
          /\ MayFail = {} /\ ground # NoGateway /\ moves = 0
          /\ job.was \in known \ Dead
          /\ NeedsTProxy(job.plan) => HasTProxy) => live' # None]_vars
    BY <1>2
  <2> QED BY <2>1, PTL DEF SwitchCostsNothing
<1> QED BY <1>1, <1>2
=============================================================================
