----------------------------- MODULE Supervisor -----------------------------
(***************************************************************************)
(* One supervised child process: internal/proc/proc.go.                    *)
(*                                                                         *)
(* Three goroutines meet here.  The owner calls Start and Stop, one at a   *)
(* time (the engine holds its mutex).  The supervisor spawns the child,    *)
(* waits for it, reports its exit and starts another one after a back-off. *)
(* The context's watcher, of os/exec, kills the child once the context is  *)
(* cancelled.  Delays are not measured: a timer that runs may fire before  *)
(* or after anything else that can happen meanwhile.                       *)
(*                                                                         *)
(* Every connection has a Process of its own (engine.go:612, tun.go:103),  *)
(* so Start here stands for the making of a new one too: what a supervisor *)
(* given up by Stop still does to the old one concerns nobody.             *)
(***************************************************************************)
EXTENDS Naturals

CONSTANTS
  Helpers,     \* whether the child forks helpers that keep its pipes open
  MaxSpawns    \* bound on the children of a behaviour

ASSUME HelpersAssumption == Helpers \in BOOLEAN
ASSUME SpawnsAssumption == MaxSpawns \in Nat

VARIABLES
  running, stopped, exits,   \* fields of the same names
  cmd,        \* p.cmd, as the number of the child it describes, 0 for nil
  ctx,        \* the context: "live" or "cancelled"
  sup,        \* the supervisor, "none" before it begins and once done is closed
  first,      \* its local variables first
  seen,       \* and stopped
  child,      \* the number of the child spawned last
  procs,      \* which processes of that child's group exist
  termed,     \* that group was sent SIGTERM or SIGKILL
  start,      \* Start is waiting for the first spawn
  stop,       \* Stop: "idle", or where it is
  aim,        \* its local variable cmd
  told        \* the last call of OnExit

fields == <<running, stopped, exits, cmd, ctx>>
local == <<sup, first, seen, told>>
group == <<child, procs, termed>>
owner == <<start, stop, aim>>
procVars == <<fields, local, group, owner>>

-----------------------------------------------------------------------------
\* The owner.

\* Start, up to the wait.  LookPath has found the binary.
Start ==
  /\ start = "idle" /\ stop = "idle" /\ ~running
  /\ child < MaxSpawns
  /\ running' = TRUE /\ stopped' = FALSE /\ exits' = 0 /\ cmd' = 0
  /\ ctx' = "live"
  /\ sup' = "spawn" /\ first' = TRUE /\ seen' = FALSE /\ told' = "nothing"
  /\ start' = "waiting" /\ procs' = {}
  /\ UNCHANGED <<child, termed, stop, aim>>

StartFails ==
  /\ start = "failed"
  /\ start' = "idle" /\ ctx' = "cancelled" /\ running' = FALSE
  /\ UNCHANGED <<stopped, exits, cmd, local, group, stop, aim>>

StopBegin ==
  /\ start = "idle" /\ stop = "idle" /\ running
  /\ stopped' = TRUE
  /\ aim' = cmd /\ stop' = "term"
  /\ UNCHANGED <<running, exits, cmd, ctx, local, group, start>>

\* signalGroup reaches the group of the child Stop has read, if it still exists.
StopTerm ==
  /\ stop = "term"
  /\ stop' = "grace"
  /\ termed' = (termed \/ (aim = child /\ procs # {}))
  /\ UNCHANGED <<fields, local, child, procs, start, aim>>

StopKill_CommandOnly ==
  /\ stop = "grace"
  /\ stop' = "last"
  /\ IF aim = child /\ procs # {} THEN procs' = {} /\ termed' = TRUE
                                   ELSE UNCHANGED <<procs, termed>>
  /\ UNCHANGED <<fields, local, child, start, aim>>

\* Five seconds have gone by.
StopKill ==
  /\ stop = "grace"
  /\ stop' = "last"
  /\ ctx' = "cancelled"
  /\ IF aim = child /\ procs # {} THEN procs' = {} /\ termed' = TRUE
                                   ELSE UNCHANGED <<procs, termed>>
  /\ UNCHANGED <<running, stopped, exits, cmd, local, child, start, aim>>

StopReturn_NoWait ==
  /\ stop = "last"
  /\ stop' = "idle" /\ aim' = 0
  /\ ctx' = "cancelled" /\ running' = FALSE
  /\ UNCHANGED <<stopped, exits, cmd, local, group, start>>

\* done is closed; or three more seconds have gone by, which is ample for the
\* supervisor unless a helper holds the pipes it reads.
StopReturn ==
  /\ \/ stop \in {"grace", "last"} /\ sup = "none"
     \/ stop = "last" /\ sup = "pump" /\ procs = {"helper"}
  /\ stop' = "idle" /\ aim' = 0
  /\ ctx' = "cancelled" /\ running' = FALSE
  /\ UNCHANGED <<stopped, exits, cmd, local, group, start>>

-----------------------------------------------------------------------------
\* The child and its helpers.

\* A child ends by itself, or because it was asked to.
Die ==
  /\ "child" \in procs
  /\ termed \/ child < MaxSpawns
  /\ procs' \in {procs \ {"child"}, {}}
  /\ UNCHANGED <<fields, local, child, termed, owner>>

HelperEnds ==
  /\ "helper" \in procs
  /\ procs' = procs \ {"helper"}
  /\ UNCHANGED <<fields, local, child, termed, owner>>

\* The watcher of exec.CommandContext: the child alone is killed.
ContextKill ==
  /\ ctx = "cancelled" /\ "child" \in procs
  /\ procs' = procs \ {"child"}
  /\ UNCHANGED <<fields, local, child, termed, owner>>

-----------------------------------------------------------------------------
\* The supervisor.

\* finish, and the returns that close done.
Ends == sup' = "none" /\ running' = FALSE

\* cmd.Start, which refuses a cancelled context.
Spawn ==
  /\ sup = "spawn" /\ ctx = "live"
  /\ sup' = "publish"
  /\ child' = child + 1 /\ termed' = FALSE
  /\ procs' \in {{"child"}} \cup (IF Helpers THEN {{"child", "helper"}} ELSE {})
  /\ UNCHANGED <<fields, first, seen, told, owner>>

SpawnFails ==
  /\ sup = "spawn"
  /\ Ends
  /\ IF first THEN start' = "failed" /\ UNCHANGED told
              ELSE told' = (IF stopped THEN "stop" ELSE "crash")
                   /\ UNCHANGED start
  /\ UNCHANGED <<stopped, exits, cmd, ctx, first, seen, group, stop, aim>>

Publish ==
  /\ sup = "publish"
  /\ sup' = "pump"
  /\ cmd' = child
  /\ first' = FALSE
  /\ start' = IF first THEN "idle" ELSE start
  /\ UNCHANGED <<running, stopped, exits, ctx, seen, told, group, stop, aim>>

Reap_CountsDown ==
  /\ sup = "pump" /\ procs = {}
  /\ sup' = "report"
  /\ seen' = stopped
  /\ exits' = IF stopped THEN exits ELSE exits - 1
  /\ UNCHANGED <<running, stopped, cmd, ctx, first, told, group, owner>>

\* Both pipes are closed and cmd.Wait has returned.
Reap ==
  /\ sup = "pump" /\ procs = {}
  /\ sup' = "report"
  /\ seen' = stopped
  /\ exits' = IF stopped THEN exits ELSE exits + 1
  /\ UNCHANGED <<running, stopped, cmd, ctx, first, told, group, owner>>

Report_ByContext ==
  /\ sup = "report"
  /\ sup' = "decide"
  /\ told' = IF ctx = "cancelled" THEN "stop" ELSE "crash"
  /\ UNCHANGED <<fields, first, seen, group, owner>>

\* OnExit(waitErr, stopped || ctx.Err() != nil)
Report ==
  /\ sup = "report"
  /\ sup' = "decide"
  /\ told' = IF seen \/ ctx = "cancelled" THEN "stop" ELSE "crash"
  /\ UNCHANGED <<fields, first, seen, group, owner>>

Decide_GivesUp ==
  /\ sup = "decide"
  /\ IF seen \/ ctx = "cancelled" THEN Ends
     ELSE sup' = "none" /\ UNCHANGED running
  /\ UNCHANGED <<stopped, exits, cmd, ctx, first, seen, told, group, owner>>

Decide ==
  /\ sup = "decide"
  /\ IF seen \/ ctx = "cancelled" THEN Ends
     ELSE sup' = "backoff" /\ UNCHANGED running
  /\ UNCHANGED <<stopped, exits, cmd, ctx, first, seen, told, group, owner>>

BackoffCancelled ==
  /\ sup = "backoff" /\ ctx = "cancelled"
  /\ Ends
  /\ UNCHANGED <<stopped, exits, cmd, ctx, first, seen, told, group, owner>>

BackoffOver ==
  /\ sup = "backoff"
  /\ sup' = "spawn"
  /\ UNCHANGED <<fields, first, seen, told, group, owner>>

-----------------------------------------------------------------------------
ProcInit ==
  /\ running = FALSE /\ stopped = FALSE /\ exits = 0 /\ cmd = 0 /\ ctx = "live"
  /\ sup = "none" /\ first = TRUE /\ seen = FALSE /\ told = "nothing"
  /\ child = 0 /\ procs = {} /\ termed = FALSE
  /\ start = "idle" /\ stop = "idle" /\ aim = 0

Supervise ==
  \/ Spawn \/ SpawnFails \/ Publish \/ Reap \/ Report \/ Decide
  \/ BackoffCancelled \/ BackoffOver

ProcNext ==
  \/ Start \/ StartFails \/ StopBegin \/ StopTerm \/ StopKill \/ StopReturn
  \/ Die \/ HelperEnds \/ ContextKill
  \/ Supervise

ProcSpec == ProcInit /\ [][ProcNext]_procVars

\* The scheduler runs every goroutine, the timers of Stop fire, and SIGKILL kills.
\* A child owes nothing: it may run for ever, and a helper too.
Fairness ==
  /\ WF_procVars(Supervise) /\ WF_procVars(ContextKill) /\ WF_procVars(StartFails)
  /\ WF_procVars(StopTerm) /\ WF_procVars(StopKill \/ StopReturn)

FairSpec == ProcSpec /\ Fairness

-----------------------------------------------------------------------------
\* Properties.

SupSteps == {"none", "spawn", "publish", "pump", "report", "decide", "backoff"}

\* Every variable has its type.
TypeOK ==
  /\ running \in BOOLEAN /\ stopped \in BOOLEAN /\ exits \in Nat
  /\ cmd \in Nat /\ ctx \in {"live", "cancelled"}
  /\ sup \in SupSteps /\ first \in BOOLEAN /\ seen \in BOOLEAN
  /\ told \in {"nothing", "stop", "crash"}
  /\ child \in Nat /\ procs \subseteq {"child", "helper"} /\ termed \in BOOLEAN
  /\ start \in {"idle", "waiting", "failed"}
  /\ stop \in {"idle", "term", "grace", "last"} /\ aim \in Nat

\* When Stop has returned the child is gone and none will be started, whatever
\* the supervisor was about to do when Stop was called: a reconnect never races
\* the old process for its ports.
NothingOutlivesStop ==
  (stopped /\ stop = "idle") => "child" \notin procs /\ sup \in {"none", "pump",
                                                       "report", "decide"}

\* A child that Stop ended is never reported as one that died.
StopIsNoCrash == [][(Report /\ termed) => told' = "stop"]_procVars

\* Nobody waits for Stop longer than its timers.
StopReturns == stop # "idle" ~> stop = "idle"

\* A child that died is replaced, unless it is stopped or cannot be started.
CrashIsUndone == sup = "report" ~> (sup = "publish" \/ stopped \/ ~running)
=============================================================================
