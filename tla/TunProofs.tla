----------------------------- MODULE TunProofs -----------------------------
(***************************************************************************)
(* What holds of a supervised process whatever the child does, and of the  *)
(* tunnel whose process it is: it leaves nothing behind, for any number of *)
(* children, networks and crashes, provided a preference never has more    *)
(* rules than removeRoutes deletes.                                        *)
(***************************************************************************)
EXTENDS TunDevice, TLAPS

-----------------------------------------------------------------------------
\* The supervised process.

\* A process of the group exists only while the supervisor has it.
Tended == sup \notin {"publish", "pump"} => procs = {}

\* Stop announces itself before it signals anything.
Announced ==
  /\ stop # "idle" => stopped
  /\ (termed /\ sup \in {"publish", "pump"}) => stopped
  /\ (termed /\ sup = "report") => (seen \/ ctx = "cancelled")

\* Once Stop has returned the supervisor has no way back to a spawn.
Over ==
  (stopped /\ stop = "idle") =>
    /\ ctx = "cancelled" /\ "child" \notin procs
    /\ sup \in {"none", "pump", "report", "decide"}

\* Not running, it has no child and will have none.
Quiet ==
  /\ ~running => /\ "child" \notin procs
                 /\ \/ sup = "none"
                    \/ sup \in {"pump", "report", "decide"} /\ ctx = "cancelled"
  /\ start = "failed" => sup = "none"
  /\ (sup # "none" /\ first) => sup \in {"spawn", "publish"} /\ start = "waiting"

IInv == TypeOK /\ Tended /\ Announced /\ Over /\ Quiet

LEMMA InitIInv == ProcInit => IInv
<1> SUFFICES ASSUME ProcInit PROVE IInv
  OBVIOUS
<1>1. TypeOK
  BY DEF ProcInit, TypeOK, SupSteps
<1>2. Tended /\ Announced /\ Over /\ Quiet
  BY DEF ProcInit, Tended, Announced, Over, Quiet
<1> QED BY <1>1, <1>2 DEF IInv

LEMMA StepIInv == IInv /\ [ProcNext]_procVars => IInv'
<1> SUFFICES ASSUME IInv, [ProcNext]_procVars PROVE IInv'
  OBVIOUS
<1> USE DEF IInv, TypeOK, SupSteps, Tended, Announced, Over, Quiet,
            fields, local, group, owner
<1>1. CASE Start BY <1>1 DEF Start
<1>2. CASE StartFails BY <1>2 DEF StartFails
<1>3. CASE StopBegin BY <1>3 DEF StopBegin
<1>4. CASE StopTerm BY <1>4 DEF StopTerm
<1>5. CASE StopKill BY <1>5 DEF StopKill
<1>6. CASE StopReturn BY <1>6 DEF StopReturn
<1>7. CASE Die BY <1>7 DEF Die
<1>8. CASE HelperEnds BY <1>8 DEF HelperEnds
<1>9. CASE ContextKill BY <1>9 DEF ContextKill
<1>10. CASE Spawn
  <2>1. procs' = {"child"} \/ procs' = {"child", "helper"}
    BY <1>10 DEF Spawn
  <2>2. /\ UNCHANGED <<running, stopped, exits, cmd, ctx, first, seen, told,
                       start, stop, aim>>
        /\ sup = "spawn" /\ ctx = "live" /\ sup' = "publish"
        /\ child' = child + 1 /\ termed' = FALSE
    BY <1>10 DEF Spawn
  <2>3. ~(stopped /\ stop = "idle")
    BY <2>2
  <2>4. TypeOK'
    <3>1. procs' \subseteq {"child", "helper"}
      BY <2>1
    <3>2. child' \in Nat /\ cmd' \in Nat /\ exits' \in Nat /\ aim' \in Nat
      BY <2>2
    <3>3. /\ running' \in BOOLEAN /\ stopped' \in BOOLEAN
          /\ first' \in BOOLEAN /\ seen' \in BOOLEAN /\ termed' \in BOOLEAN
      BY <2>2
    <3>4. /\ ctx' \in {"live", "cancelled"} /\ sup' \in SupSteps
          /\ told' \in {"nothing", "stop", "crash"}
          /\ start' \in {"idle", "waiting", "failed"}
          /\ stop' \in {"idle", "term", "grace", "last"}
      BY <2>2
    <3> QED BY <3>1, <3>2, <3>3, <3>4
  <2>5. Tended' /\ Announced' /\ Over' /\ Quiet'
    BY <2>2, <2>3
  <2> QED BY <2>4, <2>5 DEF IInv
<1>11. CASE SpawnFails
  <2>1. /\ UNCHANGED <<stopped, exits, cmd, ctx, first, seen, group, stop, aim>>
        /\ sup = "spawn" /\ sup' = "none" /\ running' = FALSE
        /\ start' \in {start, "failed"} /\ told' \in {told, "stop", "crash"}
    BY <1>11 DEF SpawnFails, Ends
  <2> QED BY <2>1
<1>12. CASE Publish BY <1>12 DEF Publish
<1>13. CASE Reap BY <1>13 DEF Reap
<1>14. CASE Report BY <1>14 DEF Report
<1>15. CASE Decide BY <1>15 DEF Decide, Ends
<1>16. CASE BackoffCancelled BY <1>16 DEF BackoffCancelled, Ends
<1>17. CASE BackoffOver BY <1>17 DEF BackoffOver
<1>18. CASE UNCHANGED procVars BY <1>18 DEF procVars
<1> QED
  BY <1>1, <1>2, <1>3, <1>4, <1>5, <1>6, <1>7, <1>8, <1>9, <1>10, <1>11,
     <1>12, <1>13, <1>14, <1>15, <1>16, <1>17, <1>18 DEF ProcNext, Supervise

LEMMA AlwaysIInv == ProcSpec => []IInv
BY InitIInv, StepIInv, PTL DEF ProcSpec

\* Every variable of the supervisor keeps its type.
THEOREM ChildTypeCorrect == ProcSpec => []TypeOK
<1>1. IInv => TypeOK
  BY DEF IInv
<1> QED BY <1>1, AlwaysIInv, PTL

\* Whatever the child and its helpers do, and whenever Stop is called, no child
\* is alive and none can be started once it has returned.
THEOREM StopIsSynchronous == ProcSpec => []NothingOutlivesStop
<1>1. IInv => NothingOutlivesStop
  BY DEF IInv, Over, NothingOutlivesStop
<1> QED BY <1>1, AlwaysIInv, PTL

\* A child that Stop ended is never reported as one that died.
THEOREM StopsAreNoCrashes == ProcSpec => StopIsNoCrash
<1>1. IInv /\ [ProcNext]_procVars => [(Report /\ termed) => told' = "stop"]_procVars
  BY DEF IInv, Announced, Report
<1> QED BY <1>1, AlwaysIInv, PTL DEF ProcSpec, StopIsNoCrash

-----------------------------------------------------------------------------
\* The tunnel.

EnoughTries == Nets <= Tries

\* A daemon that is not there has no memory.
Dead ==
  ~up => /\ pc = "idle" /\ todo = {} /\ ~tun /\ ~applied
         /\ ~running /\ start = "idle" /\ stop = "idle"

\* Which step the owner of the process is at, and which of its own.
Ownership ==
  /\ orphan => ~up
  /\ start # "idle" => pc = "starting"
  /\ stop # "idle" => pc = "halting"
  /\ pc = "halting" /\ stop = "idle" => ~running
  /\ pc \in {"open", "failed", "delete", "stale"} => ~running
  /\ pc = "idle" /\ ~tun => ~running

\* Where there is a handle, and where the routes are known to be in place.
Handle ==
  /\ pc \in {"open", "starting", "await", "link", "clear", "route", "core",
             "nets", "divert", "unwind", "failed"} => tun
  /\ pc \in {"stop", "delete", "stale"} => ~tun
  /\ applied <=> (pc = "stop" \/ (pc = "idle" /\ tun))

Bare == {"open", "starting", "await", "link", "clear", "route", "halt",
         "halting", "failed", "delete"}
Escape(n) == [p \in Prefs |-> CASE p = "core" -> 1 [] p = "nets" -> n
                                [] OTHER -> 0]

\* The rules and the route at every step.
Counted ==
  /\ \A p \in Prefs : rules[p] <= Tries
  /\ Removing => \A p \in Prefs \ todo : rules[p] = 0
  /\ pc \in Bare => rules = NoRules /\ ~route
  /\ pc = "core" => rules = NoRules
  /\ pc = "nets" => rules = Escape(0)
  /\ pc = "divert" => \E n \in NetCounts : rules = Escape(n)
  /\ pc = "idle" /\ tun => \E n \in NetCounts : rules = Installation(scope, n)
  /\ up /\ pc = "idle" /\ ~tun => rules = NoRules /\ ~route /\ ~device

TunInv == IInv /\ TunTypeOK /\ Dead /\ Ownership /\ Handle /\ Counted

-----------------------------------------------------------------------------
\* The supervised process under its owner.

LEMMA LoseIInv == IInv /\ Lose => IInv'
<1> SUFFICES ASSUME IInv, Lose PROVE IInv'
  OBVIOUS
<1>1. TypeOK'
  BY DEF IInv, Lose, TypeOK, SupSteps
<1>2. Tended' /\ Announced' /\ Over' /\ Quiet'
  BY DEF Lose, Tended, Announced, Over, Quiet
<1> QED BY <1>1, <1>2 DEF IInv

\* The steps that are not the owner's leave it nothing to notice but an end.
LEMMA ProcessStep ==
  ASSUME IInv, Process
  PROVE  /\ [ProcNext]_procVars
         /\ running' => running
         /\ start' # "idle" => start # "idle"
         /\ stop' # "idle" => stop # "idle"
         /\ (stop # "idle" /\ stop' = "idle") => ~running'
<1>1. [ProcNext]_procVars
  BY DEF Process, ProcNext
<1>2. CASE StopTerm \/ StopKill \/ StopReturn
  BY <1>1, <1>2 DEF StopTerm, StopKill, StopReturn, fields, local, group, owner
<1>3. CASE Die \/ HelperEnds \/ ContextKill
  BY <1>1, <1>3 DEF Die, HelperEnds, ContextKill, fields, owner
<1>4. CASE Spawn \/ Publish \/ Reap \/ Report \/ Decide \/ BackoffCancelled
           \/ BackoffOver
  BY <1>1, <1>4 DEF Spawn, Publish, Reap, Report, Decide, BackoffCancelled,
                    BackoffOver, Ends, fields, owner, group
<1>5. CASE SpawnFails
  BY <1>1, <1>5 DEF SpawnFails, Ends, IInv, Quiet
<1> QED BY <1>2, <1>3, <1>4, <1>5 DEF Process, Supervise

LEMMA TunKeepsIInv ==
  ASSUME IInv, [TunNext]_allVars
  PROVE  IInv'
<1>1. CASE Lose
  BY <1>1, LoseIInv
<1>2. CASE UNCHANGED procVars
  BY <1>2, StepIInv
<1>3. CASE Start \/ StartFails \/ StopBegin \/ Process
  BY <1>3, ProcessStep, StepIInv DEF ProcNext
<1>4. Lose \/ UNCHANGED procVars \/ Start \/ StartFails \/ StopBegin \/ Process
  BY DEF TunNext, NewTun, TearDown, Starting, Launch, CannotOpen, CannotLaunch,
         Launched, Await, Configure, AddRoute, AddCore, AddNets, AddDivert,
         Stopping, RemoveRule, Flush, Halt, Halted, DeleteDevice, World,
         KillDaemon,
         PowerCut, StartDaemon, Appear, Vanish, OrphanDies, allVars
<1> QED BY <1>1, <1>2, <1>3, <1>4

-----------------------------------------------------------------------------
\* The rest of the invariant.

TunRest == TunTypeOK /\ Dead /\ Ownership /\ Handle /\ Counted

LEMMA InitTun == TunInit => TunInv
<1> SUFFICES ASSUME TunInit PROVE TunInv
  OBVIOUS
<1>1. IInv
  BY InitIInv DEF TunInit
<1>2. TunTypeOK /\ Dead /\ Ownership /\ Handle
  BY DEF TunInit, ProcInit, TunTypeOK, Dead, Ownership, Handle, Scopes,
         TunSteps,
         Prefs, NoRules
<1>3. Counted
  BY TriesAssumption DEF TunInit, Counted, NoRules, Removing, Bare, Prefs
<1> QED BY <1>1, <1>2, <1>3 DEF TunInv

LEMMA TunSame == TunInv /\ UNCHANGED allVars => TunInv'
<1> SUFFICES ASSUME TunInv, UNCHANGED allVars PROVE TunInv'
  OBVIOUS
<1>1. IInv'
  BY StepIInv DEF allVars, TunInv
<1>2. UNCHANGED tunVars /\ UNCHANGED <<running, start, stop>>
  BY DEF allVars, procVars, fields, owner
<1> QED BY <1>1, <1>2 DEF TunInv, TunTypeOK, Dead, Ownership, Handle, Counted,
                          Removing, tunVars, object, network, life

\* What the commands of installRoutes make of the rules.
LEMMA AddRule ==
  ASSUME rules \in [Prefs -> Nat], NEW p \in Prefs, NEW n \in Nat,
         AddRules(p, n)
  PROVE  /\ DOMAIN rules' = Prefs /\ rules' = [q \in Prefs |-> rules'[q]]
         /\ rules'[p] = rules[p] + n
         /\ \A q \in Prefs \ {p} : rules'[q] = rules[q]
BY DEF AddRules

LEMMA CoreRule == rules = NoRules /\ AddRules("core", 1) => rules' = Escape(0)
<1> SUFFICES ASSUME rules = NoRules, AddRules("core", 1)
             PROVE  rules' = Escape(0)
  OBVIOUS
<1>1. rules \in [Prefs -> Nat] /\ "core" \in Prefs
  BY DEF NoRules, Prefs
<1>2. /\ rules' = [q \in Prefs |-> rules'[q]]
      /\ rules'["core"] = 1 /\ \A q \in Prefs \ {"core"} : rules'[q] = 0
  BY <1>1, AddRule DEF NoRules
<1> QED BY <1>2 DEF Escape

LEMMA NetRules ==
  ASSUME NEW n \in Nat, rules = Escape(0), AddRules("nets", n)
  PROVE  rules' = Escape(n)
<1>1. rules \in [Prefs -> Nat] /\ "nets" \in Prefs
  BY DEF Escape, Prefs
<1>2. /\ rules' = [q \in Prefs |-> rules'[q]]
      /\ rules'["nets"] = n
      /\ \A q \in Prefs \ {"nets"} : rules'[q] = rules[q]
  BY <1>1, AddRule DEF Escape
<1> QED BY <1>2 DEF Escape

LEMMA DivertRule ==
  ASSUME scope \in Scopes, NEW n \in Nat, rules = Escape(n), AddRules(scope, 1)
  PROVE  rules' = Installation(scope, n)
<1>1. rules \in [Prefs -> Nat] /\ scope \in Prefs
  BY DEF Escape, Prefs, Scopes
<1>2. /\ rules' = [q \in Prefs |-> rules'[q]]
      /\ rules'[scope] = rules[scope] + 1
      /\ \A q \in Prefs \ {scope} : rules'[q] = rules[q]
  BY <1>1, AddRule
<1>3. scope # "core" /\ scope # "nets" /\ rules[scope] = 0
  BY <1>1 DEF Scopes, Escape
<1>4. \A q \in Prefs : rules'[q] = Installation(scope, n)[q]
  BY <1>1, <1>2, <1>3 DEF Installation, Escape
<1> QED BY <1>2, <1>4 DEF Installation

LEMMA NetCountsBound ==
  ASSUME EnoughTries, NEW n \in NetCounts
  PROVE  n \in Nat /\ n <= Tries
BY NetsAssumption, TriesAssumption DEF NetCounts, EnoughTries

LEMMA StepTun ==
  ASSUME EnoughTries, TunInv, TunNext
  PROVE  TunInv'
<1>0. IInv'
  BY TunKeepsIInv DEF TunInv
<1> USE NetsAssumption, TriesAssumption
    DEF TunTypeOK, Dead, Ownership, Handle, Counted, Removing, Bare, TunSteps,
        Scopes, procVars, fields, owner, object, network, life
<1> SUFFICES TunTypeOK' /\ Dead' /\ Ownership' /\ Handle' /\ Counted'
  BY <1>0 DEF TunInv
<1>1. TunTypeOK /\ Dead /\ Ownership /\ Handle /\ Counted /\ IInv
  BY DEF TunInv
<1>2. CASE NewTun
  BY <1>1, <1>2 DEF NewTun
<1>3. CASE Launch
  BY <1>1, <1>3 DEF Launch, Start
<1>4. CASE CannotOpen
  BY <1>1, <1>4 DEF CannotOpen
<1>5. CASE CannotLaunch
  BY <1>1, <1>5 DEF CannotLaunch, StartFails
<1>6. CASE Launched
  BY <1>1, <1>6 DEF Launched
<1>7. CASE Await
  BY <1>1, <1>7 DEF Await
<1>8. CASE Configure
  BY <1>1, <1>8 DEF Configure
<1>9. CASE AddRoute
  BY <1>1, <1>9 DEF AddRoute, Unwind
<1>10. CASE AddCore
  <2>1. rules = NoRules /\ tun /\ ~applied /\ up
    BY <1>1, <1>10 DEF AddCore
  <2>2. CASE pc' = "nets" /\ AddRules("core", 1) /\ UNCHANGED todo
    <3>1. rules' = Escape(0)
      BY <2>1, <2>2, CoreRule
    <3>2. rules' \in [Prefs -> Nat] /\ \A p \in Prefs : rules'[p] <= Tries
      BY <3>1 DEF Escape, Prefs
    <3> QED BY <1>1, <1>10, <2>1, <2>2, <3>1, <3>2 DEF AddCore
  <2>3. CASE Unwind /\ UNCHANGED rules
    BY <1>1, <1>10, <2>1, <2>3 DEF AddCore, Unwind
  <2> QED BY <1>10, <2>2, <2>3 DEF AddCore
<1>11. CASE AddNets
  <2>1. rules = Escape(0) /\ tun /\ ~applied /\ up
    BY <1>1, <1>11 DEF AddNets
  <2>2. PICK n \in NetCounts : AddRules("nets", n)
    BY <1>11 DEF AddNets
  <2>3. n \in Nat /\ n <= Tries
    BY NetCountsBound
  <2>4. rules' = Escape(n)
    BY <2>1, <2>2, <2>3, NetRules
  <2>5. rules' \in [Prefs -> Nat] /\ \A p \in Prefs : rules'[p] <= Tries
    BY <2>3, <2>4 DEF Escape, Prefs
  <2> QED BY <1>1, <1>11, <2>1, <2>4, <2>5 DEF AddNets
<1>12. CASE AddDivert
  <2>0. PICK n \in NetCounts : rules = Escape(n)
    BY <1>1, <1>12 DEF AddDivert
  <2>1. tun /\ ~applied /\ up /\ n \in Nat /\ n <= Tries
    BY <1>1, <1>12, NetCountsBound DEF AddDivert
  <2>2. CASE /\ AddRules(scope, 1) /\ applied' = TRUE /\ pc' = "idle"
             /\ UNCHANGED todo
    <3>1. rules' = Installation(scope, n)
      BY <1>1, <2>0, <2>1, <2>2, DivertRule
    <3>2. rules' \in [Prefs -> Nat] /\ \A p \in Prefs : rules'[p] <= Tries
      BY <2>1, <3>1 DEF Installation, Prefs
    <3> QED BY <1>1, <1>12, <2>1, <2>2, <3>1, <3>2 DEF AddDivert
  <2>3. CASE Unwind /\ UNCHANGED <<rules, applied>>
    BY <1>1, <1>12, <2>1, <2>3 DEF AddDivert, Unwind
  <2> QED BY <1>12, <2>2, <2>3 DEF AddDivert
<1>13. CASE RemoveRule
  <2>1. PICK p \in todo :
          /\ rules' = [rules EXCEPT ![p] = IF @ > Tries THEN @ - Tries ELSE 0]
          /\ todo' = todo \ {p}
    BY <1>13 DEF RemoveRule
  <2>2. rules' = [rules EXCEPT ![p] = 0]
    <3>1. p \in Prefs /\ rules[p] \in Nat /\ rules[p] <= Tries
      BY <1>1
    <3>2. ~(rules[p] > Tries)
      BY <3>1
    <3> QED BY <2>1, <3>2
  <2>3. rules' \in [Prefs -> Nat] /\ \A q \in Prefs : rules'[q] <= Tries
    BY <1>1, <2>2
  <2>4. \A q \in Prefs \ todo' : rules'[q] = 0
    BY <1>1, <1>13, <2>1, <2>2 DEF RemoveRule
  <2>5. rules = NoRules => rules' = NoRules
    BY <1>1, <2>2 DEF NoRules
  <2> QED BY <1>1, <1>13, <2>1, <2>3, <2>4, <2>5 DEF RemoveRule
<1>14. CASE Flush
  <2>1. rules = NoRules
    BY <1>1, <1>14 DEF Flush, NoRules
  <2>2. pc' \in {"route", "delete", "halt"} /\ todo' = {} /\ route' = FALSE
    BY <1>14 DEF Flush
  <2>3. /\ pc = "clear" => pc' = "route"
        /\ pc = "stale" => pc' = "delete"
        /\ pc \in {"stop", "unwind"} => pc' = "halt"
    BY <1>14 DEF Flush
  <2>4. applied' = FALSE
    BY <1>1, <1>14 DEF Flush
  <2> QED BY <1>1, <1>14, <2>1, <2>2, <2>3, <2>4 DEF Flush
<1>15. CASE TearDown
  BY <1>1, <1>15 DEF TearDown
<1>16. CASE Halt
  BY <1>1, <1>16 DEF Halt, StopBegin
<1>17. CASE Halted
  BY <1>1, <1>17 DEF Halted
<1>18. CASE DeleteDevice
  BY <1>1, <1>18 DEF DeleteDevice
<1>19. CASE KillDaemon
  <2>1. /\ up' = FALSE /\ tun' = FALSE /\ applied' = FALSE /\ pc' = "idle"
        /\ todo' = {} /\ ~running' /\ start' = "idle" /\ stop' = "idle"
        /\ scope' = scope /\ crashes' = crashes + 1 /\ orphan' \in BOOLEAN
    BY <1>1, <1>19 DEF KillDaemon, Lose
  <2>2. UNCHANGED network
    BY <1>19 DEF KillDaemon
  <2>7. TunTypeOK'
    <3>1. /\ up' \in BOOLEAN /\ tun' \in BOOLEAN /\ applied' \in BOOLEAN
          /\ orphan' \in BOOLEAN
      BY <2>1
    <3>2. /\ scope' \in Scopes /\ pc' \in TunSteps /\ todo' \subseteq Prefs
          /\ crashes' \in Nat
      BY <1>1, <2>1
    <3>3. /\ device' \in BOOLEAN /\ rules' \in [Prefs -> Nat]
          /\ route' \in BOOLEAN
      BY <1>1, <2>1, <2>2
    <3> QED BY <3>1, <3>2, <3>3
  <2>8. Dead' /\ Ownership' /\ Handle'
    BY <1>1, <2>1, <2>2
  <2>9. Counted'
    BY <1>1, <2>1, <2>2
  <2> QED BY <2>7, <2>8, <2>9
<1>20. CASE PowerCut
  <2>1. /\ up' = FALSE /\ tun' = FALSE /\ applied' = FALSE /\ pc' = "idle"
        /\ todo' = {} /\ ~running' /\ start' = "idle" /\ stop' = "idle"
        /\ scope' = scope /\ crashes' = crashes + 1 /\ orphan' = FALSE
    BY <1>20 DEF PowerCut, Lose
  <2>2. device' = FALSE /\ route' = FALSE /\ rules' = NoRules
    BY <1>20 DEF PowerCut
  <2>3. rules' \in [Prefs -> Nat] /\ \A p \in Prefs : rules'[p] <= Tries
    BY <2>2 DEF NoRules
  <2>7. TunTypeOK'
    <3>1. /\ up' \in BOOLEAN /\ tun' \in BOOLEAN /\ applied' \in BOOLEAN
          /\ orphan' \in BOOLEAN
      BY <2>1
    <3>2. /\ scope' \in Scopes /\ pc' \in TunSteps /\ todo' \subseteq Prefs
          /\ crashes' \in Nat
      BY <1>1, <2>1
    <3>3. /\ device' \in BOOLEAN /\ rules' \in [Prefs -> Nat]
          /\ route' \in BOOLEAN
      BY <1>1, <2>1, <2>2, <2>3
    <3> QED BY <3>1, <3>2, <3>3
  <2>8. Dead' /\ Ownership' /\ Handle'
    BY <1>1, <2>1, <2>2, <2>3
  <2>9. Counted'
    BY <1>1, <2>1, <2>2, <2>3
  <2> QED BY <2>7, <2>8, <2>9
<1>21. CASE StartDaemon
  BY <1>1, <1>21 DEF StartDaemon
<1>22. CASE Appear
  BY <1>1, <1>22 DEF Appear, IInv, Quiet
<1>23. CASE Vanish
  BY <1>1, <1>23 DEF Vanish
<1>24. CASE OrphanDies
  BY <1>1, <1>24 DEF OrphanDies
<1>25. CASE Process
  BY <1>1, <1>25, ProcessStep DEF Process, tunVars
<1> QED BY <1>2, <1>3, <1>4, <1>5, <1>6, <1>7, <1>8, <1>9, <1>10, <1>11,
  <1>12, <1>13, <1>14, <1>15, <1>16, <1>17, <1>18, <1>19, <1>20, <1>21, <1>22,
  <1>23, <1>24, <1>25 DEF TunNext, Starting, Stopping, World

LEMMA AlwaysTunInv ==
  ASSUME EnoughTries
  PROVE  TunSpec => []TunInv
<1>1. TunInv /\ [TunNext]_allVars => TunInv'
  BY StepTun, TunSame
<1> QED BY InitTun, <1>1, PTL DEF TunSpec

\* Every variable of the tunnel keeps its type.
THEOREM TunTypeCorrect ==
  ASSUME EnoughTries
  PROVE  TunSpec => []TunTypeOK
<1>1. TunInv => TunTypeOK
  BY DEF TunInv
<1> QED BY <1>1, AlwaysTunInv, PTL

\* A daemon without a tunnel has left no rule, route, device or process.
THEOREM NothingIsStranded ==
  ASSUME EnoughTries
  PROVE  TunSpec => []NothingStranded
<1>1. TunInv => NothingStranded
  BY DEF TunInv, Ownership, Counted, IInv, Quiet, NothingStranded
<1> QED BY <1>1, AlwaysTunInv, PTL

\* A tunnel in use has its own rules, once each, and none of an earlier run.
THEOREM RulesAreExact ==
  ASSUME EnoughTries
  PROVE  TunSpec => []OneSetOfRules
<1>1. TunInv => OneSetOfRules
  BY DEF TunInv, Handle, Counted, OneSetOfRules
<1> QED BY <1>1, AlwaysTunInv, PTL

\* Nothing is diverted before the core's sockets and the LAN have their escapes.
THEOREM EscapesAreFirst ==
  ASSUME EnoughTries
  PROVE  TunSpec => EscapesComeFirst
<1>1. ASSUME TunInv, [TunNext]_allVars, NEW p \in Scopes, rules'[p] > rules[p]
      PROVE  rules["core"] = 1 /\ rules["nets"] \in NetCounts
  <2>1. rules \in [Prefs -> Nat] /\ p \in Prefs /\ "core" \in Prefs
        /\ "nets" \in Prefs /\ p # "core" /\ p # "nets"
    BY <1>1 DEF TunInv, TunTypeOK, Scopes, Prefs
  <2>2. CASE AddDivert
    <3>1. PICK n \in NetCounts : rules = Escape(n)
      BY <1>1, <2>2 DEF TunInv, Counted, AddDivert
    <3> QED BY <3>1, <2>1 DEF Escape
  <2>3. CASE AddCore
    BY <1>1, <2>1, <2>3, AddRule DEF AddCore
  <2>4. CASE AddNets
    <3>1. PICK n \in Nat : AddRules("nets", n)
      BY <2>4, NetCountsBound DEF AddNets
    <3> QED BY <1>1, <2>1, <3>1, AddRule
  <2>5. CASE RemoveRule
    <3>1. PICK q \in todo :
            rules' = [rules EXCEPT ![q] = IF @ > Tries THEN @ - Tries ELSE 0]
      BY <2>5 DEF RemoveRule
    <3>2. rules'[p] \in Nat /\ rules[p] \in Nat /\ rules'[p] <= rules[p]
      BY <2>1, <3>1, TriesAssumption
    <3> QED BY <1>1, <2>1, <3>2
  <2>6. CASE PowerCut
    BY <1>1, <2>1, <2>6 DEF PowerCut, NoRules
  <2>7. CASE UNCHANGED rules
    BY <1>1, <2>1, <2>7
  <2> QED BY <1>1, <2>2, <2>3, <2>4, <2>5, <2>6, <2>7
    DEF TunNext, NewTun, TearDown, Starting, Launch, CannotOpen, CannotLaunch,
        Launched, Await, Configure, AddRoute, Stopping, Flush, Halt, Halted,
        DeleteDevice, World, KillDaemon, StartDaemon, Appear, Vanish,
        OrphanDies, Process,
        allVars, tunVars, network
<1>2. TunInv /\ [TunNext]_allVars
        => [\A p \in Scopes : (rules'[p] > rules[p])
              => rules["core"] = 1 /\ rules["nets"] \in NetCounts]_allVars
  BY <1>1
<1> QED BY <1>2, AlwaysTunInv, PTL DEF TunSpec, EscapesComeFirst
=============================================================================
