------------------------------ MODULE Updater ------------------------------
(* The daemon's updater: it asks the release page, fetches and verifies the  *)
(* bundle of a newer release and hands it to the bundle's own installer,     *)
(* which outlives the daemon it replaces.  The release site, the installer   *)
(* and the idle connections of Go's HTTP transport are external.  A bundle   *)
(* is its digest; a request is one step, answered or failed.                 *)
EXTENDS Integers, Sequences

CONSTANTS
  Callers,     \* threads that check or install: handlers and the daily timer
  Versions,    \* what a tag can say: a sequence of numbers, or Unparseable
  Unparseable, \* "dev", or anything else that is not dotted numbers
  Running,     \* the version of the daemon at the start
  Bundles,     \* digests a bundle can have
  Nothing,     \* no asset, no line in the checksum file, no job
  MaxAsks,     \* bound: checks and installs asked for
  MaxEvents    \* bound: publications, tunnel changes and daemon deaths

VARIABLES
  newest,     \* tag on the release page
  site,       \* version -> [bundle, sums]: what the site serves for the tag
  tunnel,     \* e.connected, with a SOCKS inbound (updateroute.go:48-53)
  idle,       \* hosts with an idle connection dialled straight from the WAN
  version,    \* daemon.Version of the running process
  installing, stage, target,   \* the updater's claim and progress
  info,       \* UpdateInfo of the last check: [latest, available, error]
  job,        \* caller -> what its goroutine is doing
  dir,        \* /tmp/xwrt-update: [file, unpacked]
  installers, \* processes running install.sh
  handed,     \* this process has started an installer
  sent,       \* the last request: [tunnel, by]
  asks, events

progressVars == <<installing, stage, target>>
worldVars == <<newest, site, tunnel, version>>
updVars == <<worldVars, idle, progressVars, info, job, dir, installers, handed,
             sent, asks, events>>

Hosts == {"api", "assets"}
Idle == [at |-> "idle"]
NoInfo == [latest |-> Nothing, available |-> FALSE, error |-> FALSE]

------------------------------------------------------------------------------
(* Newer compares up to three numbers; what cannot be parsed is never newer. *)
Number(v, i) == IF i <= Len(v) THEN v[i] ELSE 0
Parses(v) == v # Unparseable /\ Len(v) \in 1 .. 3
Newer(latest, current) ==
  /\ Parses(latest) /\ Parses(current)
  /\ \E i \in 1 .. 3 : /\ Number(latest, i) > Number(current, i)
                       /\ \A k \in 1 .. i - 1 :
                            Number(latest, k) = Number(current, k)

(* What Latest returns: the tag, and which of the two assets the page lists. *)
Release == [tag |-> newest, bundle |-> site[newest].bundle # Nothing,
            sums |-> site[newest].sums # Nothing]
Installable(rel) == rel.bundle /\ rel.sums

(* A request to a host: an idle connection is reused, a new one is dialled by *)
(* the tunnel if it is up and is left idle afterwards.                        *)
DialRoute == IF tunnel THEN "tunnel" ELSE "line"
RouteTo(host) == IF host \in idle THEN "line" ELSE DialRoute
Request(host) ==
  /\ sent' = [tunnel |-> tunnel, by |-> RouteTo(host)]
  /\ idle' = IF RouteTo(host) = "line" THEN idle \cup {host} ELSE idle

------------------------------------------------------------------------------
(* CheckUpdate: the answer replaces info whole; progress is kept apart.      *)
BeginCheck(c) ==
  /\ job[c] = Idle /\ asks < MaxAsks
  /\ asks' = asks + 1
  /\ Request("api")
  /\ \E found \in {[NoInfo EXCEPT !.error = TRUE],
                  [latest |-> newest, available |-> Newer(newest, version),
                   error |-> Newer(newest, version) /\ ~Installable(Release)]} :
       job' = [job EXCEPT ![c] = [at |-> "checked", found |-> found]]
  /\ UNCHANGED <<worldVars, progressVars, info, dir, installers, handed,
                 events>>

StoreCheck_WithProgress(c) ==
  /\ job[c].at = "checked"
  /\ info' = job[c].found
  /\ job' = [job EXCEPT ![c] = Idle]
  /\ stage' = Nothing /\ target' = Nothing
  /\ UNCHANGED <<worldVars, idle, installing, dir, installers, handed, sent,
                 asks, events>>

StoreCheck(c) ==
  /\ job[c].at = "checked"
  /\ info' = job[c].found
  /\ job' = [job EXCEPT ![c] = Idle]
  /\ UNCHANGED <<worldVars, idle, progressVars, dir, installers, handed, sent,
                 asks, events>>

(* claimInstall, for InstallUpdate and StartUpdate alike.                    *)
ClaimInstall_Unguarded(c) ==
  /\ job[c] = Idle /\ asks < MaxAsks
  /\ asks' = asks + 1
  /\ installing' = TRUE /\ stage' = "checking" /\ target' = Nothing
  /\ info' = [info EXCEPT !.error = FALSE]
  /\ job' = [job EXCEPT ![c] = [at |-> "latest"]]
  /\ UNCHANGED <<worldVars, idle, dir, installers, handed, sent, events>>

ClaimInstall(c) ==
  /\ job[c] = Idle /\ asks < MaxAsks
  /\ asks' = asks + 1
  /\ \/ /\ installing
        /\ UNCHANGED <<progressVars, info, job>>
     \/ /\ ~installing
        /\ installing' = TRUE /\ stage' = "checking" /\ target' = Nothing
        /\ info' = [info EXCEPT !.error = FALSE]
        /\ job' = [job EXCEPT ![c] = [at |-> "latest"]]
  /\ UNCHANGED <<worldVars, idle, dir, installers, handed, sent, events>>

(* done(err): every way out of runInstall before the installer has started.  *)
Done_KeepsClaim(c) ==
  /\ stage' = "failed"
  /\ info' = [info EXCEPT !.error = TRUE]
  /\ job' = [job EXCEPT ![c] = Idle]
  /\ UNCHANGED <<installing, target>>

Done(c) ==
  /\ installing' = FALSE /\ stage' = "failed"
  /\ info' = [info EXCEPT !.error = TRUE]
  /\ job' = [job EXCEPT ![c] = Idle]
  /\ UNCHANGED target

(* runInstall asks for the newest release; only an installable newer one      *)
(* goes on, with the directory emptied.                                      *)
AskLatest(c) ==
  /\ job[c].at = "latest"
  /\ Request("api")
  /\ \/ /\ Done(c)
        /\ UNCHANGED dir
     \/ /\ Newer(newest, version) /\ Installable(Release)
        /\ target' = newest
        /\ dir' = [file |-> Nothing, unpacked |-> Nothing]
        /\ job' = [job EXCEPT ![c] = [at |-> "sums", tag |-> newest]]
        /\ UNCHANGED <<installing, stage, info>>
  /\ UNCHANGED <<worldVars, installers, handed, asks, events>>

(* FetchWith: the checksums come first, by the URL the page gave.            *)
FetchSums(c) ==
  /\ job[c].at = "sums"
  /\ Request("assets")
  /\ \/ Done(c)
     \/ /\ site[job[c].tag].sums \in Bundles
        /\ stage' = "downloading"
        /\ job' = [job EXCEPT ![c] = [at |-> "bundle", tag |-> job[c].tag,
                                      want |-> site[job[c].tag].sums]]
        /\ UNCHANGED <<installing, target, info>>
  /\ UNCHANGED <<worldVars, dir, installers, handed, asks, events>>

(* download writes what arrives and digests it on the way, on a transport    *)
(* of its own; a download that breaks off is removed.                        *)
Download(c) ==
  /\ job[c].at = "bundle"
  /\ sent' = [tunnel |-> tunnel, by |-> DialRoute]
  /\ \/ /\ Done(c)
        /\ dir' = [dir EXCEPT !.file = Nothing]
     \/ /\ site[job[c].tag].bundle # Nothing
        /\ dir' = [dir EXCEPT !.file = site[job[c].tag].bundle]
        /\ stage' = "verifying"
        /\ job' = [job EXCEPT ![c] =
             [at |-> "verify", tag |-> job[c].tag, want |-> job[c].want,
              got |-> site[job[c].tag].bundle]]
        /\ UNCHANGED <<installing, target, info>>
  /\ UNCHANGED <<worldVars, idle, installers, handed, asks, events>>

Verify_Trusting(c) ==
  /\ job[c].at = "verify"
  /\ stage' = "unpacking"
  /\ job' = [job EXCEPT ![c] = [at |-> "unpack", tag |-> job[c].tag,
                                want |-> job[c].want]]
  /\ UNCHANGED <<worldVars, idle, installing, target, info, dir, installers,
                 handed, sent, asks, events>>

Verify(c) ==
  /\ job[c].at = "verify"
  /\ \/ /\ job[c].got # job[c].want
        /\ Done(c)
        /\ dir' = [dir EXCEPT !.file = Nothing]
     \/ /\ job[c].got = job[c].want
        /\ stage' = "unpacking"
        /\ job' = [job EXCEPT ![c] = [at |-> "unpack", tag |-> job[c].tag,
                                      want |-> job[c].want]]
        /\ UNCHANGED <<installing, target, info, dir>>
  /\ UNCHANGED <<worldVars, idle, installers, handed, sent, asks, events>>

(* tar reads the file in the directory, whoever wrote it last.               *)
Unpack(c) ==
  /\ job[c].at = "unpack"
  /\ \/ /\ Done(c)
        /\ UNCHANGED dir
     \/ /\ dir.file # Nothing
        /\ dir' = [dir EXCEPT !.unpacked = dir.file]
        /\ job' = [job EXCEPT ![c].at = "start"]
        /\ UNCHANGED <<progressVars, info>>
  /\ UNCHANGED <<worldVars, idle, installers, handed, sent, asks, events>>

(* The installer starts in a session of its own.  Nobody waits for it, and   *)
(* installing is never taken back.                                           *)
StartInstaller(c) ==
  /\ job[c].at = "start"
  /\ \/ /\ Done(c)
        /\ UNCHANGED <<installers, handed>>
     \/ /\ dir.unpacked # Nothing
        /\ installers' = Append(installers,
             [tag |-> job[c].tag, want |-> job[c].want, runs |-> dir.unpacked,
              over |-> version])
        /\ handed' = TRUE
        /\ stage' = "installing"
        /\ job' = [job EXCEPT ![c] = Idle]
        /\ UNCHANGED <<installing, target, info>>
  /\ UNCHANGED <<worldVars, idle, dir, sent, asks, events>>

------------------------------------------------------------------------------
(* The rest of the world.  The installer may give up before it touches the    *)
(* service, put the new version in place, or roll back: in the last two the  *)
(* daemon is another process.  A crash is that as well.                      *)
NewProcess(v) ==
  /\ version' = v
  /\ installing' = FALSE /\ stage' = Nothing /\ target' = Nothing
  /\ info' = NoInfo /\ handed' = FALSE
  /\ job' = [c \in Callers |-> Idle]
  /\ idle' = {} /\ tunnel' = FALSE
  /\ UNCHANGED <<newest, site, dir, sent, asks>>

InstallerEnds ==
  /\ installers # <<>>
  /\ installers' = Tail(installers)
  /\ UNCHANGED events
  /\ \/ UNCHANGED <<worldVars, idle, progressVars, info, job, dir, handed,
                    sent, asks>>
     \/ \E v \in {Head(installers).tag, Head(installers).over} : NewProcess(v)

DaemonDies ==
  /\ events < MaxEvents
  /\ events' = events + 1
  /\ NewProcess(version)
  /\ UNCHANGED installers

Publish ==
  /\ events < MaxEvents
  /\ events' = events + 1
  /\ \/ newest' \in Versions \ {newest} /\ UNCHANGED site
     \/ /\ \E b \in Bundles \cup {Nothing} :
             \/ site' = [site EXCEPT ![newest].bundle = b]
             \/ site' = [site EXCEPT ![newest].sums = b]
        /\ UNCHANGED newest
  /\ UNCHANGED <<tunnel, version, idle, progressVars, info, job, dir,
                 installers, handed, sent, asks>>

TunnelChanges ==
  /\ events < MaxEvents
  /\ events' = events + 1
  /\ tunnel' = ~tunnel
  /\ UNCHANGED <<newest, site, version, idle, progressVars, info, job, dir,
                 installers, handed, sent, asks>>

IdleCloses ==
  /\ \E h \in idle : idle' = idle \ {h}
  /\ UNCHANGED <<worldVars, progressVars, info, job, dir, installers, handed,
                 sent, asks, events>>

UpdInit ==
  /\ newest \in Versions
  /\ \E assets \in [bundle : Bundles, sums : Bundles] :
       site = [v \in Versions |-> assets]
  /\ tunnel = FALSE /\ idle = {} /\ version = Running
  /\ installing = FALSE /\ stage = Nothing /\ target = Nothing
  /\ info = NoInfo /\ handed = FALSE
  /\ job = [c \in Callers |-> Idle]
  /\ dir = [file |-> Nothing, unpacked |-> Nothing]
  /\ installers = <<>>
  /\ sent = [tunnel |-> FALSE, by |-> "line"]
  /\ asks = 0 /\ events = 0

UpdNext ==
  \/ \E c \in Callers :
       BeginCheck(c) \/ StoreCheck(c) \/ ClaimInstall(c) \/ AskLatest(c)
         \/ FetchSums(c) \/ Download(c) \/ Verify(c) \/ Unpack(c)
         \/ StartInstaller(c)
  \/ InstallerEnds \/ DaemonDies \/ Publish \/ TunnelChanges \/ IdleCloses

UpdSpec == UpdInit /\ [][UpdNext]_updVars

------------------------------------------------------------------------------
(* Whatever the site does between the requests of an install, and whoever    *)
(* else shares the directory: what an installer was started from is the      *)
(* bundle its release's checksum file vouched for, of a newer release        *)
(* ("an update must never be installed unverified", update/update.go:9).     *)
OnlyTheVouchedFor ==
  \A i \in DOMAIN installers :
    /\ installers[i].runs = installers[i].want
    /\ Newer(installers[i].tag, installers[i].over)

(* The claim is held exactly while this process installs or has handed over  *)
(* to an installer, by one goroutine; and what is shown as progress is that  *)
(* install's, however many checks land meanwhile (daemon/update.go:100-103).  *)
Shown(at) ==
  CASE at \in {"latest", "sums"} -> "checking"
    [] at = "bundle" -> "downloading"
    [] at = "verify" -> "verifying"
    [] at \in {"unpack", "start"} -> "unpacking"
ProgressIsTheInstalls ==
  LET busy == {c \in Callers : job[c].at \notin {"idle", "checked"}} IN
  /\ installing <=> (busy # {} \/ handed)
  /\ \A c \in busy : /\ busy = {c} /\ ~handed
                     /\ stage = Shown(job[c].at)
                     /\ job[c].at # "latest" => target = job[c].tag
  /\ handed => stage = "installing"

(* While the tunnel is up, every request the updater makes goes through it:  *)
(* "an update started a minute after a connect must not still be using the   *)
(* route that was correct a minute before it" (update/update.go:105-107).    *)
RequestsFollowTheTunnel ==
  [][sent' # sent => (sent'.tunnel => sent'.by = "tunnel")]_sent
=============================================================================
