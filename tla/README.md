# A TLA+ model of xwrt

xwrt is a daemon (`xwrtd`) for OpenWrt routers.  It runs an Xray core as a child
process and steers the traffic of the LAN into it: with firewall rules, with a
TUN device and policy routes, and by pointing the router's resolver at the
core.  What goes wrong when it goes wrong is a household without internet, so
what this project asks of the code is mostly about order and about failure:
that the LAN is steered only into something that works, and that nothing stays
on the device that nobody will remove.

The specifications are translated from the Go source.  Line numbers refer to
the commit they were written against; `PROJECT.json` maps every definition to
the lines it stands for.

## Files

| file | what it is |
|------|------------|
| `Engine.tla` | the connection engine, the daemon's start and stop, the API handlers and hooks that call it |
| `TrafficGate.tla` | what the engine promises about steering traffic: the abstract specification |
| `EngineProofs.tla` | the theorems about `Engine`, with TLAPS proofs |
| `Supervisor.tla` | one supervised child process: its owner, its supervisor, its exits |
| `TunDevice.tla` | the TUN device and its policy routes, over `Supervisor`, with crashes between any two commands |
| `TunProofs.tla` | the theorems about `Supervisor` and `TunDevice` |
| `DnsSteering.tla` | steering the router's resolver and putting it back, with crashes between any two steps |
| `DnsProofs.tla` | the theorems about `DnsSteering` |
| `Firewall.tla` | the capture rules in both backends, command by command, and the fate of a packet |
| `FirewallProofs.tla` | the theorems about `Firewall` |
| `CoreConfig.tla` | what the core is configured with, and how it then routes: operators only |
| `CoreBuild.tla` | one compilation of it for one core |
| `ConfigStore.tla` | the configuration, everything that edits it, and what the engine reads of it; over `CoreConfig` |
| `LogJournal.tla` | the log, the error journal, the tally of repeated faults and the mirror in the system log |
| `Updater.tla` | the update check and the install, under the daemon they replace |
| `UpdaterProofs.tla` | the theorems about `Updater` |
| `StatisticsProofs.tla` | the theorem about `Statistics` |
| `LogProofs.tla` | the theorems about `LogJournal` |
| `ConfigProofs.tla` | the theorems about `CoreBuild` and `ConfigStore` |
| `Statistics.tla` | the goroutines that read the counters, beside the connections they are made for |
| `MC*.tla`, `MC*_*.cfg` | small instances for TLC |

`tlc -config MCEngine_crash.cfg MCEngine` runs one instance, `tlapm
EngineProofs.tla` checks the proofs.

## Inventory

### The parts of the system

**Connection engine** (`internal/daemon/engine.go`, `pincheck.go`,
`wanwatch.go`).  *State:* the handles `core`, `tun`, `firewall`, `dns`; the
connected profile or group; `settings` and `env`, what the connection was built
from; `pinAccepted`; `stopping`.  All of it under one mutex, which is held for
the whole of a connect, up to half a minute.  *Operations:* `Connect` (with the
fallback to what was connected before, and one rebuild for a changed
certificate), `Disconnect`, `FactoryReset`, `Reload`, `Close`,
`ReapplyFirewall`, `UpstreamChanged`, `Env`, `ClearStaleState`, `Restore`.
*Hard:* a build of four parts that can fail at a dozen places; a teardown in an
order no type enforces; crashes between any two steps; operations that read
under the mutex, let go of it and come back; a retry loop that runs for hours
beside everything else.  *Correct when:* nothing installed is untracked, a
daemon at rest is wholly connected or wholly not, the LAN is steered only into
a core that has carried data, a switch never costs a working connection, a stop
ends, the boot connect keeps trying.

**Daemon entry point** (`internal/app/daemon.go`).  Start: clear what the last
process left, serve the API, restore.  `SIGHUP` reloads, `SIGTERM` closes.
*Hard:* a request that outlives the shutdown of the API server.

**API server** (`internal/api/server.go`, `config.go`).  Handlers that write the
configuration and call the engine, each in a goroutine.  State is the store's
and the engine's.  *Hard:* write, then look at the engine, then call it.

**Service and hotplug scripts** (`package/xwrt/files`).  procd starts, stops and
reloads; netifd announces links that came up; the firewall announces that its
rules were reloaded.  Both hooks are detached and may arrive in either order.

**Process supervision** (`internal/proc/proc.go`).  *State:* running, stopped,
the child, the exit count, the tail of its output.  Start, restart with
back-off, stop with a grace period.  *Hard:* an exit beside a stop beside a
restart timer.  *Correct when:* no child runs after `Stop` has returned, and a
crash is restarted until then.

**DNS steering** (`internal/mode/dns.go`).  *State:* UCI options of dnsmasq with
a saved copy on flash, or a drop-in file; dnsmasq itself.  Apply, Revert,
detection of which of the two to use.  *Hard:* a crash between saving and
changing; a restart of dnsmasq that fails; reverting what another process
applied.  *Correct when:* the operator's settings come back whatever happens.

**TUN device and policy routes** (`internal/mode/tun.go`, `hevidle.go`,
`exec.go`).  *State:* a device, a child process, rules and routes in tables.
Start with rollback, Stop, removal of stale routes.  *Hard:* the kernel, the
supervisor and a crash each take away a part of what Start put together.
*Correct when:* nothing is left on the device without a daemon that knows of it,
and a tunnel in use has its own rules, once each, the escapes first.

**Firewall backends** (`internal/fw/fw.go`, `nft.go`, `ipt.go`).  *State:* an
nftables table or iptables chains, and the policy route of TPROXY.  Apply,
Revert, Installed.  *Hard:* the order of the rules decides what escapes; an apply
that fails half-way; rules that somebody flushes, and rules a killed daemon left.
*Correct when:* a packet goes where the mode means it to go, in both backends,
and at no point of an apply anywhere else but where it went before.

**System firewall watch** (`internal/fw/system.go`, `daemon/fwwatch.go`).  A
cached answer, refreshed by one goroutine at a time.

**Log journal and faults** (`daemon/logring.go`, `faults.go`, `failure.go`,
`messages.go`, `syslog.go`, `internal/fault`, `model/log.go`).  *State:* a ring
of lines, a ring of failures with their repeats, a banner, a table of faults the
core repeats, a socket to the system log.  *Hard:* rings that wrap under clears
that take the lock twice; a sliding window; a system log that restarts.
*Correct when:* a reader is given the newest of what was written, a burst is news
once, and a mirror that was lost comes back.

**Statistics, balancer, latency** (`daemon/balancer.go`, `latency.go`,
`traffic.go`, `socksprobe.go`, parts of `engine.go`).  *State:* counters and
histories per connection, filled by goroutines that end some time after the
connection.  *Hard:* a late sample of the old connection.

**Updater** (`internal/update`, `daemon/update.go`, `updateroute.go`,
`detach.go`).  *State:* the last check, the installer's progress.  *Hard:* the
installer restarts the daemon that started it; the release page changes between
the requests; checks land in an install.  *Correct when:* what is installed is
what a checksum vouched for and is newer, and the progress shown is the
install's.

**Clock** (`daemon/timesync.go`).  One decision and one `settimeofday`.

**Configuration store** (`internal/ucicfg`).  *State:* `/etc/config/xwrt` through
`uci`, or a file that is rewritten.  Load, Update, Save, Check, factory defaults.
*Hard:* read, modify, write; a save that is a hundred commands; handlers that
download between reading and writing.  *Correct when:* the selection names
something, a refresh keeps what is still there, and the daemon knows when what
is stored is not what is running.

**Core configuration and routing rules** (`internal/xray`, `model/rule.go`).  Pure:
settings, profiles and rules to a JSON document.  *Correct when:* the first rule
that matches a connection is the one the operator meant, nothing loops back, and
the core that is installed takes the document.

**Models and settings** (`model/model.go`).  Predicates of the capture modes,
defaults, validation and normalisation.

**Network detection** (`internal/netenv`), **share links** (`internal/uri`),
**subscriptions** (`internal/sub`), **certificate fetch** (`internal/certpin`),
**self test** (`internal/selftest`), **connection table** (`internal/netmon`),
**socket marks** (`internal/netmark`), **command line and RPC** (`internal/app`):
parsers, probes and clients without state of their own.

**Web interface** (`luci-app-xwrt`): browser code, a client of the API.

### How they interact

```
 procd, signals ──► daemon ──► engine ──► proc ──► core, tunnel
 hotplug hooks ──► API ──┬───►   │  ├───► fw ──► nft / iptables
 browser, CLI ───────────┘       │  ├───► tun ──► ip rule / ip route
                  │              │  ├───► dns ──► uci, dnsmasq
                  ▼              │  └───► netenv, certpin, selftest
               store ◄───────────┘        journal ◄── everything
```

API handlers, the signal loop and the boot connect call the engine; its mutex is
the only thing that orders them.  The engine calls the mechanisms one after
another and reads the store anew at every attempt.  Everything reaches the
device by running programs with timeouts.

## The engine

### State

| variable | in the code |
|---|---|
| `active`, `known`, `settings`, `auto` | `/etc/config/xwrt`: the selection, the profiles and groups that resolve, the settings, `auto_connect` |
| `edited` | history: a client has written another selection since the last connect (`putConfig`, a refresh, a delete) |
| `peeked` | history: `Env` or `ReapplyFirewall` took note of a move before its announcement did |
| `up`, `stopping` | the process exists; `e.stopping` |
| `live`, `cfg`, `env`, `pinAccepted` | `e.profile` or `e.group`, `e.settings`, `e.env`, `e.pinAccepted` |
| `held` | which of `e.core`, `e.tun`, `e.firewall`, `e.dns` are not nil |
| `proven` | the reachability check of `startLocked` has passed for the core in `held` |
| `owner`, `pc`, `job` | who holds `e.mu`, where, and its local variables |
| `call` | for every other thread, what it wants the mutex for and what it read before |
| `inst`, `builtOn` | what is on the device, and the upstream it was written against |
| `ground`, `hooks` | the upstream there is; events netifd and the firewall have not delivered yet |
| `moves`, `crashes` | counters for the bounds |

A thread that does not hold the mutex is one record `[op, arg]`.  `arg` is what
it read before it waited: `Reload` and `UpstreamChanged` read what is connected,
unlock and call `Connect` with it; the boot connect reads the selection.  So the
stale value is in the record and is used when the thread gets the lock.

### Actions

One action is one call of the holder that changes the device or the daemon's
memory.  `Connect` is `BeginConnect`, `Load` (read the store, resolve the
target), `TearDown` for every part and `TornDown`, then `Prepare`, `StartCore`,
`StartTun`, `Reach`, `ApplyFirewall`, `ApplyDns`, `Commit`; a failure anywhere
goes through `StartFailed` (one rebuild if a new certificate was accepted) and
the teardown to `Decide`, which falls back or not.  `Disconnect`, `FactoryReset`
and `Close` are `BeginTeardown`, the teardown, and `Finish` or `WriteFactory`.
`Reload`, `ApplySettings`, `UpstreamChanged`, `DetectEnv`, `ReapplyFirewall`,
`AnnounceStop` and `RestoreCheck` take the mutex and give it back in one step.
`Start`, `ClearStale`, `Open`, `Exit` and `Crash` are the life of the process.
The handlers that write the store and call nobody are `Create`, `Delete`,
`SetAutoConnect`, `PutConfig` (a whole document, with its own selection) and
`AskRefresh` with `Refresh`: a subscription's refresh reads the selection,
downloads, and selects what has the endpoint of it then, any of several (`Twins`)
that share one.  All of them may come at any point of a connect.
`MayFail` says which steps can fail in an instance; a step that fails may have
done its work or not, as the code's partial effects allow.  A part whose removal
fails (`Sticky`) stays on the device without a handle, which is what the code
does with such an error: it logs it.

### Abstractions

* A profile and a group are both a target: what distinguishes them (what the
  core's configuration holds) is invisible to the engine's control.
* `Settings.Enabled` is written by `Connect` and `Disconnect` and read by
  nobody, so it is not there.  Wall-clock setting gates nothing and is left out.
* The death and restart of a running core is in `Supervisor`; here `inst` and
  `held` agree on the core.
* What `e.dns` does is one step here and spelled out in `DnsSteering`.
* Hooks of one kind coalesce in `hooks`: two undelivered events of one kind have
  the effect of one that comes last.
* `netenv.Detect` returns the upstream there is; `Grounds` is a set of them with
  one that has no gateway.
* A server that does not answer (`Dead`) and a profile that accepts a changed
  certificate (`AutoPin`) are constants.
* The API socket that cannot be opened at start ends the process; that is
  `Crash` without what a kill adds.

### What the runs check

| run | instance | what it shows |
|---|---|---|
| `crash` | one client, two targets that both accept a new certificate, two plans; every step that puts something on the device may fail, and the save; a stop, a reset, one crash or power cut, one change of the upstream or flush of the firewall | `SteeredOnlyIntoProvenCore`; `NothingUntracked`; `PinIsSpent`; `StartsAreBounded`; and that the engine implements `TrafficGate` |
| `dead` | one of two servers never answers, no TPROXY, the resolver may not be restorable; two clients switch, save settings, delete, reload | `SwitchCostsNothing`; `AllOrNothing` |
| `selection` | two servers that share an endpoint; one client and the signal loop connect, create, delete, save documents, refresh a subscription and reload, in any order | `SelectionIsLive`, and `TypeOK` with the discipline of the mutex |
| `upstream` | three upstreams, one without gateway, three moves; two clients connect, look at the status page and reapply the rules while the hook is on its way | `MovesAreNoticed` |
| `boot` | fair scheduling; an upstream that comes and goes, a crash, every request queued against a stop | `StopCompletes`, `RestoreKeepsTrying`, `BootConnects` |
| `late` | | **violated:** `StopLeavesNothing` |
| `overlooked` | as `upstream`, nobody reapplies the rules | **violated:** `StandsOnTheGround` |

Two targets are enough for a switch, its failure and the fallback, and for a
third party who changes the selection meanwhile.  Two clients and the two
threads of the daemon put up to three waiters behind the holder; a third client
adds no new order between a read and its use, since each waiter uses only what
it read itself.  Three moves take the upstream away, back and elsewhere.  One
crash covers every point of a build and of a teardown, and the next start's
clearing of it.

`NothingUntracked`, `AllOrNothing` and `SteeredOnlyIntoProvenCore` are stated for
starts at which the store could be read: `ClearStaleState` returns at once when
it cannot (`StaleUnread`), and then a crashed process's parts do stay.

### Fairness

`FairSpec` assumes that the holder of the mutex goes on (every call it makes has
a timeout), that sleeping and dialing end, that `main` returns once `Close` has,
and *strong* fairness for each thread that waits for the mutex.  The last is Go's
own: a `sync.Mutex` that has kept a waiter for a millisecond goes into starvation
mode and is handed to the longest waiter.  Nothing is assumed of operators, of
the network or of procd.  `BootConnects` needs the upstream and the server to
stay good from some time on; that is in its premise, not in the fairness.

### Disagreements the runs show

* **A connect behind `Close` survives it** (`late`).  `Connect` never looks at
  `stopping`; one that waits for the mutex when `Close` takes it starts a core
  as `main` returns.

* **A move of the upstream that was looked at is not acted on** (`overlooked`).
  `e.env` is a cache and a record: `Env`, polled by the status pages
  (server.go:155, 1085), and `ReapplyFirewall` refresh what `UpstreamChanged`
  takes for the upstream the connection was built on.  The announcement that
  comes after them finds nothing changed and rebuilds nothing.  What does hold
  is `MovesAreNoticed`: without such a look, every move is made good.

One more is stated in the module and refuted when it is added to `selection`,
`RebootReconnects`: `refreshSubscription` reads the selection, downloads for as
long as it takes, and selects the server with the endpoint of what it read
(server.go:899).  A switch in between stays connected, and a reboot brings the
old server back, though engine.go:463 says "Remember the selection so a reboot
reconnects to the same target".  What does hold is `SelectionIsLive`: `Connect`
itself always leaves the store naming what it connected, until a client writes
another selection.

Met while modelling, and not given a run: the boot connect dials again after the
operator has disconnected, because `done()` looks at `auto_connect` and the
selection and `Disconnect` clears neither; a reconnect to the stored selection
that fails falls back to the same target, because `fallBackLocked` compares the
unresolved `""`; a mode that needs TPROXY is refused only after the working
connection was torn down; `SIGHUP` drops the connection the init script says it
keeps; in TUN mode the policy route is in place before the far end has answered.

## The supervised process

`Supervisor.tla` is `internal/proc/proc.go`.  The engine owns one for the core
and one for the tunnel.

| variable | in the code |
|---|---|
| `running`, `stopped`, `exits`, `cmd`, `ctx` | the fields of `Process`; `cmd` is the number of the child it describes |
| `sup`, `first`, `seen`, `told` | the goroutine `supervise`: where it is, its locals, what it last told `OnExit` |
| `start`, `stop`, `aim` | where the owner is in `Start` and in `Stop`, and the `cmd` that `Stop` read |
| `child`, `procs`, `termed` | the process group of the child spawned last, and whether it was signalled |

The actions are the pieces of `Start`, `Stop` and `supervise` between two points
at which another goroutine can get in: `Stop` reads `cmd` and unlocks before it
signals, the supervisor publishes `cmd` some time after it has spawned, it reads
`stopped` when the child is reaped and uses it later.  `Die`, `HelperEnds` and
`ContextKill` are the operating system's.  Delays are not measured: a timer that
runs may fire before or after anything else.  One delay is used: three seconds
after `SIGKILL` the supervisor has finished, unless a helper that left the group
before the signal holds the pipes it reads (`StopReturn`).  Every connection
makes a `Process` of its own; `Start` stands for that too, and drops the
supervisor of the one before, if that was given up with a helper on its pipes.

It is checked under its owner, in the run `kernel` of the next section:
`NothingOutlivesStop`, `StopIsNoCrash`, `StopReturns`, `CrashIsUndone`.  The type
invariant is proved.
Four children are a start, a restart, a restart while `Stop` runs and a start
that follows a stop.  Fairness: goroutines run, the timers of `Stop` fire, a
killed process dies.  A child owes nothing, it may run for ever or ignore
`SIGTERM`.

Not given a run: the back-off waits for the context or for its timer and does
not look at `stopped`, and `Stop` cancels the context only when its five seconds
are over, so a child can be started after `Stop` was called; it is killed by the
cancel and `Stop` still returns with nothing alive.  Nor was this: the engine's
`coreStarting` and the exit callback are not under one mutex, so a core that
dies as its start is declared good may be reported by both paths or by neither.

## The tunnel

`TunDevice.tla` is `internal/mode/tun.go` under the engine, and extends
`Supervisor`: the owner of the process is `Tun.Start` and `Tun.Stop`.

| variable | in the code or on the device |
|---|---|
| `tun`, `scope`, `applied` | `e.tun` is not nil; `t.Scope`, `t.applied` |
| `pc`, `todo` | the next step of `Start`, `Stop` or `CleanStale`; the preferences `removeRoutes` has still to delete |
| `device` | the interface exists |
| `rules` | how many policy rules there are of each preference: 90 `nets`, 100 `core`, 190 `udp`, 200 `all` |
| `route` | the table has its default route |
| `up`, `orphan`, `crashes` | the daemon; the tunnel's process of one that was killed; the bound |

One action is one `ip` command, but for the commands for the exempted networks
(`AddNets`), whose results nobody reads, and the up to thirty-two deletions of
one preference (`RemoveRule`).  `NewTun`, `CannotOpen`, `Launch`, `CannotLaunch`,
`Launched`, `Await`, `Configure`, `AddRoute`, `AddCore`, `AddNets`, `AddDivert`
are `Start`; `RemoveRule` and `Flush` are `removeRoutes`, for whichever of its
four callers `pc` names; `TearDown`, `Halt`, `Halted`, `DeleteDevice` are the
engine's teardown and `Stop`; `StartDaemon` is the part of `ClearStaleState` that
kills a process left running and calls `CleanStale`.  `Appear` and `Vanish` are
the kernel's: the device comes some time after the process and goes some time
after it, and its routes go with it.  A device may therefore be there when the
process is not, as the comment in `Stop` says.  `KillDaemon` and `PowerCut` may fall
between any two steps; only the second clears what is in the kernel.

Abstractions: one device name and one table, which the settings do not change
while they are in use; what `Configure` gives the device; a command that deletes
does not fail while there is something to delete.  A rule for a network may fail
and the code ignores it (`NetCounts`, with `"nets"` in `Failures`); the run is
the instance where it does not.

| run | instance | what it shows |
|---|---|---|
| `kernel` | four children with helpers, both scopes, two networks and two deletions per preference, every step of `Start` that is checked may fail, two crashes, fair scheduling | the four of `Supervisor`; `NothingStranded`, `OneSetOfRules`, `EscapesComeFirst`, `TunReturns` |
| `leak` | nothing fails, three children | **violated:** `TunnelCarries` |

Two crashes are one with a tunnel in use and one while the next start clears up
after it.  Two networks are as many as two deletions remove, the most at which
`NothingStranded` holds; in the code the second number is 32.  A run may end
when the bound on children is spent, so deadlock is not checked.  Fairness adds
to the supervisor's that the engine's goroutine goes on; each of its commands
ends by itself.

**A tunnel that was restarted carries nothing** (`leak`).  The default route is
added in `Start`, the process has no `OnExit`, and the kernel takes the route
away with the device when the process dies.  The supervisor starts the process
again and the device returns without the route: the rule that diverts finds an
empty table, and packets go on to `main`, past the tunnel, until the next
connect.

Not given a run: `removeRoutes` deletes the escapes before the rule that
diverts; more than 32 exempted networks leave rules behind, which add up.

## Steering the resolver

`DnsSteering.tla` is `internal/mode/dns.go` under the engine: an object is made
early in a connect, applied last, reverted in the teardown; a new object is
reverted at the start of the daemon.

| variable | in the code or on the device |
|---|---|
| `way`, `own` | whether dnsmasq reads a directory; the operator's `noresolv` |
| `conf`, `edit` | `/etc/config/dhcp`, and the same with uci's staged changes |
| `saved` | `/etc/xwrt-dns.state` |
| `snippet` | `xwrt.conf` in dnsmasq's directory, with the port in it |
| `loaded` | what dnsmasq read when it was last started |
| `port` | `Settings.DNSPort` |
| `up`, `handle`, `applied` | the daemon, `e.dns` and the port in its settings, whether `Apply` succeeded |
| `behind` | history: dnsmasq was left with what no `Revert` will look for, and has not been restarted since |
| `pc`, `inside`, `dirty` | the next step; `Revert` was called by `Apply`; its `snippet \|\| edited` |

One action is one program run or one file written, and the daemon may be killed
(`Kill`) or the power cut (`PowerCut`, which loses the staged changes and the
snippet, both on a RAM disk) before each.  `OthersCommit` and `OthersRestart`
are LuCI, netifd and the init system.  dnsmasq reads, when it is restarted, the
committed or the staged configuration: its init script goes through uci, which
overlays the staged changes.  `MayFail` names the steps that can fail.

Abstractions: dnsmasq has one directory; the operator's own `server` entries are
left out, since `add_list` and `del_list` touch ours alone; `noresolv` is all
the state file holds.

The resolver is checked in the run `parts`, described under *Parts that share
nothing*: both ways, every step of `Apply` and the last restart of `Revert` may
fail, two kills or power cuts.  `EditIsRecorded` and `FilesAreRestored` are about
what is on flash, `RevertRestores` and `ApplySteers` about what dnsmasq has read.
One port is enough: the properties compare ours with the operator's.  A second
would show what is listed below.  Two crashes are one while steering and one
while the next start reverts.

`RevertRestores` says that dnsmasq runs with what the operator had whenever
nothing is connected, unless it was left `behind`.  There are three ways to that
and the property says there is no fourth: a restart behind a snippet that
fails, a last restart of `Revert` that fails, a kill just before it.  A later
`Revert` that does restart dnsmasq, or a power cut, makes up for each.  The first
and the last contradict a comment; the two statements are in the module and
refuted when they are added to the run.

**A late dnsmasq is not put back** (`FailedRestartReverts`, dns.go:233):
`restartDnsmasq` fails also when dnsmasq was restarted and does not answer in
time, which is what it does when the core it now forwards to does not.
`applyConfDir` removes the snippet and returns; the teardown finds no trace and
restarts nothing.  **A kill inside `Revert` is not made good**
(`ResolverComesBack`, dns.go:471): the snippet, or the state file, goes before
dnsmasq is restarted; the next start finds neither.

Not given a run: a port changed in the settings before a crash leaves the old
port's `server` entry, because `Revert` deletes the entry of the port it was
made with; a commit that fails inside `Revert` still removes the state file; a
restart that fails inside `Revert` is swallowed when `Apply` called it.

## The capture rules

`Firewall.tla` is `internal/fw` under the engine.

| variable | in the code or in the kernel |
|---|---|
| `backend`, `plan` | the type of `e.firewall`; the `Plan` it was last given |
| `job`, `at` | the engine's operation, and the next command of it |
| `connected`, `alive` | `e.connected`; the daemon |
| `chains`, `jumps`, `divert` | the rules of each chain, what each hook jumps to, TPROXY's policy rule with its route |
| `refused`, `pending`, `stale` | the last reapplication failed; a hotplug event is on its way; a killed daemon's rules are there |

Each backend is a sequence of commands that `NftApply` or `IptApply` makes of a
plan, and `NextCommand` runs one of them: `Possible` says whether the kernel
takes it, `ChainsAfter` and `JumpsAfter` what it does.  nftables puts the table
there in one command; iptables adds a rule or a jump at a time, may be refused
at any (`Refuse`), and may be killed after any (`Kill`).  `Wipe` is a restart of
the system's firewall, which takes everything away and sends the hotplug event
that leads to `Reapply`.  `Restart` is `ClearStaleState`, which reverts if
`Installed` says there is something.  `Handed` walks the kernel's hooks with a
packet: a LAN client's, an exempt client's, the router's own or the core's; to
a private, a listed or any other address; TCP, UDP, DNS over either, or QUIC.
`Fate` is what the inbound it is handed to makes of it: one that is made for
rewritten packets does not take what was TPROXYed, nor the other way round, and
such a packet is a `"stray"`.  `Promise` is what the mode is for and knows
nothing of chains or inbounds.  Where no LAN device is known, it is what the
rules' own comment says, "capture everything except upstream" (nft.go:299).

They are the other half of the run `kernel` (`MCKernel`; a behaviour is of the
tunnel or of the rules, as `part` says): both backends, four modes with every
switch, two LAN devices or none detected, any command refused, one flush, one
kill.  It checks `OnlyAsPlanned`, `CapturesAsPlanned`, `RevertLeavesNothing`,
`KillBlackHolesNobody`.

Three promises are stated in the module and refuted when they are added to the
run.  **DNS is hijacked to an inbound that does not take it**
(`DnsReachesTheResolver`).  In mode tproxy with the resolver's mode `redirect`
the clients' DNS is TPROXYed, as it was sent, to the resolver's inbound, which
is never transparent.  **The router's own TCP is redirected to one that does not
take it** (`RoutersTcpIsCaptured`).  In mode tproxy with `proxy_router` NAT
rewrites it, and the inbound for captured traffic has the `tproxy` socket option
there; config.go:513 says of rewritten TCP "no tproxy socket option".
`CapturesAsPlanned` says that these two are lost and that every other packet, in
every mode, with either backend, is handed to what takes it (`Misaimed` names
the two).  **Without a LAN device everything is captured**
(`NothingWithoutLan`), where the engine tells the operator that "nothing will be
captured" (engine.go:751).

Abstractions and bounds: the commands of a teardown, whose results the code does
not read, do not fail while there is something to delete; `Revert` deletes one
jump at most `Deletes` times (8 in the code, 2 here), which is enough while
there are no more LAN devices than that (`DevicesAssumption`); a flush does not
come in the middle of an `Apply` of iptables (`TornWipes`), which would be a race
between two programs that do not know of each other; connection tracking is left
out, so a packet stands for the first of its flow.  The exempt, the private and
the listed addresses are one class each, as they are one set or one rule.

Two more are refuted there.  `LeftoversAreFound`: `Installed` of iptables looks
at the chains of captured clients only, so a daemon killed in `Revert` between
the `mangle` and the `filter` table leaves the QUIC block, which ipt.go:282
calls "the worst kind of leftover", and the next start does not see it.
`UncapturedWhenRefused`: a reapplication refused half-way leaves what it has put
there, while messages.go:129 tells the operator that "traffic is no longer being
captured".

## The core's configuration

`CoreConfig.tla` is `internal/xray/config.go` with the records it reads
(`internal/model`) and the features a core may have dropped
(`capabilities.go`).  It is operators only: `Build` makes inbounds, outbounds,
balancer, observatory and rules of settings, servers, strategy and the
operator's rules, in the order of the code; `CanBuild` says when it refuses.
`Known` is what the core refuses, `Route` how it picks an outbound, with `Seen`
for what sniffing tells it of a connection.  `CoreBuild.tla` compiles one order
for one core.  Records keep what decides whether a configuration is built,
accepted and routed as meant; keys, paths, intervals and ports are left out.

`CoreFits` and `RoutesAsRuled` are checked in the run `parts` over all orders
of: every list of up to two of seven rules, which between them use every
matcher, action and switch; eight kinds of server, each on every subset of the
three features; every strategy with up to two members.  The reference of
`RoutesAsRuled` picks the first enabled rule that holds and knows nothing of
tags or of the rules the code adds; it is compared for every connection, whose
inbound, address, site, client, port, protocol and way of naming are all chosen.

Met while modelling: `sniffing: auto` does not turn sniffing on for a rule that
has protocols only, which then never matches; `bypassedDomains` leaves a rule's
port out although its comment speaks of it; a rule by address does not match a
connection that came with a name; a server whose name does not resolve yet may
be looked up through the core that is to dial it, in dnsmasq mode.

## The configuration

`ConfigStore.tla` is the store (`internal/ucicfg`), the handlers that edit it,
the merge of a subscription, and the engine as far as it reads and writes it.
It extends `CoreConfig`, so that what a connect builds is compiled.

| variable | in the code |
|---|---|
| `file`, `staged` | the committed sections of `/etc/config/xwrt`, in order; the same with uci's staged edits |
| `running` | the connected target, the material `fingerprint.go` keeps of the connect, and the configuration its core was given |
| `dialing` | a connect between its reading and its writing; it holds the engine's mutex |
| `job` | a handler between its reading and its writing |
| `minted` | the identifiers given so far (`NewID`), a counter |

A store operation holds the store's lock and is one step: `Save` commits, or
with the uci binary breaks off after any section (`Abort`, `Torn`) and leaves
the rest staged.  A handler that waits in the middle is two steps: `fetchCert`
(the handshake), `createSubscription` and `refreshSubscription` (the download),
`putSettings` (the reconnect), `putConfig` (the check and the save).  `Connect`
reads, and `DialSucceeds`, `DialFails` or `NewPin` writes.  `Restart` is a
restart of the daemon, or a reboot, which loses what was staged.

| run | instance | what it shows |
|---|---|---|
| `config` | three requests of any kind, two servers, a group, two rules, a subscription with listings that rename, repeat and replace; one save that is cut off | `PendingTellsTruth`, `SelectionResolves`, `RefreshKeepsIdentity` |
| `order` | one request, nothing fails | **violated:** `RulesKeepTheirOrder` |

Three requests are one that is slow, one that comes in between, and one that
shows the effect.  `PendingTellsTruth` compares the fingerprint, which is a list
kept by hand, with the compiled configuration.  Abstractions: a save is cut
between sections and not between options; the resolvers a configuration exempts
are none; `ConfigChanged` is only what a response says; connects that the
upstream watch or `SIGHUP` start are like any other; documents with empty or
repeated identifiers, which `Check` refuses, are not offered.

**A reordered list of rules comes back as it was** (`order`).  `UCI.Save` sets
each section that exists in place, and uci appends only new ones; nothing asks
uci to reorder.  On a device without the uci binary the file is rewritten and
the order holds.

Met while modelling: edits staged by a save that failed are what `Load` shows
until the next save reverts them; a refresh selects another server of the
listing when two share an endpoint, and the endpoint it compares is the one of
before the download; a refresh that is downloading when its subscription is
deleted puts the servers back; `fetchCert` replaces a pin that was set during
the handshake without being asked twice; `deleteProfile` can leave an empty
group and `deleteSubscription` members that are gone, and `Check` then refuses
the backup of such a configuration; `Check` says of a selection that it warns
(check.go:110) and refuses, and validates no rule, though "an empty result means
it is safe to save"; `putConfig` writes the `enabled` and the kind of selection
it read before; a refresh drops `PinAuto` and `PinUnverifiable` of a server it
keeps.

## The log

`LogJournal.tla` is the daemon's log.  `entries`, `next`, `full` are the ring of
lines, `errors`, `errNext`, `errFull` that of failures, `lastError` the banner,
`items` the tally of what the core repeats, `conn` and `nextTry` the socket to
the system log; `logd` is that log.  Each has a lock of its own, so an operation
that takes two locks, or one twice, is cut: `todo` is what a goroutine has
still to write.  `Fail`, `AddProcessLine`, `ClearJournal`, `Clear` with
`ClearEntries`, `ClearLastError`, `ResetFaults` and `Write` are the operations;
`LogdTurns` and `Tick` are the world's.  `stream`, `filed`, `seen` and
`reported` are history: what was written since it was last cleared.

`ReadersSeeTheTail` compares the two rings with that history, which no ring
has bounded; `BurstsAreNews` compares the sliding window with every occurrence;
`MirrorRecovers` says what a restart of the system log may cost.  The run `parts`
has two writers, rings of two, a burst of two, a table of one, four lines and
three moments: the rings wrap twice, the table is full, a burst ends at the edge
of the window and beyond it.  Left out: the wording and codes of failures,
subscribers (nothing makes one), and that a write after the sink was closed
opens it again.

## The updater

`Updater.tla` is the check, `runInstall` and the route every request takes.
`job` holds what each goroutine has found so far; `installing`, `stage` and
`target` are the claim and the progress, `info` what the last check answered;
`dir` is `/tmp/xwrt-update`; `installers` are the processes that outlive the
daemon.  A request is one step and is answered or fails; a bundle is its digest;
deadlines are left out.  `Publish` changes the release page and its assets
between any two requests, `DaemonDies` and `InstallerEnds` start another daemon,
`TunnelChanges` and `IdleCloses` decide what a request goes through.

`OnlyTheVouchedFor` and `ProgressIsTheInstalls` are checked in `parts`: two
callers, three versions of which one cannot be compared, two bundles, three
checks or installs, two events.

`RequestsFollowTheTunnel` is stated and refuted: Go keeps the connection to a
host idle for the next request, so a request made after the tunnel came up may
leave on a connection made before it.  Met while modelling: an installer that
ends without restarting the daemon leaves `installing` set for good; a daemon
killed under an installer has forgotten it and accepts another install.

## The statistics

`Statistics.tla` is what `startStatsLocked` starts: `reader` is the goroutine that
reads the counters of each connection, `prober` the one that asks a health-aware
balancer for its ranking and times a handshake to each member.  `running` are
the connections whose stop channel is open, `serving` whose core answers,
`prev`, `history`, `memberOrder`, `memberPing` what is shown.  Of a reading only
its origin is kept.  A goroutine asks without the mutex (`QueryStats`,
`BalancerSelection`, `MeasureMembers`), writes with it (`Count`,
`RefreshBalancer`, `RefreshLatency`), and the sample goes into the chart after it
was given back (`AddSample`); it ends when its select happens to see the channel.
A connect holds the mutex from its teardown (`Dial`) to `Connected` or
`DialFailed`.  What is drawn of a reading is left out, and so is the window in
which a member counts as in use.

`LateSamplesAreFew` is checked in `parts`, with three connections after one
another (or two, of groups), three questions and a chart of three: the first at
which a reader of the connection before last reads the core of the last one.
The bound is reached.  Two stronger statements are in the module and refuted
when they are added to the run.  `ChartIsOfThisConnection`: a sample that was
read and not yet added is added after the next connection has emptied the
chart, though `Reset` is there because "a disconnect makes the previous
session's samples misleading" (traffic.go:67); the next rate is then a difference
of two cores' counters and may be negative.  `RanksWereAskedFor`: an answer that
waits for the mutex behind a switch is written under the next group; if its
strategy does not look at health its core is never asked, and the status names
members by the ranking of the group before until that connection ends.

## Parts that share nothing

`MCParts.tla` puts the log, the compilation, the updater, the resolver and the
statistics into one run, `parts`.  They share no state, so nothing would be
learned from interleaving them: the variable `part` says which one a behaviour
is about, and the others stay in one initial state.  Its states are the sum of
theirs, not the product.  Writers and callers are interchangeable
(`PartsSymmetry`).  Every property of the run is a state predicate or a step
predicate.

## What is proved

### The engine

`EngineProofs.tla` proves, for any number of targets, clients and upstreams and
any bounds, what the runs check on small ones:

| theorem | |
|---|---|
| `TypeCorrect` | `Spec => []TypeOK`, the mutex included |
| `NothingIsUntracked` | `Spec => []NothingUntracked` |
| `NothingHalfBuilt` | `Spec => []AllOrNothing` |
| `SteeringIsSafe` | `Spec => []SteeredOnlyIntoProvenCore` |
| `PinAlwaysSpent` | `Spec => []PinIsSpent` |
| `BoundedStarts` | `Spec => []StartsAreBounded` |
| `SelectionAlwaysLive` | `Spec => []SelectionIsLive` |
| `MovesAreAlwaysNoticed` | `Spec => []MovesAreNoticed` |
| `SwitchesCostNothing` | `Spec /\ OldKept => SwitchCostsNothing` |
| `EngineImplementsGate` | `Spec => ImplementsGate`, if the store can be read at start and removals take effect |

The assumptions are the named ones of `Engine.tla`: the empty identifier is no
target, the daemon's own threads are no clients, the upstream without gateway is
one of `Grounds`, and the constants have their types.

None of these is inductive by itself.  The invariant that is has seven parts,
each the reason for one thing: `Absent` (a process that is not there has no
memory), `Handles` (where the build has got to says which handles there are),
`Aim` (whose job it is and what it will do next agrees with what its thread
asked for), `Accounted` (what is on the device is in a handle), `Backed` (what
steers is backed by a core that is proven), `Assembled` (the parts built so far
are those the plan asks for), `Budget` (the attempts left bound the starts).  It
was checked by TLC before it was proved.  The proof that a step keeps it has one
step per action; the teardown and the clearing of stale state, whose order is
the point, carry `TornBefore` and `ClearedBefore` through it.

Three more arguments stand beside it.  For the mutex: whoever owns it asked for
an operation of several steps, and the early returns of the short ones give it
back (`Owned`).  For `MovesAreNoticed`: what is being built stands on what was
detected; what stands does too, or a rebuild is pending, or somebody else has
looked at the network since (`peeked`); and what was detected is how the network
is or the news is on its way (`Informed`).  For `SwitchCostsNothing`: a job
knows what it was to replace and goes back to it (`Errand`), and an attempt that
failed has a dead target or a plan that is not sound (`Blamed`), so the second
attempt, for what was connected, can only fail if that is dead.  `OldKept` says
that the target that was connected is not deleted and created anew during the
attempt; the daemon mints a new identifier for everything it creates.

### The supervised process

`TunProofs.tla` proves of `Supervisor`, for any number of children with or
without helpers: `ChildTypeCorrect` (`ProcSpec => []TypeOK`),
`StopIsSynchronous` (`ProcSpec => []NothingOutlivesStop`), `StopsAreNoCrashes`
(`ProcSpec => StopIsNoCrash`).
The inductive invariant adds to the type `Tended` (a process exists only while
the supervisor has it), `Announced` (`stopped` is set before anything is
signalled, and the reap has seen it) and `Over` (when `Stop` has returned the
context is cancelled and the supervisor has no way back to a spawn); the last
is stronger than the property because `StopReturn` may leave a supervisor that
still waits for pipes.  `Quiet` says what its owner may rely on: a process that
is not running has no child and no supervisor that could start one.

### The tunnel

`TunProofs.tla` proves of `TunDevice`, for any number of children, networks and
crashes:

| theorem | |
|---|---|
| `TunTypeCorrect` | `TunSpec => []TunTypeOK` |
| `NothingIsStranded` | `TunSpec => []NothingStranded` |
| `RulesAreExact` | `TunSpec => []OneSetOfRules` |
| `EscapesAreFirst` | `TunSpec => EscapesComeFirst` |

All assume `EnoughTries`: a preference never has more rules than `removeRoutes`
deletes.  Steps may fail in every combination, the ignored rule for a network
included.  The invariant is that of `Supervisor`, kept because every step is one
of the supervised process, the loss of the daemon or neither (`TunKeepsIInv`),
and four parts: `Dead` (a daemon that is not there has no memory), `Ownership`
(where the owner is in the process's `Start` and `Stop` agrees with its own
step), `Handle` (which steps have an `e.tun`, and when the routes are known to
be in place), `Counted` (the rules at every step, and none left of a preference
`removeRoutes` is done with).

### The resolver

`DnsProofs.tla` proves, for any ports, any way and any number of crashes:

| theorem | |
|---|---|
| `EditsAreRecorded` | `Spec /\ PortKept => []EditIsRecorded` |
| `FilesComeBack` | `Spec /\ PortKept => []FilesAreRestored` |
| `ApplyAlwaysSteers` | `Spec /\ PortKept => []ApplySteers` |
| `RevertAlwaysRestores` | `Spec /\ PortKept => []RevertRestores` |

All assume `RevertWorks`, that the four steps of `Revert` which undo something do
not fail (the code logs such a failure and goes on), and `PortKept`, that the
port is moved only while nothing is steered: the entry is taken out by the port
of the settings of now.  Without either they are false, as said above.  The
inductive invariant says that an object and a step go together (`Life`), that a
device uses one of the two ways (`Separate`), that what was edited is recorded,
with what `add` and `set` staged (`Recorded`), which of the undoings have
happened at each step of `Revert` (`Restoring`), and that there is one port
(`OnePort`).  What dnsmasq runs with is a second layer on it: how far `Apply` has
got and what a restart at each of its steps, its own or another's, would load.
Restarts may fail anywhere, those of `Revert` included; what `RevertRestores`
leaves out is only what `behind` records, three named steps until the next
restart.

### The capture rules

`FirewallProofs.tla` proves `RevertAlwaysCleans` (`Spec => []RevertLeavesNothing`)
for any plans, any devices and any number of flushes and kills, with
`DevicesAssumption` (there are at most as many LAN devices as `Revert` deletes
jumps of one chain; the code's eight is a constant) and nothing else: rules may
be flushed in the middle of an application, and any command of one refused.

iptables is changed one command at a time, so what holds at a step is about the
commands that are left.  `Sweeping`: of every chain there are at most as many
jumps as deletions of one still to come, every chain that is there is still to be
deleted, and behind that deletion is no deletion of a jump to it, so that when it
comes nothing refers to the chain and the kernel does delete it.  `Building`:
after the sweep at most the jumps are there that the application has put there,
which are at most `Deletes` of each (`Few`), whatever a flush took away.
`Standing`: a jump is at its chain's hook and its chain exists.  `Dropping` is
the same for nftables, which removes everything in its first command.  On both
rests `Clean`: a daemon at rest that is not connected, or whose mode needs no
rules, has nothing in the kernel unless a killed one left it.

What the programs do is read off their lists, place by place: `RevertSweeps`
(every chain's deletions are there, in that order), `BodyFits` (an application
is commands that may be refused, and hooks in no chain more than once for every
device).

`KillsAreHarmless` (`~TornWipes => (Spec => []KillBlackHolesNobody)`) is about
what those rules do to packets after a kill.  `ClearStaleState` reverts only if
`Installed` sees one of four chains, so the question is what can be left beside
them.  Of the router's own capture, nothing: `Apply` makes it last (`BodyInOrder`)
and `Revert` takes its jumps out before it deletes a chain that is seen
(`RevertInOrder`), so wherever the daemon dies the jump into `OUT` is not there
alone (`Anchored`).  The QUIC block may be, and refuses nothing but QUIC
(`QuicOnly`); that it may be is the finding `LeftoversAreFound`.  The hypothesis
is that nobody flushes iptables in the middle of an `Apply`: the rest of the
`Apply` would put `OUT` where nothing else is, and a kill right then would leave
it there; TLC finds that state.

`CapturesWhatItPromises` (`~TornWipes => (Spec => []CapturesAsPlanned)`) and
`NeverAstray` (the same of `OnlyAsPlanned`) are about every packet, under the
same hypothesis: without it the rest of an `Apply` would go on where half of its
rules are gone, and connect with that half (mixed mode, flushed between the `nat`
rules and the `mangle` ones; TLC finds that state for either invariant, and
`Reapply` does not mend it, because the chain it looks for is there).  Both are
first shown of what a packet is handed to, and `AsHanded` then says which two
kinds of packet an inbound refuses.  The argument has three parts.

*What the rules say.*  `Inner(c, p)` is what a chain of a plan consists of, one
list for both backends, and `Judged(c, p, x)` what it decides of a packet; that
the first rule that matches is that (`InnerVerdict`) is a case for each chain.
nftables has the same list with a guard in front of it (`RulesetIs`) where
iptables chooses whom to send there (`Leading`), and the two come to the same
(`FullVerdict`, `CallsReached`).  A plan has at most one chain at a hook
(`OneChainPerHook`).  `Says` is then all that a hook may say of a packet while
nothing but the plan's own chains is called and each of them is complete or
empty (`Ours`), `Heeds` what it does say when everything is in place.
`OnlyAsSaid` and `HeededIsPromise` follow a packet through its hooks from there.

*What iptables is told.*  `Laid` names, for every chain a plan makes, the place
in the program where its block starts: the command that makes the chain, then
one for every rule of `Inner`, then one for every member of `Leading`, and says
that the program is those blocks with TPROXY's own commands in between.
`BodyLaid` is that `IptApply` is such a program for every plan, block by block.

*How far it is.*  `Filled(s, m, p)` is the kernel when the `m`-th command is the
next: a chain is there once its block has begun and has the rules of the
commands so far, and the only jumps to it are those of its block, which come
after its last rule.  `FilledStep` keeps that through any command.  `Faithful`
is the invariant on top of `Inv` and `Relics`: what is called is the plan's
(`Loyal`); a sweep that precedes an application starts where nothing is hooked
in (`Bare`), which for a reapplication needs that a QUIC block is never alone
(`Accompanied`, from `QuicFollows`: it is made after the chain that `Installed`
looks for); an application has come as far as its commands (`Filling` for
iptables, `Tabled` for nftables); and what it ends with is everything, or
nothing with a flush still to be told of (`Final`).

The device names are assumed not to be the two words that stand for the router
itself and for the core (`NamesAssumption`).

### The updater

`UpdaterProofs.tla` proves, for any callers, versions and bundles and any bounds:
`NothingUnverified` (`UpdSpec => []OnlyTheVouchedFor`) and `OneInstall`
(`UpdSpec => []ProgressIsTheInstalls`), without an assumption.  The invariant has
three parts: `Typed`, in which the installers are by their type as they should
be; `Claimed`, that the claim has one holder; and `FoundBy`, what a goroutine has
found by the time it is where it is, which is what makes the directory's content
the holder's: `Unpack` reads the file by its name, so it matters that nobody else
has written it, and that follows from the claim.  A step of the holder is either
a failure (`FailureIsSafe`), progress (`ProgressIsSafe`) or the hand-over.

### The statistics

`StatisticsProofs.tla` proves `StatSpec => []LateSamplesAreFew`, for any plan and
any size of the chart.  The bound is not inductive.  What is: the samples that
are late already and the readers that still hold one are together fewer than the
connections there were before (`Few`), and what a late reading can still spoil is
counted with what is spoilt: one for a reading that was put beside the one
before, two for one that was not, one for the reading after it.  The lemmas say
what appending to a chart and dropping its oldest sample do to such a count.

### The log

`LogProofs.tla` proves, for rings of any size, any number of writers and any
table of faults: `ReadersAreGivenTheTail` (`LogSpec => []ReadersSeeTheTail`),
`BurstsAreAlwaysNews` (`LogSpec => []BurstsAreNews`) and `MirrorAlwaysRecovers`
(`LogSpec => MirrorRecovers`).  A ring holds the end of what was written to it,
place by place, wherever its hand is and whether it went round or not (`Holds`);
a run of a fault is the end of its occurrences since the last report (`Runs`),
and what was reported is what ought to have been (`News`); the next look for the
system log is at most a minute away, counted from when it came up (`SinkInv`).
That the status page shows what was reported needs that the ranking of the
faults is one: a sorting without ties exists because the faults are finitely
many (`Ranking`).

### The configuration

`ConfigProofs.tla` proves `CoreAlwaysFits` (`BuildSpec => []CoreFits`) and
`RoutesAlwaysAsRuled` (`BuildSpec => []RoutesAsRuled`), for lists of servers and
rules of any length, and `NoticeTellsTruth` (`Spec => []PendingTellsTruth`), for
any history of edits.  The operator's rules are compiled by a loop; what it
leaves is the enabled rules in their order, one for one (`UserRulesInOrder`), and
the first that hits in the compiled list is then the first that matches in the
operator's, behind those for the daemon's own inbounds and for the addresses that
are never proxied (`PlacesOfRules`, `FirstDecides`).  For the notice: what a
connect builds is a function of its material and of nothing else
(`MaterialIsAllThereIs`), and what is dialled and what runs was made of the
material kept with it (`MadeInv`).  Both invariants are inductive without help
from the rest of the store.

tlapm cannot take the library's induction theorems.  Where a recursion is over
the places of a sequence, the proofs use instead that a set of numbers that is
not empty has a least element (`LeastElement`): the recursive function is shown
to be the one the lemma names by looking at the least place where it were not.

### Only model-checked

The liveness properties (fairness and ENABLED are out of the prover's reach);
and of `ConfigStore` `SelectionResolves` and `RefreshKeepsIdentity`, which rest
on the identifiers being distinct through every merge of a subscription: the
merge filters with `SelectSeq`, a recursive definition the prover treats as
opaque and whose properties would need an induction over the sequence.

## Plan

Done: the engine, the supervised process, the tunnel, the resolver, the capture
rules, the core's configuration, the configuration store, the log, the updater,
the statistics.
Left, in order:

1. *Proofs*: the selection of `ConfigStore`, and what a flush in the middle of an
   `Apply` of iptables leaves.
2. *The mechanisms as the engine sees them*: an abstract `Part` that is put on
   the device, taken off and cleared after a crash, implemented by `TunDevice`,
   `DnsSteering` and `Firewall`, and shown to be what one member of `Engine`'s
   `inst` and `held` does.
3. *The death of a core during its start*: `coreStarting`, the exit callback and
   the wait of the engine, over `Supervisor`.

Bounds as here: one or two of everything that interleaves, one or two crashes,
one failure per step.  No module that is to be proved about uses RECURSIVE.

## Not modelled

* *System firewall watch*: a cached answer for the status page, refreshed by one
  goroutine at a time.
* *Clock*: one decision and one `settimeofday`; nothing waits for it.
* *Network detection, certificate fetch, self test, connection table, share
  links*: parsers and probes without state; their outcomes are choices of
  `Engine` (`Grounds`, `Reach`) and of `ConfigStore` (`Offers`, `Listings`,
  `Pins`).
* *Command line, RPC and web interface*: clients of the API without state.
* *Socket marks*: one socket option; that every outbound carries it is part of
  `CoreFits`.
