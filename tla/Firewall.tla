------------------------------ MODULE Firewall ------------------------------
(***************************************************************************)
(* The capture rules: internal/fw/fw.go with its two backends, nft.go and  *)
(* ipt.go, under the engine that applies, reapplies, reverts and clears    *)
(* them (internal/daemon/engine.go).                                       *)
(*                                                                         *)
(* The kernel holds chains, jumps from its hooks into them and, for        *)
(* TPROXY, a policy rule with a local route.  Both backends are lists of   *)
(* commands on these; nftables replaces everything in one, iptables needs  *)
(* one per rule and may be refused, or its process killed, after any.      *)
(* What the rules are for is the fate of a packet: Handed walks the hooks  *)
(* as the kernel does, Fate asks the inbound it comes to, and Promise says *)
(* what the mode is meant to do with it.                                   *)
(***************************************************************************)
EXTENDS Naturals, SequencesExt

CONSTANTS
  Backends,     \* "nft" and "ipt", the firewalls the device may have
  Plans,        \* what may be asked of them
  Devices,      \* the interfaces clients and the upstream are on
  Deletes,      \* how often Revert deletes one jump: 8 in ipt.go
  MaxWipes,     \* bound on flushes by somebody else
  MaxKills,     \* bound on kills of the daemon
  TornWipes     \* iptables is also flushed while Apply is running

Modes == {"redirect", "mixed", "tproxy", "tun"}
Plan == [mode : Modes, hijack : BOOLEAN, router : BOOLEAN, quic : BOOLEAN,
         lan : Seq(Devices), wan : Devices \cup {""}]

ASSUME BackendsAssumption == Backends \subseteq {"nft", "ipt"}
ASSUME PlansAssumption == Plans \subseteq Plan
ASSUME DevicesAssumption == \A p \in Plans : Len(p.lan) <= Deletes
\* No interface has the name that stands for the router itself or for the core.
ASSUME NamesAssumption == Devices \cap {"router", "core"} = {}
ASSUME FirewallBounds == /\ {Deletes, MaxWipes, MaxKills} \subseteq Nat
                         /\ Deletes > 0 /\ TornWipes \in BOOLEAN

VARIABLES
  backend,      \* e.firewall's type, chosen by what the device has
  plan,         \* what the rules were last asked for
  job, at,      \* the engine's operation and its next command
  connected,    \* e.connected
  alive,        \* the daemon runs
  \* the kernel
  chains,       \* the rules in each chain there is
  jumps,        \* the jumps at each hook, first one first
  divert,       \* TPROXY's policy rule and local route are there
  \* what happened
  refused,      \* the last reapplication failed
  pending,      \* the firewall's hotplug event is on its way
  stale,        \* a killed daemon's rules were not reverted since
  wipes, kills

kernel == <<chains, jumps, divert>>
history == <<refused, pending, stale, wipes, kills>>
vars == <<backend, plan, job, at, connected, alive, kernel, history>>

-----------------------------------------------------------------------------
\* Packets: where one comes from, whether its sender is exempt, where it is
\* going and what it carries.  "core" is a packet with the core's mark.

Kinds == {"tcp", "udp", "dnsTcp", "dnsUdp", "quic"}
Tcp == {"tcp", "dnsTcp"}
Dns == {"dnsTcp", "dnsUdp"}
Packets ==
  [from : Devices, spared : BOOLEAN, to : {"private", "listed", "world"},
   kind : Kinds]
  \cup [from : {"router", "core"}, spared : {FALSE},
        to : {"private", "listed", "world"}, kind : Kinds]
Sent(p) == p.from \in Devices

AllBypass == {"private", "listed"}           \* privateCIDRs and the operator's

NeedsTProxy(m) == m = "tproxy"
NeedsFirewallCapture(m) == m # "tun"
CapturesTCPViaRedirect(m) == m \in {"redirect", "mixed"}
MarksUDPForTun(m) == m = "mixed"
CarriesUDP(m) == m # "redirect"

\* A rule is a match, the senders it is about and a verdict.
Senders == Devices \cup {"router", "core"}
From(senders, match, verdict) == [from |-> senders, on |-> match,
                                  do |-> verdict]
On(match, verdict) == From(Senders, match, verdict)
Matches(r, p) ==
  /\ p.from \in r.from
  /\ CASE r.on = "any" -> TRUE
       [] r.on = "mac" -> p.spared
       [] r.on = "bypass" -> p.to \in AllBypass
       [] r.on = "tcp" -> p.kind \in Tcp
       [] r.on = "udp" -> p.kind \notin Tcp
       [] OTHER -> p.kind = r.on

CoreReturns == From({"core"}, "any", "return")
If(condition, s) == IF condition THEN s ELSE <<>>

-----------------------------------------------------------------------------
\* Where chains are and where they are hooked in.

Pre(table) == <<table, "PRE">>
Mark == <<"mangle", "MARK">>
Out(table) == <<table, "OUT">>
Quic == <<"filter", "QUIC">>
Chains == {Pre("nat"), Pre("mangle"), Mark, Out("nat"), Out("mangle"), Quic}
HookOf(c) == CASE c[2] \in {"PRE", "MARK"} -> <<c[1], "PREROUTING">>
               [] c[2] = "OUT" -> <<c[1], "OUTPUT">>
               [] OTHER -> <<c[1], "FORWARD">>
Hooks == {HookOf(c) : c \in Chains}

-----------------------------------------------------------------------------
\* nftables: the whole table in one command.

Outside(p) == IF p.lan # <<>> THEN Devices \ Range(p.lan)
              ELSE IF p.wan # "" THEN {p.wan} ELSE {}
ScopeGuards_NoBypass(p) ==
  <<From(Outside(p), "any", "return"), On("mac", "return")>>
ScopeGuards(p) ==
  <<From(Outside(p), "any", "return"), On("mac", "return"),
    On("bypass", "return")>>

NatChain(p) ==
  If(p.hijack, <<On("dnsUdp", "dns"), On("dnsTcp", "dns")>>)
  \o <<On("tcp", "core")>>
DnsOnlyChain == <<On("dnsUdp", "dns"), On("dnsTcp", "dns")>>
UdpMarkChain(p) ==
  If(p.hijack, <<On("dnsUdp", "return"), On("dnsTcp", "return")>>)
  \o <<On("udp", "mark")>>
TProxyChain(p) ==
  If(p.hijack, <<On("dnsUdp", "tproxyDns"), On("dnsTcp", "tproxyDns")>>)
  \o <<On("tcp", "tproxy"), On("udp", "tproxy")>>
QuicChain == <<On("quic", "reject")>>
OutputGuards == <<CoreReturns, On("bypass", "return")>>

Ruleset(p) ==
  LET m == p.mode
      capture == NeedsFirewallCapture(m)
      scoped(s) == ScopeGuards(p) \o s
  IN [c \in {d \in Chains :
        \/ d = Pre("nat") /\ (CapturesTCPViaRedirect(m) \/ ~capture)
        \/ d = Mark /\ MarksUDPForTun(m)
        \/ d = Pre("mangle") /\ NeedsTProxy(m)
        \/ d = Out("nat") /\ p.router /\ capture
        \/ d = Out("mangle") /\ p.router /\ MarksUDPForTun(m)
        \/ d = Quic /\ p.quic /\ ~CarriesUDP(m)} |->
      CASE c = Pre("nat") -> scoped(IF capture THEN NatChain(p)
                                               ELSE DnsOnlyChain)
        [] c = Mark -> scoped(UdpMarkChain(p))
        [] c = Pre("mangle") -> scoped(TProxyChain(p))
        [] c = Out("nat") -> OutputGuards \o <<On("tcp", "core")>>
        [] c = Out("mangle") ->
             OutputGuards \o If(p.hijack, <<On("dnsUdp", "return")>>)
                          \o <<On("udp", "mark")>>
        [] OTHER -> scoped(QuicChain)]

\* Commands.  Those a teardown runs are quiet: what they return is not read.
Cmd(op, arg) == [op |-> op, arg |-> arg]
Need == Cmd("need", <<>>)
Divert == Cmd("divert", <<>>)
NftRevert == <<Cmd("drop", <<>>), Cmd("undivert", <<>>)>>
NftApply(p) ==
  IF ~NeedsFirewallCapture(p.mode) /\ ~p.hijack THEN NftRevert
  ELSE If(NeedsTProxy(p.mode), <<Need>>)
       \o <<Cmd("table", Ruleset(p))>>
       \o If(NeedsTProxy(p.mode), <<Divert>>)

-----------------------------------------------------------------------------
\* iptables: one command for every rule.

New(c) == Cmd("new", c)
Add(c, r) == Cmd("add", <<c, r>>)
Jump(c, senders) == Cmd("jump", [from |-> senders, to |-> c])

NewChain(c) ==
  <<New(c), Add(c, On("mac", "return")), Add(c, On("bypass", "return"))>>
Hook_First(c, p) ==
  IF p.lan # <<>> THEN <<Jump(c, {p.lan[1]})>> ELSE <<Jump(c, Devices)>>
Hook(c, p) ==
  IF p.lan # <<>> THEN [i \in DOMAIN p.lan |-> Jump(c, {p.lan[i]})]
  ELSE <<Jump(c, IF p.wan # "" THEN Devices \ {p.wan} ELSE Devices)>>
Adds(c, rules) == [i \in DOMAIN rules |-> Add(c, rules[i])]
DnsRules(verdict) == <<On("dnsUdp", verdict), On("dnsTcp", verdict)>>

QuicBlock(p) ==
  NewChain(Quic) \o <<Add(Quic, On("quic", "reject"))>> \o Hook(Quic, p)
NatRules(p) ==
  LET c == Pre("nat")
  IN NewChain(c) \o Adds(c, If(p.hijack, DnsRules("dns")))
     \o <<Add(c, On("tcp", "core"))>> \o Hook(c, p)
DnsOnly(p) ==
  LET c == Pre("nat")
  IN NewChain(c) \o Adds(c, DnsRules("dns")) \o Hook(c, p)
UdpMark(p) ==
  NewChain(Mark) \o Adds(Mark, If(p.hijack, DnsRules("return")))
  \o <<Add(Mark, On("udp", "mark"))>> \o Hook(Mark, p)
TProxy(p) ==
  LET c == Pre("mangle")
  IN NewChain(c) \o Adds(c, If(p.hijack, DnsRules("tproxyDns")))
     \o Adds(c, <<On("tcp", "tproxy"), On("udp", "tproxy")>>) \o Hook(c, p)

OutputRules(c, rules) ==
  <<New(c)>> \o Adds(c, <<CoreReturns, On("bypass", "return")>> \o rules)
  \o <<Jump(c, Senders)>>
Output(p) ==
  OutputRules(Out("nat"), <<On("tcp", "core")>>)
  \o If(MarksUDPForTun(p.mode),
        OutputRules(Out("mangle"), If(p.hijack, <<On("dnsUdp", "return")>>)
                                   \o <<On("udp", "mark")>>))

Unhook(c) == [i \in 1..Deletes |-> Cmd("unjump", c)]
Discard(c) == <<Cmd("flush", c), Cmd("delete", c)>>
Clear(cs) == FlattenSeq([i \in DOMAIN cs |-> Unhook(cs[i])])
             \o FlattenSeq([i \in DOMAIN cs |-> Discard(cs[i])])
IptRevert_NoFilter ==
  Clear(<<Pre("nat"), Out("nat")>>)
  \o Clear(<<Pre("mangle"), Mark, Out("mangle")>>)
  \o <<Cmd("undivert", <<>>)>>
IptRevert ==
  Clear(<<Pre("nat"), Out("nat")>>)
  \o Clear(<<Pre("mangle"), Mark, Out("mangle")>>)
  \o Clear(<<Quic>>) \o <<Cmd("undivert", <<>>)>>
IptApply(p) ==
  IptRevert \o
  IF ~NeedsFirewallCapture(p.mode) THEN If(p.hijack, DnsOnly(p))
  ELSE If(CapturesTCPViaRedirect(p.mode), NatRules(p))
       \o If(MarksUDPForTun(p.mode), UdpMark(p))
       \o If(NeedsTProxy(p.mode), <<Need>> \o TProxy(p) \o <<Divert>>)
       \o If(p.router, Output(p))
       \o If(p.quic /\ ~CarriesUDP(p.mode), QuicBlock(p))

-----------------------------------------------------------------------------
\* What a command does to the kernel, and when the kernel accepts it.

NoJumps == [h \in Hooks |-> <<>>]
Without(f, x) == [y \in DOMAIN f \ {x} |-> f[y]]
Referenced(c) == \E j \in Range(jumps[HookOf(c)]) : j.to = c

Possible(cmd) ==
  CASE cmd.op = "new" -> cmd.arg \notin DOMAIN chains
    [] cmd.op = "add" -> cmd.arg[1] \in DOMAIN chains
    [] cmd.op = "jump" -> cmd.arg.to \in DOMAIN chains
    [] OTHER -> TRUE

ChainsAfter(cmd) ==
  CASE cmd.op = "table" -> cmd.arg
    [] cmd.op = "drop" -> <<>>
    [] cmd.op = "new" -> [c \in DOMAIN chains \cup {cmd.arg} |->
                            IF c = cmd.arg THEN <<>> ELSE chains[c]]
    [] cmd.op = "add" -> [chains EXCEPT ![cmd.arg[1]] = Append(@, cmd.arg[2])]
    [] cmd.op = "flush" /\ cmd.arg \in DOMAIN chains ->
         [chains EXCEPT ![cmd.arg] = <<>>]
    [] cmd.op = "delete" /\ ~Referenced(cmd.arg) -> Without(chains, cmd.arg)
    [] OTHER -> chains

JumpsAfter(cmd) ==
  CASE cmd.op = "table" ->
         [h \in Hooks |-> LET cs == SetToSeq({c \in DOMAIN cmd.arg :
                                                HookOf(c) = h})
                          IN [i \in DOMAIN cs |->
                                [from |-> Senders, to |-> cs[i]]]]
    [] cmd.op = "drop" -> NoJumps
    [] cmd.op = "jump" -> [jumps EXCEPT ![HookOf(cmd.arg.to)] =
                             <<cmd.arg>> \o @]
    [] cmd.op = "unjump" ->
         [jumps EXCEPT ![HookOf(cmd.arg)] =
            RemoveFirstMatch(@, LAMBDA j : j.to = cmd.arg)]
    [] OTHER -> jumps

Execute(cmd) ==
  /\ chains' = ChainsAfter(cmd)
  /\ jumps' = JumpsAfter(cmd)
  /\ divert' = CASE cmd.op = "divert" -> TRUE
                 [] cmd.op = "undivert" -> FALSE
                 [] OTHER -> divert

-----------------------------------------------------------------------------
\* The fate of a packet.

ChainVerdict(c, p) ==
  LET i == SelectInSeq(chains[c], LAMBDA r : Matches(r, p))
  IN IF i = 0 THEN "return" ELSE chains[c][i].do

Verdict(hook, p) ==
  LET i == SelectInSeq(jumps[hook],
             LAMBDA j : p.from \in j.from /\ ChainVerdict(j.to, p) # "return")
  IN IF i = 0 THEN "accept" ELSE ChainVerdict(jumps[hook][i].to, p)

\* The tunnel is up before the rules are applied and until they are reverted.
TunnelUp == /\ plan.mode \in {"mixed", "tun"}
            /\ connected \/ job \in {"connect", "disconnect"}
Routed(p, marked) ==
  IF /\ TunnelUp /\ p.from # "core" /\ p.to # "listed"
     /\ marked \/ plan.mode = "tun"
  THEN "tunnel" ELSE "direct"

\* Where the rules hand a packet.
Handed(p) ==
  LET side == IF Sent(p) THEN "PREROUTING" ELSE "OUTPUT"
      m == Verdict(<<"mangle", side>>, p)
      n == Verdict(<<"nat", side>>, p)
  IN CASE m \in {"tproxy", "tproxyDns"} ->
            IF ~divert THEN "lost" ELSE IF m = "tproxy" THEN "core" ELSE "dns"
       [] m \notin {"tproxy", "tproxyDns"} /\ n \in {"core", "dns"} -> n
       [] OTHER -> IF Sent(p) /\ Verdict(<<"filter", "FORWARD">>, p) = "reject"
                   THEN "refused" ELSE Routed(p, m = "mark")

\* An inbound is made for one way of arriving (xray/config.go:510).  The one for
\* captured traffic takes what NAT has rewritten or, in mode tproxy, with the
\* socket option, what has not been; the resolver's never has the option.  In
\* that mode the router's TCP comes to the first rewritten, and the clients' DNS
\* to the second as it was sent: neither accepts it.
Fate(p) ==
  IF NeedsTProxy(plan.mode) /\ Handed(p) = (IF Sent(p) THEN "dns" ELSE "core")
  THEN "stray" ELSE Handed(p)

\* What the mode is for, whichever backend serves it.  With no LAN device the
\* rules are to "capture everything except upstream" (nft.go:299); the engine
\* says otherwise, see NothingWithoutLan.
Promise(p) ==
  LET m == plan.mode
      client == Sent(p) /\ p.from \notin Outside(plan)
      own == p.from = "router" /\ plan.router /\ m # "tun"
      excused == p.from = "core" \/ p.spared \/ p.to \in AllBypass
  IN IF excused \/ ~(client \/ own) THEN Routed(p, FALSE)
     ELSE IF client /\ plan.hijack /\ p.kind \in Dns THEN "dns"
     ELSE IF m = "tun" THEN "tunnel"
     ELSE IF p.kind \in Tcp THEN "core"
     ELSE CASE m = "mixed" ->
                 IF p.kind = "dnsUdp" /\ plan.hijack THEN "direct" ELSE "tunnel"
            [] m = "tproxy" -> IF client THEN "core" ELSE "direct"
            [] OTHER -> IF client /\ p.kind = "quic" /\ plan.quic
                        THEN "refused" ELSE "direct"

-----------------------------------------------------------------------------
\* The engine's operations.

Programs == [b \in Backends |->
               [p \in Plans |-> IF b = "nft" THEN NftApply(p) ELSE IptApply(p)]]
Reverts == [b \in Backends |-> IF b = "nft" THEN NftRevert ELSE IptRevert]
Program == IF job \in {"connect", "reapply"} THEN Programs[backend][plan]
           ELSE Reverts[backend]

\* Whether the engine makes itself a backend at all.
UsesFirewall(p) == NeedsFirewallCapture(p.mode) \/ p.hijack

Installed_NatOnly ==
  IF backend = "nft" THEN DOMAIN chains # {} ELSE Pre("nat") \in DOMAIN chains
Installed ==
  IF backend = "nft" THEN DOMAIN chains # {}
  ELSE DOMAIN chains \cap {<<t, c>> : t \in {"nat", "mangle"},
                                     c \in {"PRE", "MARK"}} # {}

Idle == alive /\ job = "none"

Init ==
  /\ backend \in Backends /\ plan \in Plans
  /\ job = "none" /\ at = 1 /\ connected = FALSE /\ alive = TRUE
  /\ chains = <<>> /\ jumps = NoJumps /\ divert = FALSE
  /\ refused = FALSE /\ pending = FALSE /\ stale = FALSE
  /\ wipes = 0 /\ kills = 0

Connect(p) ==
  /\ Idle /\ ~connected
  /\ plan' = p /\ refused' = FALSE
  /\ IF UsesFirewall(p) THEN job' = "connect" /\ connected' = FALSE
                        ELSE job' = "none" /\ connected' = TRUE
  /\ UNCHANGED <<backend, at, alive, kernel, pending, stale, wipes, kills>>

Disconnect ==
  /\ Idle /\ connected
  /\ connected' = FALSE
  /\ job' = IF UsesFirewall(plan) THEN "disconnect" ELSE "none"
  /\ UNCHANGED <<backend, plan, at, alive, kernel, history>>

\* The hotplug hook: a reload of the firewall may have flushed the rules.  The
\* devices are detected again.
Reapply(p) ==
  /\ Idle /\ pending
  /\ pending' = FALSE
  /\ p.mode = plan.mode /\ p.hijack = plan.hijack /\ p.router = plan.router
  /\ p.quic = plan.quic
  /\ IF connected /\ UsesFirewall(plan) /\ ~Installed
     THEN plan' = p /\ job' = "reapply"
     ELSE plan' = plan /\ job' = job
  /\ UNCHANGED <<backend, at, connected, alive, kernel, refused, stale, wipes,
                 kills>>

NextCommand ==
  /\ job # "none" /\ at <= Len(Program)
  /\ LET cmd == Program[at]
     IN /\ Possible(cmd) /\ Execute(cmd)
        /\ stale' = (stale /\ cmd.op # "undivert")
  /\ at' = at + 1
  /\ UNCHANGED <<backend, plan, job, connected, alive, refused, pending,
                 wipes, kills>>

\* A command of Apply is refused.  addTProxyRouting reverts by itself; after
\* anything else what was installed stays until the engine tears down, which
\* it does for a connect and not for a reapplication.
Refuse ==
  /\ job \in {"connect", "reapply"} /\ at <= Len(Program)
  /\ LET cmd == Program[at]
     IN /\ cmd.op \in {"need", "table", "divert", "new", "add", "jump"}
        /\ job' = IF job = "connect" THEN "disconnect"
                  ELSE IF cmd.op = "divert" THEN "unwind" ELSE "none"
  /\ refused' = (job = "reapply")
  /\ at' = 1
  /\ UNCHANGED <<backend, plan, connected, alive, kernel, pending, stale,
                 wipes, kills>>

Done ==
  /\ job # "none" /\ at > Len(Program)
  /\ job' = "none" /\ at' = 1
  /\ connected' = (job \in {"connect", "reapply", "unwind"})
  /\ UNCHANGED <<backend, plan, alive, kernel, history>>

\* Somebody restarts the firewall, which empties every table.
Wipe ==
  /\ wipes < MaxWipes /\ wipes' = wipes + 1
  /\ \/ backend = "nft" \/ TornWipes
     \/ job \notin {"connect", "reapply"}
  /\ chains' = <<>> /\ jumps' = NoJumps
  /\ pending' = alive
  /\ UNCHANGED <<backend, plan, job, at, connected, alive, divert, refused,
                 stale, kills>>

Kill ==
  /\ alive /\ kills < MaxKills /\ kills' = kills + 1
  /\ alive' = FALSE /\ job' = "none" /\ at' = 1 /\ connected' = FALSE
  /\ pending' = FALSE /\ refused' = FALSE
  /\ stale' = (chains # <<>> \/ divert)
  /\ UNCHANGED <<backend, plan, kernel, wipes>>

\* ClearStaleState reverts only what Installed sees.
Restart ==
  /\ ~alive /\ alive' = TRUE
  /\ job' = IF Installed THEN "clear" ELSE "none"
  /\ UNCHANGED <<backend, plan, at, connected, kernel, history>>

Next ==
  \/ \E p \in Plans : Connect(p) \/ Reapply(p)
  \/ Disconnect \/ NextCommand \/ Refuse \/ Done
  \/ Wipe \/ Kill \/ Restart

Spec == Init /\ [][Next]_vars

-----------------------------------------------------------------------------
\* Properties.

\* At no point of an Apply, a Revert or a flush is a packet sent anywhere but
\* where the mode means it to go or where it would go without the rules: the
\* guards of a chain are there before anything can reach it.  TPROXY's packets
\* have nowhere to go until the policy route is there, the last step; that they
\* may be left so by a refused reapplication is UncapturedWhenRefused.  And in
\* that mode the rules themselves send two kinds of packet where they are not
\* accepted, and no others: see DnsReachesTheResolver, RoutersTcpIsCaptured.
Misaimed(p) ==
  NeedsTProxy(plan.mode) /\ Promise(p) = (IF Sent(p) THEN "dns" ELSE "core")
OnlyAsPlanned ==
  alive /\ ~stale =>
    \A p \in Packets :
      \/ Fate(p) \in {Routed(p, FALSE), Promise(p)}
      \/ Fate(p) = "stray" /\ Misaimed(p)
      \/ /\ Fate(p) = "lost" /\ plan.mode = "tproxy"
         /\ job # "none" \/ refused

\* Both backends give every packet what the mode promises, whenever the engine
\* is connected, at rest and has no flush still to be told of; in mode tproxy
\* all but the clients' DNS, where it is hijacked, and the router's own TCP,
\* where it is to be captured, which are both lost on an inbound.
Settled == Idle /\ connected /\ ~pending /\ ~refused /\ ~stale
CapturesAsPlanned ==
  Settled => \A p \in Packets :
               Fate(p) = IF Misaimed(p) THEN "stray" ELSE Promise(p)

\* model.go:152: "DNSMode selects how client DNS queries are steered through the
\* core", and 160: "DNSRedirect hijacks port 53 in the firewall".  What a client
\* asks of a resolver comes to the core's, in every mode that may be chosen.
DnsReachesTheResolver ==
  Settled => \A p \in Packets : Promise(p) = "dns" => Fate(p) = "dns"

\* nft.go:246: "in tproxy mode the router's own UDP cannot be captured this way;
\* only TCP is".  The TCP connections the router makes come to the core.
RoutersTcpIsCaptured ==
  Settled => \A p \in Packets :
               p.from = "router" /\ Promise(p) = "core" => Fate(p) = "core"

\* engine.go:751, what the operator is told: "no LAN device was detected, so
\* nothing will be captured".  No client's packet leaves its own way then.
NothingWithoutLan ==
  Settled /\ plan.lan = <<>> =>
    \A p \in Packets : Sent(p) => Fate(p) = Routed(p, FALSE)

\* A disconnected daemon has left nothing of its own in the kernel: no chain,
\* no jump of one of several devices, no policy rule.
RevertLeavesNothing ==
  Idle /\ ~connected /\ ~stale =>
    chains = <<>> /\ jumps = NoJumps /\ ~divert

\* Wherever the daemon was killed, the next one leaves no client cut off from
\* the internet: every packet goes its own way again.  QUIC under iptables is
\* the exception, see LeftoversAreFound.
KillBlackHolesNobody ==
  Idle /\ ~connected =>
    \A p \in Packets : \/ Fate(p) = "direct"
                       \/ backend = "ipt" /\ p.kind = "quic"

\* ipt.go:282 on the QUIC block: "Leaving it behind would be the worst kind of
\* leftover: the tunnel is off, nothing is running, and every client on the
\* network silently loses QUIC".  ClearStaleState promises to remove anything a
\* previous run left behind; this is what it would take.
LeftoversAreFound ==
  Idle /\ ~connected => \A p \in Packets : Fate(p) # "refused"
\* messages.go:129, the hint for a reapplication that failed: "traffic is no
\* longer being captured".  The operator is told that the LAN goes out directly.
UncapturedWhenRefused ==
  Idle /\ refused => \A p \in Packets : Fate(p) = Routed(p, FALSE)
=============================================================================
