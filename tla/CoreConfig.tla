----------------------------- MODULE CoreConfig -----------------------------
(***************************************************************************)
(* The configuration a proxy core is started with: internal/xray over the  *)
(* records of internal/model.  Build is what xray.Build makes of settings, *)
(* a server or a group, and the operator's rules; Route and Known are      *)
(* what the core does with it.  Records keep the fields that decide        *)
(* whether a configuration is built, accepted and routed as meant; keys,   *)
(* paths, host headers, probe intervals and ports are left out.            *)
(***************************************************************************)
EXTENDS Naturals, FiniteSetsExt, SequencesExt

CONSTANTS
  Absent,       \* the absent value
  Sites,        \* names a rule may be about
  Clients       \* devices on the LAN a rule may be about

-----------------------------------------------------------------------------
\* internal/model: what a record has to be.

Protos == {"vless", "vmess", "trojan", "shadowsocks"}
Networks == {"tcp", "ws", "grpc", "h2", "xhttp", "kcp", "quic",
             "httpupgrade"}
Strategies == {"leastPing", "leastLoad", "balance", "random", "roundRobin"}
HealthAware(st) == st \in {"leastPing", "leastLoad", "balance"}

\* name is what the certificate of the server is checked against, Absent where
\* there is nothing but an address; unver says the certificate did not match it.
CanAutoPin(p) == /\ p.sec = "tls"
                 /\ p.name = Absent \/ (p.pin # Absent /\ p.unver)
ValidProfile(p) ==
  /\ p.proto \in Protos /\ p.user # Absent
  /\ p.net \in Networks
  /\ p.sec \in {"none", "tls", "reality"}
  /\ p.sec = "reality" => p.key # Absent
  /\ p.auto => CanAutoPin(p)

\* Settings and groups are made usable when they are read.
Modes == {"redirect", "mixed", "tproxy", "tun"}
Normal(s) ==
  [s EXCEPT !.mode = IF @ \in Modes THEN @ ELSE "mixed",
            !.dns = IF @ \in {"dnsmasq", "redirect", "off"} THEN @
                    ELSE "dnsmasq",
            !.sniff = IF @ \in {"auto", "on", "off"} THEN @ ELSE "auto"]

ValidGroup(g) == g.members # <<>> /\ g.strategy \in Strategies /\ g.probe # "bad"

RuleActions == {"direct", "proxy", "block"}
HasMatcher(r) ==
  {} # r.sites \cup r.to \cup r.clients \cup r.ports \cup r.protocols
ValidRule(r) == r.action \in RuleActions /\ HasMatcher(r)

NeedsFirewall(m) == m # "tun"
ByTProxy(m) == m = "tproxy"

-----------------------------------------------------------------------------
\* Outbounds.  A tag is a tuple: a member's is the prefix and its number.

TagProxy == <<"proxy">>
TagMember(i) == <<"proxy-", i>>
TagDirect == <<"direct">>
TagBlock == <<"block">>
TagDns == <<"dns-out">>
TagBalancer == <<"balancer">>
TagApi == <<"api">>

\* What a core may have removed, and what a profile takes of it.  A core that
\* could not be asked is taken to have everything.
Features == {"h2", "quic", "kcpHeader", "pin", "insecure"}
ProbeCore(has, asked) == IF asked THEN has ELSE Features
Takes(p) ==
  {f \in {"h2", "quic"} : p.net = f}
  \cup {f \in {"kcpHeader"} : p.net = "kcp" /\ p.header}
  \cup {f \in {"pin"} : p.sec = "tls" /\ p.pin # Absent}
  \cup {f \in {"insecure"} : p.sec = "tls" /\ p.pin = Absent /\ p.insecure}

Buildable(p, caps) ==
  ValidProfile(p) /\ Takes(p) \subseteq caps /\ (p.sec = "tls" => p.pin # "bad")

\* The transports a TCP keepalive can be set on.
KeepsAlive(p) == p.net \in {"tcp", "ws", "httpupgrade", "grpc", "h2"}
ProxyOutbound(p, tag, keeps) ==
  [tag |-> tag, server |-> <<p.proto, p.at, p.user, p.net, p.sec, p.key>>,
   takes |-> Takes(p), pin |-> IF p.sec = "tls" THEN p.pin ELSE Absent,
   keepalive |-> keeps /\ KeepsAlive(p), mark |-> TRUE]
Plain(tag, mark) ==
  [tag |-> tag, server |-> <<>>, takes |-> {}, pin |-> Absent,
   keepalive |-> FALSE, mark |-> mark]

Expected(st, n) == CASE st = "balance" -> n [] st = "leastLoad" -> 1
                     [] OTHER -> 0
Balancer(st, outs) ==
  [type |-> IF st = "balance" THEN "leastLoad" ELSE st,
   expected |-> Expected(st, Len(outs)),
   fallback |-> IF HealthAware(st) THEN outs[1].tag ELSE TagBalancer]
Observatory_OnlyByName(st) == CASE st = "leastPing" -> "ping"
                                [] st = "leastLoad" -> "burst"
                                [] OTHER -> "none"
Observatory(st) == CASE st = "leastPing" -> "ping"
                     [] st \in {"leastLoad", "balance"} -> "burst"
                     [] OTHER -> "none"

-----------------------------------------------------------------------------
\* Inbounds: where they listen, what they carry, and whether their socket is
\* transparent.

In(tag, listen, net, tproxy) ==
  [tag |-> tag, listen |-> listen, net |-> net, tproxy |-> tproxy]
Inbounds(s) ==
  {In("api-in", "loopback", {"tcp"}, FALSE),
   In("socks-in", "any", {"tcp", "udp"}, FALSE),
   In("http-in", "any", {"tcp"}, FALSE)}
  \cup (IF ~NeedsFirewall(s.mode) THEN {}
        ELSE {In("transparent-in", "any",
                 IF ByTProxy(s.mode) THEN {"tcp", "udp"} ELSE {"tcp"},
                 ByTProxy(s.mode))})
  \cup (IF s.dns = "off" THEN {}
        ELSE {In("dns-in", IF s.dns = "dnsmasq" THEN "loopback" ELSE "any",
                 {"tcp", "udp"}, FALSE)})

\* A sniffed name is for the rules alone, or is where the connection then goes.
SniffWanted(s, rules) ==
  \/ s.sniff = "on"
  \/ s.sniff = "auto" /\ \E r \in Range(rules) : r.on /\ r.sites # {}
SniffingFor(s, rules) ==
  IF ~SniffWanted(s, rules) THEN "off"
  ELSE IF s.dns = "off" THEN "override" ELSE "route"

-----------------------------------------------------------------------------
\* Routing rules.  A field that is empty matches everything.

Field == [ins |-> {}, to |-> {}, sites |-> {}, clients |-> {}, ports |-> {},
          protocols |-> {}, out |-> TagDirect]

Out(action, grouped) ==
  CASE action = "direct" -> TagDirect
    [] action = "block" -> TagBlock
    [] OTHER -> IF grouped THEN TagBalancer ELSE TagProxy

UserRule(r, grouped) ==
  [Field EXCEPT !.to = r.to, !.sites = r.sites, !.clients = r.clients,
                !.ports = r.ports, !.protocols = r.protocols,
                !.out = Out(r.action, grouped)]
UserRules_All(rules, grouped) ==
  [i \in DOMAIN rules |-> UserRule(rules[i], grouped)]
UserRules(rules, grouped) ==
  LET out[i \in 0..Len(rules)] ==
        IF i = 0 THEN <<>>
        ELSE IF rules[i].on THEN Append(out[i - 1], UserRule(rules[i], grouped))
             ELSE out[i - 1]
  IN out[Len(rules)]

\* Where a packet may be going: the private ranges and the operator's bypass
\* list, the resolvers of the upstream link, and the rest of the world.
Places == {"private", "listed", "resolver", "far"}
DirectRule(resolvers) ==
  [Field EXCEPT !.to = {"private", "listed"}
                       \cup {x \in {"resolver"} : resolvers # {}}]

Rules(s, rules, grouped, resolvers) ==
  <<[Field EXCEPT !.ins = {"api-in"}, !.out = TagApi]>>
  \o (IF s.dns = "off" THEN <<>>
      ELSE <<[Field EXCEPT !.ins = {"dns-in"}, !.out = TagDns]>>)
  \o <<DirectRule(resolvers)>> \o UserRules(rules, grouped)
  \o (IF grouped THEN <<[Field EXCEPT !.out = TagBalancer]>> ELSE <<>>)

\* Names the operator bypasses are asked of the upstream link's own resolvers.
BypassedSites(rules) ==
  UNION {r.sites : r \in {x \in Range(rules) :
           x.on /\ x.action = "direct" /\ x.clients = {}}}
DnsServers(s, rules, resolvers) ==
  IF s.dns = "off" THEN <<>>
  ELSE (IF resolvers = {} \/ BypassedSites(rules) = {} THEN <<>>
        ELSE <<[at |-> "resolver", sites |-> BypassedSites(rules)]>>)
       \o <<[at |-> "upstream", sites |-> {}]>>

-----------------------------------------------------------------------------
\* xray.Build, for one server (strategy Absent) or the members of a group.

CanBuild(servers, rules, caps) ==
  /\ servers # <<>>
  /\ \A p \in Range(servers) : Buildable(p, caps)
  /\ \A r \in Range(rules) : r.on => ValidRule(r)

Build(s, servers, strategy, rules, resolvers) ==
  LET grouped == strategy # Absent
      proxies == [i \in DOMAIN servers |->
                    ProxyOutbound(servers[i],
                      IF grouped THEN TagMember(i) ELSE TagProxy, s.keeps)]
  IN [inbounds |-> Inbounds(s),
      outbounds |-> proxies \o <<Plain(TagDirect, TRUE), Plain(TagBlock, FALSE)>>
                    \o (IF s.dns = "off" THEN <<>>
                        ELSE <<Plain(TagDns, TRUE)>>),
      balancer |-> IF grouped THEN {Balancer(strategy, proxies)} ELSE {},
      observes |-> IF grouped THEN Observatory(strategy) ELSE "none",
      dns |-> DnsServers(s, rules, resolvers),
      sniff |-> SniffingFor(s, rules),
      rules |-> Rules(s, rules, grouped, resolvers)]

-----------------------------------------------------------------------------
\* The core (external): what it takes, and where it sends a connection.

Known(core, caps) ==
  LET tags == {o.tag : o \in Range(core.outbounds)}
              \cup {TagBalancer : b \in core.balancer} \cup {TagApi}
  IN /\ \A r \in Range(core.rules) : r.out \in tags
     /\ \A o \in Range(core.outbounds) : o.takes \subseteq caps
     /\ \A b \in core.balancer :
          /\ b.type = "leastPing" => core.observes = "ping"
          /\ b.type = "leastLoad" => core.observes = "burst"
          /\ b.fallback \in tags

\* A connection: the inbound it came by, where to, the site and the protocol
\* its first packet tells, and whether the client named the site itself.
Connections ==
  [in : {"api-in", "socks-in", "transparent-in", "dns-in"}, to : Places,
   site : Sites \cup {Absent}, client : Clients, port : {"web", "other"},
   protocol : {"tls", "bittorrent"}, named : BOOLEAN]

\* What the core knows of it: a name takes the place of the address.
Seen(sniff, c) ==
  [c EXCEPT !.site = IF c.named \/ sniff # "off" THEN @ ELSE Absent,
            !.to = IF c.site # Absent /\ (c.named \/ sniff = "override")
                   THEN Absent ELSE @,
            !.protocol = IF sniff # "off" THEN @ ELSE Absent]

Fits(field, value) == field = {} \/ value \in field
Matches(r, c) ==
  /\ Fits(r.to, c.to) /\ Fits(r.sites, c.site) /\ Fits(r.clients, c.client)
  /\ Fits(r.ports, c.port) /\ Fits(r.protocols, c.protocol)

Route(core, c) ==
  LET i == SelectInSeq(core.rules,
             LAMBDA r : Fits(r.ins, c.in) /\ Matches(r, Seen(core.sniff, c)))
  IN IF i = 0 THEN core.outbounds[1].tag ELSE core.rules[i].out
=============================================================================
