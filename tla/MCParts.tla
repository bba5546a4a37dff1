------------------------------ MODULE MCParts -------------------------------
(***************************************************************************)
(* Instances of five parts that share nothing with one another: the log    *)
(* and its journal, the updater, the compilation of a connect, the         *)
(* steering of the resolver and the statistics.  A behaviour is one of one *)
(* of them, the others standing still at one of their initial states.      *)
(***************************************************************************)
EXTENDS LogJournal, CoreBuild, Updater, DnsSteering, Statistics, TLC

\* The log: one fault a lossy line makes and one that is fatal.
TheLines ==
  {[key |-> "k1", level |-> "error", ws |-> TRUE, fatal |-> FALSE],
   [key |-> "k2", level |-> "error", ws |-> TRUE, fatal |-> TRUE]}

\* The updater: a newer release, the one that runs, and one nobody can compare.
TheVersions == {<<1>>, <<0, 9>>, Unparseable}
TheRunning == <<0, 9, 0>>

\* The statistics: three servers after one another, and groups.
ThePlans ==
  {<<"server", "server", "server">>, <<"healthAware", "healthBlind">>,
   <<"server", "healthAware">>}

-----------------------------------------------------------------------------
\* The compilation: every kind of server a core may have dropped, every list of
\* up to two of seven rules, and every strategy.

CONSTANTS s1, c1, c2

Server ==
  [proto |-> "vless", at |-> "a", user |-> "u", net |-> "tcp", sec |-> "tls",
   key |-> Absent, pin |-> Absent, name |-> "n", unver |-> FALSE, auto |-> FALSE,
   header |-> FALSE, insecure |-> FALSE]
Servers ==
  {Server, [Server EXCEPT !.net = "h2"], [Server EXCEPT !.pin = "x"],
   [Server EXCEPT !.insecure = TRUE, !.name = Absent],
   [Server EXCEPT !.net = "kcp", !.header = TRUE, !.sec = "none"],
   [Server EXCEPT !.net = "quic", !.sec = "reality"],
   [Server EXCEPT !.auto = TRUE], [Server EXCEPT !.pin = "bad"]}

Rule == [on |-> TRUE, action |-> "direct", sites |-> {}, to |-> {},
         clients |-> {}, ports |-> {}, protocols |-> {}]
Rulebook ==
  {[Rule EXCEPT !.sites = {s1}],
   [Rule EXCEPT !.sites = {s1}, !.action = "proxy", !.clients = {c1}],
   [Rule EXCEPT !.to = {"far"}, !.action = "block", !.ports = {"other"}],
   [Rule EXCEPT !.protocols = {"bittorrent"}],
   [Rule EXCEPT !.clients = {c2}, !.action = "block", !.on = FALSE],
   [Rule EXCEPT !.to = {"private"}, !.action = "proxy"], Rule}
RuleLists == UNION {[1 .. n -> Rulebook] : n \in 0 .. 2}

Plainly ==
  [mode |-> "redirect", dns |-> "dnsmasq", sniff |-> "auto", keeps |-> TRUE]
Routed ==
  [settings : [mode : {"redirect"}, dns : {"off", "redirect"},
               sniff : {"auto", "on", "bogus"}, keeps : {TRUE}],
   servers : {<<Server>>}, strategy : {Absent, "random"}, rules : RuleLists,
   resolvers : {{}, {"r"}}, has : {Features}, asked : {TRUE}]
Alone ==
  [settings : [mode : Modes \cup {"bogus"}, dns : {"off", "dnsmasq"},
               sniff : {"off"}, keeps : BOOLEAN],
   servers : {<<p>> : p \in Servers}, strategy : Strategies \cup {Absent},
   rules : {<<>>}, resolvers : {{}}, has : SUBSET Features, asked : BOOLEAN]
Grouped ==
  [settings : {Plainly},
   servers : {<<>>} \cup [1 .. 2 -> Servers], strategy : Strategies,
   rules : {<<>>}, resolvers : {{}}, has : {Features, {}, {"pin"}},
   asked : BOOLEAN]
TheOrders == Routed \cup Alone \cup Grouped

-----------------------------------------------------------------------------
VARIABLE part   \* the part that runs

LogRests == LogInit /\ logd.up
BuildRests == order = Absent /\ core = Absent
UpdRests == /\ UpdInit
            /\ newest = <<1>>
            /\ \A v \in Versions : site[v] = [bundle |-> "b1", sums |-> "b1"]
DnsRests == Init /\ way = "uci" /\ own = "unset"
StatRests == StatInit /\ plan = <<"server", "server", "server">>

PartsInit ==
  \/ part = "log" /\ LogInit /\ BuildRests /\ UpdRests /\ DnsRests /\ StatRests
  \/ part = "build" /\ BuildInit /\ LogRests /\ UpdRests /\ DnsRests /\ StatRests
  \/ part = "update" /\ UpdInit /\ LogRests /\ BuildRests /\ DnsRests /\ StatRests
  \/ part = "dns" /\ Init /\ LogRests /\ BuildRests /\ UpdRests /\ StatRests
  \/ part = "stats" /\ StatInit /\ LogRests /\ BuildRests /\ UpdRests /\ DnsRests

PartsNext ==
  /\ UNCHANGED part
  /\ \/ /\ part = "log" /\ LogNext
        /\ UNCHANGED <<buildVars, updVars, vars, statVars>>
     \/ /\ part = "build" /\ BuildNext
        /\ UNCHANGED <<logVars, updVars, vars, statVars>>
     \/ /\ part = "update" /\ UpdNext
        /\ UNCHANGED <<logVars, buildVars, vars, statVars>>
     \/ /\ part = "dns" /\ Next
        /\ UNCHANGED <<logVars, buildVars, updVars, statVars>>
     \/ /\ part = "stats" /\ StatNext
        /\ UNCHANGED <<logVars, buildVars, updVars, vars>>

PartsSymmetry == Permutations(Writers) \cup Permutations(Callers)

PartsSpec ==
  PartsInit /\
  [][PartsNext]_<<part, logVars, buildVars, updVars, vars, statVars>>
=============================================================================
