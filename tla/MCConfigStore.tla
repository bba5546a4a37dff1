--------------------------- MODULE MCConfigStore ---------------------------
EXTENDS ConfigStore

CONSTANTS s1, c1

Server == [proto |-> "vless", at |-> "a", user |-> "u", net |-> "tcp",
           sec |-> "tls", key |-> Absent, pin |-> Absent, name |-> Absent,
           unver |-> FALSE, auto |-> FALSE, header |-> FALSE,
           insecure |-> FALSE]
Second == [Server EXCEPT !.user = "v"]
Third == [Server EXCEPT !.at = "b", !.auto = TRUE, !.pin = "x"]
TheOffers == {Second, Third}
TheListings == {<<Second, Server>>, <<Server, Server>>,
                <<Second, [Server EXCEPT !.net = "ws"]>>}

SiteRule == [on |-> TRUE, action |-> "direct", sites |-> {s1}, to |-> {},
             clients |-> {}, ports |-> {}, protocols |-> {}]
ClientRule == [SiteRule EXCEPT !.action = "block", !.sites = {},
                               !.clients = {c1}]
TheRulebook == {[ClientRule EXCEPT !.on = FALSE]}

TheChanges == {[field |-> "sniff", value |-> "on"],
               [field |-> "auto", value |-> FALSE],
               [field |-> "mode", value |-> "no such mode"]}

TheFirstData ==
  [Factory EXCEPT
     !.subs = <<Subscription(1, 1)>>,
     !.profiles = <<Profile(Server, 2, 1), Profile(Third, 3, Absent)>>,
     !.groups = <<Group(<<2, 3>>, "leastPing", 4)>>,
     !.rules = <<Rule(SiteRule, 5), Rule(ClientRule, 6)>>,
     !.main.active = 2]
TheDocuments == {[TheFirstData EXCEPT !.main.active = 4, !.rules = <<>>],
                 [TheFirstData EXCEPT !.profiles = <<Profile(Server, 2, 1)>>]}
=============================================================================
