----------------------------- MODULE CoreBuild ------------------------------
(***************************************************************************)
(* One connect as far as the core: the settings, the servers and the rules *)
(* it was asked for are compiled (CoreConfig) for the core that is         *)
(* installed, which takes the result and then routes by it.                *)
(***************************************************************************)
EXTENDS CoreConfig

CONSTANTS
  Refused,      \* what a core that was not built is
  Orders        \* [settings, servers, strategy, rules, resolvers, has, asked]

ASSUME OrdersAssumption ==
  \A o \in Orders : /\ o.servers \in Seq(Range(o.servers))
                    /\ o.rules \in Seq(Range(o.rules))

VARIABLES
  order,        \* what the connect was asked for, and the core that is there
  core          \* Absent, Refused, or the configuration the core was given

buildVars == <<order, core>>

BuildInit == order \in Orders /\ core = Absent

CompileOrder ==
  /\ core = Absent
  /\ LET o == order
         s == Normal(o.settings)
     IN core' = IF CanBuild(o.servers, o.rules, ProbeCore(o.has, o.asked))
                THEN Build(s, o.servers, o.strategy, o.rules, o.resolvers)
                ELSE Refused
  /\ UNCHANGED order

BuildNext == CompileOrder
BuildSpec == BuildInit /\ [][BuildNext]_buildVars

Compiled == core \notin {Absent, Refused}

-----------------------------------------------------------------------------
\* Properties.

\* The core takes what it is given: every rule names an outbound that is there,
\* a balancer has the observatory it reads and a fallback that exists, nothing
\* asks for what this core has removed, and whatever dials out carries the mark
\* that keeps it out of its own capture (config.go:608, capabilities.go).
CoreFits ==
  Compiled =>
    /\ order.asked => Known(core, order.has)
    /\ Known(core, Features)
    /\ \A o \in Range(core.outbounds) : o.tag # TagBlock => o.mark

\* What the operator wrote is what happens to a connection: the first enabled
\* rule whose every matcher holds of what can be known of it decides, after the
\* addresses that are never proxied, and what no rule is about goes to the
\* server, or, with a group, to the balancer and never past it to one member.
RoutesAsRuled ==
  Compiled =>
    \A c \in Connections :
      LET seen == Seen(core.sniff, c)
          rules == order.rules
          hits == {i \in DOMAIN rules : rules[i].on /\ Matches(rules[i], seen)}
          first == CHOOSE i \in hits : \A j \in hits : i <= j
          spared == {"private", "listed"}
                    \cup {x \in {"resolver"} : order.resolvers # {}}
          proxied == IF order.strategy # Absent THEN TagBalancer ELSE TagProxy
          wanted == IF hits = {} THEN "proxy" ELSE rules[first].action
      IN c.in \in {"socks-in", "transparent-in"} =>
           Route(core, c) =
             CASE seen.to \in spared \/ wanted = "direct" -> TagDirect
               [] seen.to \notin spared /\ wanted = "block" -> TagBlock
               [] OTHER -> proxied
=============================================================================
