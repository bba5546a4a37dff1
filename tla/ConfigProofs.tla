---------------------------- MODULE ConfigProofs ----------------------------
(***************************************************************************)
(* The configuration a core is given: that it is one the core takes, that  *)
(* it routes as the operator's rules say, for every list of servers and    *)
(* rules (CoreBuild); and that the notice that what is stored is not what  *)
(* is running tells the truth, for every history of edits (ConfigStore).   *)
(*                                                                         *)
(* The first two are about one computation.  The list of rules is built by *)
(* a loop, so what is in it is shown by induction over the rules seen so   *)
(* far: the enabled ones in their order, and no other.                     *)
(***************************************************************************)
EXTENDS ConfigStore, CoreBuild, WellFoundedInduction, TLAPS

-----------------------------------------------------------------------------
\* Numbers.

LEMMA LeastElement ==
  ASSUME NEW T \in SUBSET Nat, T # {}
  PROVE  \E n \in T : \A m \in T : n <= m
<1>1. PICK n \in T : \A m \in T : ~(<<m, n>> \in OpToRel(<, Nat))
  BY WFMin, NatLessThanWellFounded, Zenon
<1>2. \A m \in T : ~(m < n)
  BY <1>1, Zenon DEF OpToRel
<1> QED
  BY <1>2

-----------------------------------------------------------------------------
\* The operator's rules, compiled.  Each that is on has its place behind those
\* before it, and no other has one.

InOrderOf(used, rules, n, grouped) ==
  \E place \in [1..Len(used) -> {i \in 1..n : rules[i].on}] :
    /\ \A k \in 1..Len(used) : used[k] = UserRule(rules[place[k]], grouped)
    /\ \A j, k \in 1..Len(used) : j < k => place[j] < place[k]
    /\ \A i \in 1..n : rules[i].on => \E k \in 1..Len(used) : place[k] = i

LEMMA OneMoreRule ==
  ASSUME NEW R, NEW rules \in Seq(R), NEW grouped, NEW used,
         NEW n \in 1..Len(rules), used \in Seq(Range(used)),
         InOrderOf(used, rules, n - 1, grouped)
  PROVE  LET more == IF rules[n].on THEN Append(used, UserRule(rules[n], grouped))
                     ELSE used
         IN more \in Seq(Range(more)) /\ InOrderOf(more, rules, n, grouped)
<1> DEFINE on(m) == {i \in 1..m : rules[i].on}
           u == UserRule(rules[n], grouped)
<1>1. PICK place \in [1..Len(used) -> on(n - 1)] :
        /\ \A k \in 1..Len(used) : used[k] = UserRule(rules[place[k]], grouped)
        /\ \A j, k \in 1..Len(used) : j < k => place[j] < place[k]
        /\ \A i \in 1..(n - 1) :
             rules[i].on => \E k \in 1..Len(used) : place[k] = i
  BY DEF InOrderOf
<1>2. n \in Nat \ {0} /\ \A i \in 1..n : i = n \/ i \in 1..(n - 1)
  OBVIOUS
<1>3. \A i \in on(n - 1) : i \in on(n) /\ i < n /\ i \in Nat
  BY <1>2
<1>4. Len(used) \in Nat /\ \A k \in 1..Len(used) : place[k] \in on(n - 1)
  BY <1>1
<1>5. CASE ~rules[n].on
  <2>1. place \in [1..Len(used) -> on(n)]
    BY <1>1, <1>3, <1>4
  <2>2. \A i \in 1..n : rules[i].on => \E k \in 1..Len(used) : place[k] = i
    BY <1>1, <1>2, <1>5
  <2> HIDE DEF on
  <2>3. InOrderOf(used, rules, n, grouped)
    BY <1>1, <2>1, <2>2, Zenon DEF InOrderOf, on
  <2> QED BY <1>5, <2>3
<1>6. CASE rules[n].on
  <2> DEFINE more == Append(used, u)
             m == Len(used) + 1
             where == [k \in 1..m |-> IF k = m THEN n ELSE place[k]]
  <2> HIDE DEF u
  <2>1. /\ Len(more) = m /\ more[m] = u
        /\ \A k \in 1..Len(used) : more[k] = used[k]
        /\ more \in Seq(Range(more))
    <3>1. more \in Seq(Range(used) \cup {u})
      OBVIOUS
    <3>2. \A k \in 1..Len(more) : more[k] \in Range(more)
      BY <3>1 DEF Range
    <3> QED BY <3>1, <3>2, SMTT(20)
  <2>2. m \in Nat /\ \A k \in 1..m : k = m \/ (k # m /\ k < m /\ k \in 1..Len(used))
    BY <1>4
  <2>3. n \in on(n)
    BY <1>2, <1>6
  <2>4. /\ where[m] = n
        /\ \A k \in 1..Len(used) : where[k] = place[k]
        /\ where \in [1..m -> on(n)]
    <3> HIDE DEF on
    <3>1. m \in 1..m /\ \A k \in 1..Len(used) : k \in 1..m /\ k # m
      BY <1>4
    <3> QED BY <1>3, <1>4, <2>2, <2>3, <3>1
  <2> HIDE DEF more, where, m, on
  <2>5. \A k \in 1..m : more[k] = UserRule(rules[where[k]], grouped)
    BY <1>1, <2>1, <2>2, <2>4, Zenon DEF u
  <2>6. \A j, k \in 1..m : j < k => where[j] < where[k]
    <3> SUFFICES ASSUME NEW j \in 1..m, NEW k \in 1..m, j < k
                 PROVE  where[j] < where[k]
      OBVIOUS
    <3>1. j \in 1..Len(used)
      BY <1>4, <2>2 DEF m
    <3>2. CASE k = m
      BY <1>3, <1>4, <2>4, <3>1, <3>2
    <3>3. CASE k # m
      BY <1>1, <2>2, <2>4, <3>1, <3>3
    <3> QED BY <3>2, <3>3
  <2>7. \A i \in 1..n : rules[i].on => \E k \in 1..m : where[k] = i
    <3> SUFFICES ASSUME NEW i \in 1..n, rules[i].on
                 PROVE  \E k \in 1..m : where[k] = i
      OBVIOUS
    <3>1. CASE i = n
      BY <2>4, <3>1, <1>4 DEF m
    <3>2. CASE i # n
      <4>1. PICK k \in 1..Len(used) : place[k] = i
        BY <1>1, <1>2, <3>2
      <4> QED BY <1>4, <2>4, <4>1 DEF m
    <3> QED BY <3>1, <3>2
  <2>8. InOrderOf(more, rules, n, grouped)
    <3>1. where \in [1..Len(more) -> {i \in 1..n : rules[i].on}]
      BY <2>1, <2>4, Zenon DEF on
    <3>2. Len(more) = m
      BY <2>1
    <3> QED BY <2>5, <2>6, <2>7, <3>1, <3>2, Zenon DEF InOrderOf
  <2> QED BY <1>6, <2>1, <2>8 DEF more, u
<1> QED
  BY <1>5, <1>6

LEMMA UserRulesInOrder ==
  ASSUME NEW R, NEW rules \in Seq(R), NEW grouped
  PROVE  LET used == UserRules(rules, grouped)
         IN used \in Seq(Range(used)) /\ InOrderOf(used, rules, Len(rules), grouped)
<1> DEFINE Step(F, i) ==
             IF i = 0 THEN <<>>
             ELSE IF rules[i].on THEN Append(F[i - 1], UserRule(rules[i], grouped))
                  ELSE F[i - 1]
           Solves(F) == F = [i \in 0..Len(rules) |-> Step(F, i)]
           out == CHOOSE F : Solves(F)
           Good(u, i) == u \in Seq(Range(u)) /\ InOrderOf(u, rules, i, grouped)
<1>1. UserRules(rules, grouped) = out[Len(rules)]
  BY DEF UserRules
<1>2. Len(rules) \in Nat
  OBVIOUS
<1>3. \E F : Solves(F)
  <2> DEFINE To(n, F) == F = [i \in 0..n |-> Step(F, i)]
             Off == {n \in 0..Len(rules) : ~\E F : To(n, F)}
  <2> SUFFICES ASSUME Off # {} PROVE FALSE
    <3> HIDE DEF Step
    <3>1. Off = {} => \E F : To(Len(rules), F)
      <4> HIDE DEF To
      <4> QED BY <1>2
    <3> QED BY <3>1, Zenon
  <2>1. PICK n \in Off : \A m \in Off : n <= m
    <3>1. Off \in SUBSET Nat
      OBVIOUS
    <3> HIDE DEF Off
    <3> QED BY <3>1, LeastElement
  <2>2. n \in 0..Len(rules) /\ ~\E F : To(n, F)
    BY <2>1
  <2>3. n # 0
    <3> SUFFICES ASSUME n = 0 PROVE FALSE
      OBVIOUS
    <3> DEFINE F == [i \in 0..0 |-> <<>>]
    <3>1. To(0, F)
      OBVIOUS
    <3> QED BY <2>2, <3>1
  <2>4. n \in Nat /\ n - 1 \in 0..Len(rules) /\ n - 1 \notin Off
    <3>1. n \in Nat /\ n - 1 \in 0..Len(rules) /\ ~(n <= n - 1)
      BY <1>2, <2>2, <2>3
    <3> HIDE DEF Off
    <3> QED BY <2>1, <3>1
  <2>5. PICK F : To(n - 1, F)
    <3> HIDE DEF To
    <3> QED BY <2>4
  <2> DEFINE G == [i \in 0..n |-> IF i = n THEN Step(F, n) ELSE F[i]]
  <2>6. To(n, G)
    <3>1. /\ G[n] = Step(F, n)
          /\ \A i \in 0..(n - 1) : G[i] = F[i]
      BY <2>4
    <3>2. \A i \in 0..(n - 1) : F[i] = Step(F, i)
      BY <2>5
    <3>3. DOMAIN G = 0..n /\ G = [i \in 0..n |-> G[i]]
      OBVIOUS
    <3> HIDE DEF G
    <3>4. ASSUME NEW i \in 0..n PROVE G[i] = Step(G, i)
      <4>1. CASE i = 0
        BY <2>3, <2>4, <3>1, <3>2, <4>1
      <4>2. CASE i # 0
        <5>1. i - 1 \in 0..(n - 1)
          BY <2>4, <4>2
        <5>2. Step(G, i) = Step(F, i)
          BY <3>1, <4>2, <5>1
        <5>3. G[i] = Step(F, i)
          <6>1. i = n \/ i \in 0..(n - 1)
            BY <2>4
          <6> HIDE DEF Step
          <6> QED BY <3>1, <3>2, <6>1
        <5> QED BY <5>2, <5>3
      <4> QED BY <4>1, <4>2
    <3> HIDE DEF Step
    <3> QED BY <3>3, <3>4
  <2> HIDE DEF To
  <2> QED BY <2>2, <2>6
<1>4. Solves(out)
  <2> HIDE DEF Solves
  <2> QED BY <1>3
<1>5. \A i \in 0..Len(rules) : out[i] = Step(out, i)
  <2> HIDE DEF Step, out
  <2>1. out = [i \in 0..Len(rules) |-> Step(out, i)]
    BY ONLY <1>4, Zenon
  <2> QED BY ONLY <2>1, Zenon
<1> HIDE DEF out
<1> DEFINE Off == {n \in 0..Len(rules) : ~Good(out[n], n)}
<1>6. Off = {}
  <2> SUFFICES ASSUME Off # {} PROVE FALSE
    OBVIOUS
  <2>1. PICK n \in Off : \A m \in Off : n <= m
    <3>1. Off \in SUBSET Nat
      OBVIOUS
    <3> HIDE DEF Off
    <3> QED BY <3>1, LeastElement
  <2>2. n \in 0..Len(rules) /\ ~Good(out[n], n)
    BY <2>1
  <2>3. CASE n = 0
    <3>1. out[0] = <<>>
      BY <1>2, <1>5
    <3>2. InOrderOf(<<>>, rules, 0, grouped)
      <4> DEFINE X == {i \in 1..0 : rules[i].on}
      <4>1. <<>> \in [1..Len(<<>>) -> X] /\ Len(<<>>) = 0 /\ 1..0 = {}
        OBVIOUS
      <4> QED BY <4>1, Zenon DEF InOrderOf
    <3>3. <<>> \in Seq(Range(<<>>))
      OBVIOUS
    <3> QED BY <2>2, <2>3, <3>1, <3>2, <3>3
  <2>4. CASE n # 0
    <3>1. n \in 1..Len(rules) /\ n - 1 \in 0..Len(rules) /\ n - 1 \notin Off
      BY <1>2, <2>1, <2>2, <2>4
    <3>2. Good(out[n - 1], n - 1)
      BY <3>1
    <3>3. out[n] = IF rules[n].on
                   THEN Append(out[n - 1], UserRule(rules[n], grouped))
                   ELSE out[n - 1]
      BY <1>5, <2>2, <2>4
    <3> HIDE DEF Off
    <3>4. Good(out[n], n)
      BY <3>1, <3>2, <3>3, OneMoreRule
    <3> QED BY <2>2, <3>4
  <2> QED BY <2>3, <2>4
<1>7. Len(rules) \in 0..Len(rules)
  BY <1>2
<1>8. Good(out[Len(rules)], Len(rules))
  BY <1>6, <1>7
<1> HIDE DEF Good
<1> QED
  BY <1>1, <1>8 DEF Good

-----------------------------------------------------------------------------
\* What stands in a concatenation.

LEMMA RangeOfBoth ==
  ASSUME NEW s, NEW t, s \in Seq(Range(s)), t \in Seq(Range(t))
  PROVE  /\ Range(s \o t) = Range(s) \cup Range(t)
         /\ s \o t \in Seq(Range(s \o t))
<1>1. /\ s \o t \in Seq(Range(s) \cup Range(t))
      /\ Len(s) \in Nat /\ Len(t) \in Nat /\ Len(s \o t) = Len(s) + Len(t)
      /\ DOMAIN s = 1..Len(s) /\ DOMAIN t = 1..Len(t)
      /\ DOMAIN (s \o t) = 1..(Len(s) + Len(t))
      /\ \A i \in 1..Len(s) : (s \o t)[i] = s[i]
      /\ \A i \in 1..Len(t) : (s \o t)[Len(s) + i] = t[i]
  OBVIOUS
<1>2. \A i \in 1..(Len(s) + Len(t)) :
        i \in 1..Len(s) \/ \E j \in 1..Len(t) : i = Len(s) + j
  <2> SUFFICES ASSUME NEW i \in 1..(Len(s) + Len(t)), i \notin 1..Len(s)
               PROVE  \E j \in 1..Len(t) : i = Len(s) + j
    OBVIOUS
  <2>1. i - Len(s) \in 1..Len(t) /\ i = Len(s) + (i - Len(s))
    BY <1>1
  <2> QED BY <2>1
<1>3. \A i \in 1..Len(s) : i \in 1..(Len(s) + Len(t))
  BY <1>1
<1>4. \A j \in 1..Len(t) : Len(s) + j \in 1..(Len(s) + Len(t))
  BY <1>1
<1> DEFINE u == s \o t
<1> HIDE DEF u
<1>5. \A i \in 1..(Len(s) + Len(t)) : u[i] \in Range(s) \cup Range(t)
  BY <1>1, <1>2 DEF Range, u
<1>6. /\ \A i \in 1..Len(s) : s[i] \in Range(u)
      /\ \A i \in 1..Len(t) : t[i] \in Range(u)
  BY <1>1, <1>3, <1>4 DEF Range, u
<1>7. Range(u) = Range(s) \cup Range(t)
  <2>1. Range(u) \subseteq Range(s) \cup Range(t)
    <3>1. DOMAIN u = 1..(Len(s) + Len(t))
      BY <1>1 DEF u
    <3>2. \A x \in Range(u) : \E i \in DOMAIN u : x = u[i]
      BY DEF Range
    <3> QED BY ONLY <1>5, <3>1, <3>2, Zenon
  <2>2. Range(s) \cup Range(t) \subseteq Range(u)
    BY ONLY <1>1, <1>6, Zenon DEF Range
  <2> QED BY ONLY <2>1, <2>2
<1> QED
  BY <1>1, <1>7 DEF u

LEMMA SingleRange ==
  /\ <<>> \in Seq(Range(<<>>)) /\ Range(<<>>) = {}
  /\ \A x : <<x>> \in Seq(Range(<<x>>)) /\ Range(<<x>>) = {x}
<1>1. Range(<<>>) = {}
  BY DEF Range
<1>2. \A x : Range(<<x>>) = {x}
  BY DEF Range
<1> QED
  BY <1>1, <1>2

LEMMA AtMostOne ==
  ASSUME NEW x, NEW l \in {<<>>, <<x>>}
  PROVE  /\ l \in Seq(Range(l)) /\ Len(l) \in {0, 1}
         /\ \A i \in 1..Len(l) : l[i] = x
         /\ l = <<>> => Len(l) = 0
         /\ l = <<x>> => Len(l) = 1
<1>1. CASE l = <<>>
  BY <1>1, SingleRange
<1>2. CASE l = <<x>>
  BY <1>2, SingleRange
<1> QED
  BY <1>1, <1>2

LEMMA PairRange ==
  ASSUME NEW x, NEW y
  PROVE  <<x, y>> \in Seq(Range(<<x, y>>)) /\ Range(<<x, y>>) = {x, y}
<1>1. Range(<<x, y>>) = {x, y}
  BY DEF Range
<1> QED
  BY <1>1

LEMMA RangeOfFive ==
  ASSUME NEW a, NEW b, NEW c, NEW d, NEW e,
         a \in Seq(Range(a)), b \in Seq(Range(b)), c \in Seq(Range(c)),
         d \in Seq(Range(d)), e \in Seq(Range(e))
  PROVE  Range(a \o b \o c \o d \o e)
           = Range(a) \cup Range(b) \cup Range(c) \cup Range(d) \cup Range(e)
<1>1. Range(a \o b) = Range(a) \cup Range(b) /\ a \o b \in Seq(Range(a \o b))
  BY RangeOfBoth
<1> DEFINE ab == a \o b
           abc == ab \o c
           abcd == abc \o d
<1> HIDE DEF ab, abc, abcd
<1>2. Range(abc) = Range(ab) \cup Range(c) /\ abc \in Seq(Range(abc))
  BY <1>1, RangeOfBoth DEF ab, abc
<1>3. Range(abcd) = Range(abc) \cup Range(d) /\ abcd \in Seq(Range(abcd))
  BY <1>2, RangeOfBoth DEF abcd
<1>4. Range(abcd \o e) = Range(abcd) \cup Range(e)
  BY <1>3, RangeOfBoth
<1> QED
  BY <1>1, <1>2, <1>3, <1>4, Zenon DEF ab, abc, abcd

-----------------------------------------------------------------------------
\* What the core is given, it takes.

LEMMA FeaturesSuffice ==
  ASSUME NEW servers, NEW rules, NEW caps, CanBuild(servers, rules, caps)
  PROVE  CanBuild(servers, rules, Features)
<1>1. \A p : Takes(p) \subseteq Features
  BY DEF Takes, Features
<1> QED
  BY <1>1, Zenon DEF CanBuild, Buildable

LEMMA BuildIsTaken ==
  ASSUME NEW s, NEW S, NEW servers \in Seq(S), NEW strategy, NEW R,
         NEW rules \in Seq(R), NEW resolvers, NEW caps,
         CanBuild(servers, rules, caps)
  PROVE  LET c == Build(s, servers, strategy, rules, resolvers)
         IN /\ Known(c, caps)
            /\ \A o \in Range(c.outbounds) : o.tag # TagBlock => o.mark
<1> DEFINE c == Build(s, servers, strategy, rules, resolvers)
           grouped == strategy # Absent
           tagOf(i) == IF grouped THEN TagMember(i) ELSE TagProxy
           proxies == [i \in DOMAIN servers |->
                         ProxyOutbound(servers[i], tagOf(i), s.keeps)]
           plain == <<Plain(TagDirect, TRUE), Plain(TagBlock, FALSE)>>
           last == IF s.dns = "off" THEN <<>> ELSE <<Plain(TagDns, TRUE)>>
           outs == proxies \o plain \o last
           tags == {o.tag : o \in Range(c.outbounds)}
                   \cup {TagBalancer : b \in c.balancer} \cup {TagApi}
<1> SUFFICES /\ Known(c, caps)
             /\ \A o \in Range(c.outbounds) : o.tag # TagBlock => o.mark
  OBVIOUS
<1>1. /\ c.outbounds = outs
      /\ c.balancer = IF grouped THEN {Balancer(strategy, proxies)} ELSE {}
      /\ c.observes = IF grouped THEN Observatory(strategy) ELSE "none"
      /\ c.rules = Rules(s, rules, grouped, resolvers)
  BY DEF Build
<1> HIDE DEF c
<1>2. /\ Len(servers) \in Nat \ {0} /\ DOMAIN servers = 1..Len(servers)
      /\ \A i \in 1..Len(servers) : Buildable(servers[i], caps)
  BY DEF CanBuild, Range
<1>3. /\ proxies \in Seq(Range(proxies)) /\ Len(proxies) = Len(servers)
      /\ \A i \in 1..Len(servers) :
           proxies[i] = ProxyOutbound(servers[i], tagOf(i), s.keeps)
  <2> HIDE DEF tagOf
  <2> QED BY <1>2 DEF Range
<1> HIDE DEF proxies
<1>4. Range(c.outbounds) = Range(proxies) \cup {plain[1], plain[2]}
                           \cup {o \in {Plain(TagDns, TRUE)} : s.dns # "off"}
  <2>1. plain \in Seq(Range(plain)) /\ Range(plain) = {plain[1], plain[2]}
    BY PairRange
  <2>2. /\ last \in Seq(Range(last))
        /\ Range(last) = {o \in {Plain(TagDns, TRUE)} : s.dns # "off"}
    BY SingleRange
  <2> HIDE DEF plain, last
  <2>3. /\ Range(proxies \o plain) = Range(proxies) \cup Range(plain)
        /\ proxies \o plain \in Seq(Range(proxies \o plain))
    BY <1>3, <2>1, RangeOfBoth
  <2> DEFINE both == proxies \o plain
  <2> HIDE DEF both
  <2>4. Range(both \o last) = Range(both) \cup Range(last)
    BY <2>2, <2>3, RangeOfBoth DEF both
  <2> QED BY <1>1, <2>1, <2>2, <2>3, <2>4, Zenon DEF both
<1>5. \A o \in Range(c.outbounds) : o.takes \subseteq caps
      /\ (o.tag # TagBlock => o.mark)
  <2>1. \A o \in Range(proxies) : o.takes \subseteq caps /\ o.mark
    <3> SUFFICES ASSUME NEW o \in Range(proxies) PROVE o.takes \subseteq caps /\ o.mark
      OBVIOUS
    <3>1. PICK i \in 1..Len(servers) : o = ProxyOutbound(servers[i], tagOf(i), s.keeps)
      BY <1>3 DEF Range
    <3> QED BY <1>2, <3>1 DEF ProxyOutbound, Buildable
  <2>2. \A o \in {plain[1], plain[2], Plain(TagDns, TRUE)} :
          o.takes = {} /\ (o.tag # TagBlock => o.mark)
    BY DEF Plain
  <2> HIDE DEF plain
  <2> QED BY <1>4, <2>1, <2>2
<1>6. /\ {TagDirect, TagBlock, TagApi} \subseteq tags
      /\ s.dns # "off" => TagDns \in tags
      /\ IF grouped THEN TagBalancer \in tags /\ proxies[1].tag \in tags
         ELSE TagProxy \in tags
  <2>1. plain[1].tag = TagDirect /\ plain[2].tag = TagBlock
        /\ Plain(TagDns, TRUE).tag = TagDns
    BY DEF Plain
  <2>2. proxies[1] \in Range(proxies) /\ (~grouped => proxies[1].tag = TagProxy)
    <3>1. 1 \in 1..Len(servers) /\ DOMAIN proxies = 1..Len(servers)
      BY <1>2, <1>3
    <3>2. proxies[1] \in Range(proxies)
      BY <3>1, Zenon DEF Range
    <3> QED BY <1>3, <3>1, <3>2 DEF ProxyOutbound
  <2>3. \A o \in Range(c.outbounds) : o.tag \in tags
    OBVIOUS
  <2>4. plain[1].tag \in tags /\ plain[2].tag \in tags /\ TagApi \in tags
        /\ proxies[1].tag \in tags
        /\ (s.dns # "off" => Plain(TagDns, TRUE).tag \in tags)
    <3> HIDE DEF plain, tags
    <3>1. TagApi \in tags
      BY DEF tags
    <3> QED BY <1>4, <2>2, <2>3, <3>1
  <2>5. grouped => TagBalancer \in tags
    BY <1>1
  <2> HIDE DEF tags, plain
  <2> QED BY <2>1, <2>2, <2>4, <2>5
<1>7. \A r \in Range(c.rules) : r.out \in tags
  <2> DEFINE api == [Field EXCEPT !.ins = {"api-in"}, !.out = TagApi]
             dns == IF s.dns = "off" THEN <<>>
                    ELSE <<[Field EXCEPT !.ins = {"dns-in"}, !.out = TagDns]>>
             direct == DirectRule(resolvers)
             users == UserRules(rules, grouped)
             tail == IF grouped THEN <<[Field EXCEPT !.out = TagBalancer]>>
                     ELSE <<>>
  <2> HIDE DEF tags
  <2>1. c.rules = <<api>> \o dns \o <<direct>> \o users \o tail
    BY <1>1 DEF Rules
  <2>2. /\ <<api>> \in Seq(Range(<<api>>)) /\ \A r \in Range(<<api>>) : r.out = TagApi
        /\ dns \in Seq(Range(dns))
        /\ \A r \in Range(dns) : s.dns # "off" /\ r.out = TagDns
        /\ <<direct>> \in Seq(Range(<<direct>>))
        /\ \A r \in Range(<<direct>>) : r.out = TagDirect
        /\ tail \in Seq(Range(tail))
        /\ \A r \in Range(tail) : grouped /\ r.out = TagBalancer
    <3>1. api.out = TagApi /\ direct.out = TagDirect
      BY DEF Field, DirectRule
    <3>2. [Field EXCEPT !.ins = {"dns-in"}, !.out = TagDns].out = TagDns
          /\ [Field EXCEPT !.out = TagBalancer].out = TagBalancer
      BY DEF Field
    <3> HIDE DEF api, direct, grouped
    <3>3. /\ <<api>> \in Seq(Range(<<api>>)) /\ Range(<<api>>) = {api}
          /\ <<direct>> \in Seq(Range(<<direct>>)) /\ Range(<<direct>>) = {direct}
      BY SingleRange
    <3>4. dns \in Seq(Range(dns)) /\ \A r \in Range(dns) : s.dns # "off" /\ r.out = TagDns
      <4> DEFINE x == [Field EXCEPT !.ins = {"dns-in"}, !.out = TagDns]
      <4>1. /\ s.dns = "off" => dns = <<>>
            /\ s.dns # "off" => dns = <<x>>
        OBVIOUS
      <4>2. x.out = TagDns
        BY <3>2
      <4> HIDE DEF dns, x
      <4> QED BY ONLY <4>1, <4>2, SingleRange
    <3>5. tail \in Seq(Range(tail))
          /\ \A r \in Range(tail) : grouped /\ r.out = TagBalancer
      <4> DEFINE x == [Field EXCEPT !.out = TagBalancer]
      <4>1. /\ ~grouped => tail = <<>>
            /\ grouped => tail = <<x>>
        OBVIOUS
      <4>2. x.out = TagBalancer
        BY <3>2
      <4> HIDE DEF tail, x
      <4> QED BY ONLY <4>1, <4>2, SingleRange
    <3> QED BY <3>1, <3>3, <3>4, <3>5
  <2>3. users \in Seq(Range(users)) /\ InOrderOf(users, rules, Len(rules), grouped)
    BY UserRulesInOrder
  <2>4. \A r \in Range(users) :
          r.out \in {TagDirect, TagBlock, IF grouped THEN TagBalancer ELSE TagProxy}
    <3> SUFFICES ASSUME NEW r \in Range(users)
                 PROVE  r.out \in {TagDirect, TagBlock,
                                   IF grouped THEN TagBalancer ELSE TagProxy}
      OBVIOUS
    <3> HIDE DEF users
    <3>1. PICK k \in 1..Len(users) : r = users[k]
      BY <2>3 DEF Range
    <3>2. PICK i : users[k] = UserRule(rules[i], grouped)
      BY <2>3 DEF InOrderOf
    <3> QED BY <3>1, <3>2 DEF UserRule, Out, Field
  <2> HIDE DEF api, dns, direct, users, tail
  <2>5. Range(c.rules) = Range(<<api>>) \cup Range(dns) \cup Range(<<direct>>)
                         \cup Range(users) \cup Range(tail)
    <3> DEFINE one == <<api>>
               three == <<direct>>
    <3>1. /\ one \in Seq(Range(one)) /\ dns \in Seq(Range(dns))
          /\ three \in Seq(Range(three)) /\ tail \in Seq(Range(tail))
          /\ c.rules = one \o dns \o three \o users \o tail
      BY <2>1, <2>2
    <3> HIDE DEF one, three
    <3>2. Range(one \o dns \o three \o users \o tail)
            = Range(one) \cup Range(dns) \cup Range(three) \cup Range(users)
              \cup Range(tail)
      BY <2>3, <3>1, RangeOfFive
    <3> QED BY <3>1, <3>2, Zenon DEF one, three
  <2> QED BY <1>6, <2>2, <2>4, <2>5
<1>8. \A b \in c.balancer : /\ b.type = "leastPing" => c.observes = "ping"
                            /\ b.type = "leastLoad" => c.observes = "burst"
                            /\ b.fallback \in tags
  <2> HIDE DEF tags
  <2> QED BY <1>1, <1>6 DEF Balancer, Observatory
<1> HIDE DEF tags
<1>9. Known(c, caps)
  BY <1>5, <1>7, <1>8, Zenon DEF Known, tags
<1> QED
  BY <1>5, <1>9

-----------------------------------------------------------------------------
\* And it routes as was ruled.

\* The first of s that is in K decides.
LEMMA FirstDecides ==
  ASSUME NEW s, s \in Seq(Range(s)), NEW K, NEW i \in 1..Len(s), s[i] \in K,
         \A j \in 1..Len(s) : j < i => s[j] \notin K
  PROVE  SelectInSeq(s, LAMBDA x : x \in K) = i
<1> DEFINE I == {j \in 1..Len(s) : s[j] \in K}
<1>1. i \in I /\ I \in SUBSET Nat /\ \A j \in I : i <= j
  OBVIOUS
<1> HIDE DEF I
<1>2. Min(I) = i
  <2>1. \A x \in I : (\A y \in I : x <= y) => x = i
    BY <1>1
  <2> QED BY <1>1, <2>1 DEF Min
<1> QED
  BY <1>1, <1>2 DEF SelectInSeq, I

\* The places in a list of rules.
LEMMA PlacesOfBoth ==
  ASSUME NEW S, NEW s \in Seq(S), NEW t \in Seq(S)
  PROVE  /\ s \o t \in Seq(S) /\ Len(s \o t) = Len(s) + Len(t)
         /\ Len(s) \in Nat /\ Len(t) \in Nat
         /\ \A i \in 1..Len(s) : (s \o t)[i] = s[i]
         /\ \A i \in 1..Len(t) : (s \o t)[Len(s) + i] = t[i]
OBVIOUS

ListOf(a, b, c, d, e) == <<a>> \o b \o <<c>> \o d \o e

LEMMA PlacesOfRules ==
  ASSUME NEW a, NEW b, NEW c, NEW d, NEW e,
         b \in Seq(Range(b)), d \in Seq(Range(d)), e \in Seq(Range(e))
  PROVE  LET s == ListOf(a, b, c, d, e)
             h == Len(b) + 2
         IN /\ s \in Seq(Range(s)) /\ Len(s) = h + Len(d) + Len(e)
            /\ s[1] = a /\ s[h] = c
            /\ \A i \in 1..Len(b) : s[1 + i] = b[i]
            /\ \A i \in 1..Len(d) : s[h + i] = d[i]
            /\ \A i \in 1..Len(e) : s[h + Len(d) + i] = e[i]
<1> DEFINE ab == <<a>> \o b
           abc == ab \o <<c>>
           abcd == abc \o d
           s == abcd \o e
           h == Len(b) + 2
           S == {a, c} \cup Range(b) \cup Range(d) \cup Range(e)
<1>0. /\ <<a>> \in Seq(S) /\ <<c>> \in Seq(S) /\ b \in Seq(S) /\ d \in Seq(S)
      /\ e \in Seq(S) /\ Len(<<a>>) = 1 /\ Len(<<c>>) = 1
      /\ <<a>>[1] = a /\ <<c>>[1] = c
  OBVIOUS
<1> DEFINE one == <<a>>
           three == <<c>>
<1> HIDE DEF S, one, three
<1>1. /\ one \o b \in Seq(S) /\ Len(one \o b) = 1 + Len(b)
      /\ (one \o b)[1] = a
      /\ \A i \in 1..Len(b) : (one \o b)[1 + i] = b[i]
  BY <1>0 DEF one
<1> HIDE DEF ab
<1>2. /\ ab \in Seq(S) /\ Len(ab) = 1 + Len(b) /\ ab[1] = a
      /\ \A i \in 1..Len(b) : ab[1 + i] = b[i]
  BY <1>1, Zenon DEF ab, one
<1>3. /\ abc \in Seq(S) /\ Len(abc) = h /\ abc[1] = a /\ abc[h] = c
      /\ \A i \in 1..Len(b) : abc[1 + i] = b[i]
  <2>1. /\ ab \o three \in Seq(S) /\ Len(ab \o three) = h
        /\ (ab \o three)[1] = a /\ (ab \o three)[h] = c
        /\ \A i \in 1..Len(b) : (ab \o three)[1 + i] = ab[1 + i]
    BY <1>0, <1>2 DEF three
  <2> QED BY <1>2, <2>1 DEF three
<1> HIDE DEF abc
<1>4. /\ abcd \in Seq(S) /\ Len(abcd) = h + Len(d)
      /\ abcd[1] = a /\ abcd[h] = c
      /\ \A i \in 1..Len(b) : abcd[1 + i] = b[i]
      /\ \A i \in 1..Len(d) : abcd[h + i] = d[i]
  <2>0. Len(b) \in Nat
    BY <1>0
  <2>1. /\ abcd \in Seq(S) /\ Len(abcd) = Len(abc) + Len(d)
        /\ Len(abc) \in Nat /\ Len(d) \in Nat
        /\ \A i \in 1..Len(abc) : abcd[i] = abc[i]
        /\ \A i \in 1..Len(d) : abcd[Len(abc) + i] = d[i]
    <3>1. abc \in Seq(S) /\ d \in Seq(S)
      BY <1>0, <1>3
    <3> QED BY <3>1
  <2> HIDE DEF abcd
  <2> QED BY <1>3, <2>0, <2>1
<1> HIDE DEF abcd
<1>5. /\ Len(s) = h + Len(d) + Len(e)
      /\ s[1] = a /\ s[h] = c
      /\ \A i \in 1..Len(b) : s[1 + i] = b[i]
      /\ \A i \in 1..Len(d) : s[h + i] = d[i]
      /\ \A i \in 1..Len(e) : s[h + Len(d) + i] = e[i]
  <2>0. Len(b) \in Nat /\ Len(d) \in Nat
    BY <1>0
  <2>1. /\ Len(s) = Len(abcd) + Len(e) /\ Len(e) \in Nat
        /\ \A i \in 1..Len(abcd) : s[i] = abcd[i]
        /\ \A i \in 1..Len(e) : s[Len(abcd) + i] = e[i]
    <3>1. abcd \in Seq(S) /\ e \in Seq(S)
      BY <1>0, <1>4
    <3> QED BY <3>1
  <2> HIDE DEF s
  <2>2. /\ Len(s) = h + Len(d) + Len(e)
        /\ \A i \in 1..Len(e) : s[h + Len(d) + i] = e[i]
    BY <1>4, <2>1, Zenon
  <2>3. \A i \in 1..(h + Len(d)) : s[i] = abcd[i]
    BY <1>4, <2>1, Zenon
  <2> QED BY <1>4, <2>0, <2>2, <2>3, SMTT(20)
<1>6. s \in Seq(Range(s))
  <2>1. s \in Seq(S) /\ Len(s) \in Nat /\ DOMAIN s = 1..Len(s)
    BY <1>0, <1>4
  <2> HIDE DEF s
  <2>2. \A i \in 1..Len(s) : s[i] \in Range(s)
    BY <2>1, Zenon DEF Range
  <2> QED BY <2>1, <2>2
<1> QED
  BY <1>5, <1>6 DEF ListOf, abcd, abc, ab, one, three

LEMMA FirstOutbound ==
  ASSUME NEW s, NEW S, NEW servers \in Seq(S), servers # <<>>, NEW rules,
         NEW resolvers
  PROVE  Build(s, servers, Absent, rules, resolvers).outbounds[1].tag = TagProxy
<1> DEFINE proxies == [i \in DOMAIN servers |->
                         ProxyOutbound(servers[i], TagProxy, s.keeps)]
           plain == <<Plain(TagDirect, TRUE), Plain(TagBlock, FALSE)>>
           last == IF s.dns = "off" THEN <<>> ELSE <<Plain(TagDns, TRUE)>>
<1>1. Build(s, servers, Absent, rules, resolvers).outbounds
        = proxies \o plain \o last
  BY DEF Build
<1>2. /\ Len(servers) \in Nat \ {0} /\ DOMAIN servers = 1..Len(servers)
      /\ proxies[1].tag = TagProxy
  BY DEF ProxyOutbound
<1>3. proxies \in Seq(Range(proxies)) /\ Len(proxies) = Len(servers)
  <2> DEFINE out(i) == ProxyOutbound(servers[i], TagProxy, s.keeps)
  <2>1. proxies = [i \in 1..Len(servers) |-> out(i)]
    BY <1>2
  <2> HIDE DEF out, proxies
  <2> QED BY <1>2, <2>1 DEF Range
<1>4. plain \in Seq(Range(plain)) /\ last \in Seq(Range(last))
  <2> DEFINE x == Plain(TagDns, TRUE)
  <2>1. last \in {<<>>, <<x>>}
    OBVIOUS
  <2>2. plain \in Seq(Range(plain))
    BY PairRange
  <2> HIDE DEF x, last, plain
  <2>3. last \in Seq(Range(last))
    BY <2>1, AtMostOne, Zenon
  <2> QED BY <2>2, <2>3
<1> HIDE DEF proxies, plain, last
<1>5. (proxies \o plain \o last)[1] = proxies[1]
  <2> DEFINE S0 == Range(proxies) \cup Range(plain) \cup Range(last)
  <2>1. proxies \in Seq(S0) /\ plain \in Seq(S0) /\ last \in Seq(S0)
    BY <1>3, <1>4
  <2> HIDE DEF S0
  <2> QED BY <1>2, <1>3, <2>1
<1> QED
  BY <1>1, <1>2, <1>5

\* Where the rules send connection p of core c.
GoesAsRuled(c, p, rules, strategy, resolvers) ==
  LET seen == Seen(c.sniff, p)
      hits == {i \in DOMAIN rules : rules[i].on /\ Matches(rules[i], seen)}
      first == CHOOSE i \in hits : \A j \in hits : i <= j
      spared == {"private", "listed"}
                \cup {x \in {"resolver"} : resolvers # {}}
      proxied == IF strategy # Absent THEN TagBalancer ELSE TagProxy
      wanted == IF hits = {} THEN "proxy" ELSE rules[first].action
  IN Route(c, p) =
       CASE seen.to \in spared \/ wanted = "direct" -> TagDirect
         [] seen.to \notin spared /\ wanted = "block" -> TagBlock
         [] OTHER -> proxied

LEMMA RouteFollowsRules ==
  ASSUME NEW s, NEW S, NEW servers \in Seq(S), NEW strategy, NEW R,
         NEW rules \in Seq(R), NEW resolvers, NEW caps,
         CanBuild(servers, rules, caps), NEW c,
         c = Build(s, servers, strategy, rules, resolvers),
         NEW p, p.in \in {"socks-in", "transparent-in"}
  PROVE  GoesAsRuled(c, p, rules, strategy, resolvers)
<1> DEFINE seen == Seen(c.sniff, p)
           hits == {i \in DOMAIN rules : rules[i].on /\ Matches(rules[i], seen)}
           first == CHOOSE i \in hits : \A j \in hits : i <= j
           spared == {"private", "listed"}
                     \cup {x \in {"resolver"} : resolvers # {}}
           grouped == strategy # Absent
           proxied == IF grouped THEN TagBalancer ELSE TagProxy
           wanted == IF hits = {} THEN "proxy" ELSE rules[first].action
           goes == CASE seen.to \in spared \/ wanted = "direct" -> TagDirect
                     [] seen.to \notin spared /\ wanted = "block" -> TagBlock
                     [] OTHER -> proxied
           api == [Field EXCEPT !.ins = {"api-in"}, !.out = TagApi]
           resolver == [Field EXCEPT !.ins = {"dns-in"}, !.out = TagDns]
           dns == IF s.dns = "off" THEN <<>> ELSE <<resolver>>
           direct == DirectRule(resolvers)
           users == UserRules(rules, grouped)
           rest == [Field EXCEPT !.out = TagBalancer]
           tail == IF grouped THEN <<rest>> ELSE <<>>
           rs == c.rules
           h == Len(dns) + 2
           n == Len(users)
           Hit(r) == Fits(r.ins, p.in) /\ Matches(r, seen)
           K == {r \in Range(rs) : Hit(r)}
<1> SUFFICES Route(c, p) = goes
  BY DEF GoesAsRuled
<1>1. rs = <<api>> \o dns \o <<direct>> \o users \o tail
  BY DEF Build, Rules
<1> HIDE DEF resolver, rest
<1>2. /\ dns \in Seq(Range(dns)) /\ Len(dns) \in {0, 1}
      /\ \A i \in 1..Len(dns) : dns[i] = resolver
      /\ tail \in Seq(Range(tail)) /\ Len(tail) = IF grouped THEN 1 ELSE 0
      /\ \A i \in 1..Len(tail) : tail[i] = rest
  <2>1. dns \in {<<>>, <<resolver>>} /\ tail \in {<<>>, <<rest>>}
    OBVIOUS
  <2>2. tail = IF grouped THEN <<rest>> ELSE <<>>
    OBVIOUS
  <2> HIDE DEF dns, tail, grouped
  <2>3. /\ dns \in Seq(Range(dns)) /\ Len(dns) \in {0, 1}
        /\ \A i \in 1..Len(dns) : dns[i] = resolver
    BY <2>1, AtMostOne, Zenon
  <2>4. /\ tail \in Seq(Range(tail))
        /\ \A i \in 1..Len(tail) : tail[i] = rest
        /\ tail = <<>> => Len(tail) = 0
        /\ tail = <<rest>> => Len(tail) = 1
    BY <2>1, AtMostOne, Zenon
  <2> QED BY <2>2, <2>3, <2>4
<1>3. users \in Seq(Range(users)) /\ InOrderOf(users, rules, Len(rules), grouped)
  BY UserRulesInOrder
<1> HIDE DEF dns, tail, api, direct, users, grouped
<1>4. /\ rs \in Seq(Range(rs)) /\ Len(rs) = h + n + Len(tail)
      /\ rs[1] = api /\ rs[h] = direct
      /\ \A i \in 1..Len(dns) : rs[1 + i] = dns[i]
      /\ \A i \in 1..n : rs[h + i] = users[i]
      /\ \A i \in 1..Len(tail) : rs[h + n + i] = tail[i]
  <2> DEFINE list == ListOf(api, dns, direct, users, tail)
  <2>1. /\ list \in Seq(Range(list)) /\ Len(list) = h + n + Len(tail)
        /\ list[1] = api /\ list[h] = direct
        /\ \A i \in 1..Len(dns) : list[1 + i] = dns[i]
        /\ \A i \in 1..n : list[h + i] = users[i]
        /\ \A i \in 1..Len(tail) : list[h + n + i] = tail[i]
    <3>1. dns \in Seq(Range(dns)) /\ users \in Seq(Range(users))
          /\ tail \in Seq(Range(tail))
      BY <1>2, <1>3
    <3> QED BY <3>1, PlacesOfRules
  <2>2. rs = list
    BY <1>1 DEF ListOf
  <2> HIDE DEF list, rs
  <2> QED BY <2>1, <2>2
<1> HIDE DEF rs
<1>5. /\ ~Hit(api) /\ ~Hit(resolver) /\ Hit(rest)
      /\ Hit(direct) <=> seen.to \in spared
      /\ \A r : Hit(UserRule(r, grouped)) <=> Matches(r, seen)
      /\ direct.out = TagDirect /\ rest.out = TagBalancer
      /\ \A r : UserRule(r, grouped).out = Out(r.action, grouped)
  <2> HIDE DEF seen, grouped
  <2> QED BY DEF api, resolver, rest, direct, DirectRule, UserRule, Field, Fits,
                 Matches
<1> HIDE DEF Hit, seen, spared
<1>6. Len(dns) \in Nat /\ n \in Nat /\ Len(tail) \in Nat
      /\ \A i \in 1..(h - 1) : ~Hit(rs[i])
  <2>1. \A i \in 2..(h - 1) : i - 1 \in 1..Len(dns) /\ i = 1 + (i - 1)
    BY <1>2
  <2>2. \A i \in 2..(h - 1) : rs[i] = resolver
    BY <1>2, <1>4, <2>1
  <2>3. Len(dns) \in Nat /\ n \in Nat /\ Len(tail) \in Nat
    BY <1>2, <1>3
  <2>4. \A i \in 1..(h - 1) : i = 1 \/ i \in 2..(h - 1)
    BY ONLY <2>3
  <2> QED BY <1>4, <1>5, <2>2, <2>3, <2>4
<1>7. ASSUME NEW i \in 1..Len(rs), Hit(rs[i]), \A j \in 1..(i - 1) : ~Hit(rs[j])
      PROVE  Route(c, p) = rs[i].out
  <2>1. \A j \in 1..Len(rs) : rs[j] \in Range(rs)
    BY <1>4 DEF Range
  <2>2. SelectInSeq(rs, LAMBDA x : x \in K) = i
    <3>1. rs[i] \in K /\ \A j \in 1..Len(rs) : j < i => rs[j] \notin K
      BY <1>7, <2>1
    <3> HIDE DEF K
    <3> QED BY <1>4, <3>1, FirstDecides
  <2>3. SelectInSeq(rs, LAMBDA r : Hit(r)) = i
    <3>1. \A j \in 1..Len(rs) : Hit(rs[j]) <=> rs[j] \in K
      BY <2>1
    <3> HIDE DEF K
    <3> QED BY <2>2, <3>1 DEF SelectInSeq
  <2>4. Route(c, p) = IF i = 0 THEN c.outbounds[1].tag ELSE rs[i].out
    BY <2>3 DEF Route, Hit, seen, rs
  <2> QED BY <2>4
<1>8. CASE seen.to \in spared
  <2>1. h \in 1..Len(rs) /\ rs[h] = direct /\ Hit(rs[h])
    BY <1>4, <1>5, <1>6, <1>8
  <2>2. Route(c, p) = rs[h].out
    BY <1>6, <1>7, <2>1
  <2> QED BY <1>5, <1>8, <2>1, <2>2
<1>9. PICK place \in [1..n -> {i \in 1..Len(rules) : rules[i].on}] :
        /\ \A k \in 1..n : users[k] = UserRule(rules[place[k]], grouped)
        /\ \A j, k \in 1..n : j < k => place[j] < place[k]
        /\ \A i \in 1..Len(rules) : rules[i].on => \E k \in 1..n : place[k] = i
  BY <1>3, Zenon DEF InOrderOf
<1>10. \A k \in 1..n : /\ place[k] \in 1..Len(rules) /\ rules[place[k]].on
                       /\ rs[h + k] = UserRule(rules[place[k]], grouped)
                       /\ Hit(rs[h + k]) <=> place[k] \in hits
  <2> SUFFICES ASSUME NEW k \in 1..n
               PROVE  /\ place[k] \in 1..Len(rules) /\ rules[place[k]].on
                      /\ rs[h + k] = UserRule(rules[place[k]], grouped)
                      /\ Hit(rs[h + k]) <=> place[k] \in hits
    OBVIOUS
  <2>1. place[k] \in 1..Len(rules) /\ rules[place[k]].on
    BY <1>9
  <2>2. rs[h + k] = UserRule(rules[place[k]], grouped)
    BY <1>4, <1>9
  <2>3. Hit(rs[h + k]) <=> Matches(rules[place[k]], seen)
    BY <1>5, <2>2, Zenon
  <2>4. place[k] \in hits <=> Matches(rules[place[k]], seen)
    BY <2>1
  <2> HIDE DEF hits
  <2> QED BY <2>1, <2>2, <2>3, <2>4
<1> HIDE DEF h, n
<1>11. h \in Nat /\ n \in Nat
  BY <1>6 DEF h, n
<1>12. CASE seen.to \notin spared /\ hits # {}
  <2>1. first \in hits /\ \A j \in hits : first <= j
    <3>1. hits \in SUBSET Nat
      OBVIOUS
    <3>2. \E i \in hits : \A j \in hits : i <= j
      <4> HIDE DEF hits
      <4> QED BY <1>12, <3>1, LeastElement
    <3> HIDE DEF hits
    <3> QED BY <3>2, Zenon
  <2>2. first \in 1..Len(rules) /\ rules[first].on
    BY <2>1
  <2> HIDE DEF first
  <2>3. PICK k \in 1..n : place[k] = first
    BY <1>9, <2>2
  <2>4. h + k \in 1..Len(rs) /\ Hit(rs[h + k])
    BY <1>4, <1>6, <1>10, <2>1, <2>3 DEF h
  <2>5. ASSUME NEW i \in 1..(h + k - 1) PROVE ~Hit(rs[i])
    <3>1. i \in Nat /\ h \in Nat /\ k \in 1..n /\ i < h + k
      BY <1>6 DEF h
    <3>2. CASE i < h
      BY <1>6, <3>1, <3>2 DEF h
    <3>3. CASE i = h
      BY <1>4, <1>5, <1>12, <3>3
    <3>4. CASE i > h
      <4>1. i - h \in 1..n /\ i = h + (i - h) /\ i - h < k
        BY <1>6, <3>1, <3>4
      <4>2. place[i - h] < first /\ place[i - h] \in Nat /\ first \in Nat
        BY <1>9, <1>10, <2>3, <4>1, <2>2
      <4>3. place[i - h] \notin hits
        BY <2>1, <4>2
      <4> QED BY <1>10, <4>1, <4>3
    <3> QED BY <3>1, <3>2, <3>3, <3>4
  <2>6. Route(c, p) = Out(rules[first].action, grouped)
    <3>1. Route(c, p) = rs[h + k].out
      <4>1. PICK m \in 1..Len(rs) : m = h + k
        BY <2>4
      <4>2. Hit(rs[m]) /\ \A j \in 1..(m - 1) : ~Hit(rs[j])
        BY <1>11, <2>4, <2>5, <4>1
      <4> QED BY <1>7, <4>1, <4>2
    <3>2. rs[h + k] = UserRule(rules[first], grouped)
      BY <1>10, <2>3
    <3> QED BY <1>5, <3>1, <3>2
  <2>7. rules[first].action \in RuleActions
    BY <2>2 DEF CanBuild, ValidRule, Range
  <2>8. wanted = rules[first].action
    BY <1>12
  <2> HIDE DEF wanted
  <2> QED BY <1>12, <2>6, <2>7, <2>8 DEF Out, RuleActions
<1>13. CASE seen.to \notin spared /\ hits = {}
  <2>1. \A i \in 1..(h + n) : i \in 1..Len(rs) => ~Hit(rs[i])
    <3>1. \A i \in 1..(h + n) : i \in 1..(h - 1) \/ i = h \/ i - h \in 1..n
      BY <1>6 DEF h
    <3>2. \A i \in 1..(h + n) : i - h \in 1..n => ~Hit(rs[i])
      <4> SUFFICES ASSUME NEW i \in 1..(h + n), i - h \in 1..n PROVE ~Hit(rs[i])
        OBVIOUS
      <4>1. i = h + (i - h)
        BY <1>6 DEF h
      <4> QED BY <1>10, <1>13, <4>1
    <3> QED BY <1>4, <1>5, <1>6, <1>13, <3>1, <3>2 DEF h
  <2>2. wanted = "proxy" /\ goes = proxied
    BY <1>13
  <2>3. CASE grouped
    <3>1. Len(tail) = 1 /\ Len(rs) = h + n + 1 /\ rs[h + n + 1] = rest
      BY <1>2, <1>4, <2>3 DEF h, n
    <3>2. h + n + 1 \in 1..Len(rs) /\ \A i \in 1..(h + n) : i \in 1..Len(rs)
          /\ (h + n + 1) - 1 = h + n
      BY <1>6, <3>1 DEF h
    <3>3. Route(c, p) = rest.out
      <4>1. PICK m \in 1..Len(rs) : m = h + n + 1 /\ m - 1 = h + n
        BY <1>11, <3>2
      <4>2. rs[m] = rest /\ Hit(rs[m])
        BY <1>5, <3>1, <4>1
      <4>3. \A j \in 1..(m - 1) : ~Hit(rs[j])
        BY <2>1, <3>2, <4>1
      <4> QED BY <1>7, <4>2, <4>3
    <3> QED BY <1>5, <2>2, <2>3, <3>3
  <2>4. CASE ~grouped
    <3>1. Len(rs) = h + n /\ \A i \in 1..Len(rs) : ~Hit(rs[i])
      BY <1>2, <1>4, <1>6, <2>1, <2>4 DEF h, n
    <3>2. SelectInSeq(rs, LAMBDA r : Hit(r)) = 0
      BY <3>1 DEF SelectInSeq
    <3>3. Route(c, p) = c.outbounds[1].tag
      BY <3>2 DEF Route, Hit, seen, rs
    <3>4. c.outbounds[1].tag = TagProxy
      BY <2>4, FirstOutbound, Zenon DEF grouped, CanBuild
    <3> QED BY <2>2, <2>4, <3>3, <3>4
  <2> QED BY <2>3, <2>4
<1> HIDE DEF goes, hits
<1> QED
  BY <1>8, <1>12, <1>13

-----------------------------------------------------------------------------
\* A connect: what was compiled was compiled of the order.

BuildInv ==
  /\ order \in Orders
  /\ \/ core \in {Absent, Refused}
     \/ /\ CanBuild(order.servers, order.rules, ProbeCore(order.has, order.asked))
        /\ core = Build(Normal(order.settings), order.servers, order.strategy,
                        order.rules, order.resolvers)

LEMMA BuildAlways == BuildSpec => []BuildInv
<1>1. BuildInit => BuildInv
  BY DEF BuildInit, BuildInv
<1>2. BuildInv /\ [BuildNext]_buildVars => BuildInv'
  <2> SUFFICES ASSUME BuildInv, [BuildNext]_buildVars PROVE BuildInv'
    OBVIOUS
  <2>1. CASE UNCHANGED buildVars
    BY <2>1, Zenon DEF buildVars, BuildInv
  <2>2. CASE CompileOrder
    <3>1. order' = order
      BY <2>2 DEF CompileOrder
    <3>2. CASE CanBuild(order.servers, order.rules,
                        ProbeCore(order.has, order.asked))
      <4>1. core' = Build(Normal(order.settings), order.servers, order.strategy,
                          order.rules, order.resolvers)
        BY <2>2, <3>2, Zenon DEF CompileOrder
      <4> QED BY <3>1, <3>2, <4>1, Zenon DEF BuildInv
    <3>3. CASE ~CanBuild(order.servers, order.rules,
                         ProbeCore(order.has, order.asked))
      <4>1. core' = Refused
        BY <2>2, <3>3, Zenon DEF CompileOrder
      <4> QED BY <3>1, <4>1, Zenon DEF BuildInv
    <3> QED BY <3>2, <3>3
  <2> QED BY <2>1, <2>2 DEF BuildNext
<1> QED
  BY <1>1, <1>2, PTL DEF BuildSpec

\* Whatever server or group, whatever rules and whichever features the core was
\* built without: what the core is given it takes, and nothing leaves it without
\* the mark that keeps it out of its own capture (config.go:608,
\* capabilities.go).
THEOREM CoreAlwaysFits == BuildSpec => []CoreFits
<1>1. BuildInv => CoreFits
  <2> SUFFICES ASSUME BuildInv, Compiled PROVE CoreFits
    BY DEF CoreFits
  <2> DEFINE caps == ProbeCore(order.has, order.asked)
             s == Normal(order.settings)
  <2>1. /\ CanBuild(order.servers, order.rules, caps)
        /\ core = Build(s, order.servers, order.strategy, order.rules,
                        order.resolvers)
        /\ order.servers \in Seq(Range(order.servers))
        /\ order.rules \in Seq(Range(order.rules))
    BY OrdersAssumption DEF BuildInv, Compiled
  <2>2. order.asked => caps = order.has
    BY DEF ProbeCore
  <2> HIDE DEF caps, s
  <2>3. Known(core, caps) /\ \A o \in Range(core.outbounds) :
                                o.tag # TagBlock => o.mark
    BY <2>1, BuildIsTaken, Zenon
  <2>4. Known(core, Features)
    BY <2>1, FeaturesSuffice, BuildIsTaken, Zenon
  <2>5. order.asked => Known(core, order.has)
    BY <2>2, <2>3, Zenon
  <2> QED BY <2>3, <2>4, <2>5, Zenon DEF CoreFits
<1> QED
  BY <1>1, BuildAlways, PTL

\* A connection goes where the first enabled rule says whose every matcher holds
\* of it, after the addresses that are never proxied; what no rule is about goes
\* to the server or to the balancer: for lists of rules of any length
\* (config.go:415, config.go:647).
THEOREM RoutesAlwaysAsRuled == BuildSpec => []RoutesAsRuled
<1>1. BuildInv => RoutesAsRuled
  <2> SUFFICES ASSUME BuildInv, Compiled, NEW c \in Connections,
                      c.in \in {"socks-in", "transparent-in"}
               PROVE  GoesAsRuled(core, c, order.rules, order.strategy,
                                  order.resolvers)
    BY DEF RoutesAsRuled, GoesAsRuled
  <2> DEFINE caps == ProbeCore(order.has, order.asked)
             s == Normal(order.settings)
  <2>1. /\ CanBuild(order.servers, order.rules, caps)
        /\ core = Build(s, order.servers, order.strategy, order.rules,
                        order.resolvers)
        /\ order.servers \in Seq(Range(order.servers))
        /\ order.rules \in Seq(Range(order.rules))
    BY OrdersAssumption DEF BuildInv, Compiled
  <2> HIDE DEF caps, s
  <2> QED BY <2>1, RouteFollowsRules, SMTT(30)
<1> QED
  BY <1>1, BuildAlways, PTL

-----------------------------------------------------------------------------
\* The configuration a material makes, and whether it makes one.

StrategyOf(made) == IF made.kind = "group" THEN made.group.strategy ELSE Absent
CoreOf(made) ==
  Build(made.settings, made.servers, StrategyOf(made), made.rules, {})
Makes(made) == CanBuild(made.servers, made.rules, Features)

\* Build reads of the settings what a material has of them.
LEMMA MaterialIsAllThereIs ==
  ASSUME NEW f, NEW id
  PROVE  LET d == Load(f)
             made == materialFor(d, id)
         IN /\ Compile(d, id) = CoreOf(made)
            /\ Builds(d, id) <=> Makes(made)
<1> DEFINE d == Load(f)
           made == materialFor(d, id)
           x == OfType(f, "main")[1]
<1> SUFFICES /\ Compile(d, id) = CoreOf(made)
             /\ Builds(d, id) <=> Makes(made)
  OBVIOUS
<1>1. d.main = Normal(Settings(x))
  BY DEF Load
<1>2. /\ made.settings = coreSettingsOf(d.main)
      /\ made.servers = Servers(d, id) /\ made.rules = d.rules
      /\ made.kind = IF Named(d.groups, id) THEN "group" ELSE "profile"
      /\ made.group = IF Named(d.groups, id) THEN Get(d.groups, id) ELSE Absent
  BY DEF materialFor
<1> HIDE DEF made, d
<1>3. /\ made.settings.mode = d.main.mode /\ made.settings.dns = d.main.dns
      /\ made.settings.sniff = d.main.sniff
      /\ made.settings.keeps = d.main.keeps
  BY <1>1, <1>2 DEF coreSettingsOf, Normal, Settings
<1>4. StrategyOf(made) = IF Named(d.groups, id) THEN Get(d.groups, id).strategy
                         ELSE Absent
  BY <1>2 DEF StrategyOf
<1>5. ASSUME NEW servers, NEW st, NEW rules
      PROVE  Build(made.settings, servers, st, rules, {})
               = Build(d.main, servers, st, rules, {})
  <2>1. /\ Inbounds(made.settings) = Inbounds(d.main)
        /\ DnsServers(made.settings, rules, {}) = DnsServers(d.main, rules, {})
    BY ONLY <1>3, Zenon DEF Inbounds, DnsServers
  <2>2. SniffingFor(made.settings, rules) = SniffingFor(d.main, rules)
    BY ONLY <1>3, Zenon DEF SniffingFor, SniffWanted
  <2>3. Rules(made.settings, rules, st # Absent, {}) = Rules(d.main, rules, st # Absent, {})
    BY ONLY <1>3, Zenon DEF Rules
  <2> QED BY ONLY <1>3, <2>1, <2>2, <2>3, Zenon DEF Build
<1>6. Compile(d, id) = CoreOf(made)
  BY <1>2, <1>4, <1>5, Zenon DEF Compile, CoreOf
<1>7. Builds(d, id) <=> Makes(made)
  BY <1>2, Zenon DEF Builds, Makes
<1> QED
  BY <1>6, <1>7

-----------------------------------------------------------------------------
\* What is dialled and what runs was made of some material, and keeps it.

Made(x) == Makes(x.made) /\ x.core = CoreOf(x.made)
MadeIfAny(x) == x # Absent => x.core = Absent \/ Made(x)

MadeInv == /\ running # Absent => Made(running)
           /\ MadeIfAny(dialing)

LEMMA WhatIsDialled ==
  ASSUME NEW f, NEW id, NEW back, NEW retry
  PROVE  MadeIfAny(Dialing(Load(f), id, back, retry))
<1> DEFINE d == Load(f)
           t == IF id = Absent THEN d.main.active ELSE id
           x == Dialing(d, id, back, retry)
<1> SUFFICES ASSUME x # Absent, x.core # Absent PROVE Made(x)
  BY DEF MadeIfAny
<1>1. x = [target |-> t, made |-> materialFor(d, t),
           core |-> IF Builds(d, t) THEN Compile(d, t) ELSE Absent,
           back |-> back, retry |-> retry]
  BY DEF Dialing
<1>2. /\ Compile(d, t) = CoreOf(materialFor(d, t))
      /\ Builds(d, t) <=> Makes(materialFor(d, t))
  BY MaterialIsAllThereIs
<1> HIDE DEF x, t, d
<1>3. /\ x.made = materialFor(d, t)
      /\ x.core = IF Builds(d, t) THEN Compile(d, t) ELSE Absent
  BY <1>1
<1>4. Builds(d, t)
  BY <1>3, Zenon
<1> QED
  BY <1>2, <1>3, <1>4, Zenon DEF Made

LEMMA OrBackIsMade ==
  ASSUME NEW f, NEW x, MadeIfAny(x), NEW back
  PROVE  MadeIfAny(OrBack(Load(f), x, back))
BY WhatIsDialled DEF OrBack

LEMMA NothingIsMade == MadeIfAny(Absent)
BY DEF MadeIfAny

LEMMA DialsIsMade ==
  ASSUME NEW id, Dials(id)
  PROVE  MadeInv'
<1> DEFINE was == IF running = Absent THEN Absent ELSE running.target
           back == IF was = id THEN Absent ELSE was
<1>1. dialing' = OrBack(Load(staged), Dialing(Load(staged), id, back, TRUE), back)
      /\ running' = Absent
  BY DEF Dials, Stored
<1> HIDE DEF back
<1>2. MadeIfAny(dialing')
  BY <1>1, WhatIsDialled, OrBackIsMade
<1> QED
  BY <1>1, <1>2 DEF MadeInv, MadeIfAny, Made

LEMMA GivingUpIsMade == GivesUp => MadeIfAny(dialing')
BY NothingIsMade, OrBackIsMade DEF GivesUp, Stored

LEMMA MadeStep == MadeInv /\ [Next]_vars => MadeInv'
<1> SUFFICES ASSUME MadeInv, [Next]_vars PROVE MadeInv'
  OBVIOUS
<1> DEFINE Keeps == UNCHANGED <<running, dialing>>
<1>1. ASSUME Keeps PROVE MadeInv'
  BY <1>1, Zenon DEF MadeInv, MadeIfAny, Made
<1>2. ASSUME running' = Absent, dialing' \in {Absent, dialing} PROVE MadeInv'
  BY <1>2 DEF MadeInv, MadeIfAny, Made
<1>3. CASE UNCHANGED vars
  BY <1>1, <1>3 DEF vars
<1>4. CASE Edit
  <2>1. ASSUME NEW p, \/ createProfile(p)
                      \/ \E sub : importProfiles(p, sub)
                      \/ \E id, sub : updateProfile(id, p, sub)
        PROVE  MadeInv'
    BY <1>1, <2>1 DEF createProfile, importProfiles, updateProfile, Update, Idle
  <2>2. ASSUME NEW id, deleteProfile(id) \/ fetchCert(id) PROVE MadeInv'
    BY <1>1, <2>2 DEF deleteProfile, fetchCert, Begin, Update, Idle
  <2>3. ASSUME NEW m, NEW st,
               createGroup(m, st) \/ \E id : updateGroup(id, m, st)
        PROVE  MadeInv'
    BY <1>1, <2>3 DEF createGroup, updateGroup, Update, Idle
  <2>4. ASSUME NEW id, deleteGroup(id) \/ deleteRule(id) \/ deleteSubscription(id)
                       \/ refreshSubscription(id)
        PROVE  MadeInv'
    BY <1>1, <2>4 DEF deleteGroup, deleteRule, deleteSubscription,
         refreshSubscription, RefreshBegins, Begin, Update, Idle
  <2>5. ASSUME NEW r, \/ createRule(r) \/ replaceRules(r)
                      \/ \E id : updateRule(id, r)
        PROVE  MadeInv'
    BY <1>1, <2>5 DEF createRule, replaceRules, updateRule, Update, Idle
  <2>6. ASSUME createSubscription PROVE MadeInv'
    BY <1>1, <2>6 DEF createSubscription, RefreshBegins, Begin, Idle
  <2>7. ASSUME NEW change, putSettings(change) PROVE MadeInv'
    BY <1>1, <2>7 DEF putSettings, Begin, Idle
  <2>8. ASSUME NEW doc, putConfig(doc) PROVE MadeInv'
    BY <1>1, <2>8 DEF putConfig, Begin
  <2>9. ASSUME NEW id, Connect(id) PROVE MadeInv'
    BY <2>9, DialsIsMade DEF Connect
  <2>10. ASSUME Disconnect \/ FactoryReset \/ Restart PROVE MadeInv'
    BY <1>2, <2>10 DEF Disconnect, FactoryReset, Restart
  <2> QED BY <1>4, <2>1, <2>2, <2>3, <2>4, <2>5, <2>6, <2>7, <2>8, <2>9, <2>10,
             Zenon DEF Edit
<1>5. CASE Resume
  <2>1. ASSUME DocumentSaved \/ CertRefused \/ RefreshFails
               \/ SubscriptionUndone \/ ConnectedIsAsked
               \/ (\E listing : RefreshFetched(listing))
               \/ \E pin, unver, replace : CertFetched(pin, unver, replace)
        PROVE  MadeInv'
    BY <1>1, <2>1 DEF DocumentSaved, CertRefused, RefreshFails,
         SubscriptionUndone, ConnectedIsAsked, RefreshFetched, CertFetched, End
  <2>2. ASSUME SettingsApplied PROVE MadeInv'
    BY <2>2, DialsIsMade DEF SettingsApplied
  <2>3. ASSUME DialSucceeds PROVE MadeInv'
    BY <2>3 DEF DialSucceeds, MadeInv, MadeIfAny, Made
  <2>4. ASSUME DialFails PROVE MadeInv'
    <3>1. MadeIfAny(dialing') /\ UNCHANGED running
      BY <2>4, GivingUpIsMade DEF DialFails
    <3> QED BY <3>1 DEF MadeInv, MadeIfAny, Made
  <2>5. ASSUME NEW pin, NewPin(pin) PROVE MadeInv'
    <3> DEFINE now == Load(staged')
               again == IF dialing.retry
                        THEN Dialing(now, dialing.target, dialing.back, FALSE)
                        ELSE Absent
    <3>1. MadeIfAny(again)
      BY WhatIsDialled, NothingIsMade
    <3>2. dialing' = OrBack(now, again, dialing.back) \/ GivesUp
      BY <2>5 DEF NewPin
    <3> HIDE DEF again
    <3>3. MadeIfAny(dialing')
      BY <3>1, <3>2, OrBackIsMade, GivingUpIsMade
    <3>4. UNCHANGED running
      BY <2>5 DEF NewPin
    <3> QED BY <3>3, <3>4 DEF MadeInv, MadeIfAny, Made
  <2> QED BY <1>5, <2>1, <2>2, <2>3, <2>4, <2>5, Zenon DEF Resume
<1> QED
  BY <1>3, <1>4, <1>5 DEF Next

\* No notice means nothing to apply, whatever servers, groups, rules and settings
\* there are and however they are edited, refreshed and reconnected in between:
\* the material of a connect is all that its configuration is made of
\* (fingerprint.go:111).
THEOREM NoticeTellsTruth == Spec => []PendingTellsTruth
<1>1. Init => MadeInv
  BY DEF Init, MadeInv, MadeIfAny
<1>2. MadeInv => PendingTellsTruth
  <2> SUFFICES ASSUME MadeInv, running # Absent, ~ConfigChanged
               PROVE  LET active == Stored.main.active
                      IN /\ Builds(Stored, active)
                         /\ Compile(Stored, active) = running.core
    BY DEF PendingTellsTruth
  <2> DEFINE active == Stored.main.active
  <2>1. materialFor(Stored, active) = running.made
    BY DEF ConfigChanged
  <2>2. Makes(running.made) /\ running.core = CoreOf(running.made)
    BY DEF MadeInv, Made
  <2>3. /\ Compile(Stored, active) = CoreOf(materialFor(Stored, active))
        /\ Builds(Stored, active) <=> Makes(materialFor(Stored, active))
    BY MaterialIsAllThereIs DEF Stored
  <2> QED BY <2>1, <2>2, <2>3, Zenon
<1> QED
  BY <1>1, <1>2, MadeStep, PTL DEF Spec
=============================================================================
