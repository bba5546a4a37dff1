--------------------------- MODULE FirewallProofs ---------------------------
(***************************************************************************)
(* What the capture rules leave in the kernel: for any plan, any number of *)
(* LAN devices that Revert has deletions for, and whoever is killed.       *)
(*                                                                         *)
(* iptables is changed one command at a time, so the invariant is about    *)
(* what is still to come: what a revert has not removed yet, its commands  *)
(* from here on remove.                                                    *)
(***************************************************************************)
EXTENDS Firewall, FiniteSetTheorems, SequenceTheorems, WellFoundedInduction,
        TLAPS

-----------------------------------------------------------------------------
\* Numbers.

LEMMA LeastElement ==
  ASSUME NEW T \in SUBSET Nat, T # {}
  PROVE  \E n \in T : \A m \in T : n <= m
<1>1. PICK n \in T : \A m \in T : ~(<<m, n>> \in OpToRel(<, Nat))
  BY WFMin, NatLessThanWellFounded, Zenon
<1>2. \A m \in T : ~(m < n)
  BY <1>1, Zenon DEF OpToRel
<1> QED
  BY <1>2

LEMMA PlacesOfBoth ==
  ASSUME NEW S, NEW s \in Seq(S), NEW t \in Seq(S)
  PROVE  /\ s \o t \in Seq(S) /\ Len(s \o t) = Len(s) + Len(t)
         /\ Len(s) \in Nat /\ Len(t) \in Nat
         /\ \A i \in 1..Len(s) : (s \o t)[i] = s[i]
         /\ \A i \in 1..Len(t) : (s \o t)[Len(s) + i] = t[i]
OBVIOUS

LEMMA PlacesFrom ==
  ASSUME NEW S, NEW s \in Seq(S), NEW k \in 1..Len(s)
  PROVE  LET b == SubSeq(s, k + 1, Len(s))
         IN /\ b \in Seq(S) /\ Len(b) = Len(s) - k
            /\ \A i \in 1..(Len(s) - k) : b[i] = s[k + i]
<1> DEFINE b == SubSeq(s, k + 1, Len(s))
<1>1. Len(s) \in Nat /\ k \in Nat /\ k <= Len(s)
  OBVIOUS
<1>2. Len(b) = Len(s) - k
  BY <1>1
<1>3. b \in Seq(S)
  BY <1>1
<1>4. \A i \in 1..(Len(s) - k) : b[i] = s[k + i]
  BY <1>1
<1> QED BY <1>2, <1>3, <1>4

LEMMA NoPlaces ==
  ASSUME NEW S, NEW s \in Seq(S), \A i \in DOMAIN s : FALSE
  PROVE  s = <<>>
<1>1. DOMAIN s = 1..Len(s)
  OBVIOUS
<1>2. SUFFICES ASSUME s # <<>> PROVE FALSE
  OBVIOUS
<1>3. Len(s) \in Nat \ {0}
  BY <1>2, EmptySeq
<1>4. 1 \in DOMAIN s
  BY <1>1, <1>3
<1> QED BY <1>4

-----------------------------------------------------------------------------
\* The jumps at a hook that lead to one chain, counted.

Jumps == [from : SUBSET Senders, to : Chains]
To(s, c) == {i \in DOMAIN s : s[i].to = c}

LEMMA ToFinite ==
  ASSUME NEW S, NEW s \in Seq(S), NEW c
  PROVE  IsFiniteSet(To(s, c)) /\ Cardinality(To(s, c)) \in Nat
<1>1. DOMAIN s = 1 .. Len(s) /\ Len(s) \in Nat
  OBVIOUS
<1>2. IsFiniteSet(1 .. Len(s))
  BY <1>1, FS_Interval
<1>3. To(s, c) \in SUBSET (1 .. Len(s))
  BY <1>1 DEF To
<1> QED
  BY <1>2, <1>3, FS_Subset, FS_CardinalityType

LEMMA PushedJump ==
  ASSUME NEW S, NEW s \in Seq(S), NEW j \in S, NEW c
  PROVE  /\ <<j>> \o s \in Seq(S)
         /\ Cardinality(To(<<j>> \o s, c))
              <= Cardinality(To(s, c)) + (IF j.to = c THEN 1 ELSE 0)
<1> DEFINE t == <<j>> \o s
           rest == To(t, c) \ {1}
           f == [i \in rest |-> i - 1]
<1>1. /\ DOMAIN s = 1 .. Len(s) /\ Len(s) \in Nat
      /\ t \in Seq(S) /\ DOMAIN t = 1 .. (Len(s) + 1)
      /\ t[1] = j /\ \A i \in 1 .. Len(s) : t[i + 1] = s[i]
  OBVIOUS
<1> HIDE DEF t
<1>2. \A i \in rest : i \in Nat /\ i - 1 \in To(s, c)
  <2> SUFFICES ASSUME NEW i \in rest PROVE i \in Nat /\ i - 1 \in To(s, c)
    OBVIOUS
  <2>1. i \in 1 .. (Len(s) + 1) /\ i # 1 /\ t[i].to = c
    BY <1>1 DEF To
  <2>2. i - 1 \in 1 .. Len(s) /\ i = (i - 1) + 1
    BY <1>1, <2>1
  <2>3. t[i] = s[i - 1]
    BY <1>1, <2>2
  <2> QED BY <1>1, <2>1, <2>2, <2>3 DEF To
<1>3. f \in Injection(rest, To(s, c))
  BY <1>2 DEF Injection, IsInjective
<1> HIDE DEF f
<1>4. Cardinality(rest) <= Cardinality(To(s, c))
  BY <1>3, ToFinite, FS_Injection
<1>5. /\ IsFiniteSet(To(t, c)) /\ Cardinality(To(t, c)) \in Nat
      /\ Cardinality(To(s, c)) \in Nat
  BY <1>1, ToFinite
<1>6. Cardinality(rest) = IF 1 \in To(t, c) THEN Cardinality(To(t, c)) - 1
                          ELSE Cardinality(To(t, c))
  BY <1>5, FS_RemoveElement
<1>7. 1 \in To(t, c) <=> j.to = c
  BY <1>1 DEF To
<1> QED
  BY <1>1, <1>4, <1>5, <1>6, <1>7 DEF t

LessOne(s, d) == RemoveFirstMatch(s, LAMBDA j : j.to = d)

LEMMA DeletedJump ==
  ASSUME NEW S, NEW s \in Seq(S), NEW d, NEW c
  PROVE  /\ LessOne(s, d) \in Seq(S)
         /\ Cardinality(To(LessOne(s, d), c)) <= Cardinality(To(s, c))
         /\ c = d /\ To(s, c) # {} =>
              Cardinality(To(LessOne(s, d), c)) < Cardinality(To(s, c))
<1> DEFINE t == RemoveFirstMatch(s, LAMBDA j : j.to = d)
<1>1. DOMAIN s = 1 .. Len(s) /\ Len(s) \in Nat
  OBVIOUS
<1>2. CASE To(s, d) = {}
  <2>1. t = s
    BY <1>1, <1>2 DEF RemoveFirstMatch, To
  <2> QED BY <1>2, <2>1, ToFinite DEF LessOne
<1>3. CASE To(s, d) # {}
  <2>1. PICK k \in 1 .. Len(s) : s[k].to = d /\ t = RemoveAt(s, k)
    <3>1. To(s, d) \in SUBSET Nat /\ To(s, d) = {i \in 1 .. Len(s) : s[i].to = d}
      BY <1>1 DEF To
    <3>2. Min(To(s, d)) \in To(s, d)
      BY <1>3, <3>1, LeastElement, Zenon DEF Min
    <3>3. SelectInSeq(s, LAMBDA j : j.to = d) = Min(To(s, d))
      BY <1>3, <3>1 DEF SelectInSeq
    <3>4. t = RemoveAt(s, SelectInSeq(s, LAMBDA j : j.to = d))
      BY <1>3, <3>1 DEF RemoveFirstMatch
    <3> QED BY <3>1, <3>2, <3>3, <3>4
  <2> HIDE DEF t
  <2>2. /\ t \in Seq(S) /\ Len(t) = Len(s) - 1 /\ DOMAIN t = 1 .. (Len(s) - 1)
        /\ \A i \in 1 .. (Len(s) - 1) : t[i] = IF i < k THEN s[i] ELSE s[i + 1]
    <3> DEFINE a == SubSeq(s, 1, k - 1)
               b == SubSeq(s, k + 1, Len(s))
    <3>1. /\ a \in Seq(S) /\ Len(a) = k - 1
          /\ \A i \in 1 .. (k - 1) : a[i] = s[i]
      BY <1>1
    <3>2. /\ b \in Seq(S) /\ Len(b) = Len(s) - k
          /\ \A i \in 1 .. (Len(s) - k) : b[i] = s[k + i]
      BY PlacesFrom
    <3>3. t = a \o b
      BY <2>1 DEF RemoveAt
    <3> HIDE DEF a, b
    <3>4. /\ t \in Seq(S) /\ Len(t) = Len(s) - 1
          /\ DOMAIN t = 1 .. (Len(s) - 1)
          /\ \A i \in 1 .. (k - 1) : t[i] = a[i]
          /\ \A i \in 1 .. Len(b) : t[Len(a) + i] = b[i]
      <4>0. a \in Seq(S) /\ b \in Seq(S)
        BY <3>1, <3>2
      <4>1. /\ t \in Seq(S) /\ Len(t) = Len(a) + Len(b)
            /\ \A i \in 1 .. Len(a) : t[i] = a[i]
            /\ \A i \in 1 .. Len(b) : t[Len(a) + i] = b[i]
        BY ONLY <4>0, <3>3, PlacesOfBoth
      <4>2. DOMAIN t = 1 .. Len(t)
        BY <4>1
      <4> QED BY <1>1, <3>1, <3>2, <4>1, <4>2, SMTT(20)
    <3>5. \A i \in k .. (Len(s) - 1) : t[i] = s[i + 1]
      <4> SUFFICES ASSUME NEW i \in k .. (Len(s) - 1) PROVE t[i] = s[i + 1]
        OBVIOUS
      <4>1. PICK m \in 1 .. Len(b) : i = Len(a) + m /\ k + m = i + 1
        <5>1. i - (k - 1) \in 1 .. (Len(s) - k)
          BY <1>1
        <5> QED BY <1>1, <3>1, <3>2, <5>1
      <4> QED BY <3>2, <3>4, <4>1
    <3> QED BY <1>1, <3>1, <3>4, <3>5
  <2> DEFINE f == [i \in To(t, c) |-> IF i < k THEN i ELSE i + 1]
  <2>3. \A i \in To(t, c) : /\ i \in Nat
                            /\ (IF i < k THEN i ELSE i + 1) \in To(s, c) \ {k}
    BY <1>1, <2>1, <2>2 DEF To
  <2>4. f \in Injection(To(t, c), To(s, c) \ {k})
    BY <2>3, <1>1, <2>1 DEF Injection, IsInjective
  <2> HIDE DEF f
  <2>5. /\ IsFiniteSet(To(s, c)) /\ IsFiniteSet(To(s, c) \ {k})
        /\ Cardinality(To(s, c)) \in Nat
        /\ Cardinality(To(s, c) \ {k}) = IF k \in To(s, c)
             THEN Cardinality(To(s, c)) - 1 ELSE Cardinality(To(s, c))
    BY ToFinite, FS_RemoveElement
  <2>6. Cardinality(To(t, c)) <= Cardinality(To(s, c) \ {k})
    BY <2>4, <2>5, FS_Injection
  <2>7. Cardinality(To(t, c)) \in Nat
    BY <2>2, ToFinite
  <2>8. c = d => k \in To(s, c)
    BY <1>1, <2>1 DEF To
  <2>9. /\ t \in Seq(S) /\ Cardinality(To(t, c)) <= Cardinality(To(s, c))
        /\ c = d => Cardinality(To(t, c)) < Cardinality(To(s, c))
    BY <2>2, <2>5, <2>6, <2>7, <2>8
  <2> QED BY <2>9 DEF t, LessOne
<1> QED BY <1>2, <1>3 DEF LessOne

-----------------------------------------------------------------------------
\* What Revert's list of commands does for the chains it is about: as many
\* deletions of a jump as there may be, and then the chain.

LEMMA FlattenOne ==
  ASSUME NEW S, NEW a \in Seq(S)
  PROVE  FlattenSeq(<<a>>) = a
<1> DEFINE ss == <<a>>
           flat == CHOOSE F :
                     F = [i \in 1..1 |-> IF i = 1 THEN ss[i] ELSE F[i - 1] \o ss[i]]
<1>1. FlattenSeq(ss) = flat[1]
  BY DEF FlattenSeq
<1>2. [i \in 1..1 |-> a] = [i \in 1..1 |-> IF i = 1 THEN ss[i]
                                         ELSE [j \in 1..1 |-> a][i - 1] \o ss[i]]
  OBVIOUS
<1>3. flat = [i \in 1..1 |-> IF i = 1 THEN ss[i] ELSE flat[i - 1] \o ss[i]]
  BY <1>2, Zenon
<1> HIDE DEF flat
<1> QED BY <1>1, <1>3

LEMMA FlattenTwo ==
  ASSUME NEW S, NEW a \in Seq(S), NEW b \in Seq(S)
  PROVE  FlattenSeq(<<a, b>>) = a \o b
<1> DEFINE ss == <<a, b>>
           flat == CHOOSE F :
                     F = [i \in 1..2 |-> IF i = 1 THEN ss[i] ELSE F[i - 1] \o ss[i]]
           g == [i \in 1..2 |-> IF i = 1 THEN a ELSE a \o b]
<1>1. FlattenSeq(ss) = flat[2]
  BY DEF FlattenSeq
<1>2. g = [i \in 1..2 |-> IF i = 1 THEN ss[i] ELSE g[i - 1] \o ss[i]]
  OBVIOUS
<1>3. flat = [i \in 1..2 |-> IF i = 1 THEN ss[i] ELSE flat[i - 1] \o ss[i]]
  BY <1>2, Zenon
<1> DEFINE Glue(x, i) == x \o ss[i]
<1>4. flat = [i \in 1..2 |-> IF i = 1 THEN ss[i] ELSE Glue(flat[i - 1], i)]
  BY <1>3, Zenon
<1>5. ss[1] = a /\ ss[2] = b
  OBVIOUS
<1> HIDE DEF flat, ss, Glue
<1>6. flat[1] = ss[1] /\ flat[2] = Glue(flat[2 - 1], 2)
  BY <1>4
<1>7. flat[2] = a \o b
  <2>1. flat[2 - 1] = a
    BY <1>6, <1>5
  <2> QED BY <1>6, <1>5, <2>1, Zenon DEF Glue
<1> QED BY <1>1, <1>7 DEF ss

LEMMA FlattenThree ==
  ASSUME NEW S, NEW a \in Seq(S), NEW b \in Seq(S), NEW c \in Seq(S),
         NEW ss, ss = <<a, b, c>>
  PROVE  FlattenSeq(ss) = (a \o b) \o c
<1> DEFINE flat == CHOOSE F :
                     F = [i \in 1..3 |-> IF i = 1 THEN ss[i] ELSE F[i - 1] \o ss[i]]
           g == [i \in 1..3 |-> IF i = 1 THEN a ELSE IF i = 2 THEN a \o b
                                ELSE (a \o b) \o c]
<1>1. FlattenSeq(ss) = flat[3]
  BY DEF FlattenSeq
<1>2. g = [i \in 1..3 |-> IF i = 1 THEN ss[i] ELSE g[i - 1] \o ss[i]]
  OBVIOUS
<1>3. flat = [i \in 1..3 |-> IF i = 1 THEN ss[i] ELSE flat[i - 1] \o ss[i]]
  BY <1>2, Zenon
<1> DEFINE Glue(x, i) == x \o ss[i]
<1>4. flat = [i \in 1..3 |-> IF i = 1 THEN ss[i] ELSE Glue(flat[i - 1], i)]
  BY <1>3, Zenon
<1>5. ss[1] = a /\ ss[2] = b /\ ss[3] = c
  OBVIOUS
<1> HIDE DEF flat, Glue
<1>6. /\ flat[1] = ss[1] /\ flat[2] = Glue(flat[2 - 1], 2)
      /\ flat[3] = Glue(flat[3 - 1], 3)
  BY <1>4
<1>7. flat[3] = (a \o b) \o c
  <2>1. flat[2 - 1] = a
    BY <1>6, <1>5
  <2>2. flat[2] = a \o b
    BY <1>6, <1>5, <2>1, Zenon DEF Glue
  <2>3. flat[3 - 1] = flat[2]
    BY 3 - 1 = 2
  <2> QED BY <1>6, <1>5, <2>2, <2>3, Zenon DEF Glue
<1> QED BY <1>1, <1>7

Sweep(C) == {Cmd(op, c) : op \in {"unjump", "flush", "delete"}, c \in C}

Unhooks(s, c) ==
  \E m \in Nat : /\ m + Deletes <= Len(s)
                 /\ \A k \in 1..Deletes : s[m + k] = Cmd("unjump", c)
Discards(s, c) ==
  \E i \in 1..Len(s) : /\ s[i] = Cmd("delete", c)
                       /\ \A j \in i..Len(s) : s[j] # Cmd("unjump", c)
Swept(s, C) ==
  s \in Seq(Sweep(C)) /\ \A c \in C : Unhooks(s, c) /\ Discards(s, c)

LEMMA UnhooksBoth ==
  ASSUME NEW S, NEW s \in Seq(S), NEW t \in Seq(S), NEW c
  PROVE  /\ Unhooks(s, c) => Unhooks(s \o t, c)
         /\ Unhooks(t, c) => Unhooks(s \o t, c)
<1> DEFINE u == s \o t
<1>1. /\ Len(u) = Len(s) + Len(t) /\ Len(s) \in Nat /\ Len(t) \in Nat
      /\ \A i \in 1..Len(s) : u[i] = s[i]
      /\ \A i \in 1..Len(t) : u[Len(s) + i] = t[i]
  BY PlacesOfBoth
<1> HIDE DEF u
<1>2. Unhooks(s, c) => Unhooks(u, c)
  <2> SUFFICES ASSUME Unhooks(s, c) PROVE Unhooks(u, c)
    OBVIOUS
  <2>1. PICK m \in Nat : /\ m + Deletes <= Len(s)
                         /\ \A k \in 1..Deletes : s[m + k] = Cmd("unjump", c)
    BY DEF Unhooks
  <2>2. \A k \in 1..Deletes : m + k \in 1..Len(s)
    BY <1>1, <2>1, FirewallBounds
  <2>3. \A k \in 1..Deletes : u[m + k] = Cmd("unjump", c)
    BY <1>1, <2>1, <2>2
  <2>4. m + Deletes <= Len(u)
    BY <1>1, <2>1, FirewallBounds
  <2> QED BY <2>3, <2>4 DEF Unhooks
<1>3. Unhooks(t, c) => Unhooks(u, c)
  <2> SUFFICES ASSUME Unhooks(t, c) PROVE Unhooks(u, c)
    OBVIOUS
  <2>1. PICK m \in Nat : /\ m + Deletes <= Len(t)
                         /\ \A k \in 1..Deletes : t[m + k] = Cmd("unjump", c)
    BY DEF Unhooks
  <2>2. PICK n \in Nat : n = Len(s) + m
    BY <1>1
  <2>3. \A k \in 1..Deletes : m + k \in 1..Len(t) /\ n + k = Len(s) + (m + k)
    BY <1>1, <2>1, <2>2, FirewallBounds
  <2>4. \A k \in 1..Deletes : u[n + k] = Cmd("unjump", c)
    BY <1>1, <2>1, <2>3
  <2>5. n + Deletes <= Len(u)
    BY <1>1, <2>1, <2>2, FirewallBounds
  <2> QED BY <2>4, <2>5 DEF Unhooks
<1> QED BY <1>2, <1>3 DEF u

LEMMA DiscardsBoth ==
  ASSUME NEW S, NEW s \in Seq(S), NEW t \in Seq(S), NEW c
  PROVE  /\ Discards(s, c) /\ (\A i \in 1..Len(t) : t[i] # Cmd("unjump", c))
              => Discards(s \o t, c)
         /\ Discards(t, c) => Discards(s \o t, c)
<1> DEFINE u == s \o t
<1>1. /\ Len(u) = Len(s) + Len(t) /\ Len(s) \in Nat /\ Len(t) \in Nat
      /\ \A i \in 1..Len(s) : u[i] = s[i]
      /\ \A i \in 1..Len(t) : u[Len(s) + i] = t[i]
  BY PlacesOfBoth
<1>2. \A j \in 1..Len(u) : j \in 1..Len(s) \/ \E k \in 1..Len(t) : j = Len(s) + k
  <2> SUFFICES ASSUME NEW j \in 1..Len(u), j \notin 1..Len(s)
               PROVE  j - Len(s) \in 1..Len(t) /\ j = Len(s) + (j - Len(s))
    OBVIOUS
  <2> HIDE DEF u
  <2> QED BY <1>1
<1> HIDE DEF u
<1>3. ASSUME Discards(s, c), \A i \in 1..Len(t) : t[i] # Cmd("unjump", c)
      PROVE  Discards(u, c)
  <2>1. PICK i \in 1..Len(s) : /\ s[i] = Cmd("delete", c)
                               /\ \A j \in i..Len(s) : s[j] # Cmd("unjump", c)
    BY <1>3 DEF Discards
  <2>2. \A j \in i..Len(u) : u[j] # Cmd("unjump", c)
    <3> SUFFICES ASSUME NEW j \in i..Len(u) PROVE u[j] # Cmd("unjump", c)
      OBVIOUS
    <3>1. j \in 1..Len(u) /\ (j \in 1..Len(s) => j \in i..Len(s))
      BY <1>1
    <3>2. CASE j \in 1..Len(s)
      BY <1>1, <2>1, <3>1, <3>2
    <3>3. CASE j \notin 1..Len(s)
      <4>1. PICK k \in 1..Len(t) : j = Len(s) + k
        BY <1>2, <3>1, <3>3, Zenon
      <4> QED BY <1>1, <1>3, <4>1
    <3> QED BY <3>2, <3>3
  <2> QED BY <1>1, <2>1, <2>2 DEF Discards
<1>4. Discards(t, c) => Discards(u, c)
  <2> SUFFICES ASSUME Discards(t, c) PROVE Discards(u, c)
    OBVIOUS
  <2>1. PICK i \in 1..Len(t) : /\ t[i] = Cmd("delete", c)
                               /\ \A j \in i..Len(t) : t[j] # Cmd("unjump", c)
    BY DEF Discards
  <2>2. PICK n \in 1..Len(u) : n = Len(s) + i
    BY <1>1
  <2>3. \A j \in n..Len(u) : u[j] # Cmd("unjump", c)
    <3> SUFFICES ASSUME NEW j \in n..Len(u) PROVE u[j] # Cmd("unjump", c)
      OBVIOUS
    <3>1. j \in 1..Len(u) /\ j \notin 1..Len(s)
      BY <1>1, <2>2
    <3>2. PICK k \in 1..Len(t) : j = Len(s) + k
      BY <1>2, <3>1, Zenon
    <3>3. k \in i..Len(t)
      BY <1>1, <2>2, <3>2
    <3> QED BY <1>1, <2>1, <3>2, <3>3
  <2>4. u[n] = Cmd("delete", c)
    BY <1>1, <2>1, <2>2
  <2> QED BY <2>3, <2>4 DEF Discards
<1> QED BY <1>3, <1>4 DEF u

LEMMA SweptBoth ==
  ASSUME NEW C, NEW E, C \cap E = {}, NEW s, NEW t, Swept(s, C), Swept(t, E)
  PROVE  Swept(s \o t, C \cup E)
<1> DEFINE S == Sweep(C \cup E)
<1>1. s \in Seq(S) /\ t \in Seq(S)
  <2>1. Sweep(C) \subseteq S /\ Sweep(E) \subseteq S
    BY DEF Sweep
  <2> HIDE DEF S
  <2> QED BY <2>1 DEF Swept
<1>2. ASSUME NEW c \in C, NEW i \in 1..Len(t) PROVE t[i] # Cmd("unjump", c)
  <2>1. t[i] \in Sweep(E)
    BY DEF Swept
  <2> QED BY <2>1 DEF Sweep, Cmd
<1> HIDE DEF S
<1>3. s \o t \in Seq(S)
  BY <1>1
<1>4. ASSUME NEW c \in C PROVE Unhooks(s \o t, c) /\ Discards(s \o t, c)
  BY <1>1, <1>2, UnhooksBoth, DiscardsBoth DEF Swept
<1>5. ASSUME NEW c \in E PROVE Unhooks(s \o t, c) /\ Discards(s \o t, c)
  BY <1>1, UnhooksBoth, DiscardsBoth DEF Swept
<1> QED BY <1>3, <1>4, <1>5 DEF Swept, S

Pulls(C) == {Cmd("unjump", c) : c \in C}
Flush(C) == {Cmd(op, c) : op \in {"flush", "delete"}, c \in C}
\* No jump is deleted once a chain has been.
Sorted(s) ==
  \A i \in 1..Len(s) : \A k \in i..Len(s) :
    s[i].op = "delete" => s[k].op # "unjump"

LEMMA NoUnjumps ==
  ASSUME NEW C, NEW t \in Seq(Flush(C)), NEW c, NEW i \in 1..Len(t)
  PROVE  t[i] # Cmd("unjump", c)
<1>1. t[i] \in Flush(C)
  OBVIOUS
<1> QED BY <1>1 DEF Flush, Cmd

LEMMA UnhookSweeps ==
  ASSUME NEW C, NEW c \in C
  PROVE  Unhook(c) \in Seq(Pulls(C)) /\ Unhooks(Unhook(c), c)
<1>1. Deletes \in Nat
  BY FirewallBounds
<1>2. Cmd("unjump", c) \in Pulls(C)
  BY DEF Pulls
<1> DEFINE x == Cmd("unjump", c)
<1> HIDE DEF x
<1>3. /\ Unhook(c) \in Seq(Pulls(C)) /\ Len(Unhook(c)) = Deletes
      /\ \A k \in 1..Deletes : Unhook(c)[k] = x
  <2>1. Unhook(c) = [i \in 1..Deletes |-> x]
    BY DEF Unhook, x
  <2>2. x \in Pulls(C)
    BY <1>2 DEF x
  <2> QED BY <1>1, <2>1, <2>2
<1>4. 0 + Deletes <= Len(Unhook(c)) /\ \A k \in 1..Deletes : Unhook(c)[0 + k] = x
  BY <1>1, <1>3
<1> QED BY <1>3, <1>4 DEF Unhooks, x

LEMMA DiscardSweeps ==
  ASSUME NEW C, NEW c \in C
  PROVE  Discard(c) \in Seq(Flush(C)) /\ Discards(Discard(c), c)
<1> DEFINE x == Cmd("flush", c)
           y == Cmd("delete", c)
<1>1. x \in Flush(C) /\ y \in Flush(C) /\ y # Cmd("unjump", c)
  BY DEF Flush, Cmd
<1>2. Discard(c) = <<x, y>>
  BY DEF Discard
<1> HIDE DEF x, y
<1>3. /\ Discard(c) \in Seq(Flush(C)) /\ Len(Discard(c)) = 2
      /\ Discard(c)[2] = y /\ \A j \in 2..2 : Discard(c)[j] # Cmd("unjump", c)
  BY <1>1, <1>2
<1> QED BY <1>3 DEF Discards, y

LEMMA ClearSwept ==
  ASSUME NEW C, NEW u \in Seq(Pulls(C)), NEW d \in Seq(Flush(C)),
         \A c \in C : Unhooks(u, c) /\ Discards(d, c)
  PROVE  Swept(u \o d, C) /\ Sorted(u \o d)
<1>1. u \in Seq(Sweep(C)) /\ d \in Seq(Sweep(C))
  <2>1. Pulls(C) \subseteq Sweep(C) /\ Flush(C) \subseteq Sweep(C)
    BY DEF Pulls, Flush, Sweep
  <2> QED BY <2>1
<1>2. u \o d \in Seq(Sweep(C))
  BY <1>1
<1>3. \A c \in C : Unhooks(u \o d, c) /\ Discards(u \o d, c)
  BY <1>1, UnhooksBoth, DiscardsBoth
<1>4. Sorted(u \o d)
  <2> DEFINE s == u \o d
  <2>1. /\ Len(s) = Len(u) + Len(d) /\ Len(u) \in Nat /\ Len(d) \in Nat
        /\ \A i \in 1..Len(u) : s[i] = u[i]
        /\ \A i \in 1..Len(d) : s[Len(u) + i] = d[i]
    BY <1>1, PlacesOfBoth
  <2>2. \A i \in 1..Len(u) : u[i].op # "delete"
    <3> SUFFICES ASSUME NEW i \in 1..Len(u) PROVE u[i].op # "delete"
      OBVIOUS
    <3>1. u[i] \in Pulls(C)
      OBVIOUS
    <3> QED BY <3>1 DEF Pulls, Cmd
  <2>3. \A i \in 1..Len(d) : d[i].op # "unjump"
    <3> SUFFICES ASSUME NEW i \in 1..Len(d) PROVE d[i].op # "unjump"
      OBVIOUS
    <3>1. d[i] \in Flush(C)
      OBVIOUS
    <3> QED BY <3>1 DEF Flush, Cmd
  <2> HIDE DEF s
  <2>4. \A k \in 1..Len(s) : k > Len(u) => s[k].op # "unjump"
    <3> SUFFICES ASSUME NEW k \in 1..Len(s), k > Len(u) PROVE s[k].op # "unjump"
      OBVIOUS
    <3>1. PICK m \in 1..Len(d) : k = Len(u) + m
      <4>1. k - Len(u) \in 1..Len(d) /\ k = Len(u) + (k - Len(u))
        BY <2>1
      <4> QED BY <4>1
    <3> QED BY <2>1, <2>3, <3>1
  <2>5. \A i \in 1..Len(s) : s[i].op = "delete" => i > Len(u)
    BY <2>1, <2>2
  <2>6. Sorted(s)
    <3> SUFFICES ASSUME NEW i \in 1..Len(s), NEW k \in i..Len(s),
                        s[i].op = "delete"
                 PROVE  s[k].op # "unjump"
      BY DEF Sorted
    <3>1. k \in 1..Len(s) /\ k > Len(u)
      BY <2>1, <2>5
    <3> QED BY <2>4, <3>1
  <2> QED BY <2>6 DEF s
<1> QED BY <1>2, <1>3, <1>4 DEF Swept

LEMMA OneCleared ==
  ASSUME NEW a
  PROVE  Swept(Clear(<<a>>), {a}) /\ Sorted(Clear(<<a>>))
<1>1. [i \in DOMAIN <<a>> |-> Unhook(<<a>>[i])] = <<Unhook(a)>>
  OBVIOUS
<1>2. [i \in DOMAIN <<a>> |-> Discard(<<a>>[i])] = <<Discard(a)>>
  OBVIOUS
<1>3. Clear(<<a>>) = Unhook(a) \o Discard(a)
  BY <1>1, <1>2, FlattenOne, UnhookSweeps, DiscardSweeps DEF Clear
<1> DEFINE C == {a}
<1>4. /\ Unhook(a) \in Seq(Pulls(C)) /\ Discard(a) \in Seq(Flush(C))
      /\ \A c \in C : Unhooks(Unhook(a), c) /\ Discards(Discard(a), c)
  BY UnhookSweeps, DiscardSweeps
<1>5. Swept(Unhook(a) \o Discard(a), C) /\ Sorted(Unhook(a) \o Discard(a))
  <2> HIDE DEF C
  <2> QED BY <1>4, ClearSwept, Zenon
<1> QED BY <1>3, <1>5

LEMMA TwoCleared ==
  ASSUME NEW a, NEW b
  PROVE  Swept(Clear(<<a, b>>), {a, b}) /\ Sorted(Clear(<<a, b>>))
<1> DEFINE C == {a, b}
           u == Unhook(a) \o Unhook(b)
           d == Discard(a) \o Discard(b)
<1>1. /\ Unhook(a) \in Seq(Pulls(C)) /\ Unhook(b) \in Seq(Pulls(C))
      /\ Discard(a) \in Seq(Flush(C)) /\ Discard(b) \in Seq(Flush(C))
      /\ Unhooks(Unhook(a), a) /\ Unhooks(Unhook(b), b)
      /\ Discards(Discard(a), a) /\ Discards(Discard(b), b)
  BY UnhookSweeps, DiscardSweeps
<1>2. Clear(<<a, b>>) = u \o d
  <2>1. [i \in DOMAIN <<a, b>> |-> Unhook(<<a, b>>[i])] = <<Unhook(a), Unhook(b)>>
    OBVIOUS
  <2>2. [i \in DOMAIN <<a, b>> |-> Discard(<<a, b>>[i])]
          = <<Discard(a), Discard(b)>>
    OBVIOUS
  <2>3. FlattenSeq(<<Unhook(a), Unhook(b)>>) = u
    BY <1>1, FlattenTwo, Zenon
  <2>4. FlattenSeq(<<Discard(a), Discard(b)>>) = d
    BY <1>1, FlattenTwo, Zenon
  <2> HIDE DEF u, d
  <2> QED BY <2>1, <2>2, <2>3, <2>4, Zenon DEF Clear
<1> HIDE DEF C
<1>3. u \in Seq(Pulls(C)) /\ d \in Seq(Flush(C))
  BY <1>1
<1>4. Unhooks(u, a) /\ Unhooks(u, b)
  BY <1>1, UnhooksBoth
<1>5. Discards(d, a) /\ Discards(d, b)
  BY <1>1, DiscardsBoth, NoUnjumps
<1> HIDE DEF u, d
<1>6. \A c \in C : Unhooks(u, c) /\ Discards(d, c)
  BY <1>4, <1>5 DEF C
<1>7. Swept(u \o d, C) /\ Sorted(u \o d)
  BY <1>3, <1>6, ClearSwept, Zenon
<1> QED BY <1>2, <1>7 DEF C

LEMMA ThreeCleared ==
  ASSUME NEW a, NEW b, NEW c
  PROVE  Swept(Clear(<<a, b, c>>), {a, b, c}) /\ Sorted(Clear(<<a, b, c>>))
<1> DEFINE C == {a, b, c}
           u == (Unhook(a) \o Unhook(b)) \o Unhook(c)
           d == (Discard(a) \o Discard(b)) \o Discard(c)
<1>1. /\ Unhook(a) \in Seq(Pulls(C)) /\ Unhook(b) \in Seq(Pulls(C))
      /\ Unhook(c) \in Seq(Pulls(C))
      /\ Discard(a) \in Seq(Flush(C)) /\ Discard(b) \in Seq(Flush(C))
      /\ Discard(c) \in Seq(Flush(C))
      /\ Unhooks(Unhook(a), a) /\ Unhooks(Unhook(b), b) /\ Unhooks(Unhook(c), c)
      /\ Discards(Discard(a), a) /\ Discards(Discard(b), b)
      /\ Discards(Discard(c), c)
  BY UnhookSweeps, DiscardSweeps
<1>2. Clear(<<a, b, c>>) = u \o d
  <2>1. [i \in DOMAIN <<a, b, c>> |-> Unhook(<<a, b, c>>[i])]
          = <<Unhook(a), Unhook(b), Unhook(c)>>
    OBVIOUS
  <2>2. [i \in DOMAIN <<a, b, c>> |-> Discard(<<a, b, c>>[i])]
          = <<Discard(a), Discard(b), Discard(c)>>
    OBVIOUS
  <2>3. FlattenSeq(<<Unhook(a), Unhook(b), Unhook(c)>>) = u
    BY <1>1, FlattenThree
  <2>4. FlattenSeq(<<Discard(a), Discard(b), Discard(c)>>) = d
    BY <1>1, FlattenThree
  <2> HIDE DEF u, d
  <2> QED BY <2>1, <2>2, <2>3, <2>4, Zenon DEF Clear
<1> HIDE DEF C
<1>3. /\ Unhook(a) \o Unhook(b) \in Seq(Pulls(C)) /\ u \in Seq(Pulls(C))
      /\ Discard(a) \o Discard(b) \in Seq(Flush(C)) /\ d \in Seq(Flush(C))
  BY <1>1
<1>4. Unhooks(u, a) /\ Unhooks(u, b) /\ Unhooks(u, c)
  BY <1>1, <1>3, UnhooksBoth
<1>5. Discards(d, a) /\ Discards(d, b) /\ Discards(d, c)
  BY <1>1, <1>3, DiscardsBoth, NoUnjumps
<1> HIDE DEF u, d
<1>6. \A x \in C : Unhooks(u, x) /\ Discards(d, x)
  BY <1>4, <1>5 DEF C
<1>7. Swept(u \o d, C) /\ Sorted(u \o d)
  BY <1>3, <1>6, ClearSwept, Zenon
<1> QED BY <1>2, <1>7 DEF C

\* IptRevert sweeps every chain, and takes the diversion away last.
LEMMA RevertSweeps ==
  \E swept : /\ Swept(swept, Chains)
             /\ IptRevert = swept \o <<Cmd("undivert", <<>>)>>
<1> DEFINE A == {Pre("nat"), Out("nat")}
           B == {Pre("mangle"), Mark, Out("mangle")}
           nat == Clear(<<Pre("nat"), Out("nat")>>)
           mangle == Clear(<<Pre("mangle"), Mark, Out("mangle")>>)
           filter == Clear(<<Quic>>)
           s == (nat \o mangle) \o filter
<1>1. Swept(nat, A) /\ Swept(mangle, B) /\ Swept(filter, {Quic})
  BY OneCleared, TwoCleared, ThreeCleared
<1>2. A \cap B = {} /\ (A \cup B) \cap {Quic} = {} /\ Chains = (A \cup B) \cup {Quic}
  BY DEF Pre, Out, Mark, Quic, Chains
<1>3. IptRevert = s \o <<Cmd("undivert", <<>>)>>
  BY DEF IptRevert
<1> HIDE DEF A, B, nat, mangle, filter
<1>4. Swept(s, Chains)
  BY <1>1, <1>2, SweptBoth, Zenon
<1> HIDE DEF s
<1> QED BY <1>3, <1>4, Zenon

\* No chain that keeps another one in sight goes before that one's jumps.
Behind(s, d, c) ==
  \A i \in 1..Len(s) : \A k \in i..Len(s) :
    s[i] = Cmd("delete", d) => s[k] # Cmd("unjump", c)

LEMMA BehindBoth ==
  ASSUME NEW S, NEW s \in Seq(S), NEW t \in Seq(S), NEW d, NEW c,
         Behind(s, d, c), Behind(t, d, c),
         \/ \A i \in 1..Len(s) : s[i] # Cmd("delete", d)
         \/ \A i \in 1..Len(t) : t[i] # Cmd("unjump", c)
  PROVE  Behind(s \o t, d, c)
<1> DEFINE u == s \o t
<1>1. /\ Len(u) = Len(s) + Len(t) /\ Len(s) \in Nat /\ Len(t) \in Nat
      /\ \A i \in 1..Len(s) : u[i] = s[i]
      /\ \A i \in 1..Len(t) : u[Len(s) + i] = t[i]
  BY PlacesOfBoth
<1> HIDE DEF u
<1>2. SUFFICES ASSUME NEW i \in 1..Len(u), NEW k \in i..Len(u),
                      u[i] = Cmd("delete", d)
               PROVE  u[k] # Cmd("unjump", c)
  BY DEF Behind, u
<1>3. CASE k <= Len(s)
  <2>1. i \in 1..Len(s) /\ k \in i..Len(s) /\ u[i] = s[i] /\ u[k] = s[k]
    BY <1>1, <1>3
  <2> QED BY <1>2, <2>1 DEF Behind
<1>4. CASE k > Len(s) /\ i <= Len(s)
  <2>1. i \in 1..Len(s) /\ u[i] = s[i]
    BY <1>1, <1>4
  <2>2. k - Len(s) \in 1..Len(t) /\ u[k] = t[k - Len(s)]
    <3>1. k - Len(s) \in 1..Len(t) /\ k = Len(s) + (k - Len(s))
      BY <1>1, <1>4
    <3> QED BY <1>1, <3>1
  <2> QED BY <1>2, <2>1, <2>2
<1>5. CASE i > Len(s)
  <2>1. /\ i - Len(s) \in 1..Len(t) /\ i = Len(s) + (i - Len(s))
        /\ k - Len(s) \in (i - Len(s))..Len(t) /\ k = Len(s) + (k - Len(s))
        /\ k - Len(s) \in 1..Len(t)
    BY <1>1, <1>5
  <2>2. u[i] = t[i - Len(s)] /\ u[k] = t[k - Len(s)]
    BY <1>1, <2>1
  <2> QED BY <1>2, <2>1, <2>2 DEF Behind
<1> QED BY <1>1, <1>3, <1>4, <1>5

LEMMA SortedBehind ==
  ASSUME NEW s, Sorted(s), NEW d, NEW c
  PROVE  Behind(s, d, c)
BY DEF Sorted, Behind, Cmd

LEMMA RevertInOrder ==
  /\ Behind(IptRevert, Pre("nat"), Out("nat"))
  /\ Behind(IptRevert, Pre("mangle"), Out("nat"))
  /\ Behind(IptRevert, Mark, Out("mangle"))
<1> DEFINE A == {Pre("nat"), Out("nat")}
           B == {Pre("mangle"), Mark, Out("mangle")}
           C == {Quic}
           last == Cmd("undivert", <<>>)
           nat == Clear(<<Pre("nat"), Out("nat")>>)
           mangle == Clear(<<Pre("mangle"), Mark, Out("mangle")>>)
           filter == Clear(<<Quic>>)
           S == Sweep(A) \cup Sweep(B) \cup Sweep(C) \cup {last}
<1>1. /\ Swept(nat, A) /\ Swept(mangle, B) /\ Swept(filter, C)
      /\ Sorted(nat) /\ Sorted(mangle) /\ Sorted(filter)
  BY OneCleared, TwoCleared, ThreeCleared
<1>2. /\ Out("nat") \notin B \cup C /\ Out("mangle") \notin A \cup C
      /\ Pre("mangle") \notin A /\ Mark \notin A
  BY DEF Pre, Out, Mark, Quic
<1>3. IptRevert = ((nat \o mangle) \o filter) \o <<last>>
  BY DEF IptRevert
<1>4. ASSUME NEW D, NEW s, Swept(s, D), NEW c, c \notin D
      PROVE  \A i \in 1..Len(s) : s[i] # Cmd("unjump", c) /\ s[i] # Cmd("delete", c)
  <2> SUFFICES ASSUME NEW i \in 1..Len(s)
               PROVE  s[i] # Cmd("unjump", c) /\ s[i] # Cmd("delete", c)
    OBVIOUS
  <2>1. s[i] \in Sweep(D)
    BY <1>4 DEF Swept
  <2> QED BY <1>4, <2>1 DEF Sweep, Cmd
<1> HIDE DEF A, B, C, nat, mangle, filter
<1>5. /\ nat \in Seq(S) /\ mangle \in Seq(S) /\ filter \in Seq(S)
      /\ <<last>> \in Seq(S)
  <2>1. /\ nat \in Seq(Sweep(A)) /\ mangle \in Seq(Sweep(B))
        /\ filter \in Seq(Sweep(C))
    BY <1>1 DEF Swept
  <2>2. /\ Sweep(A) \subseteq S /\ Sweep(B) \subseteq S /\ Sweep(C) \subseteq S
        /\ last \in S
    OBVIOUS
  <2> HIDE DEF S, last
  <2> QED BY <2>1, <2>2
<1>6. /\ \A c : \A i \in 1..Len(<<last>>) : <<last>>[i] # Cmd("unjump", c)
      /\ \A d, c : Behind(<<last>>, d, c)
  BY DEF Cmd, Behind
<1> DEFINE s1 == nat \o mangle
           s2 == s1 \o filter
<1> HIDE DEF S, last
<1>7. s1 \in Seq(S) /\ s2 \in Seq(S)
  BY <1>5
<1>8. ASSUME NEW d, NEW c, c \notin C, d \notin A \/ c \notin B
      PROVE  Behind(IptRevert, d, c)
  <2>1. /\ Behind(nat, d, c) /\ Behind(mangle, d, c) /\ Behind(filter, d, c)
    BY <1>1, SortedBehind
  <2>2. \/ \A i \in 1..Len(nat) : nat[i] # Cmd("delete", d)
        \/ \A i \in 1..Len(mangle) : mangle[i] # Cmd("unjump", c)
    BY <1>1, <1>4, <1>8
  <2>3. Behind(s1, d, c)
    BY <1>5, <2>1, <2>2, BehindBoth
  <2>4. \A i \in 1..Len(filter) : filter[i] # Cmd("unjump", c)
    BY <1>1, <1>4, <1>8
  <2> HIDE DEF s1
  <2>5. Behind(s2, d, c)
    BY <1>5, <1>7, <2>1, <2>3, <2>4, BehindBoth
  <2> HIDE DEF s2
  <2>6. Behind(s2 \o <<last>>, d, c)
    BY <1>5, <1>6, <1>7, <2>5, BehindBoth
  <2> QED BY <1>3, <2>6 DEF s1, s2
<1> QED BY <1>2, <1>8

-----------------------------------------------------------------------------
\* What Apply installs after it has swept: no chain is hooked in more often
\* than Revert deletes its jump.

Words == {"any", "mac", "bypass", "tcp", "udp", "quic", "dnsUdp", "dnsTcp",
          "return", "dns", "core", "mark", "tproxy", "tproxyDns", "reject"}
Rules == {From(s, m, v) : s \in SUBSET Senders, m \in Words, v \in Words}
QuicRules == {r \in Rules : r.do = "return" \/ r.on = "quic"}
Plain == {Need, Divert} \cup {New(c) : c \in Chains}
         \cup {Add(c, r) : c \in Chains \ {Quic}, r \in Rules}
         \cup {Add(Quic, r) : r \in QuicRules}
Build == Plain \cup {Cmd("jump", j) : j \in Jumps}
Leads(s, c) == {i \in DOMAIN s : s[i].op = "jump" /\ s[i].arg.to = c}
Fits(s, C) ==
  /\ s \in Seq(Build)
  /\ \A c \in Chains : /\ Cardinality(Leads(s, c)) <= Deletes
                       /\ c \notin C => Leads(s, c) = {}

LEMMA LeadsFinite ==
  ASSUME NEW S, NEW s \in Seq(S), NEW c
  PROVE  IsFiniteSet(Leads(s, c)) /\ Cardinality(Leads(s, c)) \in Nat
<1>1. DOMAIN s = 1 .. Len(s) /\ Len(s) \in Nat
  OBVIOUS
<1>2. IsFiniteSet(1 .. Len(s))
  BY <1>1, FS_Interval
<1>3. Leads(s, c) \in SUBSET (1 .. Len(s))
  BY <1>1 DEF Leads
<1> QED
  BY <1>2, <1>3, FS_Subset, FS_CardinalityType

LEMMA PlainFits ==
  ASSUME NEW s \in Seq(Plain)
  PROVE  Fits(s, {})
<1>1. s \in Seq(Build)
  BY DEF Build
<1>2. \A i \in DOMAIN s : s[i].op # "jump"
  <2> SUFFICES ASSUME NEW i \in DOMAIN s PROVE s[i].op # "jump"
    OBVIOUS
  <2>1. s[i] \in Plain
    OBVIOUS
  <2> QED BY <2>1 DEF Plain, Need, Divert, New, Add, Cmd
<1>3. \A c : Leads(s, c) = {}
  BY <1>2 DEF Leads
<1>4. Cardinality({}) = 0 /\ 0 <= Deletes
  BY FS_EmptySet, FirewallBounds
<1>5. \A c : Cardinality(Leads(s, c)) <= Deletes
  BY <1>3, <1>4, Zenon
<1> QED BY <1>1, <1>3, <1>5 DEF Fits

LEMMA FitsBoth ==
  ASSUME NEW C, NEW E, NEW s, NEW t, Fits(s, C), Fits(t, E), C \cap E = {}
  PROVE  Fits(s \o t, C \cup E)
<1> DEFINE u == s \o t
<1>1. s \in Seq(Build) /\ t \in Seq(Build)
  BY DEF Fits
<1>2. /\ u \in Seq(Build) /\ Len(u) = Len(s) + Len(t)
      /\ Len(s) \in Nat /\ Len(t) \in Nat
      /\ \A i \in 1..Len(s) : u[i] = s[i]
      /\ \A i \in 1..Len(t) : u[Len(s) + i] = t[i]
  BY <1>1, PlacesOfBoth
<1>3. DOMAIN s = 1..Len(s) /\ DOMAIN t = 1..Len(t) /\ DOMAIN u = 1..Len(u)
  BY <1>1, <1>2
<1>4. \A i \in DOMAIN u : i \in DOMAIN s \/ i - Len(s) \in DOMAIN t
  BY <1>2, <1>3
<1> HIDE DEF u
<1>5. ASSUME NEW c
      PROVE  \A i \in Leads(u, c) : \/ i \in Leads(s, c)
                                    \/ i - Len(s) \in Leads(t, c)
  <2> SUFFICES ASSUME NEW i \in Leads(u, c), i \notin Leads(s, c)
               PROVE  i - Len(s) \in Leads(t, c)
    OBVIOUS
  <2>1. i \in DOMAIN u /\ u[i].op = "jump" /\ u[i].arg.to = c
    BY DEF Leads
  <2>2. i \notin DOMAIN s
    BY <1>2, <1>3, <2>1 DEF Leads
  <2>3. i - Len(s) \in DOMAIN t /\ u[i] = t[i - Len(s)]
    BY <1>2, <1>3, <1>4, <2>1, <2>2
  <2> QED BY <2>1, <2>3 DEF Leads
<1>6. ASSUME NEW c \in Chains
      PROVE  /\ Cardinality(Leads(u, c)) <= Deletes
             /\ c \notin C \cup E => Leads(u, c) = {}
  <2>1. CASE Leads(t, c) = {}
    <3>1. Leads(u, c) \in SUBSET Leads(s, c)
      BY <1>5, <2>1
    <3>2. Cardinality(Leads(u, c)) <= Cardinality(Leads(s, c))
      BY <1>1, <3>1, LeadsFinite, FS_Subset
    <3> QED BY <1>1, <1>2, <3>1, <3>2, LeadsFinite, FirewallBounds DEF Fits
  <2>2. CASE Leads(s, c) = {}
    <3> DEFINE f == [i \in Leads(u, c) |-> i - Len(s)]
    <3>1. \A i \in Leads(u, c) : i \in Nat /\ i - Len(s) \in Leads(t, c)
      BY <1>2, <1>3, <1>5, <2>2 DEF Leads
    <3>2. f \in Injection(Leads(u, c), Leads(t, c))
      BY <1>2, <3>1 DEF Injection, IsInjective
    <3> HIDE DEF f
    <3>3. Cardinality(Leads(u, c)) <= Cardinality(Leads(t, c))
      BY <1>1, <3>2, LeadsFinite, FS_Injection
    <3> QED BY <1>1, <1>2, <3>1, <3>3, LeadsFinite, FirewallBounds DEF Fits
  <2> QED BY <2>1, <2>2 DEF Fits
<1> QED BY <1>2, <1>6 DEF Fits, u

LEMMA FitsIf ==
  ASSUME NEW C, NEW s, Fits(s, C), NEW b \in BOOLEAN
  PROVE  Fits(If(b, s), C)
<1>1. <<>> \in Seq(Plain)
  OBVIOUS
<1>2. Fits(<<>>, C)
  BY <1>1, PlainFits DEF Fits
<1> QED BY <1>2 DEF If

\* Which chains a program makes, and that it makes one of them before it hooks
\* in another.
Makes(s, c) == \E i \in 1..Len(s) : s[i] = New(c)
Follows(s, D, c) ==
  \A m \in Leads(s, c) : \E d \in D, i \in 1..(m - 1) : s[i] = New(d)

LEMMA MakesBoth ==
  ASSUME NEW S, NEW s \in Seq(S), NEW t \in Seq(S), NEW c,
         Makes(s, c) \/ Makes(t, c)
  PROVE  Makes(s \o t, c)
<1> DEFINE u == s \o t
<1>1. /\ Len(u) = Len(s) + Len(t) /\ Len(s) \in Nat /\ Len(t) \in Nat
      /\ \A i \in 1..Len(s) : u[i] = s[i]
      /\ \A i \in 1..Len(t) : u[Len(s) + i] = t[i]
  BY PlacesOfBoth
<1> HIDE DEF u
<1>2. CASE Makes(s, c)
  <2>1. PICK i \in 1..Len(s) : s[i] = New(c)
    BY <1>2 DEF Makes
  <2>2. i \in 1..Len(u) /\ u[i] = New(c)
    BY <1>1, <2>1
  <2> QED BY <2>2 DEF Makes, u
<1>3. CASE Makes(t, c)
  <2>1. PICK i \in 1..Len(t) : t[i] = New(c)
    BY <1>3 DEF Makes
  <2>2. Len(s) + i \in 1..Len(u) /\ u[Len(s) + i] = New(c)
    BY <1>1, <2>1
  <2> QED BY <2>2 DEF Makes, u
<1> QED BY <1>2, <1>3

LEMMA FollowsBoth ==
  ASSUME NEW S, NEW s \in Seq(S), NEW t \in Seq(S), NEW D, NEW c,
         Follows(s, D, c), Follows(t, D, c) \/ \E d \in D : Makes(s, d)
  PROVE  Follows(s \o t, D, c)
<1> DEFINE u == s \o t
<1>1. /\ Len(u) = Len(s) + Len(t) /\ Len(s) \in Nat /\ Len(t) \in Nat
      /\ \A i \in 1..Len(s) : u[i] = s[i]
      /\ \A i \in 1..Len(t) : u[Len(s) + i] = t[i]
      /\ u \in Seq(S)
  BY PlacesOfBoth
<1>2. DOMAIN s = 1..Len(s) /\ DOMAIN t = 1..Len(t) /\ DOMAIN u = 1..Len(u)
  BY <1>1
<1> HIDE DEF u
<1>3. SUFFICES ASSUME NEW m \in Leads(u, c)
               PROVE  \E d \in D, i \in 1..(m - 1) : u[i] = New(d)
  BY DEF Follows, u
<1>4. m \in 1..Len(u) /\ u[m].op = "jump" /\ u[m].arg.to = c
  BY <1>2 DEF Leads
<1>5. CASE m <= Len(s)
  <2>1. m \in Leads(s, c)
    BY <1>1, <1>2, <1>4, <1>5 DEF Leads
  <2>2. PICK d \in D, i \in 1..(m - 1) : s[i] = New(d)
    BY <2>1 DEF Follows
  <2>3. u[i] = New(d)
    BY <1>1, <1>4, <1>5, <2>2
  <2> QED BY <2>3
<1>6. CASE m > Len(s)
  <2>1. PICK n \in 1..Len(t) : m = Len(s) + n
    <3>1. m - Len(s) \in 1..Len(t) /\ m = Len(s) + (m - Len(s))
      BY <1>1, <1>4, <1>6
    <3> QED BY <3>1
  <2>2. CASE Follows(t, D, c)
    <3>1. n \in Leads(t, c)
      BY <1>1, <1>2, <1>4, <2>1 DEF Leads
    <3>2. PICK d \in D, i \in 1..(n - 1) : t[i] = New(d)
      BY <2>2, <3>1 DEF Follows
    <3>3. i \in 1..Len(t) /\ Len(s) + i \in 1..(m - 1)
      BY <1>1, <2>1, <3>2
    <3>4. u[Len(s) + i] = New(d)
      BY <1>1, <3>2, <3>3
    <3> QED BY <3>3, <3>4
  <2>3. CASE \E d \in D : Makes(s, d)
    <3>1. PICK d \in D, i \in 1..Len(s) : s[i] = New(d)
      BY <2>3 DEF Makes
    <3>2. i \in 1..(m - 1) /\ u[i] = New(d)
      BY <1>1, <2>1, <3>1
    <3> QED BY <3>2
  <2> QED BY <2>2, <2>3
<1> QED BY <1>1, <1>4, <1>5, <1>6

LEMMA FitsFollows ==
  ASSUME NEW C, NEW s, Fits(s, C), NEW D, NEW c \in Chains \ C
  PROVE  Follows(s, D, c)
BY DEF Fits, Follows

LEMMA HookFits ==
  ASSUME NEW c \in Chains, NEW p \in Plans
  PROVE  Fits(Hook(c, p), {c})
<1> DEFINE s == Hook(c, p)
<1>1. /\ p.lan \in Seq(Devices) /\ Len(p.lan) <= Deletes /\ Len(p.lan) \in Nat
      /\ Deletes \in Nat /\ Deletes > 0
  <2>1. p \in Plan
    BY PlansAssumption
  <2>2. p.lan \in Seq(Devices)
    BY <2>1 DEF Plan
  <2> QED BY <2>2, DevicesAssumption, FirewallBounds
<1>2. \A d \in SUBSET Devices : /\ Jump(c, d) \in Build
                                /\ Jump(c, d).op = "jump" /\ Jump(c, d).arg.to = c
  BY DEF Jump, Build, Jumps, Cmd, Senders
<1>3. s \in Seq(Build) /\ Len(s) <= Deletes /\ \A i \in 1..Len(s) : s[i].arg.to = c
  <2>1. CASE p.lan # <<>>
    <3> DEFINE x(i) == Jump(c, {p.lan[i]})
    <3>1. \A i \in 1..Len(p.lan) : x(i) \in Build /\ x(i).arg.to = c
      BY <1>1, <1>2
    <3> HIDE DEF x
    <3>2. s = [i \in 1..Len(p.lan) |-> x(i)]
      BY <1>1, <2>1 DEF Hook, x
    <3> HIDE DEF s
    <3> QED BY <1>1, <3>1, <3>2
  <2>2. CASE p.lan = <<>>
    <3>1. PICK d \in SUBSET Devices : s = <<Jump(c, d)>>
      BY <2>2 DEF Hook
    <3> DEFINE x == Jump(c, d)
    <3>2. x \in Build /\ x.arg.to = c
      BY <1>2
    <3> HIDE DEF x, s
    <3>3. s = <<x>>
      BY <3>1 DEF x
    <3> QED BY <1>1, <3>2, <3>3
  <2> QED BY <2>1, <2>2
<1> HIDE DEF s
<1>4. DOMAIN s = 1..Len(s) /\ Len(s) \in Nat
  BY <1>3
<1>5. ASSUME NEW e \in Chains
      PROVE  /\ Cardinality(Leads(s, e)) <= Deletes
             /\ e \notin {c} => Leads(s, e) = {}
  <2>1. Leads(s, e) \in SUBSET (1..Len(s))
    BY <1>4 DEF Leads
  <2>2. IsFiniteSet(1..Len(s)) /\ Cardinality(1..Len(s)) = Len(s)
    <3>1. 1 \in Int /\ Len(s) \in Int
      BY <1>4
    <3>2. /\ IsFiniteSet(1..Len(s))
          /\ Cardinality(1..Len(s)) = IF 1 > Len(s) THEN 0 ELSE Len(s) - 1 + 1
      BY ONLY <3>1, FS_Interval
    <3> QED BY <1>4, <3>2
  <2>3. Cardinality(Leads(s, e)) <= Len(s)
    BY <2>1, <2>2, FS_Subset
  <2>4. Cardinality(Leads(s, e)) \in Nat
    BY <1>3, LeadsFinite
  <2> QED BY <1>1, <1>3, <1>4, <2>3, <2>4 DEF Leads
<1> QED BY <1>3, <1>5 DEF Fits, s

LEMMA AddsPlain ==
  ASSUME NEW c \in Chains \ {Quic}, NEW rules \in Seq(Rules)
  PROVE  Adds(c, rules) \in Seq(Plain)
<1>1. \A r \in Rules : Add(c, r) \in Plain
  BY DEF Plain
<1> DEFINE x(i) == Add(c, rules[i])
<1>2. Adds(c, rules) = [i \in 1..Len(rules) |-> x(i)] /\ Len(rules) \in Nat
  BY DEF Adds
<1>3. \A i \in 1..Len(rules) : x(i) \in Plain
  BY <1>1
<1> HIDE DEF x
<1> QED BY <1>2, <1>3

LEMMA RulesTyped ==
  /\ \A m, v \in Words : On(m, v) \in Rules
  /\ CoreReturns \in Rules
<1>1. CoreReturns \in Rules
  <2>1. {"core"} \in SUBSET Senders
    BY DEF Senders
  <2> QED BY <2>1 DEF CoreReturns, Rules, Words
<1>2. \A m, v \in Words : On(m, v) \in Rules
  BY DEF On, Rules
<1> QED BY <1>1, <1>2

LEMMA RuleLists ==
  /\ \A r \in Rules : <<r>> \in Seq(Rules)
  /\ \A r1 \in Rules, r2 \in Rules : <<r1, r2>> \in Seq(Rules)
  /\ \A s \in Seq(Rules), b \in BOOLEAN : If(b, s) \in Seq(Rules)
BY DEF If

LEMMA DnsRulesTyped ==
  ASSUME NEW v \in Words
  PROVE  DnsRules(v) \in Seq(Rules)
BY RulesTyped DEF DnsRules, Words

LEMMA NewChainPlain ==
  ASSUME NEW c \in Chains
  PROVE  NewChain(c) \in Seq(Plain) /\ Makes(NewChain(c), c)
<1> DEFINE x == New(c)
           y == Add(c, On("mac", "return"))
           z == Add(c, On("bypass", "return"))
<1>1. x \in Plain /\ y \in Plain /\ z \in Plain
  <2>1. /\ On("mac", "return") \in QuicRules /\ On("bypass", "return") \in QuicRules
        /\ On("mac", "return") \in Rules /\ On("bypass", "return") \in Rules
    BY RulesTyped DEF Words, QuicRules, On, From
  <2> QED BY <2>1 DEF Plain
<1>2. NewChain(c) = <<x, y, z>>
  BY DEF NewChain
<1>3. Makes(NewChain(c), c)
  <2> HIDE DEF y, z
  <2> QED BY <1>2 DEF Makes
<1> HIDE DEF x, y, z
<1> QED BY <1>1, <1>2, <1>3

LEMMA AddPlain ==
  ASSUME NEW c \in Chains, NEW r \in Rules, c = Quic => r \in QuicRules
  PROVE  <<Add(c, r)>> \in Seq(Plain)
<1> DEFINE x == Add(c, r)
<1>1. x \in Plain
  BY DEF Plain
<1> HIDE DEF x
<1>2. <<x>> \in Seq(Plain)
  BY <1>1
<1> QED BY <1>2 DEF x

LEMMA PlainBoth ==
  ASSUME NEW s \in Seq(Plain), NEW t \in Seq(Plain)
  PROVE  s \o t \in Seq(Plain) /\ \A c : Makes(s, c) => Makes(s \o t, c)
<1>1. s \o t \in Seq(Plain)
  OBVIOUS
<1>2. \A c : Makes(s, c) => Makes(s \o t, c)
  BY MakesBoth
<1> QED BY <1>1, <1>2

\* A chain is made, filled and then hooked in.
LEMMA HookedFits ==
  ASSUME NEW c \in Chains, NEW p \in Plans, NEW s \in Seq(Plain), Makes(s, c)
  PROVE  Fits(s \o Hook(c, p), {c}) /\ Makes(s \o Hook(c, p), c)
<1>1. Fits(s, {}) /\ Fits(Hook(c, p), {c}) /\ {} \cap {c} = {}
  BY PlainFits, HookFits
<1>2. Fits(s \o Hook(c, p), {} \cup {c})
  BY <1>1, FitsBoth, Zenon
<1>3. s \in Seq(Build) /\ Hook(c, p) \in Seq(Build)
  BY <1>1 DEF Fits
<1>4. Makes(s \o Hook(c, p), c)
  BY <1>3, MakesBoth
<1> QED BY <1>2, <1>4

LEMMA ChainsNamed ==
  /\ Pre("nat") \in Chains /\ Pre("mangle") \in Chains /\ Mark \in Chains
  /\ Out("nat") \in Chains /\ Out("mangle") \in Chains /\ Quic \in Chains
  /\ Pre("nat") # Quic /\ Pre("mangle") # Quic /\ Mark # Quic
  /\ Out("nat") # Quic /\ Out("mangle") # Quic
BY DEF Chains, Pre, Mark, Out, Quic

LEMMA PartsFit ==
  ASSUME NEW p \in Plans
  PROVE  /\ Fits(QuicBlock(p), {Quic}) /\ Makes(QuicBlock(p), Quic)
         /\ Fits(NatRules(p), {Pre("nat")}) /\ Makes(NatRules(p), Pre("nat"))
         /\ Fits(DnsOnly(p), {Pre("nat")}) /\ Makes(DnsOnly(p), Pre("nat"))
         /\ Fits(UdpMark(p), {Mark}) /\ Makes(UdpMark(p), Mark)
         /\ Fits(TProxy(p), {Pre("mangle")}) /\ Makes(TProxy(p), Pre("mangle"))
<1>1. p.hijack \in BOOLEAN
  <2>1. p \in Plan
    BY PlansAssumption
  <2> QED BY <2>1 DEF Plan
<1>2. Fits(QuicBlock(p), {Quic}) /\ Makes(QuicBlock(p), Quic)
  <2> DEFINE s == NewChain(Quic) \o <<Add(Quic, On("quic", "reject"))>>
  <2>0. On("quic", "reject") \in Rules /\ On("quic", "reject") \in QuicRules
    BY RulesTyped DEF Words, QuicRules, On, From
  <2>1. s \in Seq(Plain) /\ Makes(s, Quic)
    BY <2>0, NewChainPlain, AddPlain, PlainBoth, ChainsNamed
  <2>2. QuicBlock(p) = s \o Hook(Quic, p)
    BY DEF QuicBlock
  <2> HIDE DEF s
  <2> QED BY <2>1, <2>2, HookedFits, ChainsNamed
<1>3. Fits(NatRules(p), {Pre("nat")}) /\ Makes(NatRules(p), Pre("nat"))
  <2> DEFINE c == Pre("nat")
             a == Adds(c, If(p.hijack, DnsRules("dns")))
             s == NewChain(c) \o a \o <<Add(c, On("tcp", "core"))>>
  <2>1. a \in Seq(Plain)
    BY <1>1, AddsPlain, DnsRulesTyped, RuleLists, ChainsNamed DEF Words
  <2>2. s \in Seq(Plain) /\ Makes(s, c)
    <3> HIDE DEF a
    <3> QED BY <2>1, NewChainPlain, AddPlain, RulesTyped, PlainBoth, ChainsNamed DEF Words
  <2>3. NatRules(p) = s \o Hook(c, p)
    BY DEF NatRules
  <2> HIDE DEF s
  <2> QED BY <2>2, <2>3, HookedFits, ChainsNamed
<1>4. Fits(DnsOnly(p), {Pre("nat")}) /\ Makes(DnsOnly(p), Pre("nat"))
  <2> DEFINE c == Pre("nat")
             a == Adds(c, DnsRules("dns"))
             s == NewChain(c) \o a
  <2>1. a \in Seq(Plain)
    BY AddsPlain, DnsRulesTyped, ChainsNamed DEF Words
  <2>2. s \in Seq(Plain) /\ Makes(s, c)
    <3> HIDE DEF a
    <3> QED BY <2>1, NewChainPlain, PlainBoth, ChainsNamed
  <2>3. DnsOnly(p) = s \o Hook(c, p)
    BY DEF DnsOnly
  <2> HIDE DEF s
  <2> QED BY <2>2, <2>3, HookedFits, ChainsNamed
<1>5. Fits(UdpMark(p), {Mark}) /\ Makes(UdpMark(p), Mark)
  <2> DEFINE a == Adds(Mark, If(p.hijack, DnsRules("return")))
             s == NewChain(Mark) \o a \o <<Add(Mark, On("udp", "mark"))>>
  <2>1. a \in Seq(Plain)
    BY <1>1, AddsPlain, DnsRulesTyped, RuleLists, ChainsNamed DEF Words
  <2>2. s \in Seq(Plain) /\ Makes(s, Mark)
    <3> HIDE DEF a
    <3> QED BY <2>1, NewChainPlain, AddPlain, RulesTyped, PlainBoth, ChainsNamed DEF Words
  <2>3. UdpMark(p) = s \o Hook(Mark, p)
    BY DEF UdpMark
  <2> HIDE DEF s
  <2> QED BY <2>2, <2>3, HookedFits, ChainsNamed
<1>6. Fits(TProxy(p), {Pre("mangle")}) /\ Makes(TProxy(p), Pre("mangle"))
  <2> DEFINE c == Pre("mangle")
             a == Adds(c, If(p.hijack, DnsRules("tproxyDns")))
             b == Adds(c, <<On("tcp", "tproxy"), On("udp", "tproxy")>>)
             s == NewChain(c) \o a \o b
  <2>1. a \in Seq(Plain)
    BY <1>1, AddsPlain, DnsRulesTyped, RuleLists, ChainsNamed DEF Words
  <2>2. b \in Seq(Plain)
    BY AddsPlain, RulesTyped, RuleLists, ChainsNamed DEF Words
  <2>3. s \in Seq(Plain) /\ Makes(s, c)
    <3> HIDE DEF a, b
    <3> QED BY <2>1, <2>2, NewChainPlain, PlainBoth, ChainsNamed
  <2>4. TProxy(p) = s \o Hook(c, p)
    BY DEF TProxy
  <2> HIDE DEF s
  <2> QED BY <2>3, <2>4, HookedFits, ChainsNamed
<1> QED BY <1>2, <1>3, <1>4, <1>5, <1>6

LEMMA OutputRulesFit ==
  ASSUME NEW c \in Chains \ {Quic}, NEW rules \in Seq(Rules)
  PROVE  Fits(OutputRules(c, rules), {c})
<1> DEFINE guards == <<CoreReturns, On("bypass", "return")>>
           x == New(c)
           a == Adds(c, guards \o rules)
           s == <<x>> \o a
           j == Jump(c, Senders)
<1>1. guards \in Seq(Rules)
  BY RulesTyped, RuleLists DEF Words
<1>2. a \in Seq(Plain)
  <2> HIDE DEF guards
  <2>1. guards \o rules \in Seq(Rules)
    BY <1>1
  <2> HIDE DEF a
  <2> QED BY <2>1, AddsPlain DEF a
<1>3. x \in Plain
  BY DEF Plain
<1>4. s \in Seq(Plain)
  <2> HIDE DEF a, x
  <2> QED BY <1>2, <1>3
<1>5. j \in Build /\ j.arg.to = c
  BY DEF Jump, Build, Jumps, Cmd
<1>6. OutputRules(c, rules) = s \o <<j>>
  BY DEF OutputRules
<1> HIDE DEF s, j
<1>7. Fits(<<j>>, {c})
  <2>1. /\ <<j>> \in Seq(Build) /\ DOMAIN <<j>> = 1..1 /\ <<j>>[1] = j
    BY <1>5
  <2> DEFINE t == <<j>>
  <2> HIDE DEF t
  <2>2. ASSUME NEW e \in Chains
        PROVE  /\ Cardinality(Leads(t, e)) <= Deletes
               /\ e \notin {c} => Leads(t, e) = {}
    <3>1. Leads(t, e) \in SUBSET {1} /\ (e # c => Leads(t, e) = {})
      BY <1>5, <2>1 DEF Leads, t
    <3>2. Cardinality(Leads(t, e)) <= 1
      <4>1. IsFiniteSet({1}) /\ Cardinality({1}) = 1
        BY FS_Singleton
      <4> QED BY <3>1, <4>1, FS_Subset
    <3>3. Cardinality(Leads(t, e)) \in Nat
      BY <2>1, LeadsFinite DEF t
    <3> QED BY <3>1, <3>2, <3>3, FirewallBounds
  <2> QED BY <2>1, <2>2 DEF Fits, t
<1>8. Fits(s, {}) /\ {} \cap {c} = {}
  BY <1>4, PlainFits
<1>9. Fits(s \o <<j>>, {} \cup {c})
  BY <1>7, <1>8, FitsBoth, Zenon
<1> QED BY <1>6, <1>9

LEMMA OutputFits ==
  ASSUME NEW p \in Plans
  PROVE  Fits(Output(p), {Out("nat"), Out("mangle")})
<1> DEFINE r1 == <<On("tcp", "core")>>
           r2 == If(p.hijack, <<On("dnsUdp", "return")>>) \o <<On("udp", "mark")>>
           a == OutputRules(Out("nat"), r1)
           b == OutputRules(Out("mangle"), r2)
           c == If(MarksUDPForTun(p.mode), b)
<1>1. p.hijack \in BOOLEAN
  <2>1. p \in Plan
    BY PlansAssumption
  <2> QED BY <2>1 DEF Plan
<1>2. r1 \in Seq(Rules)
  BY RulesTyped, RuleLists DEF Words
<1>3. r2 \in Seq(Rules)
  <2> DEFINE x == If(p.hijack, <<On("dnsUdp", "return")>>)
             y == <<On("udp", "mark")>>
  <2>0. r2 = x \o y
    OBVIOUS
  <2>1. x \in Seq(Rules) /\ y \in Seq(Rules)
    BY <1>1, RulesTyped, RuleLists DEF Words
  <2> HIDE DEF r2, x, y
  <2> QED BY <2>0, <2>1
<1>4. Output(p) = a \o c
  BY DEF Output
<1> HIDE DEF r1, r2
<1>5. Fits(a, {Out("nat")}) /\ Fits(b, {Out("mangle")})
  BY <1>2, <1>3, OutputRulesFit, ChainsNamed
<1> HIDE DEF a, b
<1>6. Fits(c, {Out("mangle")})
  BY <1>5, FitsIf DEF MarksUDPForTun
<1>7. {Out("nat")} \cap {Out("mangle")} = {}
  BY DEF Out
<1> HIDE DEF c
<1>8. Fits(a \o c, {Out("nat")} \cup {Out("mangle")})
  BY <1>5, <1>6, <1>7, FitsBoth, Zenon
<1>9. {Out("nat")} \cup {Out("mangle")} = {Out("nat"), Out("mangle")}
  OBVIOUS
<1> QED BY <1>4, <1>8, <1>9, Zenon

LEMMA OutputOfNat ==
  ASSUME NEW p \in Plans, ~MarksUDPForTun(p.mode)
  PROVE  Fits(Output(p), {Out("nat")})
<1> DEFINE r1 == <<On("tcp", "core")>>
           a == OutputRules(Out("nat"), r1)
<1>1. r1 \in Seq(Rules)
  BY RulesTyped, RuleLists DEF Words
<1>2. Output(p) = a \o <<>>
  BY DEF Output, If
<1> HIDE DEF r1
<1>3. Fits(a, {Out("nat")})
  BY <1>1, OutputRulesFit, ChainsNamed
<1>4. a \in Seq(Build)
  BY <1>3 DEF Fits
<1> HIDE DEF a
<1>5. a \o <<>> = a
  BY <1>4
<1> QED BY <1>2, <1>3, <1>5

Body(p) ==
  IF ~NeedsFirewallCapture(p.mode) THEN If(p.hijack, DnsOnly(p))
  ELSE If(CapturesTCPViaRedirect(p.mode), NatRules(p))
       \o If(MarksUDPForTun(p.mode), UdpMark(p))
       \o If(NeedsTProxy(p.mode), <<Need>> \o TProxy(p) \o <<Divert>>)
       \o If(p.router, Output(p))
       \o If(p.quic /\ ~CarriesUDP(p.mode), QuicBlock(p))

LEMMA BodyFits ==
  ASSUME NEW p \in Plans
  PROVE  IptApply(p) = IptRevert \o Body(p) /\ Fits(Body(p), Chains)
<1>1. IptApply(p) = IptRevert \o Body(p)
  BY DEF IptApply, Body
<1>2. p.hijack \in BOOLEAN /\ p.router \in BOOLEAN /\ p.quic \in BOOLEAN
  <2>1. p \in Plan
    BY PlansAssumption
  <2> QED BY <2>1 DEF Plan
<1> DEFINE nat == If(CapturesTCPViaRedirect(p.mode), NatRules(p))
           udp == If(MarksUDPForTun(p.mode), UdpMark(p))
           tp == <<Need>> \o TProxy(p) \o <<Divert>>
           tproxy == If(NeedsTProxy(p.mode), tp)
           output == If(p.router, Output(p))
           quic == If(p.quic /\ ~CarriesUDP(p.mode), QuicBlock(p))
           dns == If(p.hijack, DnsOnly(p))
           A == {Pre("nat")}
           B == {Mark}
           C == {Pre("mangle")}
           D == {Out("nat"), Out("mangle")}
           E == {Quic}
<1>3. Fits(tp, C)
  <2>1. <<Need>> \in Seq(Plain) /\ <<Divert>> \in Seq(Plain)
    <3>1. Need \in Plain /\ Divert \in Plain
      BY DEF Plain
    <3> QED BY <3>1
  <2>2. Fits(<<Need>>, {}) /\ Fits(<<Divert>>, {}) /\ Fits(TProxy(p), C)
    BY <2>1, PlainFits, PartsFit
  <2> HIDE DEF C
  <2>3. Fits(<<Need>> \o TProxy(p), {} \cup C)
    BY <2>2, FitsBoth, Zenon
  <2>4. {} \cup C = C /\ C \cup {} = C /\ C \cap {} = {}
    OBVIOUS
  <2>5. Fits(<<Need>> \o TProxy(p) \o <<Divert>>, C \cup {})
    BY <2>2, <2>3, <2>4, FitsBoth, Zenon
  <2> QED BY <2>4, <2>5, Zenon
<1>4. Fits(dns, A)
  <2>1. Fits(DnsOnly(p), A)
    BY PartsFit
  <2> QED BY <1>2, <2>1, FitsIf, Zenon
<1>5. Fits(nat, A)
  <2>1. Fits(NatRules(p), A) /\ CapturesTCPViaRedirect(p.mode) \in BOOLEAN
    BY PartsFit DEF CapturesTCPViaRedirect
  <2> QED BY <2>1, FitsIf, Zenon
<1>6. Fits(udp, B)
  <2>1. Fits(UdpMark(p), B) /\ MarksUDPForTun(p.mode) \in BOOLEAN
    BY PartsFit DEF MarksUDPForTun
  <2> QED BY <2>1, FitsIf, Zenon
<1>7. Fits(tproxy, C)
  <2>1. NeedsTProxy(p.mode) \in BOOLEAN
    BY DEF NeedsTProxy
  <2> HIDE DEF tp
  <2> QED BY <1>3, <2>1, FitsIf, Zenon
<1>8. Fits(output, D)
  <2>1. Fits(Output(p), D)
    BY OutputFits
  <2> QED BY <1>2, <2>1, FitsIf, Zenon
<1>9. Fits(quic, E)
  <2>1. Fits(QuicBlock(p), E) /\ (p.quic /\ ~CarriesUDP(p.mode)) \in BOOLEAN
    BY PartsFit
  <2> QED BY <2>1, FitsIf, Zenon
<1>10. /\ A \cap B = {} /\ (A \cup B) \cap C = {} /\ (A \cup B \cup C) \cap D = {}
       /\ (A \cup B \cup C \cup D) \cap E = {}
       /\ A \cup B \cup C \cup D \cup E = Chains
       /\ A \subseteq Chains
  BY DEF Pre, Mark, Out, Quic, Chains
<1>11. Body(p) = IF ~NeedsFirewallCapture(p.mode) THEN dns
                 ELSE nat \o udp \o tproxy \o output \o quic
  BY DEF Body
<1> HIDE DEF nat, udp, tproxy, output, quic, dns, A, B, C, D, E
<1>12. Fits(nat \o udp, A \cup B)
  BY <1>5, <1>6, <1>10, FitsBoth, Zenon
<1>13. Fits(nat \o udp \o tproxy, A \cup B \cup C)
  BY <1>7, <1>10, <1>12, FitsBoth, Zenon
<1>14. Fits(nat \o udp \o tproxy \o output, A \cup B \cup C \cup D)
  BY <1>8, <1>10, <1>13, FitsBoth, Zenon
<1>15. Fits(nat \o udp \o tproxy \o output \o quic, A \cup B \cup C \cup D \cup E)
  BY <1>9, <1>10, <1>14, FitsBoth, Zenon
<1>16. Fits(dns, Chains)
  BY <1>4, <1>10 DEF Fits
<1> QED BY <1>1, <1>10, <1>11, <1>15, <1>16, Zenon

\* The router's own connections are hooked in last.
LEMMA BodyInOrder ==
  ASSUME NEW p \in Plans
  PROVE  /\ Follows(Body(p), {Pre("nat"), Pre("mangle")}, Out("nat"))
         /\ Follows(Body(p), {Mark}, Out("mangle"))
<1>1. p.hijack \in BOOLEAN /\ p.router \in BOOLEAN /\ p.mode \in Modes
  <2>1. p \in Plan
    BY PlansAssumption
  <2> QED BY <2>1 DEF Plan
<1> DEFINE nat == If(CapturesTCPViaRedirect(p.mode), NatRules(p))
           udp == If(MarksUDPForTun(p.mode), UdpMark(p))
           tp == <<Need>> \o TProxy(p) \o <<Divert>>
           tproxy == If(NeedsTProxy(p.mode), tp)
           output == If(p.router, Output(p))
           quic == If(p.quic /\ ~CarriesUDP(p.mode), QuicBlock(p))
           dns == If(p.hijack, DnsOnly(p))
           N == Out("nat")
           M == Out("mangle")
           D == {Pre("nat"), Pre("mangle")}
           E == {Mark}
<1>2. /\ N \in Chains /\ M \in Chains /\ N # M /\ N \notin D /\ N # Mark /\ N # Quic
      /\ M \notin D /\ M # Mark /\ M # Quic
  BY ChainsNamed DEF Out, Pre, Mark, Quic
<1>3. /\ CapturesTCPViaRedirect(p.mode) \in BOOLEAN
      /\ MarksUDPForTun(p.mode) \in BOOLEAN /\ NeedsTProxy(p.mode) \in BOOLEAN
      /\ (p.quic /\ ~CarriesUDP(p.mode)) \in BOOLEAN
  BY DEF CapturesTCPViaRedirect, MarksUDPForTun, NeedsTProxy
<1>4. /\ <<Need>> \in Seq(Build) /\ <<Divert>> \in Seq(Build)
      /\ Fits(<<Need>>, {}) /\ Fits(<<Divert>>, {})
  <2>1. <<Need>> \in Seq(Plain) /\ <<Divert>> \in Seq(Plain)
    <3>1. Need \in Plain /\ Divert \in Plain
      BY DEF Plain
    <3> QED BY <3>1
  <2> QED BY <2>1, PlainFits DEF Fits
<1>5. /\ Fits(tp, {Pre("mangle")}) /\ Makes(tp, Pre("mangle"))
  <2>1. Fits(TProxy(p), {Pre("mangle")}) /\ Makes(TProxy(p), Pre("mangle"))
    BY PartsFit
  <2> DEFINE t == TProxy(p)
             C == {Pre("mangle")}
  <2> HIDE DEF t, C
  <2>2. Fits(<<Need>> \o t, {} \cup C)
    BY <1>4, <2>1, FitsBoth, Zenon DEF t, C
  <2>3. {} \cup C = C /\ C \cup {} = C /\ C \cap {} = {}
    OBVIOUS
  <2>4. Fits(<<Need>> \o t \o <<Divert>>, C \cup {})
    BY <1>4, <2>2, <2>3, FitsBoth, Zenon
  <2>5. t \in Seq(Build) /\ <<Need>> \o t \in Seq(Build)
    BY <2>1, <2>2 DEF Fits, t
  <2>6. Makes(<<Need>> \o t, Pre("mangle"))
    BY <1>4, <2>1, <2>5, MakesBoth DEF t
  <2>7. Makes(<<Need>> \o t \o <<Divert>>, Pre("mangle"))
    BY <1>4, <2>5, <2>6, MakesBoth
  <2> QED BY <2>3, <2>4, <2>7 DEF t, C
<1>6. /\ Fits(nat, {Pre("nat")}) /\ Fits(udp, {Mark}) /\ Fits(tproxy, {Pre("mangle")})
      /\ Fits(quic, {Quic}) /\ Fits(dns, {Pre("nat")})
  <2> HIDE DEF tp
  <2> QED BY <1>1, <1>3, <1>5, PartsFit, FitsIf
<1>7. Fits(output, {N, M})
  BY <1>1, OutputFits, FitsIf
<1>8. CASE ~NeedsFirewallCapture(p.mode)
  <2>1. Body(p) = dns
    BY <1>8 DEF Body
  <2> HIDE DEF dns, N, M, D, E
  <2>2. Follows(dns, D, N) /\ Follows(dns, E, M)
    <3>1. N \in Chains \ {Pre("nat")} /\ M \in Chains \ {Pre("nat")}
      BY <1>2 DEF D
    <3> QED BY <1>6, <3>1, FitsFollows
  <2> QED BY <2>1, <2>2 DEF N, M, D, E
<1>9. CASE NeedsFirewallCapture(p.mode)
  <2> DEFINE x == nat \o udp
             y == nat \o udp \o tproxy
             z == nat \o udp \o tproxy \o output
  <2>1. Body(p) = z \o quic
    BY <1>9 DEF Body
  <2>2. \/ Makes(nat, Pre("nat")) \/ Makes(tproxy, Pre("mangle"))
    <3>1. CapturesTCPViaRedirect(p.mode) \/ NeedsTProxy(p.mode)
      BY <1>1, <1>9 DEF Modes, CapturesTCPViaRedirect, NeedsTProxy,
                        NeedsFirewallCapture
    <3> HIDE DEF tp
    <3> QED BY <1>5, <3>1, PartsFit DEF If
  <2>3. \/ Makes(udp, Mark)
        \/ Fits(output, {N})
    <3>1. CASE MarksUDPForTun(p.mode)
      BY <3>1, PartsFit DEF If
    <3>2. CASE ~MarksUDPForTun(p.mode)
      BY <1>1, <3>2, OutputOfNat, FitsIf
    <3> QED BY <3>1, <3>2
  <2>4. /\ nat \in Seq(Build) /\ udp \in Seq(Build) /\ tproxy \in Seq(Build)
        /\ output \in Seq(Build) /\ quic \in Seq(Build)
    BY <1>6, <1>7 DEF Fits
  <2> HIDE DEF nat, udp, tproxy, output, quic, dns, N, M, D, E, tp
  <2>5. /\ Follows(nat, D, N) /\ Follows(udp, D, N) /\ Follows(tproxy, D, N)
        /\ Follows(nat, E, M) /\ Follows(udp, E, M) /\ Follows(tproxy, E, M)
        /\ Follows(quic, D, N) /\ Follows(quic, E, M)
    <3>1. \A c \in {Pre("nat"), Mark, Pre("mangle"), Quic} :
             N \in Chains \ {c} /\ M \in Chains \ {c}
      BY <1>2 DEF D
    <3> QED BY <1>6, <3>1, FitsFollows
  <2>6. x \in Seq(Build) /\ y \in Seq(Build) /\ z \in Seq(Build)
    <3>1. x \in Seq(Build)
      BY <2>4
    <3>2. y \in Seq(Build)
      <4> HIDE DEF x
      <4> QED BY <2>4, <3>1 DEF x
    <3> HIDE DEF y
    <3>3. z \in Seq(Build)
      BY <2>4, <3>2 DEF y
    <3> QED BY <3>1, <3>2, <3>3 DEF y
  <2>7. Follows(x, D, N) /\ Follows(x, E, M)
    BY <2>4, <2>5, FollowsBoth
  <2>8. Follows(y, D, N) /\ Follows(y, E, M)
    <3> HIDE DEF x
    <3>1. y = x \o tproxy
      BY DEF x
    <3> HIDE DEF y
    <3> QED BY <2>4, <2>5, <2>6, <2>7, <3>1, FollowsBoth
  <2>9. \E d \in D : Makes(y, d)
    <3>1. CASE Makes(nat, Pre("nat"))
      <4>1. Makes(x, Pre("nat"))
        BY <2>4, <3>1, MakesBoth
      <4>2. y = x \o tproxy
        OBVIOUS
      <4> HIDE DEF x, y
      <4>3. Makes(y, Pre("nat"))
        BY <2>4, <2>6, <4>1, <4>2, MakesBoth
      <4> QED BY <4>3 DEF D
    <3>2. CASE Makes(tproxy, Pre("mangle"))
      <4>2. y = x \o tproxy
        OBVIOUS
      <4> HIDE DEF x, y
      <4>3. Makes(y, Pre("mangle"))
        BY <2>4, <2>6, <3>2, <4>2, MakesBoth
      <4> QED BY <4>3 DEF D
    <3> QED BY <2>2, <3>1, <3>2
  <2>10. \/ \E d \in E : Makes(y, d)
         \/ Follows(output, E, M)
    <3>1. CASE Makes(udp, Mark)
      <4>1. Makes(x, Mark)
        BY <2>4, <3>1, MakesBoth
      <4>2. y = x \o tproxy
        OBVIOUS
      <4> HIDE DEF x, y
      <4>3. Makes(y, Mark)
        BY <2>4, <2>6, <4>1, <4>2, MakesBoth
      <4> QED BY <4>3 DEF E
    <3>2. CASE Fits(output, {N})
      <4>1. M \in Chains \ {N}
        BY <1>2
      <4> QED BY <3>2, <4>1, FitsFollows
    <3> QED BY <2>3, <3>1, <3>2
  <2>11. Follows(z, D, N) /\ Follows(z, E, M)
    <3>1. z = y \o output
      OBVIOUS
    <3> HIDE DEF x, y, z
    <3> QED BY <2>4, <2>6, <2>8, <2>9, <2>10, <3>1, FollowsBoth
  <2> HIDE DEF x, y, z
  <2>12. Follows(z \o quic, D, N) /\ Follows(z \o quic, E, M)
    BY <2>4, <2>5, <2>6, <2>11, FollowsBoth
  <2> QED BY <2>1, <2>12 DEF N, M, D, E
<1> QED BY <1>8, <1>9

-----------------------------------------------------------------------------
\* The invariant.

Jobs == {"none", "connect", "reapply", "disconnect", "unwind", "clear"}
Applies == {"connect", "reapply"}
Hits(c) == Cardinality(To(jumps[HookOf(c)], c))
Sweeps == Len(IptRevert)
Unjumps(c) == {i \in 1..Sweeps : i >= at /\ IptRevert[i] = Cmd("unjump", c)}
Hooked(c) == {i \in Leads(Body(plan), c) : Sweeps + i < at}
Empty == chains = <<>> /\ jumps = NoJumps /\ ~divert

Typed ==
  /\ backend \in Backends /\ plan \in Plans /\ job \in Jobs /\ at \in Nat
  /\ at >= 1 /\ connected \in BOOLEAN /\ alive \in BOOLEAN
  /\ divert \in BOOLEAN /\ stale \in BOOLEAN
Kernel ==
  /\ DOMAIN chains \subseteq Chains
  /\ chains = [c \in DOMAIN chains |-> chains[c]]
  /\ jumps \in [Hooks -> Seq(Jumps)]
\* A jump is at its chain's hook, and its chain exists.
Standing ==
  \A h \in Hooks : \A i \in DOMAIN jumps[h] :
    HookOf(jumps[h][i].to) = h /\ jumps[h][i].to \in DOMAIN chains
\* Revert deletes as many jumps to a chain as there can be.
Few == backend = "ipt" => \A c \in Chains : Hits(c) <= Deletes
\* What a sweep has left is what its commands from here on remove.
Sweeping ==
  backend = "ipt" /\ job # "none" /\ (job \in Applies => at <= Sweeps + 1) =>
    /\ \A c \in Chains : Hits(c) <= Cardinality(Unjumps(c))
    /\ \A c \in DOMAIN chains :
         \E i \in 1..Sweeps : /\ i >= at /\ IptRevert[i] = Cmd("delete", c)
                              /\ \A k \in i..Sweeps :
                                   IptRevert[k] # Cmd("unjump", c)
    /\ divert => at <= Sweeps
\* After the sweep only what Apply has hooked in is there.
Building ==
  backend = "ipt" /\ job \in Applies /\ at > Sweeps =>
    \A c \in Chains : Hits(c) <= Cardinality(Hooked(c))
\* The other backend drops everything at once.
Dropping ==
  backend = "nft" /\ job \notin Applies \cup {"none"} =>
    /\ at > 1 => chains = <<>> /\ jumps = NoJumps
    /\ at > 2 => ~divert
InOrder ==
  /\ job = "none" => at = 1
  /\ ~alive => job = "none" /\ ~connected
  /\ job \in {"connect", "reapply", "disconnect", "unwind"} => UsesFirewall(plan)
  /\ job = "reapply" => connected
Clean ==
  ~stale /\ job = "none" /\ (~connected \/ ~UsesFirewall(plan)) => Empty

Inv == /\ Typed /\ Kernel /\ Standing /\ Few /\ Sweeping /\ Building
       /\ Dropping /\ InOrder /\ Clean

-----------------------------------------------------------------------------
\* The sweep, place by place.

Undivert == Cmd("undivert", <<>>)

LEMMA SweepPlaces ==
  /\ Sweeps \in Nat /\ Sweeps >= 1 /\ IptRevert[Sweeps] = Undivert
  /\ \A i \in 1..Sweeps : i # Sweeps => IptRevert[i] \in Sweep(Chains)
  /\ \A c \in Chains :
       Deletes <= Cardinality({i \in 1..Sweeps : IptRevert[i] = Cmd("unjump", c)})
  /\ \A c \in Chains :
       \E i \in 1..Sweeps :
         /\ IptRevert[i] = Cmd("delete", c)
         /\ \A k \in i..Sweeps : IptRevert[k] # Cmd("unjump", c)
<1>1. PICK s : Swept(s, Chains) /\ IptRevert = s \o <<Undivert>>
  BY RevertSweeps DEF Undivert
<1> DEFINE r == s \o <<Undivert>>
           W == Sweep(Chains) \cup {Undivert}
           n == Len(s)
<1>2. s \in Seq(W) /\ s \in Seq(Sweep(Chains)) /\ <<Undivert>> \in Seq(W)
  <2>1. s \in Seq(Sweep(Chains)) /\ Sweep(Chains) \subseteq W /\ Undivert \in W
    BY <1>1 DEF Swept
  <2> HIDE DEF W
  <2> QED BY <2>1
<1>3. /\ r \in Seq(W) /\ Len(r) = n + 1 /\ n \in Nat
      /\ \A i \in 1..n : r[i] = s[i] /\ s[i] \in Sweep(Chains)
      /\ r[n + 1] = Undivert
  <2> DEFINE t == <<Undivert>>
  <2>1. /\ r \in Seq(W) /\ Len(r) = Len(s) + Len(t) /\ Len(s) \in Nat
        /\ \A i \in 1..Len(s) : r[i] = s[i]
        /\ \A i \in 1..Len(t) : r[Len(s) + i] = t[i]
    <3> HIDE DEF W
    <3> QED BY <1>2, PlacesOfBoth
  <2>2. Len(t) = 1 /\ t[1] = Undivert
    OBVIOUS
  <2>3. \A i \in 1..Len(s) : s[i] \in Sweep(Chains)
    BY <1>2
  <2> HIDE DEF r, t
  <2> QED BY <2>1, <2>2, <2>3
<1>4. Sweeps = n + 1 /\ IptRevert = r
  BY <1>1, <1>3 DEF Sweeps
<1> HIDE DEF r, n, W
<1>5. \A c : Undivert # Cmd("unjump", c)
  BY DEF Undivert, Cmd
<1>6. ASSUME NEW c \in Chains
      PROVE  Deletes <= Cardinality({i \in 1..Sweeps : r[i] = Cmd("unjump", c)})
  <2>1. PICK m \in Nat : /\ m + Deletes <= n
                         /\ \A k \in 1..Deletes : s[m + k] = Cmd("unjump", c)
    BY <1>1 DEF Swept, Unhooks, n
  <2> DEFINE x == Cmd("unjump", c)
             P == {i \in 1..Sweeps : r[i] = x}
             f == [k \in 1..Deletes |-> m + k]
  <2>2. Deletes \in Nat
    BY FirewallBounds
  <2>3. \A k \in 1..Deletes : m + k \in 1..n /\ s[m + k] = x
    BY <1>3, <2>1, <2>2
  <2> HIDE DEF x
  <2>4. \A k \in 1..Deletes : m + k \in P
    BY <1>3, <1>4, <2>3
  <2>5. IsFiniteSet(P) /\ IsFiniteSet(1..Sweeps)
    <3>1. IsFiniteSet(1..Sweeps)
      BY <1>3, <1>4, FS_Interval
    <3> QED BY <3>1, FS_Subset
  <2>6. f \in Injection(1..Deletes, P)
    BY <2>2, <2>4 DEF Injection, IsInjective
  <2> HIDE DEF P, f
  <2>7. Cardinality(1..Deletes) <= Cardinality(P)
    BY <2>5, <2>6, FS_Injection
  <2>8. Cardinality(1..Deletes) = Deletes
    <3>1. Cardinality(1..Deletes) = IF 1 > Deletes THEN 0 ELSE Deletes - 1 + 1
      BY <2>2, FS_Interval
    <3> QED BY <2>2, <3>1
  <2> QED BY <2>7, <2>8 DEF P, x
<1>7. ASSUME NEW c \in Chains
      PROVE  \E i \in 1..Sweeps :
               /\ r[i] = Cmd("delete", c)
               /\ \A k \in i..Sweeps : r[k] # Cmd("unjump", c)
  <2>1. PICK i \in 1..n : /\ s[i] = Cmd("delete", c)
                          /\ \A k \in i..n : s[k] # Cmd("unjump", c)
    BY <1>1 DEF Swept, Discards, n
  <2>2. \A k \in i..Sweeps : k \in i..n \/ k = n + 1
    BY <1>3, <1>4
  <2>3. \A k \in i..Sweeps : r[k] # Cmd("unjump", c)
    BY <1>3, <1>5, <2>1, <2>2
  <2> QED BY <1>3, <1>4, <2>1, <2>3
<1>8. \A i \in 1..Sweeps : i # Sweeps => r[i] \in Sweep(Chains)
  BY <1>3, <1>4
<1> QED BY <1>3, <1>4, <1>6, <1>7, <1>8

\* Chains and jumps that are no longer there.
LEMMA NothingLeft ==
  ASSUME Kernel, Standing
  PROVE  /\ chains = <<>> => jumps = NoJumps
         /\ (\A c \in Chains : Hits(c) = 0) => jumps = NoJumps
         /\ DOMAIN chains = {} => chains = <<>>
<1>1. /\ jumps \in [Hooks -> Seq(Jumps)] /\ chains = [c \in DOMAIN chains |-> chains[c]]
  BY DEF Typed, Kernel
<1>2. (\A h \in Hooks : jumps[h] = <<>>) => jumps = NoJumps
  BY <1>1 DEF NoJumps
<1>3. ASSUME chains = <<>>, NEW h \in Hooks PROVE jumps[h] = <<>>
  <2>1. DOMAIN chains = {}
    BY <1>3
  <2>2. \A i \in DOMAIN jumps[h] : FALSE
    BY <2>1 DEF Standing
  <2>3. jumps[h] \in Seq(Jumps)
    BY <1>1
  <2> QED BY <2>2, <2>3, NoPlaces, Zenon
<1>4. ASSUME \A c \in Chains : Hits(c) = 0, NEW h \in Hooks PROVE jumps[h] = <<>>
  <2>1. jumps[h] \in Seq(Jumps)
    BY <1>1
  <2>2. \A i \in DOMAIN jumps[h] : FALSE
    <3> SUFFICES ASSUME NEW i \in DOMAIN jumps[h] PROVE FALSE
      OBVIOUS
    <3> DEFINE c == jumps[h][i].to
    <3>1. jumps[h][i] \in Jumps
      BY <2>1
    <3>2. c \in Chains /\ HookOf(c) = h
      BY <3>1, Zenon DEF Jumps, Standing
    <3>3. i \in To(jumps[h], c)
      BY DEF To
    <3>4. Cardinality(To(jumps[h], c)) = 0
      BY <1>4, <3>2 DEF Hits
    <3> HIDE DEF c
    <3> QED BY <2>1, <3>3, <3>4, ToFinite, FS_EmptySet
  <2> QED BY <2>1, <2>2, NoPlaces, Zenon
<1>5. DOMAIN chains = {} => chains = <<>>
  BY <1>1
<1> QED BY <1>2, <1>3, <1>4, <1>5

LEMMA NothingHooked ==
  /\ NoJumps \in [Hooks -> Seq(Jumps)]
  /\ \A h \in Hooks : NoJumps[h] = <<>>
  /\ \A c \in Chains : HookOf(c) \in Hooks
  /\ \A c \in Chains : Cardinality(To(NoJumps[HookOf(c)], c)) = 0
<1>1. NoJumps \in [Hooks -> Seq(Jumps)] /\ \A h \in Hooks : NoJumps[h] = <<>>
  BY DEF NoJumps
<1>2. \A c \in Chains : HookOf(c) \in Hooks
  BY DEF Hooks
<1>3. \A c : To(<<>>, c) = {}
  BY DEF To
<1>4. \A c \in Chains : Cardinality(To(NoJumps[HookOf(c)], c)) = 0
  BY <1>1, <1>2, <1>3, FS_EmptySet
<1> QED BY <1>1, <1>2, <1>4

LEMMA InitInv == Init => Inv
<1> SUFFICES ASSUME Init PROVE Inv
  OBVIOUS
<1> USE DEF Init
<1>1. \A c \in Chains : Hits(c) = 0
  BY NothingHooked DEF Hits
<1>2. Typed /\ Kernel
  <2>1. DOMAIN chains \subseteq Chains /\ chains = [c \in DOMAIN chains |-> chains[c]]
    OBVIOUS
  <2>2. jumps \in [Hooks -> Seq(Jumps)]
    BY NothingHooked
  <2>3. /\ backend \in Backends /\ plan \in Plans /\ job \in Jobs /\ at \in Nat
        /\ at >= 1
    BY DEF Jobs
  <2>4. /\ connected \in BOOLEAN /\ alive \in BOOLEAN
        /\ divert \in BOOLEAN /\ stale \in BOOLEAN
    BY Zenon
  <2> QED BY <2>1, <2>2, <2>3, <2>4, Zenon DEF Typed, Kernel
<1>3. Standing
  BY NothingHooked DEF Standing
<1>4. Few
  BY <1>1, FirewallBounds DEF Few
<1>5. Sweeping /\ Building /\ Dropping
  BY DEF Sweeping, Building, Dropping, Applies
<1>6. InOrder /\ Clean
  BY DEF InOrder, Clean, Empty
<1> QED BY <1>2, <1>3, <1>4, <1>5, <1>6 DEF Inv

\* Whatever is about to run starts with what Revert has deletions for.
LEMMA AtStart ==
  ASSUME Inv, UNCHANGED <<backend, chains, jumps, divert>>, at' = 1
  PROVE  Standing' /\ Few' /\ Sweeping' /\ Building' /\ Dropping'
<1>1. Standing' /\ Few'
  BY DEF Inv, Standing, Few, Hits
<1>2. Building' /\ Dropping'
  BY SweepPlaces DEF Building, Dropping
<1>3. Sweeping'
  <2> SUFFICES ASSUME backend = "ipt" PROVE Sweeping'
    BY DEF Sweeping
  <2>1. ASSUME NEW c \in Chains PROVE (Hits(c) <= Cardinality(Unjumps(c)))'
    <3>1. Unjumps(c)' = {i \in 1..Sweeps : IptRevert[i] = Cmd("unjump", c)}
      BY DEF Unjumps
    <3>2. Hits(c)' = Hits(c) /\ Hits(c) <= Deletes
      BY DEF Inv, Few, Hits
    <3>3. Hits(c) \in Nat
      BY NothingHooked, ToFinite DEF Inv, Typed, Kernel, Hits
    <3>4. Deletes <= Cardinality(Unjumps(c)') /\ Deletes \in Nat
      BY <3>1, SweepPlaces, FirewallBounds
    <3>5. Cardinality(Unjumps(c)') \in Nat
      <4>1. IsFiniteSet(1..Sweeps) /\ Unjumps(c)' \in SUBSET (1..Sweeps)
        BY SweepPlaces, FS_Interval DEF Unjumps
      <4> QED BY <4>1, FS_Subset, FS_CardinalityType
    <3> QED BY <3>2, <3>3, <3>4, <3>5
  <2>2. \A c \in DOMAIN chains :
          \E i \in 1..Sweeps : /\ i >= 1 /\ IptRevert[i] = Cmd("delete", c)
                               /\ \A k \in i..Sweeps :
                                    IptRevert[k] # Cmd("unjump", c)
    <3>1. \A c \in DOMAIN chains : c \in Chains
      BY DEF Inv, Typed, Kernel
    <3> QED BY <3>1, SweepPlaces
  <2>3. 1 <= Sweeps
    BY SweepPlaces
  <2> QED BY <2>1, <2>2, <2>3 DEF Sweeping
<1> QED BY <1>1, <1>2, <1>3

\* What a sweep leaves when it has run through.
LEMMA SweptOut ==
  ASSUME Typed, Kernel, Standing, Sweeping, backend = "ipt", job # "none", at > Sweeps,
         job \in Applies => at <= Sweeps + 1
  PROVE  Empty /\ \A c \in Chains : Hits(c) = 0
<1>1. \A c : Unjumps(c) = {}
  BY SweepPlaces DEF Unjumps, Typed, Kernel
<1>2. \A c \in Chains : Hits(c) = 0
  <2> SUFFICES ASSUME NEW c \in Chains PROVE Hits(c) = 0
    OBVIOUS
  <2>1. Hits(c) <= Cardinality(Unjumps(c))
    BY DEF Sweeping
  <2>2. Hits(c) \in Nat
    BY NothingHooked, ToFinite DEF Typed, Kernel, Hits
  <2> QED BY <1>1, <2>1, <2>2, FS_EmptySet
<1>3. DOMAIN chains = {}
  <2> SUFFICES ASSUME NEW c \in DOMAIN chains PROVE FALSE
    OBVIOUS
  <2>1. PICK i \in 1..Sweeps : i >= at
    BY DEF Sweeping
  <2> QED BY <2>1, SweepPlaces DEF Typed, Kernel
<1>4. divert = FALSE
  BY SweepPlaces DEF Sweeping, Typed, Kernel
<1> QED BY <1>2, <1>3, <1>4, NothingLeft DEF Empty

-----------------------------------------------------------------------------
\* What one command does.

Held(h, D) == {j \in Jumps : HookOf(j.to) = h /\ j.to \in D}

LEMMA HeldJumps ==
  ASSUME NEW s \in Seq(Jumps), NEW h, NEW D
  PROVE  s \in Seq(Held(h, D))
           <=> \A i \in DOMAIN s : HookOf(s[i].to) = h /\ s[i].to \in D
<1>1. DOMAIN s = 1..Len(s) /\ Len(s) \in Nat /\ \A i \in DOMAIN s : s[i] \in Jumps
  OBVIOUS
<1> DEFINE S == Held(h, D)
<1>2. ASSUME s \in Seq(S), NEW i \in DOMAIN s
      PROVE  HookOf(s[i].to) = h /\ s[i].to \in D
  <2>1. s[i] \in S
    <3> HIDE DEF S
    <3> QED BY <1>1, <1>2
  <2> QED BY <2>1 DEF Held
<1>3. ASSUME \A i \in DOMAIN s : HookOf(s[i].to) = h /\ s[i].to \in D
      PROVE  s \in Seq(S)
  <2>1. \A i \in 1..Len(s) : s[i] \in S
    BY <1>1, <1>3 DEF Held
  <2> HIDE DEF S
  <2> QED BY <1>1, <2>1
<1> QED BY <1>2, <1>3

LEMMA UnjumpStep ==
  ASSUME Kernel, Standing, NEW c \in Chains, Execute(Cmd("unjump", c))
  PROVE  /\ Kernel' /\ Standing' /\ chains' = chains /\ divert' = divert
         /\ \A d \in Chains : Hits(d)' <= Hits(d)
         /\ Hits(c) # 0 => Hits(c)' < Hits(c)
<1> DEFINE h == HookOf(c)
           s == jumps[h]
           t == LessOne(s, c)
           S == Held(h, DOMAIN chains)
<1>1. chains' = chains /\ divert' = divert /\ jumps' = [jumps EXCEPT ![h] = t]
  BY DEF Execute, ChainsAfter, JumpsAfter, Cmd, LessOne
<1>2. h \in Hooks /\ s \in Seq(Jumps) /\ jumps \in [Hooks -> Seq(Jumps)]
  BY NothingHooked DEF Kernel
<1>3. s \in Seq(S)
  BY <1>2, HeldJumps DEF Standing
<1>4. /\ t \in Seq(S) /\ t \in Seq(Jumps)
      /\ \A d : Cardinality(To(t, d)) <= Cardinality(To(s, d))
      /\ To(s, c) # {} => Cardinality(To(t, c)) < Cardinality(To(s, c))
  <2> HIDE DEF S, h
  <2> QED BY <1>2, <1>3, DeletedJump
<1> HIDE DEF t
<1>5. /\ jumps' \in [Hooks -> Seq(Jumps)] /\ jumps'[h] = t
      /\ \A g \in Hooks : g # h => jumps'[g] = jumps[g]
  BY <1>1, <1>2, <1>4
<1>6. Kernel'
  BY <1>1, <1>5 DEF Kernel
<1>7. Standing'
  <2>1. \A i \in DOMAIN t : HookOf(t[i].to) = h /\ t[i].to \in DOMAIN chains
    BY <1>4, HeldJumps
  <2> QED BY <1>1, <1>5, <2>1 DEF Standing
<1>8. ASSUME NEW d \in Chains
      PROVE  /\ Hits(d)' <= Hits(d)
             /\ d = c /\ Hits(c) # 0 => Hits(d)' < Hits(d)
  <2>1. HookOf(d) \in Hooks /\ Cardinality(To(jumps[HookOf(d)], d)) \in Nat
    BY NothingHooked, ToFinite, <1>2
  <2>2. CASE HookOf(d) = h
    <3>1. Hits(d)' = Cardinality(To(t, d)) /\ Hits(d) = Cardinality(To(s, d))
      BY <1>5, <2>2 DEF Hits
    <3>2. d = c /\ Hits(c) # 0 => To(s, c) # {}
      BY <3>1, FS_EmptySet
    <3> QED BY <1>4, <3>1, <3>2
  <2>3. CASE HookOf(d) # h
    BY <1>5, <2>1, <2>3 DEF Hits
  <2> QED BY <2>2, <2>3
<1> QED BY <1>1, <1>6, <1>7, <1>8

LEMMA FlushStep ==
  ASSUME Kernel, Standing, NEW c \in Chains, Execute(Cmd("flush", c))
  PROVE  /\ Kernel' /\ Standing' /\ DOMAIN chains' = DOMAIN chains
         /\ jumps' = jumps /\ divert' = divert
<1>1. /\ jumps' = jumps /\ divert' = divert
      /\ chains' = IF c \in DOMAIN chains THEN [chains EXCEPT ![c] = <<>>]
                   ELSE chains
  BY DEF Execute, ChainsAfter, JumpsAfter, Cmd
<1>2. DOMAIN chains' = DOMAIN chains /\ chains' = [d \in DOMAIN chains' |-> chains'[d]]
  BY <1>1 DEF Kernel
<1> QED BY <1>1, <1>2 DEF Kernel, Standing

LEMMA DeleteStep ==
  ASSUME Kernel, Standing, NEW c \in Chains, Execute(Cmd("delete", c))
  PROVE  /\ Kernel' /\ Standing' /\ DOMAIN chains' \subseteq DOMAIN chains
         /\ jumps' = jumps /\ divert' = divert
         /\ Hits(c) = 0 => c \notin DOMAIN chains'
<1>1. /\ jumps' = jumps /\ divert' = divert
      /\ chains' = IF Referenced(c) THEN chains ELSE Without(chains, c)
  BY DEF Execute, ChainsAfter, JumpsAfter, Cmd
<1>2. /\ DOMAIN chains' \subseteq DOMAIN chains
      /\ DOMAIN chains \subseteq DOMAIN chains' \cup {c}
      /\ chains' = [d \in DOMAIN chains' |-> chains'[d]]
      /\ ~Referenced(c) => c \notin DOMAIN chains'
      /\ Referenced(c) => chains' = chains
  BY <1>1 DEF Kernel, Without
<1>3. HookOf(c) \in Hooks /\ jumps[HookOf(c)] \in Seq(Jumps)
  BY NothingHooked DEF Kernel
<1>4. Hits(c) = 0 => ~Referenced(c)
  <2> SUFFICES ASSUME Referenced(c), Hits(c) = 0 PROVE FALSE
    OBVIOUS
  <2>1. PICK i \in DOMAIN jumps[HookOf(c)] : jumps[HookOf(c)][i].to = c
    BY <1>3 DEF Referenced, Range
  <2>2. i \in To(jumps[HookOf(c)], c)
    BY <2>1 DEF To
  <2> QED BY <1>3, <2>2, ToFinite, FS_EmptySet DEF Hits
<1>5. Standing'
  <2>1. CASE Referenced(c)
    BY <1>1, <1>2, <2>1 DEF Standing
  <2>2. CASE ~Referenced(c)
    <3> SUFFICES ASSUME NEW h \in Hooks, NEW i \in DOMAIN jumps[h]
                 PROVE  /\ HookOf(jumps[h][i].to) = h
                        /\ jumps[h][i].to \in DOMAIN chains'
      BY <1>1 DEF Standing
    <3>1. HookOf(jumps[h][i].to) = h /\ jumps[h][i].to \in DOMAIN chains
      BY DEF Standing
    <3>2. jumps[h][i].to # c
      BY <1>3, <2>2, <3>1 DEF Referenced, Range
    <3> QED BY <1>2, <3>1, <3>2
  <2> QED BY <2>1, <2>2
<1>6. Kernel'
  BY <1>1, <1>2 DEF Kernel
<1> QED BY <1>1, <1>2, <1>4, <1>5, <1>6

LEMMA OtherStep ==
  ASSUME Kernel, Standing, NEW cmd, cmd.op \in {"need", "divert", "undivert"},
         Execute(cmd)
  PROVE  /\ Kernel' /\ Standing' /\ chains' = chains /\ jumps' = jumps
         /\ cmd.op = "undivert" => ~divert'
         /\ cmd.op = "need" => divert' = divert
<1>1. /\ chains' = chains /\ jumps' = jumps
      /\ cmd.op = "undivert" => ~divert'
      /\ cmd.op = "need" => divert' = divert
  BY DEF Execute, ChainsAfter, JumpsAfter
<1> QED BY <1>1 DEF Kernel, Standing

LEMMA NewStep ==
  ASSUME Kernel, Standing, NEW c \in Chains, Execute(New(c))
  PROVE  Kernel' /\ Standing' /\ jumps' = jumps /\ divert' = divert
<1>1. /\ jumps' = jumps /\ divert' = divert
      /\ chains' = [d \in DOMAIN chains \cup {c} |->
                      IF d = c THEN <<>> ELSE chains[d]]
  BY DEF Execute, ChainsAfter, JumpsAfter, Cmd, New
<1>2. /\ DOMAIN chains' = DOMAIN chains \cup {c}
      /\ chains' = [d \in DOMAIN chains' |-> chains'[d]]
  BY <1>1
<1> QED BY <1>1, <1>2 DEF Kernel, Standing

LEMMA AddStep ==
  ASSUME Kernel, Standing, NEW c \in Chains, NEW r, Execute(Add(c, r))
  PROVE  Kernel' /\ Standing' /\ jumps' = jumps /\ divert' = divert
<1>1. /\ jumps' = jumps /\ divert' = divert
      /\ chains' = [chains EXCEPT ![c] = Append(@, r)]
  BY DEF Execute, ChainsAfter, JumpsAfter, Cmd, Add
<1>2. /\ DOMAIN chains' = DOMAIN chains
      /\ chains' = [d \in DOMAIN chains' |-> chains'[d]]
  BY <1>1 DEF Kernel
<1> QED BY <1>1, <1>2 DEF Kernel, Standing

LEMMA JumpStep ==
  ASSUME Kernel, Standing, NEW j \in Jumps, Execute(Cmd("jump", j)),
         Possible(Cmd("jump", j))
  PROVE  /\ Kernel' /\ Standing' /\ chains' = chains /\ divert' = divert
         /\ \A c \in Chains : Hits(c)' <= Hits(c) + (IF j.to = c THEN 1 ELSE 0)
<1> DEFINE c == j.to
           h == HookOf(c)
           s == jumps[h]
           t == <<j>> \o s
           S == Held(h, DOMAIN chains)
<1>1. /\ chains' = chains /\ divert' = divert /\ jumps' = [jumps EXCEPT ![h] = t]
      /\ c \in DOMAIN chains
  BY DEF Execute, ChainsAfter, JumpsAfter, Cmd, Possible
<1>2. /\ c \in Chains /\ h \in Hooks /\ s \in Seq(Jumps)
      /\ jumps \in [Hooks -> Seq(Jumps)]
  BY NothingHooked DEF Kernel, Jumps
<1>3. s \in Seq(S) /\ j \in S
  BY <1>1, <1>2, HeldJumps DEF Standing, Held
<1>4. t \in Seq(S) /\ t \in Seq(Jumps)
  <2> HIDE DEF S, h
  <2> QED BY <1>2, <1>3
<1>5. \A d : Cardinality(To(t, d))
               <= Cardinality(To(s, d)) + (IF j.to = d THEN 1 ELSE 0)
  BY <1>2, PushedJump
<1> HIDE DEF t
<1>6. /\ jumps' \in [Hooks -> Seq(Jumps)] /\ jumps'[h] = t
      /\ \A g \in Hooks : g # h => jumps'[g] = jumps[g]
  BY <1>1, <1>2, <1>4
<1>7. Kernel'
  BY <1>1, <1>6 DEF Kernel
<1>8. Standing'
  <2>1. \A i \in DOMAIN t : HookOf(t[i].to) = h /\ t[i].to \in DOMAIN chains
    BY <1>4, HeldJumps
  <2> QED BY <1>1, <1>6, <2>1 DEF Standing
<1>9. ASSUME NEW d \in Chains
      PROVE  Hits(d)' <= Hits(d) + (IF j.to = d THEN 1 ELSE 0)
  <2>1. HookOf(d) \in Hooks /\ Cardinality(To(jumps[HookOf(d)], d)) \in Nat
    BY NothingHooked, ToFinite, <1>2
  <2>2. CASE HookOf(d) = h
    <3>1. Hits(d)' = Cardinality(To(t, d)) /\ Hits(d) = Cardinality(To(s, d))
      BY <1>6, <2>2 DEF Hits
    <3> QED BY <1>5, <3>1
  <2>3. CASE HookOf(d) # h
    BY <1>6, <2>1, <2>3 DEF Hits
  <2> QED BY <2>2, <2>3
<1> QED BY <1>1, <1>7, <1>8, <1>9

LEMMA FlushedStep ==
  ASSUME chains' = <<>>, jumps' = NoJumps
  PROVE  /\ Kernel' /\ Standing' /\ DOMAIN chains' = {}
         /\ \A c \in Chains : Hits(c)' = 0
<1>1. Kernel' /\ DOMAIN chains' = {}
  BY NothingHooked DEF Kernel
<1>2. Standing'
  BY NothingHooked DEF Standing
<1>3. \A c \in Chains : Hits(c)' = 0
  BY NothingHooked DEF Hits
<1> QED BY <1>1, <1>2, <1>3

LEMMA Listed ==
  ASSUME NEW S, IsFiniteSet(S)
  PROVE  /\ DOMAIN SetToSeq(S) = 1..Cardinality(S) /\ Cardinality(S) \in Nat
         /\ \A i \in 1..Cardinality(S) : SetToSeq(S)[i] \in S
<1> DEFINE n == Cardinality(S)
<1>1. n \in Nat /\ ExistsBijection(1..n, S)
  BY FS_CardinalityType, FS_CountingElements, FS_NatBijection
<1>2. \E f \in [1..n -> S] : IsInjective(f)
  BY <1>1 DEF ExistsBijection, Bijection, Injection
<1>3. SetToSeq(S) \in [1..n -> S]
  BY <1>2 DEF SetToSeq
<1> QED BY <1>1, <1>3

LEMMA ChainsFinite == IsFiniteSet(Chains)
<1>1. Chains = {} \cup {Pre("nat")} \cup {Pre("mangle")} \cup {Mark}
               \cup {Out("nat")} \cup {Out("mangle")} \cup {Quic}
  BY DEF Chains
<1>2. IsFiniteSet({}) /\ \A S, x : IsFiniteSet(S) => IsFiniteSet(S \cup {x})
  BY FS_EmptySet, FS_AddElement
<1> QED BY <1>1, <1>2, Zenon

LEMMA TableStep ==
  ASSUME NEW p \in Plans, Execute(Cmd("table", Ruleset(p)))
  PROVE  Kernel' /\ Standing' /\ divert' = divert
<1> DEFINE At(h) == {c \in DOMAIN Ruleset(p) : HookOf(c) = h}
           x(h) == SetToSeq(At(h))
           y(h, i) == [from |-> Senders, to |-> x(h)[i]]
<1>1. /\ chains' = Ruleset(p) /\ divert' = divert
      /\ jumps' = [h \in Hooks |-> [i \in DOMAIN x(h) |-> y(h, i)]]
  BY DEF Execute, ChainsAfter, JumpsAfter, Cmd
<1>2. /\ DOMAIN Ruleset(p) \subseteq Chains
      /\ Ruleset(p) = [c \in DOMAIN Ruleset(p) |-> Ruleset(p)[c]]
  BY DEF Ruleset
<1>3. ASSUME NEW h
      PROVE  /\ \E n \in Nat : DOMAIN x(h) = 1..n
             /\ \A i \in DOMAIN x(h) : x(h)[i] \in At(h)
  <2>1. IsFiniteSet(At(h))
    BY <1>2, ChainsFinite, FS_Subset
  <2> HIDE DEF At
  <2> QED BY <2>1, Listed
<1>4. ASSUME NEW h, NEW i \in DOMAIN x(h)
      PROVE  y(h, i) \in Jumps /\ HookOf(y(h, i).to) = h
             /\ y(h, i).to \in DOMAIN Ruleset(p)
  <2>1. x(h)[i] \in At(h)
    BY <1>3
  <2>2. y(h, i).to \in DOMAIN Ruleset(p) /\ HookOf(y(h, i).to) = h
    BY <2>1
  <2> QED BY <1>2, <2>2 DEF Jumps
<1> HIDE DEF x, y
<1>5. jumps' \in [Hooks -> Seq(Jumps)]
  <2> SUFFICES ASSUME NEW h \in Hooks
               PROVE  [i \in DOMAIN x(h) |-> y(h, i)] \in Seq(Jumps)
    BY <1>1
  <2>1. PICK n \in Nat : DOMAIN x(h) = 1..n
    BY <1>3
  <2>2. \A i \in 1..n : y(h, i) \in Jumps
    BY <1>4, <2>1
  <2> QED BY <2>1, <2>2
<1>6. Standing'
  <2> SUFFICES ASSUME NEW h \in Hooks, NEW i \in DOMAIN jumps'[h]
               PROVE  /\ HookOf(jumps'[h][i].to) = h
                      /\ jumps'[h][i].to \in DOMAIN chains'
    BY DEF Standing
  <2>1. jumps'[h] = [k \in DOMAIN x(h) |-> y(h, k)]
    BY <1>1
  <2>2. i \in DOMAIN x(h) /\ jumps'[h][i] = y(h, i)
    BY <2>1
  <2> QED BY <1>1, <1>4, <2>2
<1>7. Kernel'
  BY <1>1, <1>2, <1>5 DEF Kernel
<1> QED BY <1>1, <1>6, <1>7

LEMMA SweepStep ==
  ASSUME Kernel, Standing, divert \in BOOLEAN,
         NEW cmd \in Sweep(Chains) \cup {Undivert}, Execute(cmd)
  PROVE  /\ Kernel' /\ Standing' /\ DOMAIN chains' \subseteq DOMAIN chains
         /\ divert' \in BOOLEAN /\ (divert' => divert /\ cmd # Undivert)
         /\ \A c \in Chains :
              /\ Hits(c) \in Nat /\ Hits(c)' \in Nat /\ Hits(c)' <= Hits(c)
              /\ cmd = Cmd("unjump", c) /\ Hits(c) # 0 => Hits(c)' < Hits(c)
              /\ cmd = Cmd("delete", c) /\ Hits(c) = 0 => c \notin DOMAIN chains'
<1>1. ASSUME Kernel PROVE \A c \in Chains : Hits(c) \in Nat
  BY <1>1, NothingHooked, ToFinite DEF Kernel, Hits
<1>2. ASSUME Kernel' PROVE \A c \in Chains : Hits(c)' \in Nat
  BY <1>2, NothingHooked, ToFinite DEF Kernel, Hits
<1>3. CASE cmd = Undivert
  <2>1. cmd.op = "undivert" /\ \A c : cmd # Cmd("unjump", c) /\ cmd # Cmd("delete", c)
    BY <1>3 DEF Undivert, Cmd
  <2>2. Kernel' /\ Standing' /\ chains' = chains /\ jumps' = jumps /\ ~divert'
    BY <2>1, OtherStep
  <2>3. divert' = FALSE
    BY <2>1 DEF Execute
  <2>4. \A c \in Chains : /\ Hits(c) \in Nat /\ Hits(c)' \in Nat
                           /\ Hits(c)' <= Hits(c)
    BY <1>1, <2>2 DEF Hits
  <2>5. divert' \in BOOLEAN /\ (divert' => divert /\ cmd # Undivert)
    BY <2>3
  <2>6. DOMAIN chains' \subseteq DOMAIN chains
    BY <2>2
  <2> QED BY <2>1, <2>2, <2>4, <2>5, <2>6, Zenon
<1>4. ASSUME NEW d \in Chains, cmd = Cmd("unjump", d) PROVE
      /\ Kernel' /\ Standing' /\ chains' = chains /\ divert' = divert
      /\ \A c \in Chains :
           /\ Hits(c)' <= Hits(c)
           /\ cmd = Cmd("unjump", c) /\ Hits(c) # 0 => Hits(c)' < Hits(c)
           /\ cmd # Cmd("delete", c)
  <2>1. \A c : cmd # Cmd("delete", c) /\ (cmd = Cmd("unjump", c) => c = d)
    BY <1>4 DEF Cmd
  <2> QED BY <1>4, <2>1, UnjumpStep
<1>5. ASSUME NEW d \in Chains, cmd = Cmd("flush", d) PROVE
      /\ Kernel' /\ Standing' /\ DOMAIN chains' = DOMAIN chains
      /\ divert' = divert
      /\ \A c \in Chains : /\ Hits(c)' = Hits(c)
                           /\ cmd # Cmd("unjump", c) /\ cmd # Cmd("delete", c)
  <2>1. \A c : cmd # Cmd("delete", c) /\ cmd # Cmd("unjump", c)
    BY <1>5 DEF Cmd
  <2> QED BY <1>5, <2>1, FlushStep DEF Hits
<1>6. ASSUME NEW d \in Chains, cmd = Cmd("delete", d) PROVE
      /\ Kernel' /\ Standing' /\ DOMAIN chains' \subseteq DOMAIN chains
      /\ divert' = divert
      /\ \A c \in Chains :
           /\ Hits(c)' = Hits(c) /\ cmd # Cmd("unjump", c)
           /\ cmd = Cmd("delete", c) /\ Hits(c) = 0 => c \notin DOMAIN chains'
  <2>1. \A c : cmd # Cmd("unjump", c) /\ (cmd = Cmd("delete", c) => c = d)
    BY <1>6 DEF Cmd
  <2> QED BY <1>6, <2>1, DeleteStep DEF Hits
<1>7. \A c : Undivert # Cmd("unjump", c) /\ Undivert # Cmd("flush", c)
             /\ Undivert # Cmd("delete", c)
  BY DEF Undivert, Cmd
<1>8. CASE cmd \in Sweep(Chains)
  <2>1. PICK d \in Chains : \/ cmd = Cmd("unjump", d) \/ cmd = Cmd("flush", d)
                            \/ cmd = Cmd("delete", d)
    BY <1>8 DEF Sweep
  <2>2. CASE cmd = Cmd("unjump", d)
    BY <1>1, <1>2, <1>4, <1>7, <2>2
  <2>3. CASE cmd = Cmd("flush", d)
    BY <1>1, <1>2, <1>5, <1>7, <2>3
  <2>4. CASE cmd = Cmd("delete", d)
    BY <1>1, <1>2, <1>6, <1>7, <2>4
  <2> QED BY <2>1, <2>2, <2>3, <2>4
<1> QED BY <1>3, <1>8

LEMMA BuildStep ==
  ASSUME Kernel, Standing, divert \in BOOLEAN, NEW cmd \in Build, Execute(cmd),
         Possible(cmd)
  PROVE  /\ Kernel' /\ Standing' /\ divert' \in BOOLEAN
         /\ \A c \in Chains :
              Hits(c)' <= Hits(c)
                + (IF cmd.op = "jump" /\ cmd.arg.to = c THEN 1 ELSE 0)
<1>0. \A c \in Chains : Hits(c) \in Nat
  BY NothingHooked, ToFinite DEF Kernel, Hits
<1>1. CASE cmd \in {Need, Divert}
  <2>1. cmd.op \in {"need", "divert"}
    BY <1>1 DEF Need, Divert, Cmd
  <2>2. Kernel' /\ Standing' /\ jumps' = jumps
    BY <2>1, OtherStep
  <2>3. divert' \in BOOLEAN
    BY DEF Execute
  <2> QED BY <1>0, <2>1, <2>2, <2>3 DEF Hits
<1>2. CASE \E c \in Chains : cmd = New(c)
  <2>1. Kernel' /\ Standing' /\ jumps' = jumps /\ divert' = divert
    BY <1>2, NewStep
  <2>2. cmd.op # "jump"
    BY <1>2 DEF New, Cmd
  <2> QED BY <1>0, <2>1, <2>2 DEF Hits
<1>3. CASE \E c \in Chains, r \in Rules : cmd = Add(c, r)
  <2>1. Kernel' /\ Standing' /\ jumps' = jumps /\ divert' = divert
    BY <1>3, AddStep
  <2>2. cmd.op # "jump"
    BY <1>3 DEF Add, Cmd
  <2> QED BY <1>0, <2>1, <2>2 DEF Hits
<1>4. CASE \E j \in Jumps : cmd = Cmd("jump", j)
  <2>1. PICK j \in Jumps : cmd = Cmd("jump", j)
    BY <1>4
  <2>2. cmd.op = "jump" /\ cmd.arg = j
    BY <2>1 DEF Cmd
  <2>3. /\ Kernel' /\ Standing' /\ divert' = divert
        /\ \A c \in Chains : Hits(c)' <= Hits(c) + (IF j.to = c THEN 1 ELSE 0)
    BY <2>1, JumpStep
  <2> QED BY <2>2, <2>3
<1>5. QuicRules \subseteq Rules /\ Quic \in Chains
  BY ChainsNamed DEF QuicRules
<1> QED BY <1>1, <1>2, <1>3, <1>4, <1>5 DEF Build, Plain

\* What is built stays, and the QUIC block refuses nothing else.
QuicOnly ==
  backend = "ipt" /\ Quic \in DOMAIN chains => chains[Quic] \in Seq(QuicRules)

LEMMA ChainsBuilt ==
  ASSUME Kernel, QuicOnly, backend = "ipt", UNCHANGED backend, NEW cmd \in Build,
         Execute(cmd), Possible(cmd)
  PROVE  /\ DOMAIN chains \subseteq DOMAIN chains' /\ QuicOnly'
         /\ \A c \in Chains : cmd = New(c) => c \in DOMAIN chains'
<1>1. CASE \/ cmd \in {Need, Divert}
           \/ \E j \in Jumps : cmd = Cmd("jump", j)
  <2>1. cmd.op \in {"need", "divert", "jump"}
    BY <1>1 DEF Need, Divert, Cmd
  <2>2. chains' = chains
    BY <2>1 DEF Execute, ChainsAfter
  <2>3. \A c : cmd # New(c)
    BY <2>1 DEF New, Cmd
  <2> QED BY <2>2, <2>3 DEF QuicOnly
<1>2. CASE \E c \in Chains : cmd = New(c)
  <2>1. PICK c \in Chains : cmd = New(c)
    BY <1>2
  <2>2. /\ DOMAIN chains' = DOMAIN chains \cup {c}
        /\ \A d \in DOMAIN chains \cup {c} :
             chains'[d] = IF d = c THEN <<>> ELSE chains[d]
    BY <2>1 DEF Execute, ChainsAfter, Cmd, New
  <2>3. \A d : cmd = New(d) => d = c
    BY <2>1 DEF New, Cmd
  <2>4. <<>> \in Seq(QuicRules)
    OBVIOUS
  <2>5. QuicOnly'
    <3>1. CASE c = Quic
      BY <2>2, <2>4, <3>1 DEF QuicOnly
    <3>2. CASE c # Quic
      BY <2>2, <3>2 DEF QuicOnly
    <3> QED BY <3>1, <3>2
  <2> QED BY <2>2, <2>3, <2>5
<1>3. ASSUME NEW c \in Chains, NEW r, cmd = Add(c, r), c = Quic => r \in QuicRules
      PROVE  DOMAIN chains' = DOMAIN chains /\ QuicOnly' /\ \A d : cmd # New(d)
  <2>1. /\ chains' = [chains EXCEPT ![c] = Append(@, r)]
        /\ c \in DOMAIN chains
    BY <1>3 DEF Execute, ChainsAfter, Cmd, Add, Possible
  <2>2. /\ DOMAIN chains' = DOMAIN chains
        /\ chains'[c] = Append(chains[c], r)
        /\ \A d \in DOMAIN chains : d # c => chains'[d] = chains[d]
    BY <2>1 DEF Kernel
  <2>3. \A d : cmd # New(d)
    BY <1>3 DEF New, Add, Cmd
  <2>4. QuicOnly'
    <3>1. CASE c = Quic
      BY <1>3, <2>1, <2>2, <3>1 DEF QuicOnly
    <3>2. CASE c # Quic
      BY <2>2, <3>2 DEF QuicOnly
    <3> QED BY <3>1, <3>2
  <2> QED BY <2>2, <2>3, <2>4
<1> QED BY <1>1, <1>2, <1>3, ChainsNamed DEF Build, Plain

LEMMA ChainsSwept ==
  ASSUME Kernel, QuicOnly, backend = "ipt", UNCHANGED backend,
         NEW cmd \in Sweep(Chains) \cup {Undivert}, Execute(cmd)
  PROVE  /\ QuicOnly'
         /\ \A c \in DOMAIN chains : c \in DOMAIN chains' \/ cmd = Cmd("delete", c)
<1>1. ASSUME cmd.op \in {"unjump", "undivert"}
      PROVE  chains' = chains
  BY <1>1 DEF Execute, ChainsAfter
<1>2. ASSUME NEW c \in Chains, cmd = Cmd("flush", c)
      PROVE  QuicOnly' /\ DOMAIN chains' = DOMAIN chains
  <2>1. chains' = IF c \in DOMAIN chains THEN [chains EXCEPT ![c] = <<>>]
                  ELSE chains
    BY <1>2 DEF Execute, ChainsAfter, Cmd
  <2>2. /\ DOMAIN chains' = DOMAIN chains
        /\ \A d \in DOMAIN chains : chains'[d] = IF d = c THEN <<>> ELSE chains[d]
    BY <2>1 DEF Kernel
  <2>3. <<>> \in Seq(QuicRules)
    OBVIOUS
  <2>4. QuicOnly'
    <3>1. CASE c = Quic
      BY <2>2, <2>3, <3>1 DEF QuicOnly
    <3>2. CASE c # Quic
      BY <2>2, <3>2 DEF QuicOnly
    <3> QED BY <3>1, <3>2
  <2> QED BY <2>2, <2>4
<1>3. ASSUME NEW c \in Chains, cmd = Cmd("delete", c)
      PROVE  QuicOnly' /\ DOMAIN chains \subseteq DOMAIN chains' \cup {c}
  <2>1. chains' = IF Referenced(c) THEN chains ELSE Without(chains, c)
    BY <1>3 DEF Execute, ChainsAfter, Cmd
  <2>2. /\ DOMAIN chains \subseteq DOMAIN chains' \cup {c}
        /\ DOMAIN chains' \subseteq DOMAIN chains
        /\ \A d \in DOMAIN chains' : chains'[d] = chains[d]
    BY <2>1 DEF Without
  <2> QED BY <2>2 DEF QuicOnly
<1>4. CASE cmd = Undivert
  <2>1. chains' = chains
    BY <1>1, <1>4 DEF Undivert, Cmd
  <2> QED BY <2>1 DEF QuicOnly
<1>5. CASE \E c \in Chains : cmd = Cmd("unjump", c)
  <2>1. chains' = chains
    BY <1>1, <1>5 DEF Cmd
  <2> QED BY <2>1 DEF QuicOnly
<1>6. CASE \E c \in Chains : cmd = Cmd("flush", c)
  BY <1>2, <1>6
<1>7. CASE \E c \in Chains : cmd = Cmd("delete", c)
  BY <1>3, <1>7
<1> QED BY <1>4, <1>5, <1>6, <1>7 DEF Sweep

-----------------------------------------------------------------------------
\* One step of the iptables backend.

\* What the engine runs: the sweep, and for an application what it installs.
LEMMA ProgramOfIpt ==
  ASSUME Typed, backend = "ipt", job # "none"
  PROVE  /\ Len(Program) \in Nat /\ Len(Program) >= Sweeps
         /\ \A i \in 1..Sweeps : Program[i] = IptRevert[i]
         /\ job \notin Applies => Len(Program) = Sweeps
         /\ job \in Applies =>
              /\ Len(Program) = Sweeps + Len(Body(plan)) /\ Len(Body(plan)) \in Nat
              /\ \A i \in 1..Len(Body(plan)) : Program[Sweeps + i] = Body(plan)[i]
<1> DEFINE last == Cmd("undivert", <<>>)
           W == Sweep(Chains) \cup Build \cup {last}
           r == IptRevert
           x == Body(plan)
           s == Program
<1>0. plan \in Plans /\ backend \in Backends
  BY DEF Typed
<1>1. r \in Seq(W) /\ Len(r) >= 1
  <2>1. PICK t : Swept(t, Chains) /\ r = t \o <<last>>
    BY RevertSweeps
  <2>2. Sweep(Chains) \subseteq W /\ last \in W
    OBVIOUS
  <2> HIDE DEF last, W, r
  <2>3. t \in Seq(W)
    BY <2>1, <2>2 DEF Swept
  <2> QED BY <2>1, <2>2, <2>3
<1>2. x \in Seq(W)
  <2>1. x \in Seq(Build) /\ Build \subseteq W
    BY <1>0, BodyFits DEF Fits
  <2> HIDE DEF W, x
  <2> QED BY <2>1
<1>3. s = IF job \in Applies THEN r \o x ELSE r
  <2>1. Programs[backend][plan] = IptApply(plan)
    BY <1>0 DEF Programs
  <2>2. Reverts[backend] = IptRevert
    BY <1>0 DEF Reverts
  <2>3. s = IF job \in Applies THEN Programs[backend][plan] ELSE Reverts[backend]
    BY DEF Program, Applies
  <2>4. IptApply(plan) = r \o x
    BY <1>0, BodyFits
  <2> QED BY <2>1, <2>2, <2>3, <2>4, Zenon
<1> HIDE DEF r, x, W, s
<1>4. /\ Len(r \o x) = Len(r) + Len(x) /\ Len(r) \in Nat /\ Len(x) \in Nat
      /\ \A i \in 1..Len(r) : (r \o x)[i] = r[i]
      /\ \A i \in 1..Len(x) : (r \o x)[Len(r) + i] = x[i]
  BY <1>1, <1>2, PlacesOfBoth
<1>5. CASE job \in Applies
  <2>1. s = r \o x
    BY <1>3, <1>5
  <2>2. /\ Len(s) = Len(r) + Len(x) /\ \A i \in 1..Len(r) : s[i] = r[i]
        /\ \A i \in 1..Len(x) : s[Len(r) + i] = x[i]
    BY <1>4, <2>1
  <2>3. /\ Len(r) \in Nat /\ Len(r) >= 1 /\ Len(x) \in Nat /\ Len(s) \in Nat
        /\ Len(s) >= Len(r)
    BY <1>1, <1>4, <2>2
  <2> QED BY <1>5, <2>2, <2>3, Zenon DEF r, x, s, Sweeps
<1>6. CASE job \notin Applies
  <2>1. s = r
    BY <1>3, <1>6
  <2> QED BY <1>1, <1>4, <1>6, <2>1 DEF r, s, Sweeps
<1> QED BY <1>5, <1>6

LEMMA UnjumpsFinite ==
  ASSUME NEW c
  PROVE  IsFiniteSet(Unjumps(c)) /\ Cardinality(Unjumps(c)) \in Nat
<1>1. IsFiniteSet(1..Sweeps) /\ Unjumps(c) \in SUBSET (1..Sweeps)
  BY SweepPlaces, FS_Interval DEF Unjumps
<1> QED BY <1>1, FS_Subset, FS_CardinalityType

\* The command at hand: one of the sweep, and then one of what is installed.
LEMMA IptCommand ==
  ASSUME Inv, NextCommand, backend = "ipt"
  PROVE  /\ at' = at + 1 /\ job # "none" /\ UNCHANGED <<backend, plan, job>>
         /\ at <= Sweeps =>
              /\ Execute(IptRevert[at]) /\ at \in 1..Sweeps
              /\ IptRevert[at] \in Sweep(Chains) \cup {Undivert}
              /\ IptRevert[at] # Undivert => at # Sweeps
         /\ at > Sweeps =>
              /\ job \in Applies /\ at - Sweeps \in 1..Len(Body(plan))
              /\ Body(plan)[at - Sweeps] \in Build
              /\ Execute(Body(plan)[at - Sweeps])
              /\ Possible(Body(plan)[at - Sweeps])
<1> DEFINE b == Body(plan)
           m == at - Sweeps
<1>1. /\ Typed /\ at \in Nat /\ at >= 1 /\ Sweeps \in Nat
      /\ plan \in Plans /\ backend \in Backends /\ job \in Jobs
  BY SweepPlaces DEF Inv, Typed
<1>2. /\ job # "none" /\ at <= Len(Program) /\ at' = at + 1
      /\ Execute(Program[at]) /\ Possible(Program[at])
      /\ UNCHANGED <<backend, plan, job>>
  BY DEF NextCommand
<1>3. /\ \A i \in 1..Sweeps : Program[i] = IptRevert[i]
      /\ job \notin Applies => Len(Program) = Sweeps
      /\ job \in Applies =>
           /\ Len(Program) = Sweeps + Len(b) /\ Len(b) \in Nat
           /\ \A i \in 1..Len(b) : Program[Sweeps + i] = b[i]
  BY <1>1, <1>2, ProgramOfIpt
<1>4. CASE at <= Sweeps
  <2>1. at \in 1..Sweeps /\ Program[at] = IptRevert[at]
    BY <1>1, <1>3, <1>4
  <2> QED BY <1>1, <1>2, <1>4, <2>1, SweepPlaces
<1>5. CASE at > Sweeps
  <2>1. job \in Applies
    BY <1>1, <1>2, <1>3, <1>5
  <2>2. m \in 1..Len(b) /\ at = Sweeps + m
    BY <1>1, <1>2, <1>3, <1>5, <2>1
  <2>3. Program[at] = b[m]
    BY <1>3, <2>1, <2>2
  <2>4. b \in Seq(Build)
    BY <1>1, BodyFits DEF Fits
  <2> HIDE DEF b
  <2>5. b[m] \in Build
    BY <2>2, <2>4
  <2> QED BY <1>1, <1>2, <1>5, <2>1, <2>2, <2>3, <2>5 DEF b
<1> QED BY <1>1, <1>4, <1>5

LEMMA IptSweeps ==
  ASSUME Inv, NextCommand, backend = "ipt", at <= Sweeps
  PROVE  Kernel' /\ Standing' /\ Few' /\ Sweeping' /\ Building'
         /\ divert' \in BOOLEAN
<1> DEFINE cmd == IptRevert[at]
<1>1. /\ Typed /\ Kernel /\ Standing /\ Few /\ Sweeping
      /\ at \in 1..Sweeps /\ Sweeps \in Nat /\ divert \in BOOLEAN
  BY SweepPlaces DEF Inv, Typed
<1>2. /\ Execute(cmd) /\ at' = at + 1 /\ job # "none"
      /\ UNCHANGED <<backend, plan, job>>
  BY IptCommand
<1>3. cmd \in Sweep(Chains) \cup {Undivert} /\ (cmd # Undivert => at # Sweeps)
  BY IptCommand
<1> HIDE DEF cmd
<1>4. /\ Kernel' /\ Standing' /\ DOMAIN chains' \subseteq DOMAIN chains
      /\ divert' \in BOOLEAN /\ (divert' => divert /\ cmd # Undivert)
      /\ \A c \in Chains :
           /\ Hits(c) \in Nat /\ Hits(c)' \in Nat /\ Hits(c)' <= Hits(c)
           /\ cmd = Cmd("unjump", c) /\ Hits(c) # 0 => Hits(c)' < Hits(c)
           /\ cmd = Cmd("delete", c) /\ Hits(c) = 0 => c \notin DOMAIN chains'
  BY <1>1, <1>2, <1>3, SweepStep
<1>5. Few'
  BY <1>1, <1>2, <1>4, FirewallBounds DEF Few
<1>6. ASSUME NEW c \in Chains, Hits(c) <= Cardinality(Unjumps(c))
      PROVE  Hits(c)' <= Cardinality(Unjumps(c)')
  <2>1. Unjumps(c)' = Unjumps(c) \ {at}
    BY <1>1, <1>2 DEF Unjumps
  <2>2. at \in Unjumps(c) <=> cmd = Cmd("unjump", c)
    BY <1>1 DEF Unjumps, cmd
  <2>3. /\ Cardinality(Unjumps(c)) \in Nat
        /\ Cardinality(Unjumps(c) \ {at})
             = IF at \in Unjumps(c) THEN Cardinality(Unjumps(c)) - 1
               ELSE Cardinality(Unjumps(c))
    BY UnjumpsFinite, FS_RemoveElement
  <2>4. Cardinality(Unjumps(c) \ {at}) \in Nat
    BY UnjumpsFinite, FS_RemoveElement, FS_CardinalityType
  <2> QED BY <1>4, <1>6, <2>1, <2>2, <2>3, <2>4
<1>7. ASSUME job \in Applies => at <= Sweeps + 1
      PROVE  /\ \A c \in Chains : Hits(c)' <= Cardinality(Unjumps(c)')
             /\ \A c \in DOMAIN chains' :
                  \E i \in 1..Sweeps : /\ i >= at + 1
                                       /\ IptRevert[i] = Cmd("delete", c)
                                       /\ \A k \in i..Sweeps :
                                            IptRevert[k] # Cmd("unjump", c)
             /\ divert' => at + 1 <= Sweeps
  <2>1. /\ \A c \in Chains : Hits(c) <= Cardinality(Unjumps(c))
        /\ \A c \in DOMAIN chains :
             \E i \in 1..Sweeps : /\ i >= at /\ IptRevert[i] = Cmd("delete", c)
                                  /\ \A k \in i..Sweeps :
                                       IptRevert[k] # Cmd("unjump", c)
    BY <1>1, <1>2, <1>7 DEF Sweeping
  <2>2. \A c \in Chains : Hits(c)' <= Cardinality(Unjumps(c)')
    BY <1>6, <2>1
  <2>3. ASSUME NEW c \in DOMAIN chains'
        PROVE  \E i \in 1..Sweeps : /\ i >= at + 1
                                    /\ IptRevert[i] = Cmd("delete", c)
                                    /\ \A k \in i..Sweeps :
                                         IptRevert[k] # Cmd("unjump", c)
    <3>1. c \in DOMAIN chains /\ c \in Chains
      BY <1>1, <1>4 DEF Kernel
    <3>2. PICK i \in 1..Sweeps : /\ i >= at /\ IptRevert[i] = Cmd("delete", c)
                                 /\ \A k \in i..Sweeps :
                                      IptRevert[k] # Cmd("unjump", c)
      BY <2>1, <3>1
    <3>3. i # at
      <4> SUFFICES ASSUME i = at PROVE FALSE
        OBVIOUS
      <4>1. Unjumps(c) = {}
        BY <1>1, <3>2 DEF Unjumps
      <4>2. Hits(c) = 0
        BY <1>4, <2>1, <3>1, <4>1, FS_EmptySet
      <4> QED BY <1>4, <3>1, <3>2, <4>2 DEF cmd
    <3> QED BY <1>1, <3>2, <3>3
  <2>4. divert' => at + 1 <= Sweeps
    BY <1>1, <1>3, <1>4
  <2> QED BY <2>2, <2>3, <2>4
<1>8. Sweeping'
  <2>1. job \in Applies => at <= Sweeps + 1
    BY <1>1
  <2> QED BY <1>2, <1>7, <2>1 DEF Sweeping
<1>9. Building'
  <2> SUFFICES ASSUME at + 1 > Sweeps, NEW c \in Chains
               PROVE  Hits(c)' <= Cardinality(Hooked(c)')
    BY <1>2 DEF Building
  <2>1. Hooked(c)' = {} /\ Unjumps(c)' = {}
    <3>1. at = Sweeps
      BY <1>1
    <3>2. Unjumps(c)' = {}
      BY <1>1, <1>2, <3>1 DEF Unjumps
    <3>3. \A i \in DOMAIN Body(plan) : i \in Nat /\ i >= 1
      <4>1. plan \in Plans
        BY <1>1 DEF Typed
      <4>2. Body(plan) \in Seq(Build)
        BY <4>1, BodyFits DEF Fits
      <4> QED BY <4>2
    <3>4. Hooked(c)' = {}
      BY <1>1, <1>2, <3>1, <3>3 DEF Hooked, Leads
    <3> QED BY <3>2, <3>4
  <2>2. Hits(c)' <= Cardinality(Unjumps(c)')
    BY <1>1, <1>7
  <2> QED BY <2>1, <2>2
<1> QED BY <1>4, <1>5, <1>8, <1>9

LEMMA IptBuilds ==
  ASSUME Inv, NextCommand, backend = "ipt", at > Sweeps
  PROVE  Kernel' /\ Standing' /\ Few' /\ Sweeping' /\ Building'
         /\ divert' \in BOOLEAN
<1> DEFINE b == Body(plan)
           m == at - Sweeps
           cmd == b[m]
<1>1. /\ Typed /\ Kernel /\ Standing /\ Few /\ Building
      /\ Sweeps \in Nat /\ at \in Nat /\ divert \in BOOLEAN
      /\ plan \in Plans /\ backend \in Backends /\ job \in Jobs
  BY SweepPlaces DEF Inv, Typed
<1>2. /\ Execute(cmd) /\ Possible(cmd) /\ at' = at + 1 /\ job \in Applies
      /\ m \in 1..Len(b) /\ UNCHANGED <<backend, plan, job>>
  BY IptCommand
<1>3. /\ b \in Seq(Build) /\ DOMAIN b = 1..Len(b)
      /\ \A c \in Chains : Cardinality(Leads(b, c)) <= Deletes
  BY <1>1, BodyFits DEF Fits
<1>4. cmd \in Build
  BY IptCommand
<1> HIDE DEF b, cmd
<1>5. /\ Kernel' /\ Standing' /\ divert' \in BOOLEAN
      /\ \A c \in Chains :
           Hits(c)' <= Hits(c)
             + (IF cmd.op = "jump" /\ cmd.arg.to = c THEN 1 ELSE 0)
  BY <1>1, <1>2, <1>4, BuildStep
<1>6. ASSUME NEW c \in Chains
      PROVE  /\ Hits(c)' <= Cardinality(Hooked(c)') /\ Hits(c)' <= Deletes
  <2>1. /\ Hits(c) <= Cardinality(Hooked(c))
        /\ Hits(c) \in Nat /\ Hits(c)' \in Nat
    <3>1. \A s \in Seq(Jumps) : Cardinality(To(s, c)) \in Nat
      BY ToFinite
    <3>2. HookOf(c) \in Hooks /\ HookOf(c)' = HookOf(c)
      BY NothingHooked
    <3> QED BY <1>1, <1>2, <1>5, <3>1, <3>2 DEF Building, Kernel, Hits
  <2>2. /\ IsFiniteSet(Leads(b, c)) /\ Cardinality(Leads(b, c)) \in Nat
        /\ IsFiniteSet(Hooked(c)) /\ Cardinality(Hooked(c)) \in Nat
        /\ IsFiniteSet(Hooked(c)') /\ Cardinality(Hooked(c)') \in Nat
        /\ Cardinality(Hooked(c)') <= Cardinality(Leads(b, c))
    <3>1. IsFiniteSet(Leads(b, c))
      BY <1>3, LeadsFinite
    <3>2. /\ Hooked(c) \in SUBSET Leads(b, c)
          /\ Hooked(c)' \in SUBSET Leads(b, c)
      BY <1>2 DEF Hooked, b
    <3> QED BY <3>1, <3>2, FS_Subset, FS_CardinalityType
  <2>3. Hooked(c)' = IF cmd.op = "jump" /\ cmd.arg.to = c
                     THEN Hooked(c) \cup {m} ELSE Hooked(c)
    <3>1. m \in Leads(b, c) <=> cmd.op = "jump" /\ cmd.arg.to = c
      BY <1>2, <1>3 DEF Leads, cmd
    <3>2. Hooked(c) = {i \in Leads(b, c) : Sweeps + i < at}
      BY DEF Hooked, b
    <3>3. Hooked(c)' = {i \in Leads(b, c) : Sweeps + i < at + 1}
      BY <1>2 DEF Hooked, b
    <3>4. \A i \in Leads(b, c) : i \in Nat
      BY <1>3 DEF Leads
    <3>5. \A i \in Leads(b, c) : Sweeps + i < at + 1 <=> Sweeps + i < at \/ i = m
      BY <1>1, <3>4
    <3> QED BY <3>1, <3>2, <3>3, <3>5
  <2>4. m \notin Hooked(c)
    BY <1>1 DEF Hooked
  <2>5. Cardinality(Hooked(c)') =
          Cardinality(Hooked(c))
            + (IF cmd.op = "jump" /\ cmd.arg.to = c THEN 1 ELSE 0)
    BY <2>2, <2>3, <2>4, FS_AddElement
  <2>6. Hits(c)' <= Cardinality(Hooked(c)')
    BY <1>5, <2>1, <2>2, <2>5
  <2> QED BY <1>3, <2>1, <2>2, <2>6, FirewallBounds
<1>7. Sweeping'
  BY <1>1, <1>2 DEF Sweeping
<1> QED BY <1>2, <1>5, <1>6, <1>7 DEF Few, Building

-----------------------------------------------------------------------------
\* One step of the nftables backend.

LEMMA ProgramOfNft ==
  ASSUME Typed, InOrder, backend = "nft", job # "none"
  PROVE  /\ job \in Applies =>
              /\ Len(Program) \in Nat
              /\ \A i \in 1..Len(Program) :
                   Program[i] \in {Need, Divert, Cmd("table", Ruleset(plan))}
         /\ job \notin Applies => Program = <<Cmd("drop", <<>>), Undivert>>
<1>1. plan \in Plans /\ backend \in Backends
  BY DEF Typed
<1>2. Programs[backend][plan] = NftApply(plan) /\ Reverts[backend] = NftRevert
  BY <1>1 DEF Programs, Reverts
<1>3. ASSUME job \in Applies
      PROVE  /\ Len(Program) \in Nat
             /\ \A i \in 1..Len(Program) :
                  Program[i] \in {Need, Divert, Cmd("table", Ruleset(plan))}
  <2> DEFINE x == Need
             y == Cmd("table", Ruleset(plan))
             z == Divert
             W == {x, z, y}
             a == If(NeedsTProxy(plan.mode), <<x>>)
             c == If(NeedsTProxy(plan.mode), <<z>>)
  <2>1. UsesFirewall(plan)
    BY <1>3 DEF InOrder, Applies
  <2>2. Program = a \o <<y>> \o c
    BY <1>2, <1>3, <2>1 DEF Program, NftApply, UsesFirewall, Applies
  <2> HIDE DEF x, y, z
  <2>3. a \in Seq(W) /\ c \in Seq(W) /\ <<y>> \in Seq(W)
    <3>1. x \in W /\ y \in W /\ z \in W
      OBVIOUS
    <3> HIDE DEF W
    <3>2. <<x>> \in Seq(W) /\ <<y>> \in Seq(W) /\ <<z>> \in Seq(W) /\ <<>> \in Seq(W)
      BY <3>1
    <3> QED BY <3>2 DEF If
  <2> HIDE DEF a, c, W
  <2>4. a \o <<y>> \o c \in Seq(W)
    BY <2>3
  <2>5. Program \in Seq(W)
    BY <2>2, <2>4, Zenon
  <2> DEFINE s == Program
  <2> HIDE DEF s
  <2>6. s \in Seq(W)
    BY <2>5 DEF s
  <2>7. Len(s) \in Nat /\ \A i \in 1..Len(s) : s[i] \in W
    BY <2>6
  <2> QED BY <2>7 DEF s, W, x, y, z
<1>4. job \notin Applies => Program = <<Cmd("drop", <<>>), Undivert>>
  BY <1>2 DEF Program, Applies, NftRevert, Undivert
<1> QED BY <1>3, <1>4

LEMMA NftStep ==
  ASSUME Inv, NextCommand, backend = "nft"
  PROVE  /\ Kernel' /\ Standing' /\ Few' /\ Sweeping' /\ Building' /\ Dropping'
         /\ divert' \in BOOLEAN
<1>1. /\ Typed /\ Kernel /\ Standing /\ Dropping /\ InOrder /\ at \in Nat
      /\ at >= 1 /\ divert \in BOOLEAN /\ plan \in Plans
  BY DEF Inv, Typed
<1>2. /\ job # "none" /\ at <= Len(Program) /\ Execute(Program[at])
      /\ at' = at + 1 /\ UNCHANGED <<backend, plan, job>>
  BY DEF NextCommand
<1>3. Few' /\ Sweeping' /\ Building'
  BY <1>2 DEF Few, Sweeping, Building
<1>4. CASE job \in Applies
  <2>1. Program[at] \in {Need, Divert, Cmd("table", Ruleset(plan))}
    BY <1>1, <1>2, <1>4, ProgramOfNft
  <2> DEFINE cmd == Program[at]
  <2> HIDE DEF cmd
  <2>2. CASE cmd \in {Need, Divert}
    <3>1. cmd.op \in {"need", "divert"}
      BY <2>2 DEF Need, Divert, Cmd
    <3>2. Execute(cmd)
      BY <1>2 DEF cmd
    <3>3. Kernel' /\ Standing'
      BY <1>1, <3>1, <3>2, OtherStep
    <3>4. divert' \in BOOLEAN
      BY <1>1, <3>2 DEF Execute
    <3>5. Dropping'
      BY <1>2, <1>4 DEF Dropping
    <3> QED BY <1>3, <3>3, <3>4, <3>5
  <2>3. CASE cmd = Cmd("table", Ruleset(plan))
    <3>1. Execute(Cmd("table", Ruleset(plan)))
      BY <1>2, <2>3 DEF cmd
    <3>2. Kernel' /\ Standing' /\ divert' = divert
      BY <1>1, <3>1, TableStep
    <3>3. Dropping'
      BY <1>2, <1>4 DEF Dropping
    <3> QED BY <1>1, <1>3, <3>2, <3>3
  <2> QED BY <2>1, <2>2, <2>3 DEF cmd
<1>5. CASE job \notin Applies
  <2> DEFINE drop == Cmd("drop", <<>>)
  <2>1. Program = <<drop, Undivert>>
    BY <1>1, <1>2, <1>5, ProgramOfNft
  <2>2. \/ at = 1 /\ Program[at] = drop
        \/ at = 2 /\ Program[at] = Undivert
    <3>1. Len(Program) = 2 /\ Program[1] = drop /\ Program[2] = Undivert
      BY <2>1
    <3>2. at = 1 \/ at = 2
      BY <1>1, <1>2, <3>1
    <3> QED BY <3>1, <3>2, Zenon
  <2>3. CASE at = 1 /\ Program[at] = drop
    <3>1. chains' = <<>> /\ jumps' = NoJumps /\ divert' = divert
      BY <1>2, <2>3 DEF Execute, ChainsAfter, JumpsAfter, Cmd
    <3>2. Dropping'
      BY <1>2, <2>3, <3>1 DEF Dropping
    <3> QED BY <1>1, <1>3, <3>1, <3>2, FlushedStep
  <2>4. CASE at = 2 /\ Program[at] = Undivert
    <3>1. Undivert.op = "undivert" /\ Execute(Undivert)
      BY <1>2, <2>4 DEF Undivert, Cmd
    <3>2. Kernel' /\ Standing' /\ chains' = chains /\ jumps' = jumps
      BY <1>1, <3>1, OtherStep
    <3>3. divert' = FALSE
      BY <3>1 DEF Execute
    <3>4. Dropping'
      <4>1. backend = "nft" /\ job \notin Applies \cup {"none"} /\ at > 1
        BY <1>2, <1>5, <2>4
      <4>2. chains = <<>> /\ jumps = NoJumps
        BY <1>1, <4>1 DEF Dropping
      <4> QED BY <3>2, <3>3, <4>2 DEF Dropping
    <3> QED BY <1>3, <3>2, <3>3, <3>4
  <2> QED BY <2>2, <2>3, <2>4
<1> QED BY <1>4, <1>5

-----------------------------------------------------------------------------
\* Every step.

LEMMA CommandStep == Inv /\ NextCommand => Inv'
<1> SUFFICES ASSUME Inv, NextCommand PROVE Inv'
  OBVIOUS
<1>1. backend \in {"nft", "ipt"} /\ at \in Nat /\ Sweeps \in Nat
  BY BackendsAssumption, SweepPlaces DEF Inv, Typed
<1>2. /\ Kernel' /\ Standing' /\ Few' /\ Sweeping' /\ Building' /\ Dropping'
      /\ divert' \in BOOLEAN
  <2>1. CASE backend = "nft"
    BY <2>1, NftStep
  <2>2. CASE backend = "ipt"
    <3>1. backend' = "ipt"
      BY <2>2 DEF NextCommand
    <3>2. Dropping'
      BY <3>1 DEF Dropping
    <3>3. CASE at <= Sweeps
      BY <2>2, <3>2, <3>3, IptSweeps
    <3>4. CASE at > Sweeps
      BY <2>2, <3>2, <3>4, IptBuilds
    <3> QED BY <1>1, <3>3, <3>4
  <2> QED BY <1>1, <2>1, <2>2
<1>3. Typed'
  <2>1. /\ UNCHANGED <<backend, plan, job, connected, alive>> /\ at' = at + 1
        /\ stale' \in BOOLEAN
    BY DEF NextCommand, Inv, Typed
  <2> QED BY <1>2, <2>1 DEF Inv, Typed
<1>4. InOrder' /\ Clean'
  BY DEF NextCommand, Inv, InOrder, Clean
<1> QED BY <1>2, <1>3, <1>4 DEF Inv

\* A revert that has run through leaves nothing.
LEMMA Reverted ==
  ASSUME Inv, job \notin Applies \cup {"none"}, at > Len(Program)
  PROVE  Empty
<1>1. backend \in {"nft", "ipt"} /\ at \in Nat
  BY BackendsAssumption DEF Inv, Typed
<1>2. CASE backend = "nft"
  <2>1. Program = <<Cmd("drop", <<>>), Undivert>>
    BY <1>2, ProgramOfNft DEF Inv
  <2>2. at > 2
    BY <1>1, <2>1
  <2> QED BY <1>1, <1>2, <2>2 DEF Inv, Dropping, Empty
<1>3. CASE backend = "ipt"
  <2>1. Len(Program) = Sweeps
    BY <1>3, ProgramOfIpt DEF Inv
  <2> QED BY <1>3, <2>1, SweptOut DEF Inv
<1> QED BY <1>1, <1>2, <1>3

LEMMA ConnectStep ==
  ASSUME Inv, NEW p \in Plans, Connect(p)
  PROVE  Inv'
<1>1. /\ UNCHANGED <<backend, at, alive, chains, jumps, divert, stale>>
      /\ plan' = p /\ job = "none" /\ alive /\ ~connected /\ at' = 1
      /\ IF UsesFirewall(p) THEN job' = "connect" /\ connected' = FALSE
                            ELSE job' = "none" /\ connected' = TRUE
  BY DEF Connect, Idle, kernel, Inv, InOrder
<1>2. Standing' /\ Few' /\ Sweeping' /\ Building' /\ Dropping'
  BY <1>1, AtStart
<1>3. Typed' /\ Kernel'
  BY <1>1 DEF Inv, Typed, Kernel, Jobs
<1>4. InOrder'
  BY <1>1 DEF Inv, InOrder
<1>5. Clean'
  BY <1>1 DEF Inv, Clean, Empty
<1> QED BY <1>2, <1>3, <1>4, <1>5 DEF Inv

LEMMA DisconnectStep ==
  ASSUME Inv, Disconnect
  PROVE  Inv'
<1>1. /\ UNCHANGED <<backend, plan, at, alive, chains, jumps, divert, stale>>
      /\ job = "none" /\ alive /\ connected /\ connected' = FALSE /\ at' = 1
      /\ job' = IF UsesFirewall(plan) THEN "disconnect" ELSE "none"
  BY DEF Disconnect, Idle, kernel, history, Inv, InOrder
<1>2. Standing' /\ Few' /\ Sweeping' /\ Building' /\ Dropping'
  BY <1>1, AtStart
<1>3. Typed' /\ Kernel'
  BY <1>1 DEF Inv, Typed, Kernel, Jobs
<1>4. InOrder'
  BY <1>1 DEF Inv, InOrder
<1>5. Clean'
  BY <1>1 DEF Inv, Clean, Empty
<1> QED BY <1>2, <1>3, <1>4, <1>5 DEF Inv

LEMMA ReapplyStep ==
  ASSUME Inv, NEW p \in Plans, Reapply(p)
  PROVE  Inv'
<1>1. /\ UNCHANGED <<backend, at, connected, alive, chains, jumps, divert, stale>>
      /\ job = "none" /\ alive /\ at' = 1
      /\ \/ connected /\ UsesFirewall(plan) /\ plan' = p /\ job' = "reapply"
         \/ plan' = plan /\ job' = job
      /\ p.mode = plan.mode /\ p.hijack = plan.hijack
  BY DEF Reapply, Idle, kernel, Inv, InOrder
<1>2. Standing' /\ Few' /\ Sweeping' /\ Building' /\ Dropping'
  BY <1>1, AtStart
<1>3. Typed' /\ Kernel'
  BY <1>1 DEF Inv, Typed, Kernel, Jobs
<1>4. UsesFirewall(p) = UsesFirewall(plan)
  BY <1>1 DEF UsesFirewall
<1>5. InOrder'
  BY <1>1, <1>4 DEF Inv, InOrder
<1>6. Clean'
  BY <1>1 DEF Inv, Clean, Empty
<1> QED BY <1>2, <1>3, <1>5, <1>6 DEF Inv

LEMMA RefuseStep ==
  ASSUME Inv, Refuse
  PROVE  Inv'
<1>1. /\ UNCHANGED <<backend, plan, connected, alive, chains, jumps, divert,
                     stale>>
      /\ job \in Applies /\ at' = 1
      /\ \/ job = "connect" /\ job' = "disconnect"
         \/ job = "reapply" /\ job' \in {"unwind", "none"}
  BY DEF Refuse, kernel, Applies
<1>2. Standing' /\ Few' /\ Sweeping' /\ Building' /\ Dropping'
  BY <1>1, AtStart
<1>3. Typed' /\ Kernel'
  BY <1>1 DEF Inv, Typed, Kernel, Jobs
<1>4. UsesFirewall(plan) /\ alive /\ (job = "reapply" => connected)
  BY <1>1 DEF Inv, InOrder, Applies, Typed
<1>5. InOrder'
  BY <1>1, <1>4 DEF InOrder
<1>6. Clean'
  BY <1>1, <1>4 DEF Clean
<1> QED BY <1>2, <1>3, <1>5, <1>6 DEF Inv

LEMMA DoneStep ==
  ASSUME Inv, Done
  PROVE  Inv'
<1>1. /\ UNCHANGED <<backend, plan, alive, chains, jumps, divert, stale>>
      /\ job # "none" /\ job' = "none" /\ at' = 1 /\ at > Len(Program)
      /\ connected' = (job \in {"connect", "reapply", "unwind"})
  BY DEF Done, kernel, history
<1>2. Standing' /\ Few' /\ Sweeping' /\ Building' /\ Dropping'
  BY <1>1, AtStart
<1>3. Typed' /\ Kernel'
  BY <1>1 DEF Inv, Typed, Kernel, Jobs
<1>4. alive
  BY <1>1 DEF Inv, InOrder, Typed
<1>5. InOrder'
  BY <1>1, <1>4 DEF InOrder
<1>6. Clean'
  <2>1. CASE job \in {"connect", "reapply", "unwind"}
    <3>1. UsesFirewall(plan)
      BY <2>1 DEF Inv, InOrder
    <3> QED BY <1>1, <2>1, <3>1 DEF Clean, UsesFirewall
  <2>2. CASE job \notin {"connect", "reapply", "unwind"}
    <3>1. Empty
      BY <1>1, <2>2, Reverted DEF Applies
    <3> QED BY <1>1, <3>1 DEF Clean, Empty
  <2> QED BY <2>1, <2>2
<1> QED BY <1>2, <1>3, <1>5, <1>6 DEF Inv

LEMMA WipeStep ==
  ASSUME Inv, Wipe
  PROVE  Inv'
<1>1. /\ UNCHANGED <<backend, plan, job, at, connected, alive, divert, stale>>
      /\ chains' = <<>> /\ jumps' = NoJumps
  BY DEF Wipe
<1>2. /\ Kernel' /\ Standing' /\ DOMAIN chains' = {}
      /\ \A c \in Chains : Hits(c)' = 0
  BY <1>1, FlushedStep
<1>3. Typed' /\ InOrder'
  BY <1>1 DEF Inv, Typed, InOrder
<1>4. Few'
  BY <1>2, FirewallBounds DEF Few
<1>5. Dropping' /\ Clean'
  BY <1>1 DEF Inv, Dropping, Clean, Empty
<1>6. Sweeping'
  <2>1. \A c : Unjumps(c)' = Unjumps(c)
    BY <1>1 DEF Unjumps
  <2>2. \A c \in Chains : Hits(c)' <= Cardinality(Unjumps(c)')
    BY <1>2, <2>1, UnjumpsFinite
  <2> QED BY <1>1, <1>2, <2>2 DEF Inv, Sweeping
<1>7. Building'
  <2> SUFFICES ASSUME NEW c \in Chains
               PROVE  0 <= Cardinality(Hooked(c)')
    BY <1>2 DEF Building
  <2>1. Hooked(c)' = Hooked(c)
    BY <1>1 DEF Hooked
  <2>2. Body(plan) \in Seq(Build)
    BY BodyFits DEF Inv, Typed, Fits
  <2>3. Hooked(c) \in SUBSET Leads(Body(plan), c)
    BY DEF Hooked
  <2>4. Cardinality(Hooked(c)) \in Nat
    BY <2>2, <2>3, LeadsFinite, FS_Subset, FS_CardinalityType
  <2> QED BY <2>1, <2>4
<1> QED BY <1>2, <1>3, <1>4, <1>5, <1>6, <1>7 DEF Inv

LEMMA KillStep ==
  ASSUME Inv, Kill
  PROVE  Inv'
<1>1. /\ UNCHANGED <<backend, plan, chains, jumps, divert>>
      /\ alive' = FALSE /\ job' = "none" /\ at' = 1 /\ connected' = FALSE
      /\ stale' = (chains # <<>> \/ divert)
  BY DEF Kill, kernel
<1>2. Standing' /\ Few' /\ Sweeping' /\ Building' /\ Dropping'
  BY <1>1, AtStart
<1>3. Typed' /\ Kernel'
  <2>1. stale' \in BOOLEAN
    BY <1>1
  <2>2. alive' \in BOOLEAN /\ connected' \in BOOLEAN
    BY <1>1
  <2> QED BY <1>1, <2>1, <2>2 DEF Inv, Typed, Kernel, Jobs
<1>4. InOrder'
  BY <1>1 DEF InOrder
<1>5. Clean'
  <2>1. chains = <<>> => jumps = NoJumps
    BY NothingLeft DEF Inv
  <2> QED BY <1>1, <2>1 DEF Clean, Empty
<1> QED BY <1>2, <1>3, <1>4, <1>5 DEF Inv

LEMMA RestartStep ==
  ASSUME Inv, Restart
  PROVE  Inv'
<1>1. /\ UNCHANGED <<backend, plan, connected, chains, jumps, divert, stale>>
      /\ job = "none" /\ ~connected /\ alive' = TRUE /\ at' = 1
      /\ job' \in {"clear", "none"}
  BY DEF Restart, kernel, history, Inv, InOrder
<1>2. Standing' /\ Few' /\ Sweeping' /\ Building' /\ Dropping'
  BY <1>1, AtStart
<1>3. Typed' /\ Kernel'
  BY <1>1 DEF Inv, Typed, Kernel, Jobs
<1>4. InOrder'
  BY <1>1 DEF InOrder
<1>5. Clean'
  BY <1>1 DEF Inv, Clean, Empty
<1> QED BY <1>2, <1>3, <1>4, <1>5 DEF Inv

\* The daemon's record and the kernel agree at every step of every operation:
\* what a revert has not removed yet is what its commands from here on remove,
\* and what an application put there a revert can remove.
THEOREM FirewallInvariant == Spec => []Inv
<1>1. Init => Inv
  BY InitInv
<1>2. Inv /\ [Next]_vars => Inv'
  <2> SUFFICES ASSUME Inv, [Next]_vars PROVE Inv'
    OBVIOUS
  <2>1. ASSUME NEW p \in Plans, Connect(p) PROVE Inv'
    BY <2>1, ConnectStep
  <2>2. ASSUME NEW p \in Plans, Reapply(p) PROVE Inv'
    BY <2>2, ReapplyStep
  <2>3. CASE Disconnect
    BY <2>3, DisconnectStep
  <2>4. CASE NextCommand
    BY <2>4, CommandStep
  <2>5. CASE Refuse
    BY <2>5, RefuseStep
  <2>6. CASE Done
    BY <2>6, DoneStep
  <2>7. CASE Wipe
    BY <2>7, WipeStep
  <2>8. CASE Kill
    BY <2>8, KillStep
  <2>9. CASE Restart
    BY <2>9, RestartStep
  <2>10. CASE UNCHANGED vars
    BY <2>10 DEF vars, kernel, history, Inv, Typed, Kernel, Standing, Few,
                 Sweeping, Building, Dropping, InOrder, Clean, Empty, Hits,
                 Unjumps, Hooked
  <2> QED
    BY <2>1, <2>2, <2>3, <2>4, <2>5, <2>6, <2>7, <2>8, <2>9, <2>10, Zenon DEF Next
<1> QED BY <1>1, <1>2, PTL DEF Spec

\* A daemon that is disconnected and at rest has left nothing of its own in
\* the kernel: fw.go's Revert, for every plan and both backends, wherever the
\* rules were flushed by somebody else or an application was refused.
THEOREM RevertAlwaysCleans == Spec => []RevertLeavesNothing
<1>1. Inv => RevertLeavesNothing
  BY DEF Inv, Clean, Empty, RevertLeavesNothing, Idle
<1> QED BY <1>1, FirewallInvariant, PTL

-----------------------------------------------------------------------------
\* What a killed daemon leaves, and what the next one sees of it.

\* An application finds every chain it has made so far.
Built ==
  backend = "ipt" /\ job \in Applies =>
    \A c \in Chains : \A i \in 1..Len(Body(plan)) :
      Sweeps + i < at /\ Body(plan)[i] = New(c) => c \in DOMAIN chains
\* What captures the router's own connections is not there alone.
Anchored ==
  backend = "ipt" =>
    /\ Hits(Out("nat")) # 0 => \/ Pre("nat") \in DOMAIN chains
                              \/ Pre("mangle") \in DOMAIN chains
    /\ Hits(Out("mangle")) # 0 => Mark \in DOMAIN chains
\* A daemon at rest that is not connected sees nothing.
Overlooked ==
  alive /\ job = "none" /\ (~connected \/ ~UsesFirewall(plan)) => ~Installed
Relics == QuicOnly /\ Built /\ Anchored /\ Overlooked

LEMMA HitsCounted == Kernel => \A c \in Chains : Hits(c) \in Nat
BY NothingHooked, ToFinite DEF Kernel, Hits

LEMMA RelicsSwept ==
  ASSUME Inv, Relics, NextCommand, backend = "ipt", at <= Sweeps
  PROVE  QuicOnly' /\ Built' /\ Anchored'
<1> DEFINE cmd == IptRevert[at]
<1>1. /\ Kernel /\ Standing /\ Sweeping /\ divert \in BOOLEAN /\ QuicOnly /\ Anchored
      /\ Sweeps \in Nat /\ at \in Nat
  BY SweepPlaces DEF Inv, Typed, Relics
<1>2. /\ Execute(cmd) /\ at' = at + 1 /\ job # "none" /\ at \in 1..Sweeps
      /\ UNCHANGED <<backend, plan, job>> /\ cmd \in Sweep(Chains) \cup {Undivert}
  BY IptCommand
<1> HIDE DEF cmd
<1>3. /\ QuicOnly'
      /\ \A c \in DOMAIN chains : c \in DOMAIN chains' \/ cmd = Cmd("delete", c)
  BY <1>1, <1>2, ChainsSwept
<1>4. \A c \in Chains : Hits(c) \in Nat /\ Hits(c)' \in Nat /\ Hits(c)' <= Hits(c)
  BY <1>1, <1>2, SweepStep
<1>5. \A c \in Chains : Hits(c) <= Cardinality(Unjumps(c))
  BY <1>1, <1>2 DEF Sweeping
<1>6. ASSUME NEW d, NEW c \in Chains, Behind(IptRevert, d, c), cmd = Cmd("delete", d)
      PROVE  Hits(c)' = 0
  <2>1. Unjumps(c) = {}
    <3> SUFFICES ASSUME NEW k \in 1..Sweeps, k >= at, IptRevert[k] = Cmd("unjump", c)
                 PROVE  FALSE
      BY DEF Unjumps
    <3>1. k \in at..Len(IptRevert) /\ at \in 1..Len(IptRevert)
      BY <1>1, <1>2 DEF Sweeps
    <3> QED BY <1>6, <3>1 DEF Behind, cmd
  <2>2. Cardinality(Unjumps(c)) = 0
    BY ONLY <2>1, FS_EmptySet
  <2>3. Hits(c) \in Nat /\ Hits(c)' \in Nat /\ Hits(c)' <= Hits(c) /\ Hits(c) <= 0
    BY <1>4, <1>5, <2>2
  <2> QED BY ONLY <2>3
<1>7. Anchored'
  <2>1. ASSUME Hits(Out("nat"))' # 0
        PROVE  Pre("nat") \in DOMAIN chains' \/ Pre("mangle") \in DOMAIN chains'
    <3>1. Hits(Out("nat")) # 0
      BY <1>4, <2>1, ChainsNamed
    <3>2. cmd # Cmd("delete", Pre("nat")) /\ cmd # Cmd("delete", Pre("mangle"))
      BY <1>6, <2>1, RevertInOrder, ChainsNamed
    <3> QED BY <1>1, <1>2, <1>3, <3>1, <3>2 DEF Anchored
  <2>2. ASSUME Hits(Out("mangle"))' # 0
        PROVE  Mark \in DOMAIN chains'
    <3>1. Hits(Out("mangle")) # 0
      BY <1>4, <2>2, ChainsNamed
    <3>2. cmd # Cmd("delete", Mark)
      BY <1>6, <2>2, RevertInOrder, ChainsNamed
    <3> QED BY <1>1, <1>2, <1>3, <3>1, <3>2 DEF Anchored
  <2> QED BY <2>1, <2>2 DEF Anchored
<1>8. Built'
  <2>1. \A i \in 1..Len(Body(plan)) : ~(Sweeps + i < at + 1)
    BY <1>1, <1>2
  <2> QED BY <1>2, <2>1 DEF Built
<1> QED BY <1>3, <1>7, <1>8

LEMMA RelicsBuilt ==
  ASSUME Inv, Relics, NextCommand, backend = "ipt", at > Sweeps
  PROVE  QuicOnly' /\ Built' /\ Anchored'
<1> DEFINE b == Body(plan)
           m == at - Sweeps
           cmd == b[m]
<1>1. /\ Kernel /\ Standing /\ divert \in BOOLEAN /\ QuicOnly /\ Anchored /\ Built
      /\ Sweeps \in Nat /\ at \in Nat /\ plan \in Plans
  BY SweepPlaces DEF Inv, Typed, Relics
<1>2. /\ Execute(cmd) /\ Possible(cmd) /\ at' = at + 1 /\ job \in Applies
      /\ m \in 1..Len(b) /\ cmd \in Build
      /\ UNCHANGED <<backend, plan, job>>
  BY IptCommand
<1>3. b \in Seq(Build) /\ DOMAIN b = 1..Len(b) /\ Len(b) \in Nat
  BY <1>1, BodyFits DEF Fits
<1>4. /\ Follows(b, {Pre("nat"), Pre("mangle")}, Out("nat"))
      /\ Follows(b, {Mark}, Out("mangle"))
  BY <1>1, BodyInOrder
<1>5. \A c \in Chains : \A i \in 1..Len(b) :
        Sweeps + i < at /\ b[i] = New(c) => c \in DOMAIN chains
  BY <1>1, <1>2 DEF Built
<1> HIDE DEF cmd, b
<1>6. /\ DOMAIN chains \subseteq DOMAIN chains' /\ QuicOnly'
      /\ \A c \in Chains : cmd = New(c) => c \in DOMAIN chains'
  BY <1>1, <1>2, ChainsBuilt
<1>7. \A c \in Chains :
        /\ Hits(c) \in Nat /\ Hits(c)' \in Nat
        /\ Hits(c)' <= Hits(c) + (IF cmd.op = "jump" /\ cmd.arg.to = c THEN 1 ELSE 0)
  <2>1. /\ Kernel'
        /\ \A c \in Chains :
             Hits(c)' <= Hits(c) + (IF cmd.op = "jump" /\ cmd.arg.to = c THEN 1 ELSE 0)
    BY <1>1, <1>2, BuildStep
  <2>2. \A c \in Chains : Hits(c)' \in Nat
    BY <2>1, NothingHooked, ToFinite DEF Kernel, Hits
  <2> QED BY <1>1, <2>1, <2>2, HitsCounted
<1>8. ASSUME NEW D \in SUBSET Chains, NEW c \in Chains, Follows(b, D, c),
             Hits(c)' # 0, Hits(c) # 0 => \E d \in D : d \in DOMAIN chains
      PROVE  \E d \in D : d \in DOMAIN chains'
  <2>1. CASE Hits(c) # 0
    BY <1>6, <1>8, <2>1
  <2>2. CASE Hits(c) = 0
    <3>1. cmd.op = "jump" /\ cmd.arg.to = c
      BY <1>7, <1>8, <2>2
    <3>2. m \in Leads(b, c)
      BY <1>2, <1>3, <3>1 DEF Leads, cmd
    <3>3. PICK d \in D, i \in 1..(m - 1) : b[i] = New(d)
      BY <1>8, <3>2 DEF Follows
    <3>4. i \in 1..Len(b) /\ Sweeps + i < at
      BY <1>1, <1>2, <1>3, <3>3
    <3>5. d \in DOMAIN chains
      BY <1>5, <3>3, <3>4
    <3> QED BY <1>6, <3>5
  <2> QED BY <2>1, <2>2
<1>9. Anchored'
  <2> DEFINE D == {Pre("nat"), Pre("mangle")}
  <2>1. ASSUME Hits(Out("nat"))' # 0
        PROVE  Pre("nat") \in DOMAIN chains' \/ Pre("mangle") \in DOMAIN chains'
    <3>1. \E d \in D : d \in DOMAIN chains'
      <4>1. D \in SUBSET Chains /\ Out("nat") \in Chains
        BY ChainsNamed
      <4>2. Hits(Out("nat")) # 0 => \E d \in D : d \in DOMAIN chains
        BY <1>1 DEF Anchored
      <4> QED BY <1>4, <1>8, <2>1, <4>1, <4>2
    <3> QED BY <3>1
  <2>2. ASSUME Hits(Out("mangle"))' # 0
        PROVE  Mark \in DOMAIN chains'
    <3>1. \E d \in {Mark} : d \in DOMAIN chains'
      <4>1. {Mark} \in SUBSET Chains /\ Out("mangle") \in Chains
        BY ChainsNamed
      <4>2. Hits(Out("mangle")) # 0 => \E d \in {Mark} : d \in DOMAIN chains
        BY <1>1 DEF Anchored
      <4> QED BY <1>4, <1>8, <2>2, <4>1, <4>2
    <3> QED BY <3>1
  <2> QED BY <2>1, <2>2 DEF Anchored
<1>10. Built'
  <2> SUFFICES ASSUME NEW c \in Chains, NEW i \in 1..Len(b), Sweeps + i < at + 1,
                      b[i] = New(c)
               PROVE  c \in DOMAIN chains'
    BY <1>2 DEF Built, b
  <2>1. CASE Sweeps + i < at
    BY <1>5, <1>6, <2>1
  <2>2. CASE i = m
    BY <1>6, <2>2 DEF cmd
  <2> QED BY <1>1, <1>3, <2>1, <2>2
<1> QED BY <1>6, <1>9, <1>10

\* What is at rest in the kernel stays as it is.
LEMMA RelicsKept ==
  ASSUME Inv, Relics, UNCHANGED <<backend, chains, jumps>>, at' = 1
  PROVE  QuicOnly' /\ Built' /\ Anchored' /\ Installed' = Installed
<1>1. QuicOnly' /\ Anchored' /\ Installed' = Installed
  BY DEF Relics, QuicOnly, Anchored, Hits, Installed
<1>2. Built'
  <2>1. Sweeps \in Nat /\ Sweeps >= 1 /\ Sweeps' = Sweeps
    BY SweepPlaces
  <2>2. \A i \in 1..Len(Body(plan')) : ~(Sweeps + i < 1)
    BY <2>1
  <2> QED BY <2>2 DEF Built
<1> QED BY <1>1, <1>2

LEMMA NothingSeen == chains = <<>> => ~Installed
BY DEF Installed

LEMMA RelicsStep ==
  ASSUME ~TornWipes, Inv, Relics, [Next]_vars
  PROVE  Relics'
<1>1. Overlooked /\ backend \in {"nft", "ipt"}
  BY BackendsAssumption DEF Relics, Inv, Typed
<1>2. ASSUME NEW p \in Plans, Connect(p) PROVE Relics'
  <2>1. /\ UNCHANGED <<backend, alive, chains, jumps>> /\ at' = 1
        /\ job = "none" /\ alive /\ ~connected
    BY <1>2 DEF Connect, Idle, kernel, Inv, InOrder
  <2> QED BY <1>1, <2>1, RelicsKept DEF Relics, Overlooked
<1>3. CASE Disconnect
  <2>1. /\ UNCHANGED <<backend, plan, alive, chains, jumps>> /\ at' = 1
        /\ job = "none" /\ alive
        /\ job' = IF UsesFirewall(plan) THEN "disconnect" ELSE "none"
    BY <1>3 DEF Disconnect, Idle, kernel, history, Inv, InOrder
  <2> QED BY <1>1, <2>1, RelicsKept DEF Relics, Overlooked
<1>4. ASSUME NEW p \in Plans, Reapply(p) PROVE Relics'
  <2>1. /\ UNCHANGED <<backend, alive, chains, jumps, connected>> /\ at' = 1
        /\ job = "none" /\ alive
        /\ \/ job' = "reapply"
           \/ plan' = plan /\ job' = job
    BY <1>4 DEF Reapply, Idle, kernel, Inv, InOrder
  <2> QED BY <1>1, <2>1, RelicsKept DEF Relics, Overlooked
<1>5. CASE NextCommand
  <2>1. backend' = backend /\ job' = job /\ job # "none" /\ at \in Nat /\ Sweeps \in Nat
    BY <1>5, SweepPlaces DEF NextCommand, Inv, Typed
  <2>2. Overlooked'
    BY <2>1 DEF Overlooked
  <2>3. CASE backend = "nft"
    BY <2>1, <2>2, <2>3 DEF Relics, QuicOnly, Built, Anchored
  <2>4. CASE backend = "ipt"
    BY <1>5, <2>1, <2>2, <2>4, RelicsSwept, RelicsBuilt DEF Relics
  <2> QED BY <1>1, <2>3, <2>4
<1>6. CASE Refuse
  <2>1. /\ UNCHANGED <<backend, plan, alive, chains, jumps, connected>> /\ at' = 1
        /\ \/ job' \in {"disconnect", "unwind"}
           \/ job = "reapply" /\ job' = "none"
    BY <1>6 DEF Refuse, kernel
  <2>2. job = "reapply" => connected /\ UsesFirewall(plan)
    BY DEF Inv, InOrder
  <2>3. UsesFirewall(plan)' = UsesFirewall(plan)
    BY <2>1
  <2> QED BY <1>1, <2>1, <2>2, <2>3, RelicsKept DEF Relics, Overlooked
<1>7. CASE Done
  <2>1. /\ UNCHANGED <<backend, plan, alive, chains, jumps>> /\ at' = 1
        /\ job # "none" /\ job' = "none" /\ at > Len(Program)
        /\ connected' = (job \in {"connect", "reapply", "unwind"})
    BY <1>7 DEF Done, kernel, history
  <2>2. CASE job \in {"connect", "reapply", "unwind"}
    <3>1. UsesFirewall(plan) /\ UsesFirewall(plan)' = UsesFirewall(plan)
      BY <2>1, <2>2 DEF Inv, InOrder
    <3> QED BY <2>1, <2>2, <3>1, RelicsKept DEF Relics, Overlooked
  <2>3. CASE job \notin {"connect", "reapply", "unwind"}
    <3>1. Empty
      BY <2>1, <2>3, Reverted DEF Applies
    <3>2. ~Installed
      BY <3>1, NothingSeen DEF Empty
    <3> QED BY <2>1, <3>2, RelicsKept DEF Relics, Overlooked
  <2> QED BY <2>2, <2>3
<1>8. CASE Wipe
  <2>1. /\ UNCHANGED <<backend, plan, job, at, connected, alive>>
        /\ chains' = <<>> /\ jumps' = NoJumps
        /\ backend = "nft" \/ job \notin Applies
    BY <1>8 DEF Wipe, Applies
  <2>2. /\ DOMAIN chains' = {} /\ \A c \in Chains : Hits(c)' = 0
    BY <2>1, <1>8, FlushedStep DEF Wipe
  <2>3. Overlooked'
    <3>1. DOMAIN chains' = {} => ~Installed'
      BY DEF Installed
    <3> QED BY <2>2, <3>1 DEF Overlooked
  <2>4. QuicOnly' /\ Built' /\ Anchored'
    BY <2>1, <2>2, ChainsNamed DEF QuicOnly, Built, Anchored
  <2> QED BY <2>3, <2>4 DEF Relics
<1>9. CASE Kill
  <2>1. UNCHANGED <<backend, chains, jumps>> /\ at' = 1 /\ alive' = FALSE
    BY <1>9 DEF Kill, kernel
  <2> QED BY <2>1, RelicsKept DEF Relics, Overlooked
<1>10. CASE Restart
  <2>1. /\ UNCHANGED <<backend, chains, jumps>> /\ at' = 1
        /\ job' = IF Installed THEN "clear" ELSE "none"
    BY <1>10 DEF Restart, kernel, history, Inv, InOrder
  <2> QED BY <2>1, RelicsKept DEF Relics, Overlooked
<1>11. CASE UNCHANGED vars
  <2>1. UNCHANGED <<backend, plan, job, at, connected, alive, chains, jumps>>
    BY <1>11 DEF vars, kernel
  <2>2. QuicOnly' = QuicOnly /\ Built' = Built
    BY <2>1 DEF QuicOnly, Built, Body
  <2>3. Anchored' = Anchored
    BY <2>1 DEF Anchored, Hits
  <2>4. Overlooked' = Overlooked
    BY <2>1 DEF Overlooked, Installed, UsesFirewall
  <2> QED BY <2>2, <2>3, <2>4 DEF Relics
<1> QED
  BY <1>2, <1>3, <1>4, <1>5, <1>6, <1>7, <1>8, <1>9, <1>10, <1>11, Zenon DEF Next

LEMMA InitRelics == Init => Relics
<1> SUFFICES ASSUME Init PROVE Relics
  OBVIOUS
<1>1. chains = <<>> /\ jumps = NoJumps /\ job = "none" /\ DOMAIN chains = {}
  BY DEF Init
<1>2. \A c \in Chains : Hits(c) = 0
  BY <1>1, NothingHooked DEF Hits
<1>3. ~Installed
  BY <1>1, NothingSeen
<1> QED BY <1>1, <1>2, <1>3, ChainsNamed
           DEF Relics, QuicOnly, Built, Anchored, Overlooked, Applies

\* A packet that no chain at a hook has a verdict for passes it.
LEMMA Passed ==
  ASSUME NEW h, NEW p, jumps[h] \in Seq(Jumps),
         \A i \in 1..Len(jumps[h]) : ChainVerdict(jumps[h][i].to, p) = "return"
  PROVE  Verdict(h, p) = "accept"
BY DEF Verdict, SelectInSeq

LEMMA NotQuic ==
  ASSUME NEW c, NEW p, chains[c] \in Seq(QuicRules), p.kind # "quic"
  PROVE  ChainVerdict(c, p) = "return"
<1> DEFINE s == chains[c]
           I == {i \in 1..Len(s) : Matches(s[i], p)}
           k == IF I # {} THEN Min(I) ELSE 0
<1>1. ChainVerdict(c, p) = IF k = 0 THEN "return" ELSE s[k].do
  BY DEF ChainVerdict, SelectInSeq
<1>2. CASE I = {}
  BY <1>1, <1>2
<1>3. CASE I # {}
  <2>1. k \in I
    <3>1. I \in SUBSET Nat
      OBVIOUS
    <3> HIDE DEF I
    <3>2. \E n \in I : \A j \in I : n <= j
      BY <1>3, <3>1, LeastElement
    <3> QED BY <1>3, <3>2 DEF Min
  <2>2. k \in 1..Len(s) /\ Matches(s[k], p)
    BY <2>1
  <2>3. s[k] \in QuicRules
    <3> HIDE DEF k, I
    <3> QED BY <2>2
  <2>4. s[k].on # "quic"
    <3> HIDE DEF k, I
    <3> QED BY <2>2 DEF Matches
  <2>5. s[k].do = "return"
    BY <2>3, <2>4 DEF QuicRules
  <2> QED BY <1>1, <2>5
<1> QED BY <1>2, <1>3

\* Whoever is at rest without a connection sees no chain, so that no hook has a
\* jump but the one for what is forwarded, and that only to the QUIC block.
LEMMA HooksBare ==
  ASSUME Inv, Relics, ~Installed
  PROVE  /\ backend = "nft" => \A h \in Hooks : jumps[h] = <<>>
         /\ backend = "ipt" =>
              \A h \in Hooks : \A i \in 1..Len(jumps[h]) :
                /\ h = HookOf(Quic) /\ jumps[h][i].to = Quic
                /\ Quic \in DOMAIN chains
<1>1. Kernel /\ Standing /\ Anchored
  BY DEF Inv, Relics
<1>2. CASE backend = "nft"
  <2>0. DOMAIN chains = {}
    <3> DEFINE seen == {<<t, d>> : t \in {"nat", "mangle"}, d \in {"PRE", "MARK"}}
    <3>1. Installed = IF backend = "nft" THEN DOMAIN chains # {}
                      ELSE DOMAIN chains \cap seen # {}
      BY DEF Installed
    <3> HIDE DEF seen
    <3> QED BY <1>2, <3>1
  <2>1. chains = <<>>
    BY <1>1, <2>0, NothingLeft
  <2> QED BY <1>1, <1>2, <2>1, NothingLeft, NothingHooked
<1>3. ASSUME backend = "ipt", NEW h \in Hooks, NEW i \in 1..Len(jumps[h])
      PROVE  /\ h = HookOf(Quic) /\ jumps[h][i].to = Quic
             /\ Quic \in DOMAIN chains
  <2> DEFINE c == jumps[h][i].to
  <2>1. jumps[h] \in Seq(Jumps) /\ i \in DOMAIN jumps[h]
    BY <1>1, <1>3 DEF Kernel
  <2>2. c \in DOMAIN chains /\ HookOf(c) = h /\ c \in Chains
    BY <1>1, <2>1 DEF Standing, Kernel
  <2>3. Hits(c) # 0
    <3>1. i \in To(jumps[h], c)
      BY <2>1 DEF To
    <3> HIDE DEF c
    <3>2. IsFiniteSet(To(jumps[h], c))
      BY <2>1, ToFinite
    <3> QED BY <2>2, <3>1, <3>2, FS_EmptySet DEF Hits
  <2>4. /\ Pre("nat") \notin DOMAIN chains /\ Pre("mangle") \notin DOMAIN chains
        /\ Mark \notin DOMAIN chains
    <3>1. DOMAIN chains \cap {<<t, d>> : t \in {"nat", "mangle"},
                                         d \in {"PRE", "MARK"}} = {}
      BY <1>3 DEF Installed
    <3> QED BY <3>1 DEF Pre, Mark
  <2>5. c # Out("nat") /\ c # Out("mangle")
    BY <1>1, <1>3, <2>3, <2>4 DEF Anchored
  <2>6. c = Quic
    BY <2>2, <2>4, <2>5 DEF Chains
  <2> QED BY <2>2, <2>6
<1> QED BY <1>2, <1>3

LEMMA HooksNamed ==
  /\ \A t \in {"nat", "mangle"}, side \in {"PREROUTING", "OUTPUT"} :
       <<t, side>> \in Hooks /\ <<t, side>> # HookOf(Quic)
  /\ <<"filter", "FORWARD">> \in Hooks
<1>1. /\ HookOf(Pre("nat")) = <<"nat", "PREROUTING">>
      /\ HookOf(Pre("mangle")) = <<"mangle", "PREROUTING">>
      /\ HookOf(Out("nat")) = <<"nat", "OUTPUT">>
      /\ HookOf(Out("mangle")) = <<"mangle", "OUTPUT">>
      /\ HookOf(Quic) = <<"filter", "FORWARD">>
  BY DEF HookOf, Pre, Out, Quic
<1> QED BY <1>1, ChainsNamed, NothingHooked

LEMMA Unharmed == Inv /\ Relics => KillBlackHolesNobody
<1> SUFFICES ASSUME Inv, Relics, Idle, ~connected, NEW p \in Packets
             PROVE  \/ Fate(p) = "direct"
                    \/ backend = "ipt" /\ p.kind = "quic"
  BY DEF KillBlackHolesNobody
<1>1. /\ Kernel /\ QuicOnly /\ ~Installed /\ backend \in {"nft", "ipt"}
  BY BackendsAssumption DEF Inv, Relics, Overlooked, Idle, Typed
<1>2. \A marked \in BOOLEAN : Routed(p, marked) = "direct"
  BY DEF Idle, TunnelUp, Routed
<1>3. \A h \in Hooks : jumps[h] \in Seq(Jumps)
  BY <1>1 DEF Kernel
<1>4. ASSUME NEW h \in Hooks, h # HookOf(Quic)
      PROVE  Verdict(h, p) = "accept"
  <2>1. \A i \in 1..Len(jumps[h]) : FALSE
    BY <1>1, <1>4, HooksBare
  <2> QED BY <1>3, <2>1, Passed
<1>5. ASSUME backend = "nft" \/ p.kind # "quic"
      PROVE  Verdict(<<"filter", "FORWARD">>, p) = "accept"
  <2> DEFINE h == <<"filter", "FORWARD">>
  <2>1. h \in Hooks
    BY HooksNamed
  <2> HIDE DEF h
  <2>2. ASSUME NEW i \in 1..Len(jumps[h])
        PROVE  ChainVerdict(jumps[h][i].to, p) = "return"
    <3>1. backend = "ipt" /\ jumps[h][i].to = Quic /\ Quic \in DOMAIN chains
      BY <1>1, <2>1, <2>2, HooksBare
    <3>2. chains[Quic] \in Seq(QuicRules) /\ p.kind # "quic"
      BY <1>1, <1>5, <3>1 DEF QuicOnly
    <3> QED BY <3>1, <3>2, NotQuic
  <2>3. Verdict(h, p) = "accept"
    BY <1>3, <2>1, <2>2, Passed
  <2> QED BY <2>3 DEF h
<1>6. ASSUME backend = "nft" \/ p.kind # "quic"
      PROVE  Fate(p) = "direct"
  <2> DEFINE side == IF Sent(p) THEN "PREROUTING" ELSE "OUTPUT"
             m == Verdict(<<"mangle", side>>, p)
             n == Verdict(<<"nat", side>>, p)
  <2>1. m = "accept" /\ n = "accept"
    <3>1. side \in {"PREROUTING", "OUTPUT"}
      OBVIOUS
    <3> HIDE DEF side
    <3> QED BY <1>4, <3>1, HooksNamed
  <2>2. Handed(p) = CASE m \in {"tproxy", "tproxyDns"} ->
                         IF ~divert THEN "lost"
                         ELSE IF m = "tproxy" THEN "core" ELSE "dns"
                    [] m \notin {"tproxy", "tproxyDns"} /\ n \in {"core", "dns"} -> n
                    [] OTHER ->
                         IF Sent(p) /\ Verdict(<<"filter", "FORWARD">>, p) = "reject"
                         THEN "refused" ELSE Routed(p, m = "mark")
    BY DEF Handed
  <2> HIDE DEF m, n
  <2>3. Routed(p, m = "mark") = "direct"
    BY <1>2
  <2>4. Verdict(<<"filter", "FORWARD">>, p) # "reject"
    BY <1>5, <1>6
  <2>5. Handed(p) = "direct"
    BY <2>1, <2>2, <2>3, <2>4
  <2> QED BY <2>5 DEF Fate
<1> QED BY <1>1, <1>6

\* Wherever the daemon was killed, in the middle of an application or of a
\* revert, the next one leaves no client cut off from the internet, although it
\* reverts only what Installed sees: ClearStaleState under fw.go.  Of iptables
\* this supposes that nobody flushes the rules in the middle of an Apply, or
\* what captures the router's own connections would be left alone and unseen.
THEOREM KillsAreHarmless == ~TornWipes => (Spec => []KillBlackHolesNobody)
<1> SUFFICES ASSUME ~TornWipes PROVE Spec => []KillBlackHolesNobody
  OBVIOUS
<1>1. Inv /\ Relics /\ [Next]_vars => Relics'
  BY RelicsStep
<1>2. Spec => []Relics
  BY <1>1, InitRelics, FirewallInvariant, PTL DEF Spec
<1> QED BY <1>2, Unharmed, FirewallInvariant, PTL

-----------------------------------------------------------------------------
\* The verdict of a list of rules: that of the first one that matches.

FirstHit(R, p) ==
  LET i == SelectInSeq(R, LAMBDA r : Matches(r, p))
  IN IF i = 0 THEN "return" ELSE R[i].do

LEMMA LeastIs ==
  ASSUME NEW I \in SUBSET Nat, NEW k \in I, \A i \in I : k <= i
  PROVE  Min(I) = k
<1>1. \E n \in I : \A i \in I : n <= i
  OBVIOUS
<1>2. Min(I) \in I /\ \A i \in I : Min(I) <= i
  BY <1>1 DEF Min
<1>3. Min(I) <= k /\ k <= Min(I) /\ Min(I) \in Nat /\ k \in Nat
  BY <1>2
<1> QED BY <1>3

LEMMA HitIsFirst ==
  ASSUME NEW S, NEW R \in Seq(S), NEW p
  PROVE  /\ (\A i \in 1..Len(R) : ~Matches(R[i], p)) => FirstHit(R, p) = "return"
         /\ \A k \in 1..Len(R) :
              Matches(R[k], p) /\ (\A i \in 1..(k - 1) : ~Matches(R[i], p))
                => FirstHit(R, p) = R[k].do
<1> DEFINE I == {i \in 1..Len(R) : Matches(R[i], p)}
<1>1. Len(R) \in Nat
  OBVIOUS
<1>2. FirstHit(R, p) = LET i == IF I # {} THEN Min(I) ELSE 0
                       IN IF i = 0 THEN "return" ELSE R[i].do
  BY DEF FirstHit, SelectInSeq
<1>3. (\A i \in 1..Len(R) : ~Matches(R[i], p)) => I = {}
  OBVIOUS
<1>4. ASSUME NEW k \in 1..Len(R), Matches(R[k], p),
             \A i \in 1..(k - 1) : ~Matches(R[i], p)
      PROVE  I # {} /\ Min(I) = k /\ k # 0
  <2>1. k \in I /\ I \in SUBSET Nat
    BY <1>4
  <2>2. \A i \in I : k <= i
    <3> SUFFICES ASSUME NEW i \in I, ~(k <= i) PROVE FALSE
      OBVIOUS
    <3>1. i \in 1..(k - 1) /\ Matches(R[i], p)
      BY <1>1
    <3> QED BY <1>4, <3>1
  <2> HIDE DEF I
  <2> QED BY <2>1, <2>2, LeastIs
<1> HIDE DEF I
<1>5. ASSUME NEW k \in 1..Len(R), Matches(R[k], p),
             \A i \in 1..(k - 1) : ~Matches(R[i], p)
      PROVE  FirstHit(R, p) = R[k].do
  <2>1. I # {} /\ Min(I) = k /\ k # 0
    BY <1>4, <1>5
  <2> QED BY <1>2, <2>1
<1> QED BY <1>2, <1>3, <1>5

LEMMA FirstOfMore ==
  ASSUME NEW S, NEW R \in Seq(S), NEW r \in S, NEW p
  PROVE  FirstHit(<<r>> \o R, p) = IF Matches(r, p) THEN r.do ELSE FirstHit(R, p)
<1> DEFINE u == <<r>> \o R
<1>1. /\ u \in Seq(S) /\ Len(u) = 1 + Len(R) /\ Len(R) \in Nat /\ u[1] = r
      /\ \A i \in 1..Len(R) : u[1 + i] = R[i]
  OBVIOUS
<1> HIDE DEF u
<1>2. CASE Matches(r, p)
  <2>1. 1 \in 1..Len(u) /\ \A i \in 1..(1 - 1) : ~Matches(u[i], p)
    BY <1>1
  <2> QED BY <1>1, <1>2, <2>1, HitIsFirst DEF u
<1>3. CASE ~Matches(r, p) /\ \A i \in 1..Len(R) : ~Matches(R[i], p)
  <2>1. ASSUME NEW i \in 1..Len(u)
        PROVE  ~Matches(u[i], p)
    <3>1. i = 1 \/ (i - 1 \in 1..Len(R) /\ i = 1 + (i - 1))
      BY <1>1
    <3>2. CASE i = 1
      BY <1>1, <1>3, <3>2
    <3>3. CASE i - 1 \in 1..Len(R) /\ i = 1 + (i - 1)
      BY <1>1, <1>3, <3>3
    <3> QED BY <3>1, <3>2, <3>3
  <2> QED BY <1>1, <1>3, <2>1, HitIsFirst DEF u
<1>4. CASE ~Matches(r, p) /\ \E i \in 1..Len(R) : Matches(R[i], p)
  <2> DEFINE I == {i \in 1..Len(R) : Matches(R[i], p)}
  <2>1. I \in SUBSET Nat /\ I # {}
    BY <1>4
  <2>2. PICK k \in I : \A i \in I : k <= i
    BY <2>1, LeastElement
  <2>3. /\ k \in 1..Len(R) /\ Matches(R[k], p)
        /\ \A i \in 1..(k - 1) : ~Matches(R[i], p)
    <3>1. k \in 1..Len(R) /\ Matches(R[k], p)
      BY <2>2
    <3>2. ASSUME NEW i \in 1..(k - 1) PROVE ~Matches(R[i], p)
      <4>1. i \in 1..Len(R) /\ ~(k <= i)
        BY <1>1, <3>1
      <4> QED BY <2>2, <4>1
    <3> QED BY <3>1, <3>2
  <2> HIDE DEF I
  <2>4. 1 + k \in 1..Len(u) /\ u[1 + k] = R[k]
    BY <1>1, <2>3
  <2>5. ASSUME NEW i \in 1..((1 + k) - 1)
        PROVE  ~Matches(u[i], p)
    <3>1. i = 1 \/ (i - 1 \in 1..(k - 1) /\ i - 1 \in 1..Len(R) /\ i = 1 + (i - 1))
      BY <1>1, <2>3
    <3>2. CASE i = 1
      BY <1>1, <1>4, <3>2
    <3>3. CASE i - 1 \in 1..(k - 1) /\ i - 1 \in 1..Len(R) /\ i = 1 + (i - 1)
      BY <1>1, <2>3, <3>3
    <3> QED BY <3>1, <3>2, <3>3
  <2>6. FirstHit(u, p) = R[k].do
    <3>1. /\ u \in Seq(S) /\ 1 + k \in 1..Len(u) /\ Matches(u[1 + k], p)
          /\ \A i \in 1..((1 + k) - 1) : ~Matches(u[i], p)
      BY <1>1, <2>3, <2>4, <2>5
    <3>2. FirstHit(u, p) = u[1 + k].do
      BY ONLY <3>1, HitIsFirst
    <3> QED BY <2>4, <3>2
  <2>7. FirstHit(R, p) = R[k].do
    BY <2>3, HitIsFirst
  <2> QED BY <1>4, <2>6, <2>7 DEF u
<1> QED BY <1>2, <1>3, <1>4

LEMMA FirstOfNone ==
  ASSUME NEW p
  PROVE  FirstHit(<<>>, p) = "return"
<1>1. <<>> \in Seq({}) /\ Len(<<>>) = 0
  OBVIOUS
<1>2. \A i \in 1..Len(<<>>) : ~Matches(<<>>[i], p)
  BY <1>1
<1> QED BY <1>1, <1>2, HitIsFirst

LEMMA FirstOfOne ==
  ASSUME NEW S, NEW a \in S, NEW p
  PROVE  FirstHit(<<a>>, p) = IF Matches(a, p) THEN a.do ELSE "return"
<1> DEFINE u == <<a>>
<1>1. u \in Seq(S) /\ Len(u) = 1 /\ u[1] = a
  OBVIOUS
<1> HIDE DEF u
<1>2. CASE Matches(a, p)
  <2>1. 1 \in 1..Len(u) /\ \A i \in 1..(1 - 1) : ~Matches(u[i], p)
    BY <1>1
  <2> QED BY <1>1, <1>2, <2>1, HitIsFirst DEF u
<1>3. CASE ~Matches(a, p)
  <2>1. \A i \in 1..Len(u) : ~Matches(u[i], p)
    BY <1>1, <1>3
  <2> QED BY <1>1, <1>3, <2>1, HitIsFirst DEF u
<1> QED BY <1>2, <1>3

\* Two rules, and two rules before others.
LEMMA FirstOfTwo ==
  ASSUME NEW S, NEW R \in Seq(S), NEW a \in S, NEW b \in S, NEW p
  PROVE  /\ FirstHit(<<a, b>>, p) = IF Matches(a, p) THEN a.do
                                    ELSE IF Matches(b, p) THEN b.do ELSE "return"
         /\ FirstHit(<<a, b>> \o R, p) = IF Matches(a, p) THEN a.do
                                         ELSE IF Matches(b, p) THEN b.do
                                         ELSE FirstHit(R, p)
<1> DEFINE v == <<b>> \o R
           u == <<a, b>> \o R
           w == <<a>> \o v
<1>1. /\ v \in Seq(S) /\ Len(v) = 1 + Len(R) /\ v[1] = b /\ Len(R) \in Nat
      /\ \A i \in 1..Len(R) : v[1 + i] = R[i]
  OBVIOUS
<1>2. /\ u \in Seq(S) /\ Len(u) = 2 + Len(R) /\ u[1] = a /\ u[2] = b
      /\ \A i \in 1..Len(R) : u[2 + i] = R[i]
  OBVIOUS
<1> HIDE DEF v, u
<1>3. /\ w \in Seq(S) /\ Len(w) = 1 + Len(v) /\ w[1] = a
      /\ \A i \in 1..Len(v) : w[1 + i] = v[i]
  BY <1>1
<1> HIDE DEF w
<1>4. u = w
  <2>1. Len(u) = Len(w) /\ Len(u) \in Nat
    BY <1>1, <1>2, <1>3
  <2>2. ASSUME NEW i \in 1..Len(u) PROVE u[i] = w[i]
    <3>1. CASE i = 1
      BY <1>2, <1>3, <3>1
    <3>2. CASE i = 2
      <4>1. 1 \in 1..Len(v) /\ 2 = 1 + 1
        BY <1>1
      <4>2. w[2] = v[1]
        BY <1>3, <4>1
      <4> QED BY <1>1, <1>2, <3>2, <4>2
    <3>3. CASE i > 2
      <4>1. /\ i - 2 \in 1..Len(R) /\ i = 2 + (i - 2) /\ i - 1 \in 1..Len(v)
            /\ i = 1 + (i - 1) /\ i - 1 = 1 + (i - 2)
        BY <1>1, <1>2, <3>3
      <4>2. u[i] = R[i - 2] /\ w[i] = v[i - 1] /\ v[i - 1] = R[i - 2]
        BY <1>1, <1>2, <1>3, <4>1
      <4> QED BY <4>2
    <3> QED BY <1>1, <1>2, <3>1, <3>2, <3>3
  <2> QED BY <1>2, <1>3, <2>1, <2>2, SeqEqual
<1>5. FirstHit(w, p) = IF Matches(a, p) THEN a.do ELSE FirstHit(v, p)
  BY <1>1, FirstOfMore DEF w
<1>6. FirstHit(v, p) = IF Matches(b, p) THEN b.do ELSE FirstHit(R, p)
  BY FirstOfMore DEF v
<1>7. FirstHit(<<a, b>>, p) = IF Matches(a, p) THEN a.do
                              ELSE IF Matches(b, p) THEN b.do ELSE "return"
  <2> DEFINE t == <<b>>
  <2>1. t \in Seq(S) /\ <<a, b>> = <<a>> \o t
    <3> DEFINE x == <<a, b>>
               z == <<a>>
               y == z \o t
    <3>1. t \in Seq(S) /\ Len(t) = 1 /\ t[1] = b
      OBVIOUS
    <3>2. x \in Seq(S) /\ Len(x) = 2 /\ x[1] = a /\ x[2] = b
      OBVIOUS
    <3>0. z \in Seq(S) /\ Len(z) = 1 /\ z[1] = a
      OBVIOUS
    <3> HIDE DEF t, z
    <3>3. y \in Seq(S) /\ Len(y) = 2 /\ y[1] = a /\ y[2] = t[1]
      <4>1. /\ y \in Seq(S) /\ Len(y) = Len(z) + Len(t)
            /\ \A i \in 1..Len(z) : y[i] = z[i]
            /\ \A i \in 1..Len(t) : y[Len(z) + i] = t[i]
        <5>1. z \in Seq(S) /\ t \in Seq(S)
          BY <3>0, <3>1
        <5> QED BY ONLY <5>1, PlacesOfBoth
      <4> HIDE DEF y
      <4>2. 1 \in 1..Len(t) /\ 1 \in 1..Len(z) /\ Len(z) + 1 = 2
        BY <3>0, <3>1
      <4> QED BY <3>0, <3>1, <4>1, <4>2
    <3> HIDE DEF x, y
    <3>4. \A i \in 1..Len(x) : x[i] = y[i]
      BY <3>1, <3>2, <3>3
    <3>5. x = y
      BY <3>2, <3>3, <3>4, SeqEqual
    <3> QED BY <3>1, <3>5 DEF x, y, z
  <2>2. FirstHit(t, p) = IF Matches(b, p) THEN b.do ELSE "return"
    BY FirstOfOne
  <2> HIDE DEF t
  <2>3. FirstHit(<<a>> \o t, p) = IF Matches(a, p) THEN a.do ELSE FirstHit(t, p)
    BY <2>1, FirstOfMore
  <2> QED BY <2>1, <2>2, <2>3
<1> QED BY <1>4, <1>5, <1>6, <1>7 DEF u

-----------------------------------------------------------------------------
\* The rules of every chain, one list for both backends, and what they say of
\* a packet.

Made(p) == DOMAIN Ruleset(p)
ForClients(c) == c[2] # "OUT"
Guards(c) == IF ForClients(c) THEN <<On("mac", "return"), On("bypass", "return")>>
             ELSE OutputGuards
Own(c, p) ==
  CASE c = Pre("nat") -> IF NeedsFirewallCapture(p.mode) THEN NatChain(p)
                         ELSE DnsOnlyChain
    [] c = Mark -> UdpMarkChain(p)
    [] c = Pre("mangle") -> TProxyChain(p)
    [] c = Out("nat") -> <<On("tcp", "core")>>
    [] c = Out("mangle") -> If(p.hijack, <<On("dnsUdp", "return")>>)
                            \o <<On("udp", "mark")>>
    [] OTHER -> QuicChain
Inner(c, p) == Guards(c) \o Own(c, p)

\* A packet that reaches a chain, and the chain's verdict.
Comes(c, x) == x \in Packets /\ (ForClients(c) <=> Sent(x))
Judged(c, p, x) ==
  IF x.spared \/ x.to \in AllBypass \/ (x.from = "core" /\ ~ForClients(c))
  THEN "return"
  ELSE CASE c = Pre("nat") ->
              IF x.kind \in Dns /\ (p.hijack \/ p.mode = "tun") THEN "dns"
              ELSE IF x.kind \in Tcp /\ p.mode # "tun" THEN "core" ELSE "return"
         [] c = Mark ->
              IF x.kind \in Tcp \/ (x.kind \in Dns /\ p.hijack) THEN "return"
              ELSE "mark"
         [] c = Pre("mangle") ->
              IF x.kind \in Dns /\ p.hijack THEN "tproxyDns" ELSE "tproxy"
         [] c = Out("nat") -> IF x.kind \in Tcp THEN "core" ELSE "return"
         [] c = Out("mangle") ->
              IF x.kind \in Tcp \/ (x.kind = "dnsUdp" /\ p.hijack) THEN "return"
              ELSE "mark"
         [] OTHER -> IF x.kind = "quic" THEN "reject" ELSE "return"

LEMMA ChainsApart ==
  /\ Pre("nat") # Pre("mangle") /\ Pre("nat") # Mark /\ Pre("nat") # Out("nat")
  /\ Pre("nat") # Out("mangle") /\ Pre("nat") # Quic
  /\ Pre("mangle") # Mark /\ Pre("mangle") # Out("nat")
  /\ Pre("mangle") # Out("mangle") /\ Pre("mangle") # Quic
  /\ Mark # Out("nat") /\ Mark # Out("mangle") /\ Mark # Quic
  /\ Out("nat") # Out("mangle") /\ Out("nat") # Quic /\ Out("mangle") # Quic
  /\ ForClients(Pre("nat")) /\ ForClients(Pre("mangle")) /\ ForClients(Mark)
  /\ ForClients(Quic) /\ ~ForClients(Out("nat")) /\ ~ForClients(Out("mangle"))
BY DEF Pre, Mark, Out, Quic, ForClients

LEMMA MatchesOn ==
  ASSUME NEW x \in Packets, NEW v
  PROVE  /\ Matches(On("mac", v), x) <=> x.spared
         /\ Matches(On("bypass", v), x) <=> x.to \in AllBypass
         /\ Matches(On("tcp", v), x) <=> x.kind \in Tcp
         /\ Matches(On("udp", v), x) <=> x.kind \notin Tcp
         /\ Matches(On("dnsUdp", v), x) <=> x.kind = "dnsUdp"
         /\ Matches(On("dnsTcp", v), x) <=> x.kind = "dnsTcp"
         /\ Matches(On("quic", v), x) <=> x.kind = "quic"
         /\ \A S : Matches(From(S, "any", v), x) <=> x.from \in S
         /\ \A m : On(m, v).do = v
         /\ \A S, m : From(S, m, v).do = v
         /\ x.spared \in BOOLEAN /\ x.kind \in Kinds
         /\ x.from \in Senders
         /\ ~Sent(x) => ~x.spared /\ x.from \in {"router", "core"}
<1>1. /\ x.spared \in BOOLEAN /\ x.kind \in Kinds /\ x.from \in Senders
      /\ ~Sent(x) => ~x.spared /\ x.from \in {"router", "core"}
  BY DEF Packets, Senders, Sent
<1>2. \A m : /\ On(m, v).from = Senders /\ On(m, v).on = m /\ On(m, v).do = v
  BY DEF On, From
<1>3. \A S, m : /\ From(S, m, v).from = S /\ From(S, m, v).on = m
                /\ From(S, m, v).do = v
  BY DEF From
<1>4. /\ Matches(On("mac", v), x) <=> x.spared
      /\ Matches(On("bypass", v), x) <=> x.to \in AllBypass
      /\ Matches(On("tcp", v), x) <=> x.kind \in Tcp
      /\ Matches(On("udp", v), x) <=> x.kind \notin Tcp
      /\ Matches(On("dnsUdp", v), x) <=> x.kind = "dnsUdp"
      /\ Matches(On("dnsTcp", v), x) <=> x.kind = "dnsTcp"
      /\ Matches(On("quic", v), x) <=> x.kind = "quic"
  BY <1>1, <1>2 DEF Matches
<1>5. \A S : Matches(From(S, "any", v), x) <=> x.from \in S
  BY <1>1, <1>3 DEF Matches
<1> QED BY <1>1, <1>2, <1>3, <1>4, <1>5

LEMMA OwnTyped ==
  ASSUME NEW c \in Chains, NEW p \in Plans
  PROVE  Own(c, p) \in Seq(Rules) /\ Guards(c) \in Seq(Rules)
         /\ Inner(c, p) \in Seq(Rules)
<1>1. p.hijack \in BOOLEAN
  BY PlansAssumption DEF Plan
<1>2. /\ \A r \in Rules, s \in Rules : <<r, s>> \in Seq(Rules)
      /\ \A r \in Rules : <<r>> \in Seq(Rules)
      /\ \A s, t \in Seq(Rules) : s \o t \in Seq(Rules)
      /\ \A b \in BOOLEAN, s \in Seq(Rules) : If(b, s) \in Seq(Rules)
  <2>1. \A s, t \in Seq(Rules) : s \o t \in Seq(Rules)
    OBVIOUS
  <2> QED BY <2>1, RuleLists
<1>3. /\ \A m \in {"mac", "bypass", "tcp", "udp", "quic", "dnsUdp", "dnsTcp"} :
           \A v \in {"return", "dns", "core", "mark", "tproxy", "tproxyDns", "reject"} :
             On(m, v) \in Rules
      /\ CoreReturns \in Rules
  BY RulesTyped DEF Words
<1>4. /\ On("mac", "return") \in Rules /\ On("bypass", "return") \in Rules
      /\ On("dnsUdp", "dns") \in Rules /\ On("dnsTcp", "dns") \in Rules
      /\ On("dnsUdp", "return") \in Rules /\ On("dnsTcp", "return") \in Rules
      /\ On("dnsUdp", "tproxyDns") \in Rules /\ On("dnsTcp", "tproxyDns") \in Rules
      /\ On("tcp", "core") \in Rules /\ On("udp", "mark") \in Rules
      /\ On("tcp", "tproxy") \in Rules /\ On("udp", "tproxy") \in Rules
      /\ On("quic", "reject") \in Rules
  BY <1>3
<1>5. Guards(c) \in Seq(Rules)
  BY ONLY <1>2, <1>3, <1>4 DEF Guards, OutputGuards
<1>6. /\ NatChain(p) \in Seq(Rules) /\ DnsOnlyChain \in Seq(Rules)
      /\ UdpMarkChain(p) \in Seq(Rules) /\ TProxyChain(p) \in Seq(Rules)
      /\ QuicChain \in Seq(Rules) /\ <<On("tcp", "core")>> \in Seq(Rules)
      /\ If(p.hijack, <<On("dnsUdp", "return")>>) \o <<On("udp", "mark")>>
           \in Seq(Rules)
  BY ONLY <1>1, <1>2, <1>4, Zenon
     DEF NatChain, DnsOnlyChain, UdpMarkChain, TProxyChain, QuicChain
<1>7. Own(c, p) \in Seq(Rules)
  BY ONLY <1>6 DEF Own
<1> QED BY ONLY <1>2, <1>5, <1>7, Zenon DEF Inner

\* What the rules of a chain's own say, whatever guards there are before them.
LEMMA OwnVerdict ==
  ASSUME NEW c \in Chains, NEW p \in Plans, NEW x \in Packets,
         ~(x.spared \/ x.to \in AllBypass \/ (x.from = "core" /\ ~ForClients(c)))
  PROVE  FirstHit(Own(c, p), x) = Judged(c, p, x)
<1> DEFINE two(v) == <<On("dnsUdp", v), On("dnsTcp", v)>>
           one(m, v) == <<On(m, v)>>
           last == <<On("tcp", "tproxy"), On("udp", "tproxy")>>
<1>1. p.hijack \in BOOLEAN /\ p.mode \in Modes
  BY PlansAssumption DEF Plan
<1>2. \A v : /\ Matches(On("tcp", v), x) <=> x.kind \in Tcp
             /\ Matches(On("udp", v), x) <=> x.kind \notin Tcp
             /\ Matches(On("dnsUdp", v), x) <=> x.kind = "dnsUdp"
             /\ Matches(On("dnsTcp", v), x) <=> x.kind = "dnsTcp"
             /\ Matches(On("quic", v), x) <=> x.kind = "quic"
             /\ \A m : On(m, v).do = v
             /\ x.kind \in Kinds
  BY MatchesOn
<1>3. \A m, v \in Words : On(m, v) \in Rules
  BY RulesTyped
<1>4. \A m, v \in Words :
        /\ FirstHit(one(m, v), x) = IF Matches(On(m, v), x) THEN v ELSE "return"
        /\ one(m, v) \in Seq(Rules)
  <2> SUFFICES ASSUME NEW m \in Words, NEW v \in Words
               PROVE  /\ FirstHit(one(m, v), x)
                           = IF Matches(On(m, v), x) THEN v ELSE "return"
                      /\ one(m, v) \in Seq(Rules)
    OBVIOUS
  <2>1. On(m, v) \in Rules /\ On(m, v).do = v
    BY <1>2, <1>3
  <2> QED BY ONLY <2>1, FirstOfOne, RuleLists, Zenon
<1>5. \A v \in Words, R \in Seq(Rules) :
        /\ FirstHit(two(v), x) = IF x.kind \in Dns THEN v ELSE "return"
        /\ FirstHit(two(v) \o R, x) = IF x.kind \in Dns THEN v ELSE FirstHit(R, x)
  <2> SUFFICES ASSUME NEW v \in Words, NEW R \in Seq(Rules)
               PROVE  /\ FirstHit(two(v), x) = IF x.kind \in Dns THEN v ELSE "return"
                      /\ FirstHit(two(v) \o R, x)
                           = IF x.kind \in Dns THEN v ELSE FirstHit(R, x)
    OBVIOUS
  <2> DEFINE a == On("dnsUdp", v)
             b == On("dnsTcp", v)
  <2>1. a \in Rules /\ b \in Rules /\ a.do = v /\ b.do = v
    BY <1>2, <1>3 DEF Words
  <2>2. /\ Matches(a, x) <=> x.kind = "dnsUdp"
        /\ Matches(b, x) <=> x.kind = "dnsTcp"
    BY <1>2
  <2> HIDE DEF a, b
  <2>3. /\ FirstHit(<<a, b>>, x) = IF Matches(a, x) THEN a.do
                                   ELSE IF Matches(b, x) THEN b.do ELSE "return"
        /\ FirstHit(<<a, b>> \o R, x) = IF Matches(a, x) THEN a.do
                                        ELSE IF Matches(b, x) THEN b.do
                                        ELSE FirstHit(R, x)
    BY <2>1, FirstOfTwo
  <2>4. x.kind \in Dns <=> x.kind = "dnsUdp" \/ x.kind = "dnsTcp"
    BY DEF Dns
  <2> QED BY <2>1, <2>2, <2>3, <2>4 DEF a, b
<1>6. FirstHit(last, x) = "tproxy" /\ last \in Seq(Rules)
  <2> DEFINE a == On("tcp", "tproxy")
             b == On("udp", "tproxy")
  <2>1. a \in Rules /\ b \in Rules /\ a.do = "tproxy" /\ b.do = "tproxy"
        /\ (Matches(a, x) \/ Matches(b, x))
    BY <1>2, <1>3 DEF Words
  <2> HIDE DEF a, b
  <2>2. FirstHit(<<a, b>>, x) = IF Matches(a, x) THEN a.do
                                ELSE IF Matches(b, x) THEN b.do ELSE "return"
    BY <2>1, FirstOfTwo, EmptySeq
  <2>3. <<a, b>> \in Seq(Rules)
    BY <2>1, RuleLists
  <2> QED BY <2>1, <2>2, <2>3 DEF a, b
<1>7. \A R : <<>> \o R = R \/ R \notin Seq(Rules)
  OBVIOUS
<1>8. /\ FirstHit(one("tcp", "core"), x)
           = IF x.kind \in Tcp THEN "core" ELSE "return"
      /\ FirstHit(one("udp", "mark"), x)
           = IF x.kind \in Tcp THEN "return" ELSE "mark"
      /\ FirstHit(one("quic", "reject"), x)
           = IF x.kind = "quic" THEN "reject" ELSE "return"
      /\ one("tcp", "core") \in Seq(Rules) /\ one("udp", "mark") \in Seq(Rules)
      /\ one("quic", "reject") \in Seq(Rules)
  <2>1. /\ "tcp" \in Words /\ "udp" \in Words /\ "quic" \in Words
        /\ "core" \in Words /\ "mark" \in Words /\ "reject" \in Words
    BY DEF Words
  <2>2. /\ FirstHit(one("tcp", "core"), x)
             = IF Matches(On("tcp", "core"), x) THEN "core" ELSE "return"
        /\ FirstHit(one("udp", "mark"), x)
             = IF Matches(On("udp", "mark"), x) THEN "mark" ELSE "return"
        /\ FirstHit(one("quic", "reject"), x)
             = IF Matches(On("quic", "reject"), x) THEN "reject" ELSE "return"
        /\ one("tcp", "core") \in Seq(Rules) /\ one("udp", "mark") \in Seq(Rules)
        /\ one("quic", "reject") \in Seq(Rules)
    BY ONLY <2>1, <1>4, Zenon
  <2> QED BY <1>2, <2>2
<1>9. "dns" \in Words /\ "return" \in Words /\ "tproxyDns" \in Words
  BY DEF Words
<1>10. FirstHit(one("dnsUdp", "return") \o one("udp", "mark"), x)
         = IF x.kind = "dnsUdp" THEN "return"
           ELSE FirstHit(one("udp", "mark"), x)
  <2> DEFINE a == On("dnsUdp", "return")
             R == one("udp", "mark")
  <2>1. a \in Rules /\ a.do = "return" /\ (Matches(a, x) <=> x.kind = "dnsUdp")
        /\ R \in Seq(Rules)
    BY <1>2, <1>3, <1>8 DEF Words
  <2> HIDE DEF a, R
  <2>2. FirstHit(<<a>> \o R, x) = IF Matches(a, x) THEN a.do ELSE FirstHit(R, x)
    BY <2>1, FirstOfMore
  <2> QED BY <2>1, <2>2 DEF a, R
<1> HIDE DEF one, two, last
<1>11. CASE c = Pre("nat")
  <2>1. Own(c, p) = IF p.mode # "tun"
                    THEN If(p.hijack, two("dns")) \o one("tcp", "core")
                    ELSE two("dns")
    BY <1>11, ChainsApart DEF Own, NeedsFirewallCapture, NatChain, DnsOnlyChain, one, two
  <2>2. Judged(c, p, x) = IF x.kind \in Dns /\ (p.hijack \/ p.mode = "tun") THEN "dns"
                          ELSE IF x.kind \in Tcp /\ p.mode # "tun" THEN "core"
                          ELSE "return"
    BY <1>11, ChainsApart DEF Judged
  <2>3. CASE p.mode = "tun"
    BY <1>5, <1>8, <1>9, <2>1, <2>2, <2>3, EmptySeq
  <2>4. CASE p.mode # "tun" /\ p.hijack
    <3>1. Own(c, p) = two("dns") \o one("tcp", "core")
      BY <2>1, <2>4 DEF If
    <3> QED BY <1>5, <1>8, <1>9, <2>2, <2>4, <3>1
  <2>5. CASE p.mode # "tun" /\ ~p.hijack
    <3>1. Own(c, p) = one("tcp", "core")
      BY <1>7, <1>8, <2>1, <2>5 DEF If
    <3> QED BY <1>8, <2>2, <2>5, <3>1
  <2> QED BY <1>1, <2>3, <2>4, <2>5
<1>12. CASE c = Mark
  <2>1. Own(c, p) = If(p.hijack, two("return")) \o one("udp", "mark")
    BY <1>12, ChainsApart DEF Own, UdpMarkChain, one, two
  <2>2. Judged(c, p, x) = IF x.kind \in Tcp \/ (x.kind \in Dns /\ p.hijack)
                          THEN "return" ELSE "mark"
    BY <1>12, ChainsApart DEF Judged
  <2>3. CASE p.hijack
    <3>1. Own(c, p) = two("return") \o one("udp", "mark")
      BY <2>1, <2>3 DEF If
    <3> QED BY <1>5, <1>8, <1>9, <2>2, <2>3, <3>1
  <2>4. CASE ~p.hijack
    <3>1. Own(c, p) = one("udp", "mark")
      BY <1>7, <1>8, <2>1, <2>4 DEF If
    <3> QED BY <1>8, <2>2, <2>4, <3>1
  <2> QED BY <2>3, <2>4
<1>13. CASE c = Pre("mangle")
  <2>1. Own(c, p) = If(p.hijack, two("tproxyDns")) \o last
    BY <1>13, ChainsApart DEF Own, TProxyChain, last, two
  <2>2. Judged(c, p, x) = IF x.kind \in Dns /\ p.hijack THEN "tproxyDns" ELSE "tproxy"
    BY <1>13, ChainsApart DEF Judged
  <2>3. CASE p.hijack
    <3>1. Own(c, p) = two("tproxyDns") \o last
      BY <2>1, <2>3 DEF If
    <3> QED BY <1>5, <1>6, <1>9, <2>2, <2>3, <3>1
  <2>4. CASE ~p.hijack
    <3>1. Own(c, p) = last
      BY <1>6, <1>7, <2>1, <2>4 DEF If
    <3> QED BY <1>6, <2>2, <2>4, <3>1
  <2> QED BY <2>3, <2>4
<1>14. CASE c = Out("nat")
  <2>1. Own(c, p) = one("tcp", "core")
    BY <1>14, ChainsApart DEF Own, one
  <2>2. Judged(c, p, x) = IF x.kind \in Tcp THEN "core" ELSE "return"
    BY <1>14, ChainsApart DEF Judged
  <2> QED BY <1>8, <2>1, <2>2
<1>15. CASE c = Out("mangle")
  <2>1. Own(c, p) = If(p.hijack, one("dnsUdp", "return")) \o one("udp", "mark")
    BY <1>15, ChainsApart DEF Own, one
  <2>2. Judged(c, p, x) = IF x.kind \in Tcp \/ (x.kind = "dnsUdp" /\ p.hijack)
                          THEN "return" ELSE "mark"
    BY <1>15, ChainsApart DEF Judged
  <2>3. CASE p.hijack
    <3>1. Own(c, p) = one("dnsUdp", "return") \o one("udp", "mark")
      BY <2>1, <2>3 DEF If
    <3> QED BY <1>8, <1>10, <2>2, <2>3, <3>1
  <2>4. CASE ~p.hijack
    <3>1. Own(c, p) = one("udp", "mark")
      BY <1>7, <1>8, <2>1, <2>4 DEF If
    <3> QED BY <1>8, <2>2, <2>4, <3>1
  <2> QED BY <2>3, <2>4
<1>16. CASE c = Quic
  <2>1. Own(c, p) = one("quic", "reject")
    BY <1>16, ChainsApart DEF Own, QuicChain, one
  <2>2. Judged(c, p, x) = IF x.kind = "quic" THEN "reject" ELSE "return"
    BY <1>16, ChainsApart DEF Judged
  <2> QED BY <1>8, <2>1, <2>2
<1> QED BY <1>11, <1>12, <1>13, <1>14, <1>15, <1>16 DEF Chains

LEMMA InnerVerdict ==
  ASSUME NEW c \in Chains, NEW p \in Plans, NEW x, Comes(c, x)
  PROVE  FirstHit(Inner(c, p), x) = Judged(c, p, x)
<1> DEFINE a == On("mac", "return")
           b == On("bypass", "return")
           g == CoreReturns
           R == Own(c, p)
           excused == x.spared \/ x.to \in AllBypass \/ (x.from = "core" /\ ~ForClients(c))
<1>1. a \in Rules /\ b \in Rules /\ g \in Rules /\ R \in Seq(Rules)
  BY RulesTyped, OwnTyped DEF Words
<1>2. x \in Packets
  BY DEF Comes
<1>3. /\ Matches(a, x) <=> x.spared
      /\ Matches(b, x) <=> x.to \in AllBypass
      /\ Matches(g, x) <=> x.from = "core"
      /\ a.do = "return" /\ b.do = "return" /\ g.do = "return"
      /\ ~Sent(x) => ~x.spared
  BY <1>2, MatchesOn DEF CoreReturns
<1>4. ~excused => FirstHit(R, x) = Judged(c, p, x)
  BY <1>2, OwnVerdict
<1>5. excused => Judged(c, p, x) = "return"
  BY DEF Judged
<1>6. Inner(c, p) = IF ForClients(c) THEN <<a, b>> \o R ELSE <<g, b>> \o R
  BY DEF Inner, Guards, OutputGuards
<1> HIDE DEF a, b, g, R
<1>7. FirstHit(<<a, b>> \o R, x) = IF Matches(a, x) THEN a.do
                                   ELSE IF Matches(b, x) THEN b.do
                                   ELSE FirstHit(R, x)
  BY <1>1, FirstOfTwo
<1>8. FirstHit(<<g, b>> \o R, x) = IF Matches(g, x) THEN g.do
                                   ELSE IF Matches(b, x) THEN b.do
                                   ELSE FirstHit(R, x)
  BY <1>1, FirstOfTwo
<1>9. ~ForClients(c) => ~x.spared
  BY <1>3 DEF Comes
<1> QED BY <1>3, <1>4, <1>5, <1>6, <1>7, <1>8, <1>9

LEMMA MadeIs ==
  ASSUME NEW p \in Plans
  PROVE  /\ Made(p) \subseteq Chains
         /\ Pre("nat") \in Made(p) <=> p.mode # "tproxy"
         /\ Mark \in Made(p) <=> p.mode = "mixed"
         /\ Pre("mangle") \in Made(p) <=> p.mode = "tproxy"
         /\ Out("nat") \in Made(p) <=> p.router /\ p.mode # "tun"
         /\ Out("mangle") \in Made(p) <=> p.router /\ p.mode = "mixed"
         /\ Quic \in Made(p) <=> p.quic /\ p.mode = "redirect"
<1>1. p.mode \in Modes
  BY PlansAssumption DEF Plan
<1>2. /\ CapturesTCPViaRedirect(p.mode) <=> p.mode \in {"redirect", "mixed"}
      /\ NeedsFirewallCapture(p.mode) <=> p.mode # "tun"
      /\ MarksUDPForTun(p.mode) <=> p.mode = "mixed"
      /\ NeedsTProxy(p.mode) <=> p.mode = "tproxy"
      /\ CarriesUDP(p.mode) <=> p.mode # "redirect"
  BY DEF CapturesTCPViaRedirect, NeedsFirewallCapture, MarksUDPForTun, NeedsTProxy,
         CarriesUDP
<1>3. Made(p) = {d \in Chains :
        \/ d = Pre("nat") /\ (CapturesTCPViaRedirect(p.mode)
                                \/ ~NeedsFirewallCapture(p.mode))
        \/ d = Mark /\ MarksUDPForTun(p.mode)
        \/ d = Pre("mangle") /\ NeedsTProxy(p.mode)
        \/ d = Out("nat") /\ p.router /\ NeedsFirewallCapture(p.mode)
        \/ d = Out("mangle") /\ p.router /\ MarksUDPForTun(p.mode)
        \/ d = Quic /\ p.quic /\ ~CarriesUDP(p.mode)}
  BY DEF Made, Ruleset
<1>4. CapturesTCPViaRedirect(p.mode) \/ ~NeedsFirewallCapture(p.mode)
        <=> p.mode # "tproxy"
  BY <1>1, <1>2 DEF Modes
<1>5. Made(p) = {d \in Chains :
        \/ d = Pre("nat") /\ p.mode # "tproxy"
        \/ d = Mark /\ p.mode = "mixed"
        \/ d = Pre("mangle") /\ p.mode = "tproxy"
        \/ d = Out("nat") /\ p.router /\ p.mode # "tun"
        \/ d = Out("mangle") /\ p.router /\ p.mode = "mixed"
        \/ d = Quic /\ p.quic /\ p.mode = "redirect"}
  BY <1>2, <1>3, <1>4
<1> QED BY <1>5, ChainsApart, ChainsNamed

LEMMA HooksOf ==
  /\ HookOf(Pre("nat")) = <<"nat", "PREROUTING">>
  /\ HookOf(Pre("mangle")) = <<"mangle", "PREROUTING">>
  /\ HookOf(Mark) = <<"mangle", "PREROUTING">>
  /\ HookOf(Out("nat")) = <<"nat", "OUTPUT">>
  /\ HookOf(Out("mangle")) = <<"mangle", "OUTPUT">>
  /\ HookOf(Quic) = <<"filter", "FORWARD">>
BY DEF HookOf, Pre, Mark, Out, Quic

\* One hook has at most one chain of a plan.
LEMMA OneChainPerHook ==
  ASSUME NEW p \in Plans, NEW c \in Made(p), NEW d \in Made(p), HookOf(c) = HookOf(d)
  PROVE  c = d
<1>1. c \in Chains /\ d \in Chains
  BY MadeIs
<1> QED BY <1>1, MadeIs, HooksOf DEF Chains

LEMMA GuardBefore ==
  ASSUME NEW S, NEW f \in S, NEW a \in S, NEW b \in S, NEW s \in Seq(S)
  PROVE  <<f, a, b>> \o s = <<f>> \o (<<a, b>> \o s)
<1> DEFINE t == <<f, a, b>>
           g == <<f>>
           q == <<a, b>>
           y == g \o q
<1>0. <<f, a, b>> = t /\ <<f>> = g /\ <<a, b>> = q
  OBVIOUS
<1>1. /\ t \in Seq(S) /\ Len(t) = 3 /\ t[1] = f /\ t[2] = a /\ t[3] = b
      /\ g \in Seq(S) /\ Len(g) = 1 /\ g[1] = f
      /\ q \in Seq(S) /\ Len(q) = 2 /\ q[1] = a /\ q[2] = b
  BY ONLY f \in S, a \in S, b \in S
<1> HIDE DEF t, g, q
<1>2. /\ y \in Seq(S) /\ Len(y) = Len(g) + Len(q)
      /\ \A i \in 1..Len(g) : y[i] = g[i]
      /\ \A i \in 1..Len(q) : y[Len(g) + i] = q[i]
  <2>1. g \in Seq(S) /\ q \in Seq(S)
    BY ONLY <1>1
  <2> QED BY ONLY <2>1, PlacesOfBoth
<1>3. (g \o q) \o s = g \o (q \o s)
  <2>1. g \in Seq(S) /\ q \in Seq(S) /\ s \in Seq(S)
    BY ONLY <1>1, s \in Seq(S)
  <2> QED BY ONLY <2>1, ConcatAssociative, SMTT(30)
<1> HIDE DEF y
<1>4. Len(y) = 3 /\ y[1] = f /\ y[2] = a /\ y[3] = b
  <2>1. 1 \in 1..Len(g) /\ 1 \in 1..Len(q) /\ 2 \in 1..Len(q)
    BY ONLY <1>1
  <2>2. y[Len(g) + 1] = q[1] /\ y[Len(g) + 2] = q[2] /\ y[1] = g[1]
    BY ONLY <1>2, <2>1
  <2> QED BY ONLY <1>1, <1>2, <2>2
<1>5. t = y
  <2>1. \A i \in 1..3 : i = 1 \/ i = 2 \/ i = 3
    OBVIOUS
  <2>2. \A i \in 1..3 : t[i] = y[i]
    BY ONLY <1>1, <1>4, <2>1, Zenon
  <2>3. t \in Seq(S) /\ y \in Seq(S) /\ Len(t) = Len(y) /\ Len(t) = 3
    BY ONLY <1>1, <1>2, <1>4
  <2>4. \A i \in 1..Len(t) : t[i] = y[i]
    BY ONLY <2>2, <2>3
  <2> QED BY ONLY <2>3, <2>4, SeqEqual, Zenon
<1> QED BY ONLY <1>0, <1>3, <1>5, Zenon DEF y

LEMMA RulesetIs ==
  ASSUME NEW p \in Plans, NEW c \in Made(p)
  PROVE  Ruleset(p)[c] = IF ForClients(c)
                         THEN <<From(Outside(p), "any", "return")>> \o Inner(c, p)
                         ELSE Inner(c, p)
<1> DEFINE f == From(Outside(p), "any", "return")
           a == On("mac", "return")
           b == On("bypass", "return")
           D == {a, b, f} \cup Rules
           scoped(s) == <<f, a, b>> \o s
           n == Out("nat")
           m == Out("mangle")
<1>1. c \in Chains /\ c \in DOMAIN Ruleset(p)
  BY MadeIs DEF Made
<1>2. Ruleset(p)[c] =
        CASE c = Pre("nat") -> scoped(IF NeedsFirewallCapture(p.mode) THEN NatChain(p)
                                      ELSE DnsOnlyChain)
          [] c = Mark -> scoped(UdpMarkChain(p))
          [] c = Pre("mangle") -> scoped(TProxyChain(p))
          [] c = Out("nat") -> OutputGuards \o <<On("tcp", "core")>>
          [] c = Out("mangle") ->
               OutputGuards \o If(p.hijack, <<On("dnsUdp", "return")>>)
                            \o <<On("udp", "mark")>>
          [] OTHER -> scoped(QuicChain)
  BY <1>1 DEF Ruleset, ScopeGuards
<1>3. f \in D /\ a \in D /\ b \in D /\ Own(c, p) \in Seq(D)
  <2>1. Own(c, p) \in Seq(Rules) /\ Rules \subseteq D
    BY <1>1, OwnTyped
  <2> HIDE DEF D
  <2>2. Own(c, p) \in Seq(D)
    BY <2>1
  <2> QED BY <2>2 DEF D
<1>4. ForClients(c) => Ruleset(p)[c] = scoped(Own(c, p))
  <2> HIDE DEF scoped
  <2> QED BY <1>1, <1>2, ChainsApart DEF Own, Chains
<1>5. c = Out("nat") => Ruleset(p)[c] = OutputGuards \o Own(c, p)
  BY <1>2, ChainsApart DEF Own
<1>6. c = Out("mangle") => Ruleset(p)[c] = OutputGuards \o Own(c, p)
  <2> DEFINE q == If(p.hijack, <<On("dnsUdp", "return")>>)
             t == <<On("udp", "mark")>>
             o == OutputGuards
  <2>1. /\ q \in Seq(Rules) /\ t \in Seq(Rules) /\ o \in Seq(Rules)
    <3>1. p.hijack \in BOOLEAN
      BY PlansAssumption DEF Plan
    <3>2. /\ On("dnsUdp", "return") \in Rules /\ On("udp", "mark") \in Rules
          /\ CoreReturns \in Rules /\ b \in Rules
      BY RulesTyped DEF Words
    <3> QED BY ONLY <3>1, <3>2, RuleLists DEF OutputGuards
  <2>2. c = Out("mangle") => Ruleset(p)[c] = (o \o q) \o t /\ Own(c, p) = q \o t
    BY <1>2, ChainsApart DEF Own
  <2> HIDE DEF q, t, o
  <2>3. (o \o q) \o t = o \o (q \o t)
    BY <2>1
  <2> QED BY <2>2, <2>3 DEF o
<1>7. ~ForClients(c) => c = Out("nat") \/ c = Out("mangle")
  BY <1>1, ChainsApart DEF Chains
<1>8. scoped(Own(c, p)) = <<f>> \o (<<a, b>> \o Own(c, p))
  <2> DEFINE w == Own(c, p)
  <2>1. f \in D /\ a \in D /\ b \in D /\ w \in Seq(D)
    BY <1>3
  <2> HIDE DEF f, a, b, D, w
  <2> QED BY ONLY <2>1, GuardBefore, SMTT(30) DEF w
<1> HIDE DEF scoped
<1>9. Inner(c, p) = IF ForClients(c) THEN <<a, b>> \o Own(c, p)
                    ELSE OutputGuards \o Own(c, p)
  BY DEF Inner, Guards
<1> HIDE DEF f, a, b
<1> QED BY <1>4, <1>5, <1>6, <1>7, <1>8, <1>9 DEF f

-----------------------------------------------------------------------------
\* What stands in the kernel, and what a hook says of a packet.

\* Which packets a chain is for, its rules as they stand in the kernel, and
\* whose packets are sent to it.
Reached(c, x) == ForClients(c) => x.from \notin Outside(plan)
Leading(c, p) ==
  CASE ~ForClients(c) -> <<Senders>>
    [] ForClients(c) /\ p.lan # <<>> -> [i \in DOMAIN p.lan |-> {p.lan[i]}]
    [] OTHER -> <<IF p.wan # "" THEN Devices \ {p.wan} ELSE Devices>>
Full(c) == IF backend = "nft" THEN Ruleset(plan)[c] ELSE Inner(c, plan)
Calls(c) == IF backend = "nft" THEN {Senders} ELSE Range(Leading(c, plan))

LEMMA FullVerdict ==
  ASSUME plan \in Plans, NEW c \in Made(plan), chains[c] = Full(c), NEW x, Comes(c, x)
  PROVE  ChainVerdict(c, x) = IF backend = "nft" /\ ~Reached(c, x) THEN "return"
                              ELSE Judged(c, plan, x)
<1> DEFINE f == From(Outside(plan), "any", "return")
           R == Inner(c, plan)
           D == {f} \cup Rules
<1>1. ChainVerdict(c, x) = FirstHit(Full(c), x)
  BY DEF ChainVerdict, FirstHit
<1>2. FirstHit(R, x) = Judged(c, plan, x) /\ R \in Seq(Rules)
  BY InnerVerdict, OwnTyped, MadeIs
<1>3. x \in Packets
  BY DEF Comes
<1>4. (Matches(f, x) <=> x.from \in Outside(plan)) /\ f.do = "return" /\ f \in D
  BY <1>3, MatchesOn
<1>5. R \in Seq(D)
  <2>1. Rules \subseteq D
    OBVIOUS
  <2> HIDE DEF D, R
  <2> QED BY <1>2, <2>1
<1>6. Full(c) = IF backend = "nft" /\ ForClients(c) THEN <<f>> \o R ELSE R
  BY RulesetIs DEF Full
<1> HIDE DEF f, R, D
<1>7. FirstHit(<<f>> \o R, x) = IF Matches(f, x) THEN f.do ELSE FirstHit(R, x)
  BY ONLY <1>4, <1>5, FirstOfMore
<1>8. CASE backend = "nft" /\ ForClients(c)
  BY <1>1, <1>2, <1>4, <1>6, <1>7, <1>8 DEF Reached
<1>9. CASE ~(backend = "nft" /\ ForClients(c))
  BY <1>1, <1>2, <1>6, <1>9 DEF Reached
<1> QED BY <1>8, <1>9

LEMMA NoVerdict ==
  ASSUME NEW c, chains[c] = <<>>, NEW x
  PROVE  ChainVerdict(c, x) = "return"
<1>1. ChainVerdict(c, x) = FirstHit(chains[c], x)
  BY DEF ChainVerdict, FirstHit
<1> QED BY <1>1, FirstOfNone

\* iptables sends a chain the packets that nftables has a guard for.
LEMMA CallsReached ==
  ASSUME plan \in Plans, NEW c \in Chains, NEW x, Comes(c, x)
  PROVE  /\ backend # "nft" => \A S \in Calls(c) : x.from \in S => Reached(c, x)
         /\ Reached(c, x) => \E S \in Calls(c) : x.from \in S
<1>1. /\ plan.lan \in Seq(Devices) /\ plan.wan \in Devices \cup {""}
      /\ x.from \in Senders /\ (ForClients(c) => x.from \in Devices)
  <2>1. x.from \in Senders
    BY MatchesOn DEF Comes
  <2> QED BY <2>1, PlansAssumption DEF Plan, Comes, Sent
<1>2. /\ Leading(c, plan) = IF ~ForClients(c) THEN <<Senders>>
                            ELSE IF plan.lan # <<>>
                            THEN [i \in DOMAIN plan.lan |-> {plan.lan[i]}]
                            ELSE <<IF plan.wan # "" THEN Devices \ {plan.wan} ELSE Devices>>
  BY DEF Leading
<1>3. \A S : Range(<<S>>) = {S}
  BY DEF Range
<1>4. CASE ~ForClients(c)
  BY <1>1, <1>2, <1>3, <1>4 DEF Calls, Reached
<1>5. CASE ForClients(c) /\ plan.lan # <<>>
  <2>1. Outside(plan) = Devices \ Range(plan.lan)
    BY <1>5 DEF Outside
  <2>2. Range(Leading(c, plan)) = {{plan.lan[i]} : i \in DOMAIN plan.lan}
    BY <1>2, <1>5 DEF Range
  <2>3. Reached(c, x) <=> \E i \in DOMAIN plan.lan : x.from = plan.lan[i]
    BY <1>1, <1>5, <2>1 DEF Reached, Range
  <2> QED BY <1>1, <2>2, <2>3 DEF Calls
<1>6. CASE ForClients(c) /\ plan.lan = <<>>
  <2>1. Outside(plan) = IF plan.wan # "" THEN {plan.wan} ELSE {}
    BY <1>6 DEF Outside
  <2>2. Range(Leading(c, plan))
          = {IF plan.wan # "" THEN Devices \ {plan.wan} ELSE Devices}
    BY <1>2, <1>3, <1>6
  <2> QED BY <1>1, <1>6, <2>1, <2>2 DEF Calls, Reached
<1> QED BY <1>4, <1>5, <1>6

\* A hook's verdict is that of one of the chains it sends the packet to.
LEMMA Chosen ==
  ASSUME NEW h, NEW x, jumps[h] \in Seq(Jumps)
  PROVE  LET T == {i \in 1..Len(jumps[h]) :
                     x.from \in jumps[h][i].from
                     /\ ChainVerdict(jumps[h][i].to, x) # "return"}
         IN /\ T = {} => Verdict(h, x) = "accept"
            /\ T # {} => \E i \in T : Verdict(h, x) = ChainVerdict(jumps[h][i].to, x)
<1> DEFINE T == {i \in 1..Len(jumps[h]) :
                   x.from \in jumps[h][i].from
                   /\ ChainVerdict(jumps[h][i].to, x) # "return"}
<1>1. Verdict(h, x) = LET i == IF T # {} THEN Min(T) ELSE 0
                      IN IF i = 0 THEN "accept" ELSE ChainVerdict(jumps[h][i].to, x)
  BY DEF Verdict, SelectInSeq
<1>2. T \in SUBSET Nat /\ \A i \in T : i # 0
  OBVIOUS
<1> HIDE DEF T
<1>3. T # {} => Min(T) \in T
  <2> SUFFICES ASSUME T # {} PROVE Min(T) \in T
    OBVIOUS
  <2>1. PICK n \in T : \A m \in T : n <= m
    BY <1>2, LeastElement
  <2> QED BY <1>2, <2>1, LeastIs
<1>4. /\ T = {} => Verdict(h, x) = "accept"
      /\ T # {} => \E i \in T : Verdict(h, x) = ChainVerdict(jumps[h][i].to, x)
  BY <1>1, <1>2, <1>3
<1> QED BY <1>4 DEF T

\* What stands in the kernel is the plan's.
Ours ==
  \A h \in Hooks : \A i \in DOMAIN jumps[h] :
    LET j == jumps[h][i]
    IN /\ j.to \in Made(plan) /\ chains[j.to] \in {Full(j.to), <<>>}
       /\ j.from \in Calls(j.to)
Loyal == alive /\ ~stale => Ours

Says(h, x, v) ==
  \/ v = "accept"
  \/ \E c \in Made(plan) : /\ HookOf(c) = h /\ Reached(c, x)
                           /\ v = Judged(c, plan, x) /\ v # "return"

LEMMA SaidAsPlanned ==
  ASSUME plan \in Plans, Kernel, Standing, Ours, NEW h \in Hooks, NEW x,
         \A c \in Made(plan) : HookOf(c) = h => Comes(c, x)
  PROVE  Says(h, x, Verdict(h, x))
<1> DEFINE T == {i \in 1..Len(jumps[h]) :
                   x.from \in jumps[h][i].from
                   /\ ChainVerdict(jumps[h][i].to, x) # "return"}
<1>1. jumps[h] \in Seq(Jumps)
  BY DEF Kernel
<1>2. CASE T = {}
  BY <1>1, <1>2, Chosen DEF Says
<1>3. CASE T # {}
  <2>1. PICK i \in T : Verdict(h, x) = ChainVerdict(jumps[h][i].to, x)
    BY <1>1, <1>3, Chosen
  <2> DEFINE c == jumps[h][i].to
  <2>2. /\ i \in DOMAIN jumps[h] /\ x.from \in jumps[h][i].from
        /\ ChainVerdict(c, x) # "return"
    BY <1>1
  <2>3. HookOf(c) = h /\ c \in Made(plan) /\ chains[c] \in {Full(c), <<>>}
        /\ jumps[h][i].from \in Calls(c)
    BY <2>2 DEF Standing, Ours
  <2>4. Comes(c, x)
    BY <2>3
  <2> HIDE DEF c
  <2>5. chains[c] = Full(c)
    BY <2>2, <2>3, NoVerdict
  <2>6. ChainVerdict(c, x) = IF backend = "nft" /\ ~Reached(c, x) THEN "return"
                             ELSE Judged(c, plan, x)
    BY <2>3, <2>4, <2>5, FullVerdict
  <2>7. backend # "nft" => Reached(c, x)
    BY <2>2, <2>3, <2>4, CallsReached, MadeIs
  <2> QED BY <2>1, <2>2, <2>3, <2>6, <2>7 DEF Says, c
<1> QED BY <1>2, <1>3

\* What a hook may say, in the words of the plan.
Excused(x) == x.spared \/ x.to \in AllBypass
Asked(x) == ~Excused(x) /\ x.from \notin Outside(plan)
Owned(x) == ~Excused(x) /\ x.from = "router" /\ plan.router

LEMMA SaysOfClients ==
  ASSUME plan \in Plans, NEW x \in Packets, Sent(x)
  PROVE  /\ \A v : Says(<<"mangle", "PREROUTING">>, x, v) =>
              \/ v = "accept"
              \/ /\ Asked(x) /\ plan.mode = "mixed" /\ v = "mark"
                 /\ x.kind \notin Tcp /\ ~(x.kind \in Dns /\ plan.hijack)
              \/ /\ Asked(x) /\ plan.mode = "tproxy"
                 /\ v = IF x.kind \in Dns /\ plan.hijack THEN "tproxyDns" ELSE "tproxy"
         /\ \A v : Says(<<"nat", "PREROUTING">>, x, v) =>
              \/ v = "accept"
              \/ /\ Asked(x) /\ plan.mode # "tproxy"
                 /\ x.kind \in Dns /\ (plan.hijack \/ plan.mode = "tun") /\ v = "dns"
              \/ /\ Asked(x) /\ plan.mode \in {"redirect", "mixed"}
                 /\ ~(x.kind \in Dns /\ plan.hijack) /\ x.kind \in Tcp /\ v = "core"
         /\ \A v : Says(<<"filter", "FORWARD">>, x, v) =>
              \/ v = "accept"
              \/ /\ Asked(x) /\ plan.mode = "redirect" /\ plan.quic
                 /\ x.kind = "quic" /\ v = "reject"
<1>1. plan.mode \in Modes /\ plan.hijack \in BOOLEAN
  BY PlansAssumption DEF Plan
<1>2. \A c \in Made(plan) :
        /\ HookOf(c) = <<"mangle", "PREROUTING">> =>
             \/ c = Mark /\ plan.mode = "mixed"
             \/ c = Pre("mangle") /\ plan.mode = "tproxy"
        /\ HookOf(c) = <<"nat", "PREROUTING">> => c = Pre("nat") /\ plan.mode # "tproxy"
        /\ HookOf(c) = <<"filter", "FORWARD">> =>
             c = Quic /\ plan.quic /\ plan.mode = "redirect"
  <2>1. Made(plan) \subseteq Chains
    BY MadeIs
  <2>2. \A c \in Chains :
          /\ HookOf(c) = <<"mangle", "PREROUTING">> => c = Mark \/ c = Pre("mangle")
          /\ HookOf(c) = <<"nat", "PREROUTING">> => c = Pre("nat")
          /\ HookOf(c) = <<"filter", "FORWARD">> => c = Quic
    BY HooksOf DEF Chains
  <2> QED BY <2>1, <2>2, MadeIs
<1>3. /\ Reached(Mark, x) <=> x.from \notin Outside(plan)
      /\ Reached(Pre("nat"), x) <=> x.from \notin Outside(plan)
      /\ Reached(Pre("mangle"), x) <=> x.from \notin Outside(plan)
      /\ Reached(Quic, x) <=> x.from \notin Outside(plan)
  BY ChainsApart DEF Reached
<1>4. /\ Judged(Mark, plan, x) =
           IF Excused(x) \/ x.kind \in Tcp \/ (x.kind \in Dns /\ plan.hijack)
           THEN "return" ELSE "mark"
      /\ Judged(Pre("mangle"), plan, x) =
           IF Excused(x) THEN "return"
           ELSE IF x.kind \in Dns /\ plan.hijack THEN "tproxyDns" ELSE "tproxy"
      /\ Judged(Pre("nat"), plan, x) =
           IF Excused(x) THEN "return"
           ELSE IF x.kind \in Dns /\ (plan.hijack \/ plan.mode = "tun") THEN "dns"
           ELSE IF x.kind \in Tcp /\ plan.mode # "tun" THEN "core" ELSE "return"
      /\ Judged(Quic, plan, x) =
           IF Excused(x) \/ x.kind # "quic" THEN "return" ELSE "reject"
  BY ChainsApart DEF Judged, Excused
<1>5. ASSUME NEW v, Says(<<"mangle", "PREROUTING">>, x, v), v # "accept"
      PROVE  \/ /\ Asked(x) /\ plan.mode = "mixed" /\ v = "mark"
                /\ x.kind \notin Tcp /\ ~(x.kind \in Dns /\ plan.hijack)
             \/ /\ Asked(x) /\ plan.mode = "tproxy"
                /\ v = IF x.kind \in Dns /\ plan.hijack THEN "tproxyDns" ELSE "tproxy"
  <2>1. PICK c \in Made(plan) : /\ HookOf(c) = <<"mangle", "PREROUTING">> /\ Reached(c, x)
                                /\ v = Judged(c, plan, x) /\ v # "return"
    BY <1>5 DEF Says
  <2>2. CASE c = Mark /\ plan.mode = "mixed"
    BY <1>3, <1>4, <2>1, <2>2 DEF Asked
  <2>3. CASE c = Pre("mangle") /\ plan.mode = "tproxy"
    BY <1>3, <1>4, <2>1, <2>3 DEF Asked
  <2> QED BY <1>2, <2>1, <2>2, <2>3
<1>6. ASSUME NEW v, Says(<<"nat", "PREROUTING">>, x, v), v # "accept"
      PROVE  \/ /\ Asked(x) /\ plan.mode # "tproxy"
                /\ x.kind \in Dns /\ (plan.hijack \/ plan.mode = "tun") /\ v = "dns"
             \/ /\ Asked(x) /\ plan.mode \in {"redirect", "mixed"}
                /\ ~(x.kind \in Dns /\ plan.hijack) /\ x.kind \in Tcp /\ v = "core"
  <2>1. PICK c \in Made(plan) : /\ HookOf(c) = <<"nat", "PREROUTING">> /\ Reached(c, x)
                                /\ v = Judged(c, plan, x) /\ v # "return"
    BY <1>6 DEF Says
  <2>2. c = Pre("nat") /\ plan.mode # "tproxy"
    BY <1>2, <2>1
  <2> QED BY <1>1, <1>3, <1>4, <2>1, <2>2 DEF Asked, Modes
<1>7. ASSUME NEW v, Says(<<"filter", "FORWARD">>, x, v), v # "accept"
      PROVE  /\ Asked(x) /\ plan.mode = "redirect" /\ plan.quic
             /\ x.kind = "quic" /\ v = "reject"
  <2>1. PICK c \in Made(plan) : /\ HookOf(c) = <<"filter", "FORWARD">> /\ Reached(c, x)
                                /\ v = Judged(c, plan, x) /\ v # "return"
    BY <1>7 DEF Says
  <2>2. c = Quic /\ plan.quic /\ plan.mode = "redirect"
    BY <1>2, <2>1
  <2> QED BY <1>3, <1>4, <2>1, <2>2 DEF Asked
<1> QED BY <1>5, <1>6, <1>7

LEMMA SaysOfRouter ==
  ASSUME plan \in Plans, NEW x \in Packets, ~Sent(x)
  PROVE  /\ \A v : Says(<<"mangle", "OUTPUT">>, x, v) =>
              \/ v = "accept"
              \/ /\ Owned(x) /\ plan.mode = "mixed" /\ v = "mark"
                 /\ x.kind \notin Tcp /\ ~(x.kind = "dnsUdp" /\ plan.hijack)
         /\ \A v : Says(<<"nat", "OUTPUT">>, x, v) =>
              \/ v = "accept"
              \/ Owned(x) /\ plan.mode # "tun" /\ x.kind \in Tcp /\ v = "core"
<1>1. x.from \in {"router", "core"}
  BY MatchesOn
<1>2. \A c \in Made(plan) :
        /\ HookOf(c) = <<"mangle", "OUTPUT">> =>
             c = Out("mangle") /\ plan.router /\ plan.mode = "mixed"
        /\ HookOf(c) = <<"nat", "OUTPUT">> =>
             c = Out("nat") /\ plan.router /\ plan.mode # "tun"
  <2>1. Made(plan) \subseteq Chains
    BY MadeIs
  <2>2. \A c \in Chains :
          /\ HookOf(c) = <<"mangle", "OUTPUT">> => c = Out("mangle")
          /\ HookOf(c) = <<"nat", "OUTPUT">> => c = Out("nat")
    BY HooksOf DEF Chains
  <2> QED BY <2>1, <2>2, MadeIs
<1>3. /\ Judged(Out("mangle"), plan, x) =
           IF Excused(x) \/ x.from = "core" \/ x.kind \in Tcp
              \/ (x.kind = "dnsUdp" /\ plan.hijack)
           THEN "return" ELSE "mark"
      /\ Judged(Out("nat"), plan, x) =
           IF Excused(x) \/ x.from = "core" \/ x.kind \notin Tcp THEN "return"
           ELSE "core"
  BY ChainsApart DEF Judged, Excused
<1>4. ASSUME NEW v, Says(<<"mangle", "OUTPUT">>, x, v), v # "accept"
      PROVE  /\ Owned(x) /\ plan.mode = "mixed" /\ v = "mark"
             /\ x.kind \notin Tcp /\ ~(x.kind = "dnsUdp" /\ plan.hijack)
  <2>1. PICK c \in Made(plan) : /\ HookOf(c) = <<"mangle", "OUTPUT">>
                                /\ v = Judged(c, plan, x) /\ v # "return"
    BY <1>4 DEF Says
  <2>2. c = Out("mangle") /\ plan.router /\ plan.mode = "mixed"
    BY <1>2, <2>1
  <2> QED BY <1>1, <1>3, <2>1, <2>2 DEF Owned
<1>5. ASSUME NEW v, Says(<<"nat", "OUTPUT">>, x, v), v # "accept"
      PROVE  Owned(x) /\ plan.mode # "tun" /\ x.kind \in Tcp /\ v = "core"
  <2>1. PICK c \in Made(plan) : /\ HookOf(c) = <<"nat", "OUTPUT">>
                                /\ v = Judged(c, plan, x) /\ v # "return"
    BY <1>5 DEF Says
  <2>2. c = Out("nat") /\ plan.router /\ plan.mode # "tun"
    BY <1>2, <2>1
  <2> QED BY <1>1, <1>3, <2>1, <2>2 DEF Owned
<1> QED BY <1>4, <1>5

\* Promise and Handed, for a client's packet and for one of the router's own.
LEMMA PromiseIs ==
  ASSUME plan \in Plans, NEW x \in Packets
  PROVE  /\ Sent(x) /\ ~Asked(x) => Promise(x) = Routed(x, FALSE)
         /\ ~Sent(x) /\ (~Owned(x) \/ plan.mode = "tun")
              => Promise(x) = Routed(x, FALSE)
         /\ Sent(x) /\ Asked(x) =>
              Promise(x) =
                IF plan.hijack /\ x.kind \in Dns THEN "dns"
                ELSE IF plan.mode = "tun" THEN "tunnel"
                ELSE IF x.kind \in Tcp \/ plan.mode = "tproxy" THEN "core"
                ELSE IF plan.mode = "mixed" THEN "tunnel"
                ELSE IF x.kind = "quic" /\ plan.quic THEN "refused" ELSE "direct"
         /\ ~Sent(x) /\ Owned(x) /\ plan.mode # "tun" =>
              Promise(x) =
                IF x.kind \in Tcp THEN "core"
                ELSE IF plan.mode = "mixed" /\ ~(x.kind = "dnsUdp" /\ plan.hijack)
                THEN "tunnel" ELSE "direct"
<1>1. plan.mode \in Modes /\ plan.hijack \in BOOLEAN /\ plan.router \in BOOLEAN
      /\ plan.quic \in BOOLEAN
  BY PlansAssumption DEF Plan
<1>2. /\ x.from \in Senders /\ x.spared \in BOOLEAN /\ x.kind \in Kinds
      /\ ~Sent(x) => x.from \in {"router", "core"}
  BY MatchesOn
<1>3. /\ Sent(x) => x.from # "core" /\ x.from # "router"
      /\ ~Sent(x) => x.from = "router" \/ x.from = "core"
  BY <1>2, NamesAssumption DEF Sent
<1>4. CASE Sent(x) /\ ~Asked(x)
  BY <1>3, <1>4 DEF Promise, Asked, Excused
<1>5. CASE ~Sent(x) /\ (~Owned(x) \/ plan.mode = "tun")
  BY <1>3, <1>5 DEF Promise, Owned, Excused
<1>6. CASE Sent(x) /\ Asked(x)
  BY <1>1, <1>2, <1>3, <1>6 DEF Promise, Asked, Excused, Modes, Kinds, Dns, Tcp
<1>7. CASE ~Sent(x) /\ Owned(x) /\ plan.mode # "tun"
  BY <1>1, <1>2, <1>3, <1>7 DEF Promise, Owned, Excused, Modes, Kinds, Dns, Tcp
<1> QED BY <1>4, <1>5, <1>6, <1>7

LEMMA OnlyAsSaid ==
  ASSUME plan \in Plans, UsesFirewall(plan), plan.mode = "mixed" => TunnelUp,
         NEW x \in Packets,
         Sent(x) => /\ Says(<<"mangle", "PREROUTING">>, x,
                            Verdict(<<"mangle", "PREROUTING">>, x))
                    /\ Says(<<"nat", "PREROUTING">>, x,
                            Verdict(<<"nat", "PREROUTING">>, x))
                    /\ Says(<<"filter", "FORWARD">>, x,
                            Verdict(<<"filter", "FORWARD">>, x)),
         ~Sent(x) => /\ Says(<<"mangle", "OUTPUT">>, x, Verdict(<<"mangle", "OUTPUT">>, x))
                     /\ Says(<<"nat", "OUTPUT">>, x, Verdict(<<"nat", "OUTPUT">>, x))
  PROVE  \/ Handed(x) \in {Routed(x, FALSE), Promise(x)}
         \/ Handed(x) = "lost" /\ plan.mode = "tproxy" /\ ~divert
<1> DEFINE side == IF Sent(x) THEN "PREROUTING" ELSE "OUTPUT"
           m == Verdict(<<"mangle", side>>, x)
           n == Verdict(<<"nat", side>>, x)
           f == Verdict(<<"filter", "FORWARD">>, x)
<1>1. Handed(x) =
        CASE m \in {"tproxy", "tproxyDns"} ->
               IF ~divert THEN "lost" ELSE IF m = "tproxy" THEN "core" ELSE "dns"
          [] m \notin {"tproxy", "tproxyDns"} /\ n \in {"core", "dns"} -> n
          [] OTHER -> IF Sent(x) /\ f = "reject" THEN "refused" ELSE Routed(x, m = "mark")
  BY DEF Handed
<1>2. plan.mode \in Modes
  BY PlansAssumption DEF Plan
<1>3. ~Excused(x) /\ x.from # "core" /\ plan.mode = "mixed" => Routed(x, TRUE) = "tunnel"
  BY DEF Routed, Excused, AllBypass
<1>4. CASE Sent(x)
  <2>1. x.from # "core"
    BY <1>4, NamesAssumption DEF Sent
  <2>2. \/ m = "accept"
        \/ /\ Asked(x) /\ plan.mode = "mixed" /\ m = "mark"
           /\ x.kind \notin Tcp /\ ~(x.kind \in Dns /\ plan.hijack)
        \/ /\ Asked(x) /\ plan.mode = "tproxy"
           /\ m = IF x.kind \in Dns /\ plan.hijack THEN "tproxyDns" ELSE "tproxy"
    BY <1>4, SaysOfClients
  <2>3. \/ n = "accept"
        \/ /\ Asked(x) /\ plan.mode # "tproxy"
           /\ x.kind \in Dns /\ (plan.hijack \/ plan.mode = "tun") /\ n = "dns"
        \/ /\ Asked(x) /\ plan.mode \in {"redirect", "mixed"}
           /\ ~(x.kind \in Dns /\ plan.hijack) /\ x.kind \in Tcp /\ n = "core"
    BY <1>4, SaysOfClients
  <2>4. \/ f = "accept"
        \/ /\ Asked(x) /\ plan.mode = "redirect" /\ plan.quic
           /\ x.kind = "quic" /\ f = "reject"
    BY <1>4, SaysOfClients
  <2>5. Asked(x) => ~Excused(x)
    BY DEF Asked
  <2>6. Asked(x) =>
          Promise(x) =
            IF plan.hijack /\ x.kind \in Dns THEN "dns"
            ELSE IF plan.mode = "tun" THEN "tunnel"
            ELSE IF x.kind \in Tcp \/ plan.mode = "tproxy" THEN "core"
            ELSE IF plan.mode = "mixed" THEN "tunnel"
            ELSE IF x.kind = "quic" /\ plan.quic THEN "refused" ELSE "direct"
    BY <1>4, PromiseIs
  <2> HIDE DEF m, n, f
  <2>7. CASE m \in {"tproxy", "tproxyDns"}
    BY <1>1, <2>2, <2>6, <2>7
  <2>8. CASE m \notin {"tproxy", "tproxyDns"} /\ n \in {"core", "dns"}
    <3>1. Handed(x) = n
      BY <1>1, <2>8
    <3>2. plan.mode = "tun" => plan.hijack
      BY DEF UsesFirewall, NeedsFirewallCapture
    <3>3. CASE n = "dns"
      BY <2>3, <2>6, <3>1, <3>2, <3>3
    <3>4. CASE n = "core"
      <4>1. Asked(x) /\ plan.mode \in {"redirect", "mixed"} /\ x.kind \in Tcp
            /\ ~(x.kind \in Dns /\ plan.hijack)
        BY <2>3, <3>4
      <4>2. Promise(x) = "core"
        BY <2>6, <4>1
      <4> QED BY <3>1, <3>4, <4>2
    <3> QED BY <2>8, <3>3, <3>4
  <2>9. CASE m \notin {"tproxy", "tproxyDns"} /\ n \notin {"core", "dns"}
    <3>1. Handed(x) = IF f = "reject" THEN "refused" ELSE Routed(x, m = "mark")
      BY <1>1, <1>4, <2>9
    <3>2. CASE f = "reject"
      BY <2>4, <2>6, <3>1, <3>2 DEF Tcp, Dns
    <3>3. CASE f # "reject" /\ m = "mark"
      <4>1. Handed(x) = "tunnel"
        BY <1>3, <2>1, <2>2, <2>5, <3>1, <3>3
      <4>2. Promise(x) = "tunnel"
        BY <2>2, <2>6, <3>3
      <4> QED BY <4>1, <4>2
    <3>4. CASE f # "reject" /\ m # "mark"
      <4>1. (m = "mark") = FALSE
        BY <3>4
      <4>2. Handed(x) = Routed(x, FALSE)
        BY <3>1, <3>4, <4>1
      <4> QED BY <4>2
    <3> QED BY <3>2, <3>3, <3>4
  <2> QED BY <2>7, <2>8, <2>9
<1>5. CASE ~Sent(x)
  <2>1. \/ m = "accept"
        \/ /\ Owned(x) /\ plan.mode = "mixed" /\ m = "mark"
           /\ x.kind \notin Tcp /\ ~(x.kind = "dnsUdp" /\ plan.hijack)
    BY <1>5, SaysOfRouter
  <2>2. \/ n = "accept"
        \/ Owned(x) /\ plan.mode # "tun" /\ x.kind \in Tcp /\ n = "core"
    BY <1>5, SaysOfRouter
  <2>3. Owned(x) => ~Excused(x) /\ x.from = "router"
    BY DEF Owned
  <2>4. Owned(x) /\ plan.mode # "tun" =>
          Promise(x) =
            IF x.kind \in Tcp THEN "core"
            ELSE IF plan.mode = "mixed" /\ ~(x.kind = "dnsUdp" /\ plan.hijack)
            THEN "tunnel" ELSE "direct"
    BY <1>5, PromiseIs
  <2> HIDE DEF m, n, f
  <2>5. CASE n = "core"
    <3>1. Handed(x) = "core"
      BY <1>1, <2>1, <2>5
    <3> QED BY <2>2, <2>4, <2>5, <3>1
  <2>6. CASE n # "core"
    <3>1. Handed(x) = Routed(x, m = "mark")
      BY <1>1, <1>5, <2>1, <2>2, <2>6
    <3>2. CASE m = "mark"
      <4>1. Handed(x) = "tunnel"
        BY <1>3, <2>1, <2>3, <3>1, <3>2
      <4>2. Promise(x) = "tunnel"
        BY <2>1, <2>4, <3>2
      <4> QED BY <4>1, <4>2
    <3>3. CASE m # "mark"
      <4>1. (m = "mark") = FALSE
        BY <3>3
      <4> QED BY <3>1, <4>1
    <3> QED BY <3>2, <3>3
  <2> QED BY <2>5, <2>6
<1> QED BY <1>4, <1>5

\* A hook that sends every packet to the chain that is for it.
Heeds(h, x) ==
  \A c \in Made(plan) :
    HookOf(c) = h /\ Reached(c, x) /\ Judged(c, plan, x) # "return" =>
      Verdict(h, x) = Judged(c, plan, x)

LEMMA HeededIsPromise ==
  ASSUME plan \in Plans, plan.mode \in {"mixed", "tun"} => TunnelUp,
         plan.mode = "tproxy" => divert, UsesFirewall(plan), NEW x \in Packets,
         Sent(x) => \A h \in {<<"mangle", "PREROUTING">>, <<"nat", "PREROUTING">>,
                              <<"filter", "FORWARD">>} :
                      Says(h, x, Verdict(h, x)) /\ Heeds(h, x),
         ~Sent(x) => \A h \in {<<"mangle", "OUTPUT">>, <<"nat", "OUTPUT">>} :
                       Says(h, x, Verdict(h, x)) /\ Heeds(h, x)
  PROVE  Handed(x) = Promise(x)
<1> DEFINE side == IF Sent(x) THEN "PREROUTING" ELSE "OUTPUT"
           m == Verdict(<<"mangle", side>>, x)
           n == Verdict(<<"nat", side>>, x)
           f == Verdict(<<"filter", "FORWARD">>, x)
<1>1. Handed(x) =
        CASE m \in {"tproxy", "tproxyDns"} ->
               IF ~divert THEN "lost" ELSE IF m = "tproxy" THEN "core" ELSE "dns"
          [] m \notin {"tproxy", "tproxyDns"} /\ n \in {"core", "dns"} -> n
          [] OTHER -> IF Sent(x) /\ f = "reject" THEN "refused" ELSE Routed(x, m = "mark")
  BY DEF Handed
<1>2. plan.mode \in Modes /\ x.kind \in Kinds /\ plan.hijack \in BOOLEAN
  <2>1. x.kind \in Kinds
    BY MatchesOn
  <2> QED BY <2>1, PlansAssumption DEF Plan
<1>3. /\ ~Excused(x) /\ x.from # "core" /\ plan.mode = "mixed"
           => Routed(x, TRUE) = "tunnel" /\ Routed(x, FALSE) = "direct"
      /\ plan.mode \in {"redirect", "tproxy"} => Routed(x, FALSE) = "direct"
      /\ ~Excused(x) /\ x.from # "core" /\ plan.mode = "tun"
           => Routed(x, FALSE) = "tunnel"
  BY DEF Routed, Excused, AllBypass
<1>4. CASE Sent(x)
  <2>1. x.from # "core"
    BY <1>4, NamesAssumption DEF Sent
  <2>2. \/ m = "accept"
        \/ /\ Asked(x) /\ plan.mode = "mixed" /\ m = "mark"
           /\ x.kind \notin Tcp /\ ~(x.kind \in Dns /\ plan.hijack)
        \/ /\ Asked(x) /\ plan.mode = "tproxy"
           /\ m = IF x.kind \in Dns /\ plan.hijack THEN "tproxyDns" ELSE "tproxy"
    BY <1>4, SaysOfClients
  <2>3. \/ n = "accept"
        \/ /\ Asked(x) /\ plan.mode # "tproxy"
           /\ x.kind \in Dns /\ (plan.hijack \/ plan.mode = "tun") /\ n = "dns"
        \/ /\ Asked(x) /\ plan.mode \in {"redirect", "mixed"}
           /\ ~(x.kind \in Dns /\ plan.hijack) /\ x.kind \in Tcp /\ n = "core"
    BY <1>4, SaysOfClients
  <2>4. \/ f = "accept"
        \/ /\ Asked(x) /\ plan.mode = "redirect" /\ plan.quic
           /\ x.kind = "quic" /\ f = "reject"
    BY <1>4, SaysOfClients
  <2>5. Asked(x) => ~Excused(x)
    BY DEF Asked
  <2>6. Asked(x) =>
          Promise(x) =
            IF plan.hijack /\ x.kind \in Dns THEN "dns"
            ELSE IF plan.mode = "tun" THEN "tunnel"
            ELSE IF x.kind \in Tcp \/ plan.mode = "tproxy" THEN "core"
            ELSE IF plan.mode = "mixed" THEN "tunnel"
            ELSE IF x.kind = "quic" /\ plan.quic THEN "refused" ELSE "direct"
    BY <1>4, PromiseIs
  <2>7. ~Asked(x) => Promise(x) = Routed(x, FALSE)
    BY <1>4, PromiseIs
  <2>8. /\ Asked(x) /\ plan.mode = "mixed" /\ x.kind \notin Tcp
             /\ ~(x.kind \in Dns /\ plan.hijack) => m = "mark"
        /\ Asked(x) /\ plan.mode = "tproxy" =>
             m = IF x.kind \in Dns /\ plan.hijack THEN "tproxyDns" ELSE "tproxy"
        /\ Asked(x) /\ plan.mode # "tproxy" /\ x.kind \in Dns
             /\ (plan.hijack \/ plan.mode = "tun") => n = "dns"
        /\ Asked(x) /\ plan.mode \in {"redirect", "mixed"} /\ x.kind \in Tcp
             /\ ~(x.kind \in Dns /\ plan.hijack) => n = "core"
        /\ Asked(x) /\ plan.mode = "redirect" /\ plan.quic /\ x.kind = "quic"
             => f = "reject"
    <3> SUFFICES ASSUME Asked(x)
                 PROVE  /\ plan.mode = "mixed" /\ x.kind \notin Tcp
                             /\ ~(x.kind \in Dns /\ plan.hijack) => m = "mark"
                        /\ plan.mode = "tproxy" =>
                             m = IF x.kind \in Dns /\ plan.hijack
                                 THEN "tproxyDns" ELSE "tproxy"
                        /\ plan.mode # "tproxy" /\ x.kind \in Dns
                             /\ (plan.hijack \/ plan.mode = "tun") => n = "dns"
                        /\ plan.mode \in {"redirect", "mixed"} /\ x.kind \in Tcp
                             /\ ~(x.kind \in Dns /\ plan.hijack) => n = "core"
                        /\ plan.mode = "redirect" /\ plan.quic /\ x.kind = "quic"
                             => f = "reject"
      OBVIOUS
    <3>1. /\ ~Excused(x) /\ \A c : Reached(c, x)
      BY DEF Asked, Reached
    <3>2. /\ Heeds(<<"mangle", "PREROUTING">>, x) /\ Heeds(<<"nat", "PREROUTING">>, x)
          /\ Heeds(<<"filter", "FORWARD">>, x)
      BY <1>4
    <3>3. /\ plan.mode = "mixed" /\ Judged(Mark, plan, x) # "return"
               => m = Judged(Mark, plan, x)
          /\ plan.mode = "tproxy" /\ Judged(Pre("mangle"), plan, x) # "return"
               => m = Judged(Pre("mangle"), plan, x)
      BY <1>4, <3>1, <3>2, MadeIs, HooksOf DEF Heeds
    <3>4. plan.mode # "tproxy" /\ Judged(Pre("nat"), plan, x) # "return"
            => n = Judged(Pre("nat"), plan, x)
      BY <1>4, <3>1, <3>2, MadeIs, HooksOf DEF Heeds
    <3>5. plan.mode = "redirect" /\ plan.quic /\ Judged(Quic, plan, x) # "return"
            => f = Judged(Quic, plan, x)
      BY <1>4, <3>1, <3>2, MadeIs, HooksOf DEF Heeds
    <3>6. /\ Judged(Mark, plan, x) =
               IF x.kind \in Tcp \/ (x.kind \in Dns /\ plan.hijack)
               THEN "return" ELSE "mark"
          /\ Judged(Pre("mangle"), plan, x) =
               IF x.kind \in Dns /\ plan.hijack THEN "tproxyDns" ELSE "tproxy"
          /\ Judged(Pre("nat"), plan, x) =
               IF x.kind \in Dns /\ (plan.hijack \/ plan.mode = "tun") THEN "dns"
               ELSE IF x.kind \in Tcp /\ plan.mode # "tun" THEN "core" ELSE "return"
          /\ Judged(Quic, plan, x) = IF x.kind # "quic" THEN "return" ELSE "reject"
      BY <3>1, ChainsApart DEF Judged, Excused
    <3> HIDE DEF m, n, f
    <3> QED BY <3>3, <3>4, <3>5, <3>6
  <2> HIDE DEF m, n, f
  <2>9. CASE ~Asked(x)
    <3>1. m = "accept" /\ n = "accept" /\ f = "accept"
      BY <2>2, <2>3, <2>4, <2>9
    <3>2. (m = "mark") = FALSE
      BY <3>1
    <3>3. Handed(x) = Routed(x, m = "mark")
      BY <1>1, <3>1
    <3> QED BY <2>7, <2>9, <3>2, <3>3
  <2>10. CASE Asked(x) /\ plan.mode = "tproxy"
    BY <1>1, <2>6, <2>8, <2>10
  <2>11. CASE Asked(x) /\ plan.mode # "tproxy"
    <3>1. m \in {"accept", "mark"} /\ ~(m \in {"tproxy", "tproxyDns"})
      BY <2>2, <2>11
    <3>2. CASE n \in {"core", "dns"}
      <4>1. Handed(x) = n
        BY <1>1, <3>1, <3>2
      <4> QED BY <2>3, <2>6, <2>11, <3>2, <4>1, UsesFirewall(plan), <1>2
              DEF UsesFirewall, NeedsFirewallCapture, Modes
    <3>3. CASE n \notin {"core", "dns"}
      <4>1. Handed(x) = IF f = "reject" THEN "refused" ELSE Routed(x, m = "mark")
        BY <1>1, <1>4, <3>1, <3>3
      <4>2. (m = "mark") \in BOOLEAN
        OBVIOUS
      <4>3. CASE f = "reject"
        BY <2>4, <2>6, <4>1, <4>3 DEF Tcp, Dns
      <4>4. CASE f # "reject" /\ m = "mark"
        BY <1>3, <2>1, <2>2, <2>5, <2>6, <4>1, <4>4
      <4>5. CASE f # "reject" /\ m # "mark"
        <5>1. (m = "mark") = FALSE
          BY <4>5
        <5>2. Handed(x) = Routed(x, FALSE)
          BY <4>1, <4>5, <5>1
        <5>3. plan.mode = "redirect" \/ plan.mode = "mixed" \/ plan.mode = "tun"
          BY <1>2, <2>11 DEF Modes
        <5>4. CASE plan.mode = "redirect"
          BY <1>3, <2>6, <2>8, <2>11, <3>3, <4>5, <5>2, <5>4
        <5>5. CASE plan.mode = "mixed"
          BY <1>3, <2>6, <2>8, <2>11, <3>3, <4>5, <5>2, <5>5
        <5>6. CASE plan.mode = "tun"
          BY <1>3, <2>1, <2>5, <2>6, <2>8, <2>11, <3>3, <5>2, <5>6
        <5> QED BY <5>3, <5>4, <5>5, <5>6
      <4> QED BY <4>3, <4>4, <4>5
    <3> QED BY <3>2, <3>3
  <2> QED BY <2>9, <2>10, <2>11
<1>5. CASE ~Sent(x)
  <2>1. \/ m = "accept"
        \/ /\ Owned(x) /\ plan.mode = "mixed" /\ m = "mark"
           /\ x.kind \notin Tcp /\ ~(x.kind = "dnsUdp" /\ plan.hijack)
    BY <1>5, SaysOfRouter
  <2>2. \/ n = "accept"
        \/ Owned(x) /\ plan.mode # "tun" /\ x.kind \in Tcp /\ n = "core"
    BY <1>5, SaysOfRouter
  <2>3. Owned(x) => ~Excused(x) /\ x.from = "router" /\ plan.router
    BY DEF Owned
  <2>4. Owned(x) /\ plan.mode # "tun" =>
          Promise(x) =
            IF x.kind \in Tcp THEN "core"
            ELSE IF plan.mode = "mixed" /\ ~(x.kind = "dnsUdp" /\ plan.hijack)
            THEN "tunnel" ELSE "direct"
    BY <1>5, PromiseIs
  <2>5. ~Owned(x) \/ plan.mode = "tun" => Promise(x) = Routed(x, FALSE)
    BY <1>5, PromiseIs
  <2>6. /\ Owned(x) /\ plan.mode = "mixed" /\ x.kind \notin Tcp
             /\ ~(x.kind = "dnsUdp" /\ plan.hijack) => m = "mark"
        /\ Owned(x) /\ plan.mode # "tun" /\ x.kind \in Tcp => n = "core"
    <3>1. \A c : ~ForClients(c) => Reached(c, x)
      BY DEF Reached
    <3>2. Heeds(<<"mangle", "OUTPUT">>, x) /\ Heeds(<<"nat", "OUTPUT">>, x)
      BY <1>5
    <3>3. plan.router /\ plan.mode = "mixed" /\ Judged(Out("mangle"), plan, x) # "return"
            => m = Judged(Out("mangle"), plan, x)
      BY <1>5, <3>1, <3>2, MadeIs, HooksOf, ChainsApart DEF Heeds
    <3>4. plan.router /\ plan.mode # "tun" /\ Judged(Out("nat"), plan, x) # "return"
            => n = Judged(Out("nat"), plan, x)
      BY <1>5, <3>1, <3>2, MadeIs, HooksOf, ChainsApart DEF Heeds
    <3>5. Owned(x) =>
            /\ Judged(Out("mangle"), plan, x) =
                 IF x.kind \in Tcp \/ (x.kind = "dnsUdp" /\ plan.hijack)
                 THEN "return" ELSE "mark"
            /\ Judged(Out("nat"), plan, x) = IF x.kind \in Tcp THEN "core" ELSE "return"
      BY <2>3, ChainsApart DEF Judged, Excused
    <3> HIDE DEF m, n, f
    <3> QED BY <2>3, <3>3, <3>4, <3>5
  <2> HIDE DEF m, n, f
  <2>7. CASE n = "core"
    <3>1. Handed(x) = "core"
      BY <1>1, <2>1, <2>7
    <3> QED BY <2>2, <2>4, <2>7, <3>1
  <2>8. CASE n # "core"
    <3>1. Handed(x) = Routed(x, m = "mark")
      BY <1>1, <1>5, <2>1, <2>2, <2>8
    <3>2. CASE m = "mark"
      BY <1>3, <2>1, <2>3, <2>4, <3>1, <3>2
    <3>3. CASE m # "mark"
      <4>1. (m = "mark") = FALSE
        BY <3>3
      <4>2. Handed(x) = Routed(x, FALSE)
        BY <3>1, <4>1
      <4>3. CASE ~Owned(x) \/ plan.mode = "tun"
        BY <2>5, <4>2, <4>3
      <4>4. CASE Owned(x) /\ plan.mode # "tun"
        <5>1. x.kind \notin Tcp
          BY <2>6, <2>8, <4>4
        <5>2. Routed(x, FALSE) = "direct"
          BY <1>2, <1>3, <2>3, <4>4 DEF Modes
        <5> QED BY <2>4, <2>6, <3>3, <4>2, <4>4, <5>1, <5>2
      <4> QED BY <4>3, <4>4
    <3> QED BY <3>2, <3>3
  <2> QED BY <2>7, <2>8
<1> QED BY <1>4, <1>5

-----------------------------------------------------------------------------
\* What iptables is told: for every chain one block of commands, which makes
\* it, fills it and hooks it in.

Ends(c, p) == Len(Inner(c, p)) + Len(Leading(c, p))
Nth(c, p, k) ==
  IF k = 0 THEN New(c)
  ELSE IF k <= Len(Inner(c, p)) THEN Add(c, Inner(c, p)[k])
  ELSE Jump(c, Leading(c, p)[k - Len(Inner(c, p))])
Laid(u, C, p, s) ==
  /\ s \in [C -> Nat \ {0}]
  /\ \A c \in C : /\ s[c] + Ends(c, p) <= Len(u)
                  /\ \A k \in 0..Ends(c, p) : u[s[c] + k] = Nth(c, p, k)
  /\ \A i \in 1..Len(u) :
       \/ u[i] \in {Need, Divert}
       \/ \E c \in C : \E k \in 0..Ends(c, p) : i = s[c] + k
LaidOut(u, C, p) == \E s : Laid(u, C, p, s)
Cmds == {Need, Divert} \cup {New(c) : c \in Chains}
        \cup {Add(c, r) : c \in Chains, r \in Rules}
        \cup {Jump(c, S) : c \in Chains, S \in SUBSET Senders}

LEMMA LeadingTyped ==
  ASSUME NEW c \in Chains, NEW p \in Plans
  PROVE  /\ Leading(c, p) \in Seq(SUBSET Senders) /\ Len(Leading(c, p)) \in Nat
         /\ Inner(c, p) \in Seq(Rules) /\ Len(Inner(c, p)) \in Nat
         /\ Ends(c, p) \in Nat
<1>1. p.lan \in Seq(Devices)
  BY PlansAssumption DEF Plan
<1>2. Leading(c, p) \in Seq(SUBSET Senders)
  <2>1. CASE ~ForClients(c)
    <3>1. Leading(c, p) = <<Senders>>
      BY <2>1 DEF Leading
    <3> QED BY <3>1
  <2>2. CASE ForClients(c) /\ p.lan # <<>>
    <3>1. Leading(c, p) = [i \in DOMAIN p.lan |-> {p.lan[i]}]
      BY <2>2 DEF Leading
    <3>2. DOMAIN p.lan = 1..Len(p.lan) /\ Len(p.lan) \in Nat
          /\ \A i \in 1..Len(p.lan) : p.lan[i] \in Devices
      BY <1>1
    <3>3. \A i \in 1..Len(p.lan) : {p.lan[i]} \in SUBSET Senders
      BY <3>2 DEF Senders
    <3> QED BY <3>1, <3>2, <3>3
  <2>3. CASE ForClients(c) /\ p.lan = <<>>
    <3>1. Leading(c, p) = <<IF p.wan # "" THEN Devices \ {p.wan} ELSE Devices>>
      BY <2>3 DEF Leading
    <3>2. (IF p.wan # "" THEN Devices \ {p.wan} ELSE Devices) \in SUBSET Senders
      BY DEF Senders
    <3> HIDE DEF Leading
    <3> DEFINE x == IF p.wan # "" THEN Devices \ {p.wan} ELSE Devices
    <3> HIDE DEF x
    <3>3. x \in SUBSET Senders /\ Leading(c, p) = <<x>>
      BY <3>1, <3>2 DEF x
    <3> QED BY <3>3
  <2> QED BY <2>1, <2>2, <2>3
<1>3. Inner(c, p) \in Seq(Rules)
  BY OwnTyped
<1>4. Len(Leading(c, p)) \in Nat /\ Len(Inner(c, p)) \in Nat
  BY <1>2, <1>3
<1> QED BY <1>2, <1>3, <1>4 DEF Ends

LEMMA LaidBoth ==
  ASSUME NEW u \in Seq(Cmds), NEW v \in Seq(Cmds), NEW p \in Plans,
         NEW C \in SUBSET Chains, NEW D \in SUBSET Chains, C \cap D = {},
         LaidOut(u, C, p), LaidOut(v, D, p)
  PROVE  LaidOut(u \o v, C \cup D, p)
<1>1. PICK s : Laid(u, C, p, s)
  BY DEF LaidOut
<1>2. PICK t : Laid(v, D, p, t)
  BY DEF LaidOut
<1> DEFINE w == u \o v
           n == Len(u)
           r == [c \in C \cup D |-> IF c \in C THEN s[c] ELSE n + t[c]]
<1>3. /\ Len(w) = n + Len(v) /\ n \in Nat /\ Len(v) \in Nat
      /\ \A i \in 1..n : w[i] = u[i]
      /\ \A i \in 1..Len(v) : w[n + i] = v[i]
  BY ONLY u \in Seq(Cmds), v \in Seq(Cmds), PlacesOfBoth
<1>4. \A c \in C \cup D : Ends(c, p) \in Nat
  BY LeadingTyped
<1>5. /\ s \in [C -> Nat \ {0}]
      /\ \A c \in C : /\ s[c] + Ends(c, p) <= n
                      /\ \A k \in 0..Ends(c, p) : u[s[c] + k] = Nth(c, p, k)
      /\ \A i \in 1..n :
           \/ u[i] \in {Need, Divert}
           \/ \E c \in C : \E k \in 0..Ends(c, p) : i = s[c] + k
  BY <1>1 DEF Laid
<1>6. /\ t \in [D -> Nat \ {0}]
      /\ \A c \in D : /\ t[c] + Ends(c, p) <= Len(v)
                      /\ \A k \in 0..Ends(c, p) : v[t[c] + k] = Nth(c, p, k)
      /\ \A i \in 1..Len(v) :
           \/ v[i] \in {Need, Divert}
           \/ \E c \in D : \E k \in 0..Ends(c, p) : i = t[c] + k
  BY <1>2 DEF Laid
<1> HIDE DEF w, n
<1>7. /\ r \in [C \cup D -> Nat \ {0}]
      /\ \A c \in C : r[c] = s[c] /\ s[c] \in Nat \ {0}
      /\ \A c \in D : r[c] = n + t[c] /\ t[c] \in Nat \ {0}
  BY <1>3, <1>5, <1>6
<1> HIDE DEF r
<1>8. ASSUME NEW c \in C \cup D
      PROVE  /\ r[c] + Ends(c, p) <= Len(w)
             /\ \A k \in 0..Ends(c, p) : w[r[c] + k] = Nth(c, p, k)
  <2>1. CASE c \in C
    <3>1. r[c] + Ends(c, p) <= Len(w)
      BY <1>3, <1>4, <1>5, <1>7, <2>1
    <3>2. ASSUME NEW k \in 0..Ends(c, p) PROVE w[r[c] + k] = Nth(c, p, k)
      <4>1. s[c] + k \in 1..n
        BY <1>3, <1>4, <1>5, <1>7, <2>1
      <4> QED BY <1>3, <1>5, <1>7, <2>1, <4>1
    <3> QED BY <3>1, <3>2
  <2>2. CASE c \in D
    <3>1. r[c] + Ends(c, p) <= Len(w)
      BY <1>3, <1>4, <1>6, <1>7, <2>2
    <3>2. ASSUME NEW k \in 0..Ends(c, p) PROVE w[r[c] + k] = Nth(c, p, k)
      <4>1. t[c] + k \in 1..Len(v) /\ r[c] + k = n + (t[c] + k)
        BY <1>3, <1>4, <1>6, <1>7, <2>2
      <4> QED BY <1>3, <1>6, <2>2, <4>1
    <3> QED BY <3>1, <3>2
  <2> QED BY <2>1, <2>2
<1>9. ASSUME NEW i \in 1..Len(w)
      PROVE  \/ w[i] \in {Need, Divert}
             \/ \E c \in C \cup D : \E k \in 0..Ends(c, p) : i = r[c] + k
  <2>1. CASE i \in 1..n
    <3>1. w[i] = u[i]
      BY <1>3, <2>1
    <3>2. CASE u[i] \in {Need, Divert}
      BY <3>1, <3>2
    <3>3. CASE \E c \in C : \E k \in 0..Ends(c, p) : i = s[c] + k
      BY <1>7, <3>3
    <3> QED BY <1>5, <2>1, <3>2, <3>3
  <2>2. CASE i \notin 1..n
    <3>1. PICK j \in 1..Len(v) : i = n + j
      <4>1. i - n \in 1..Len(v) /\ i = n + (i - n)
        BY <1>3, <2>2
      <4> QED BY <4>1
    <3>2. w[i] = v[j]
      BY <1>3, <3>1
    <3>3. CASE v[j] \in {Need, Divert}
      BY <3>2, <3>3
    <3>4. CASE \E c \in D : \E k \in 0..Ends(c, p) : j = t[c] + k
      <4>1. PICK c \in D : \E k \in 0..Ends(c, p) : j = t[c] + k
        BY <3>4
      <4>2. PICK k \in 0..Ends(c, p) : j = t[c] + k
        BY <4>1
      <4>3. i = r[c] + k
        <5>1. r[c] = n + t[c] /\ t[c] \in Nat
          BY <1>7
        <5>2. n \in Nat /\ k \in Nat
          BY <1>3, <1>4
        <5> QED BY ONLY <3>1, <4>2, <5>1, <5>2
      <4> QED BY <4>3
    <3> QED BY <1>6, <3>3, <3>4
  <2> QED BY <2>1, <2>2
<1>10. Laid(w, C \cup D, p, r)
  BY <1>7, <1>8, <1>9 DEF Laid
<1> QED BY <1>10 DEF LaidOut, w

LEMMA LaidNone ==
  ASSUME NEW u \in Seq(Cmds), NEW p, \A i \in 1..Len(u) : u[i] \in {Need, Divert}
  PROVE  LaidOut(u, {}, p)
<1> DEFINE s == [c \in {} |-> 1]
<1>1. s \in [{} -> Nat \ {0}]
  OBVIOUS
<1> HIDE DEF s
<1>2. Laid(u, {}, p, s)
  BY <1>1 DEF Laid
<1> QED BY <1>2 DEF LaidOut

LEMMA LaidEmpty ==
  ASSUME NEW p
  PROVE  <<>> \in Seq(Cmds) /\ LaidOut(<<>>, {}, p)
<1>1. <<>> \in Seq(Cmds) /\ Len(<<>>) = 0
  OBVIOUS
<1>2. \A i \in 1..Len(<<>>) : <<>>[i] \in {Need, Divert}
  BY <1>1
<1> QED BY <1>1, <1>2, LaidNone

\* u makes the chain c and fills it with the rules R.
Spells(u, c, R) ==
  /\ u \in Seq(Cmds) /\ R \in Seq(Rules)
  /\ Len(u) = 1 + Len(R) /\ u[1] = New(c)
  /\ \A k \in 1..Len(R) : u[1 + k] = Add(c, R[k])

LEMMA AddsTyped ==
  ASSUME NEW c \in Chains, NEW Q \in Seq(Rules)
  PROVE  /\ Adds(c, Q) \in Seq(Cmds) /\ Len(Adds(c, Q)) = Len(Q)
         /\ \A k \in 1..Len(Q) : Adds(c, Q)[k] = Add(c, Q[k])
<1> DEFINE f(k) == Add(c, Q[k])
<1>1. DOMAIN Q = 1..Len(Q) /\ Len(Q) \in Nat /\ \A k \in 1..Len(Q) : Q[k] \in Rules
  OBVIOUS
<1>2. \A k \in 1..Len(Q) : f(k) \in Cmds
  BY <1>1 DEF Cmds
<1>3. Adds(c, Q) = [k \in 1..Len(Q) |-> f(k)]
  BY <1>1 DEF Adds
<1> HIDE DEF f
<1>4. /\ Adds(c, Q) \in Seq(Cmds) /\ Len(Adds(c, Q)) = Len(Q)
      /\ \A k \in 1..Len(Q) : Adds(c, Q)[k] = f(k)
  BY <1>1, <1>2, <1>3
<1> QED BY <1>4 DEF f

LEMMA SpellsMore ==
  ASSUME NEW c \in Chains, NEW u, NEW R, Spells(u, c, R), NEW Q \in Seq(Rules)
  PROVE  Spells(u \o Adds(c, Q), c, R \o Q)
<1> DEFINE a == Adds(c, Q)
           w == u \o a
           T == R \o Q
<1>1. /\ u \in Seq(Cmds) /\ R \in Seq(Rules)
      /\ Len(u) = 1 + Len(R) /\ u[1] = New(c)
      /\ \A k \in 1..Len(R) : u[1 + k] = Add(c, R[k])
  BY DEF Spells
<1>2. /\ a \in Seq(Cmds) /\ Len(a) = Len(Q)
      /\ \A k \in 1..Len(Q) : a[k] = Add(c, Q[k])
  BY AddsTyped
<1> HIDE DEF a
<1>3. /\ w \in Seq(Cmds) /\ Len(w) = Len(u) + Len(a) /\ Len(u) \in Nat /\ Len(a) \in Nat
      /\ \A i \in 1..Len(u) : w[i] = u[i]
      /\ \A i \in 1..Len(a) : w[Len(u) + i] = a[i]
  <2>1. u \in Seq(Cmds) /\ a \in Seq(Cmds)
    BY <1>1, <1>2
  <2> QED BY ONLY <2>1, PlacesOfBoth
<1>4. /\ T \in Seq(Rules) /\ Len(T) = Len(R) + Len(Q) /\ Len(R) \in Nat /\ Len(Q) \in Nat
      /\ \A i \in 1..Len(R) : T[i] = R[i]
      /\ \A i \in 1..Len(Q) : T[Len(R) + i] = Q[i]
  <2>1. R \in Seq(Rules) /\ Q \in Seq(Rules)
    BY <1>1
  <2> QED BY ONLY <2>1, PlacesOfBoth
<1> HIDE DEF w, T
<1>5. w[1] = New(c)
  BY <1>1, <1>3, <1>4
<1>6. ASSUME NEW k \in 1..Len(T) PROVE w[1 + k] = Add(c, T[k])
  <2>1. CASE k \in 1..Len(R)
    <3>1. 1 + k \in 1..Len(u)
      BY <1>1, <1>4, <2>1
    <3> QED BY <1>1, <1>3, <1>4, <2>1, <3>1
  <2>2. CASE k \notin 1..Len(R)
    <3>1. PICK j \in 1..Len(Q) : k = Len(R) + j
      <4>1. k - Len(R) \in 1..Len(Q) /\ k = Len(R) + (k - Len(R))
        BY <1>4, <2>2
      <4> QED BY <4>1
    <3>2. 1 + k = Len(u) + j /\ j \in 1..Len(a)
      BY <1>1, <1>2, <1>4, <3>1
    <3> QED BY <1>2, <1>3, <1>4, <3>1, <3>2
  <2> QED BY <2>1, <2>2
<1>7. Len(w) = 1 + Len(T)
  BY <1>1, <1>2, <1>3, <1>4
<1>8. Spells(w, c, T)
  BY <1>3, <1>4, <1>5, <1>6, <1>7 DEF Spells
<1> QED BY <1>8 DEF w, T, a

LEMMA SpelledIsLaid ==
  ASSUME NEW c \in Chains, NEW p \in Plans, NEW u, Spells(u, c, Inner(c, p)),
         NEW J \in Seq(Cmds), Len(J) = Len(Leading(c, p)),
         \A k \in 1..Len(J) : J[k] = Jump(c, Leading(c, p)[k])
  PROVE  u \o J \in Seq(Cmds) /\ LaidOut(u \o J, {c}, p)
<1> DEFINE w == u \o J
           s == [d \in {c} |-> 1]
           L == Len(Inner(c, p))
<1>1. /\ u \in Seq(Cmds) /\ Len(u) = 1 + L /\ u[1] = New(c)
      /\ \A k \in 1..L : u[1 + k] = Add(c, Inner(c, p)[k])
  BY DEF Spells
<1>2. /\ w \in Seq(Cmds) /\ Len(w) = Len(u) + Len(J) /\ Len(u) \in Nat /\ Len(J) \in Nat
      /\ \A i \in 1..Len(u) : w[i] = u[i]
      /\ \A i \in 1..Len(J) : w[Len(u) + i] = J[i]
  <2>1. u \in Seq(Cmds) /\ J \in Seq(Cmds)
    BY <1>1
  <2> QED BY ONLY <2>1, PlacesOfBoth
<1>3. L \in Nat /\ Ends(c, p) = L + Len(J) /\ Ends(c, p) \in Nat
  BY LeadingTyped DEF Ends
<1>4. s \in [{c} -> Nat \ {0}] /\ s[c] = 1
  OBVIOUS
<1> HIDE DEF w, s
<1>5. ASSUME NEW k \in 0..Ends(c, p) PROVE w[s[c] + k] = Nth(c, p, k)
  <2>1. CASE k = 0
    <3>1. 1 \in 1..Len(u)
      BY <1>1, <1>3
    <3> QED BY <1>1, <1>2, <1>4, <2>1, <3>1 DEF Nth
  <2>2. CASE k # 0 /\ k <= L
    <3>1. 1 + k \in 1..Len(u) /\ k \in 1..L
      BY <1>1, <1>3, <2>2
    <3>2. Nth(c, p, k) = Add(c, Inner(c, p)[k])
      BY <2>2 DEF Nth
    <3> QED BY <1>1, <1>2, <1>4, <3>1, <3>2
  <2>3. CASE k # 0 /\ ~(k <= L)
    <3>1. k - L \in 1..Len(J) /\ 1 + k = Len(u) + (k - L)
      BY <1>1, <1>2, <1>3, <2>3
    <3>2. Nth(c, p, k) = Jump(c, Leading(c, p)[k - L])
      BY <2>3 DEF Nth
    <3>3. w[Len(u) + (k - L)] = J[k - L]
      BY <1>2, <3>1
    <3>4. J[k - L] = Jump(c, Leading(c, p)[k - L])
      BY <3>1
    <3> QED BY <1>4, <3>1, <3>2, <3>3, <3>4
  <2> QED BY <2>1, <2>2, <2>3
<1>6. ASSUME NEW i \in 1..Len(w)
      PROVE  \E k \in 0..Ends(c, p) : i = s[c] + k
  <2>1. i - 1 \in 0..Ends(c, p) /\ i = s[c] + (i - 1)
    BY <1>1, <1>2, <1>3, <1>4
  <2> QED BY <2>1
<1>7. s[c] + Ends(c, p) <= Len(w)
  BY <1>1, <1>2, <1>3, <1>4
<1>8. Laid(w, {c}, p, s)
  BY <1>4, <1>5, <1>6, <1>7 DEF Laid
<1> QED BY <1>2, <1>8 DEF LaidOut, w

LEMMA HookIsLeading ==
  ASSUME NEW c \in Chains, NEW p \in Plans, ForClients(c)
  PROVE  /\ Hook(c, p) \in Seq(Cmds) /\ Len(Hook(c, p)) = Len(Leading(c, p))
         /\ \A k \in 1..Len(Hook(c, p)) : Hook(c, p)[k] = Jump(c, Leading(c, p)[k])
<1>1. p.lan \in Seq(Devices)
  BY PlansAssumption DEF Plan
<1>2. \A S \in SUBSET Senders : Jump(c, S) \in Cmds
  BY DEF Cmds
<1>3. CASE p.lan # <<>>
  <2> DEFINE f(k) == Jump(c, {p.lan[k]})
  <2>1. /\ DOMAIN p.lan = 1..Len(p.lan) /\ Len(p.lan) \in Nat
        /\ \A k \in 1..Len(p.lan) : p.lan[k] \in Devices
    BY <1>1
  <2>2. \A k \in 1..Len(p.lan) : f(k) \in Cmds
    BY <1>2, <2>1 DEF Senders
  <2>3. Leading(c, p) = [i \in 1..Len(p.lan) |-> {p.lan[i]}]
    BY <1>3, <2>1 DEF Leading
  <2>4. Hook(c, p) = [i \in 1..Len(p.lan) |-> f(i)]
    BY <1>3, <2>1 DEF Hook
  <2> HIDE DEF f
  <2>5. /\ Hook(c, p) \in Seq(Cmds) /\ Len(Hook(c, p)) = Len(p.lan)
        /\ \A k \in 1..Len(p.lan) : Hook(c, p)[k] = f(k)
    BY <2>1, <2>2, <2>4
  <2>6. Len(Leading(c, p)) = Len(p.lan)
    BY <2>1, <2>3
  <2>7. \A k \in 1..Len(p.lan) : Leading(c, p)[k] = {p.lan[k]}
    BY <2>3
  <2> QED BY <2>5, <2>6, <2>7 DEF f
<1>4. CASE p.lan = <<>>
  <2> DEFINE x == IF p.wan # "" THEN Devices \ {p.wan} ELSE Devices
  <2>1. x \in SUBSET Senders
    BY DEF Senders
  <2>2. Leading(c, p) = <<x>>
    BY <1>4 DEF Leading
  <2>3. Hook(c, p) = <<Jump(c, x)>>
    BY <1>4 DEF Hook
  <2> HIDE DEF x
  <2>4. Jump(c, x) \in Cmds
    BY <1>2, <2>1
  <2> DEFINE y == Jump(c, x)
  <2> HIDE DEF y
  <2>5. y \in Cmds /\ Hook(c, p) = <<y>>
    BY <2>3, <2>4 DEF y
  <2>6. /\ Hook(c, p) \in Seq(Cmds) /\ Len(Hook(c, p)) = 1 /\ Hook(c, p)[1] = y
        /\ Len(Leading(c, p)) = 1 /\ Leading(c, p)[1] = x
    BY <2>2, <2>5
  <2> QED BY <2>6 DEF y
<1> QED BY <1>3, <1>4

LEMMA CommonRules ==
  /\ \A v \in {"return", "dns", "tproxyDns"} : DnsRules(v) \in Seq(Rules)
  /\ <<On("tcp", "core")>> \in Seq(Rules) /\ <<On("udp", "mark")>> \in Seq(Rules)
  /\ <<On("tcp", "tproxy"), On("udp", "tproxy")>> \in Seq(Rules)
  /\ <<On("quic", "reject")>> \in Seq(Rules) /\ <<On("dnsUdp", "return")>> \in Seq(Rules)
  /\ <<CoreReturns, On("bypass", "return")>> \in Seq(Rules)
  /\ On("mac", "return") \in Rules /\ On("bypass", "return") \in Rules
  /\ On("tcp", "core") \in Rules /\ On("udp", "mark") \in Rules
  /\ On("quic", "reject") \in Rules
<1>1. /\ \A m \in {"mac", "bypass", "tcp", "udp", "quic", "dnsUdp", "dnsTcp"} :
           \A v \in {"return", "dns", "core", "mark", "tproxy", "tproxyDns", "reject"} :
             On(m, v) \in Rules
      /\ CoreReturns \in Rules
  BY RulesTyped DEF Words
<1>2. /\ On("mac", "return") \in Rules /\ On("bypass", "return") \in Rules
      /\ On("tcp", "core") \in Rules /\ On("udp", "mark") \in Rules
      /\ On("quic", "reject") \in Rules /\ On("dnsUdp", "return") \in Rules
      /\ On("tcp", "tproxy") \in Rules /\ On("udp", "tproxy") \in Rules
  BY <1>1
<1>3. \A v \in {"return", "dns", "tproxyDns"} : DnsRules(v) \in Seq(Rules)
  BY DnsRulesTyped DEF Words
<1> QED BY ONLY <1>1, <1>2, <1>3, RuleLists

LEMMA OneRule ==
  ASSUME NEW c, NEW r
  PROVE  Adds(c, <<r>>) = <<Add(c, r)>>
BY DEF Adds

LEMMA NewChainSpells ==
  ASSUME NEW c \in Chains, ForClients(c)
  PROVE  Spells(NewChain(c), c, Guards(c))
<1> DEFINE a == On("mac", "return")
           b == On("bypass", "return")
           x == New(c)
           y == Add(c, a)
           z == Add(c, b)
           n == NewChain(c)
           g == Guards(c)
<1>1. n = <<x, y, z>>
  BY DEF NewChain
<1>2. g = <<a, b>>
  BY DEF Guards
<1>3. a \in Rules /\ b \in Rules
  BY CommonRules
<1> HIDE DEF a, b, n, g
<1>4. x \in Cmds /\ y \in Cmds /\ z \in Cmds
  BY <1>3 DEF Cmds
<1> HIDE DEF x, y, z
<1>5. n \in Seq(Cmds) /\ Len(n) = 3 /\ n[1] = x /\ n[2] = y /\ n[3] = z
  BY <1>1, <1>4
<1>6. g \in Seq(Rules) /\ Len(g) = 2 /\ g[1] = a /\ g[2] = b
  BY <1>2, <1>3
<1>7. \A k \in 1..Len(g) : n[1 + k] = Add(c, g[k])
  BY <1>5, <1>6 DEF y, z
<1>8. Spells(n, c, g)
  BY <1>5, <1>6, <1>7 DEF Spells, x
<1> QED BY <1>8 DEF n, g

LEMMA SpellsOne ==
  ASSUME NEW c \in Chains, ForClients(c), NEW p \in Plans, NEW X \in Seq(Rules),
         Own(c, p) = X
  PROVE  Spells(NewChain(c) \o Adds(c, X), c, Inner(c, p))
<1>1. Spells(NewChain(c), c, Guards(c))
  BY NewChainSpells
<1>2. Spells(NewChain(c) \o Adds(c, X), c, Guards(c) \o X)
  BY <1>1, SpellsMore
<1> QED BY <1>2 DEF Inner

LEMMA SpellsTwo ==
  ASSUME NEW c \in Chains, ForClients(c), NEW p \in Plans, NEW X \in Seq(Rules),
         NEW Y \in Seq(Rules), Own(c, p) = X \o Y
  PROVE  Spells((NewChain(c) \o Adds(c, X)) \o Adds(c, Y), c, Inner(c, p))
<1>1. Spells(NewChain(c), c, Guards(c))
  BY NewChainSpells
<1>2. Spells(NewChain(c) \o Adds(c, X), c, Guards(c) \o X)
  BY <1>1, SpellsMore
<1>3. Spells((NewChain(c) \o Adds(c, X)) \o Adds(c, Y), c, (Guards(c) \o X) \o Y)
  BY <1>2, SpellsMore
<1>4. Guards(c) \in Seq(Rules)
  BY OwnTyped
<1>5. (Guards(c) \o X) \o Y = Guards(c) \o (X \o Y)
  BY ONLY <1>4, X \in Seq(Rules), Y \in Seq(Rules), ConcatAssociative
<1> QED BY <1>3, <1>5 DEF Inner

LEMMA ClientsLaid ==
  ASSUME NEW c \in Chains, ForClients(c), NEW p \in Plans, NEW u,
         Spells(u, c, Inner(c, p))
  PROVE  u \o Hook(c, p) \in Seq(Cmds) /\ LaidOut(u \o Hook(c, p), {c}, p)
BY HookIsLeading, SpelledIsLaid

LEMMA ClientBlocks ==
  ASSUME NEW p \in Plans
  PROVE  /\ NeedsFirewallCapture(p.mode) =>
              NatRules(p) \in Seq(Cmds) /\ LaidOut(NatRules(p), {Pre("nat")}, p)
         /\ ~NeedsFirewallCapture(p.mode) =>
              DnsOnly(p) \in Seq(Cmds) /\ LaidOut(DnsOnly(p), {Pre("nat")}, p)
         /\ UdpMark(p) \in Seq(Cmds) /\ LaidOut(UdpMark(p), {Mark}, p)
         /\ TProxy(p) \in Seq(Cmds) /\ LaidOut(TProxy(p), {Pre("mangle")}, p)
         /\ QuicBlock(p) \in Seq(Cmds) /\ LaidOut(QuicBlock(p), {Quic}, p)
<1>1. p.hijack \in BOOLEAN
  BY PlansAssumption DEF Plan
<1>2. \A s \in Seq(Rules), b \in BOOLEAN : If(b, s) \in Seq(Rules)
  BY RuleLists
<1>3. NeedsFirewallCapture(p.mode) =>
        NatRules(p) \in Seq(Cmds) /\ LaidOut(NatRules(p), {Pre("nat")}, p)
  <2> SUFFICES ASSUME NeedsFirewallCapture(p.mode)
               PROVE  NatRules(p) \in Seq(Cmds) /\ LaidOut(NatRules(p), {Pre("nat")}, p)
    OBVIOUS
  <2> DEFINE c == Pre("nat")
             X == If(p.hijack, DnsRules("dns"))
             Y == <<On("tcp", "core")>>
             u == (NewChain(c) \o Adds(c, X)) \o Adds(c, Y)
  <2>1. X \in Seq(Rules) /\ Y \in Seq(Rules) /\ c \in Chains /\ ForClients(c)
    BY <1>1, <1>2, CommonRules, ChainsNamed, ChainsApart
  <2>2. Own(c, p) = X \o Y
    BY ChainsApart DEF Own, NatChain, DnsRules
  <2>3. NatRules(p) = u \o Hook(c, p)
    BY OneRule DEF NatRules
  <2> HIDE DEF c, X, Y
  <2>4. Spells(u, c, Inner(c, p))
    BY <2>1, <2>2, SpellsTwo
  <2> HIDE DEF u
  <2> QED BY <2>1, <2>3, <2>4, ClientsLaid DEF c
<1>4. ~NeedsFirewallCapture(p.mode) =>
        DnsOnly(p) \in Seq(Cmds) /\ LaidOut(DnsOnly(p), {Pre("nat")}, p)
  <2> SUFFICES ASSUME ~NeedsFirewallCapture(p.mode)
               PROVE  DnsOnly(p) \in Seq(Cmds) /\ LaidOut(DnsOnly(p), {Pre("nat")}, p)
    OBVIOUS
  <2> DEFINE c == Pre("nat")
             X == DnsRules("dns")
             u == NewChain(c) \o Adds(c, X)
  <2>1. X \in Seq(Rules) /\ c \in Chains /\ ForClients(c)
    BY CommonRules, ChainsNamed, ChainsApart
  <2>2. Own(c, p) = X
    BY ChainsApart DEF Own, DnsOnlyChain, DnsRules
  <2>3. DnsOnly(p) = u \o Hook(c, p)
    BY DEF DnsOnly
  <2> HIDE DEF c, X
  <2>4. Spells(u, c, Inner(c, p))
    BY <2>1, <2>2, SpellsOne
  <2> HIDE DEF u
  <2> QED BY <2>1, <2>3, <2>4, ClientsLaid DEF c
<1>5. UdpMark(p) \in Seq(Cmds) /\ LaidOut(UdpMark(p), {Mark}, p)
  <2> DEFINE c == Mark
             X == If(p.hijack, DnsRules("return"))
             Y == <<On("udp", "mark")>>
             u == (NewChain(c) \o Adds(c, X)) \o Adds(c, Y)
  <2>1. X \in Seq(Rules) /\ Y \in Seq(Rules) /\ c \in Chains /\ ForClients(c)
    BY <1>1, <1>2, CommonRules, ChainsNamed, ChainsApart
  <2>2. Own(c, p) = X \o Y
    BY ChainsApart DEF Own, UdpMarkChain, DnsRules
  <2>3. UdpMark(p) = u \o Hook(c, p)
    BY OneRule DEF UdpMark
  <2> HIDE DEF c, X, Y
  <2>4. Spells(u, c, Inner(c, p))
    BY <2>1, <2>2, SpellsTwo
  <2> HIDE DEF u
  <2> QED BY <2>1, <2>3, <2>4, ClientsLaid DEF c
<1>6. TProxy(p) \in Seq(Cmds) /\ LaidOut(TProxy(p), {Pre("mangle")}, p)
  <2> DEFINE c == Pre("mangle")
             X == If(p.hijack, DnsRules("tproxyDns"))
             Y == <<On("tcp", "tproxy"), On("udp", "tproxy")>>
             u == (NewChain(c) \o Adds(c, X)) \o Adds(c, Y)
  <2>1. X \in Seq(Rules) /\ Y \in Seq(Rules) /\ c \in Chains /\ ForClients(c)
    BY <1>1, <1>2, CommonRules, ChainsNamed, ChainsApart
  <2>2. Own(c, p) = X \o Y
    BY ChainsApart DEF Own, TProxyChain, DnsRules
  <2>3. TProxy(p) = u \o Hook(c, p)
    BY DEF TProxy
  <2> HIDE DEF c, X, Y
  <2>4. Spells(u, c, Inner(c, p))
    BY <2>1, <2>2, SpellsTwo
  <2> HIDE DEF u
  <2> QED BY <2>1, <2>3, <2>4, ClientsLaid DEF c
<1>7. QuicBlock(p) \in Seq(Cmds) /\ LaidOut(QuicBlock(p), {Quic}, p)
  <2> DEFINE c == Quic
             X == <<On("quic", "reject")>>
             u == NewChain(c) \o Adds(c, X)
  <2>1. X \in Seq(Rules) /\ c \in Chains /\ ForClients(c)
    BY CommonRules, ChainsNamed, ChainsApart
  <2>2. Own(c, p) = X
    BY ChainsApart DEF Own, QuicChain
  <2>3. QuicBlock(p) = u \o Hook(c, p)
    BY OneRule DEF QuicBlock
  <2> HIDE DEF c, X
  <2>4. Spells(u, c, Inner(c, p))
    BY <2>1, <2>2, SpellsOne
  <2> HIDE DEF u
  <2> QED BY <2>1, <2>3, <2>4, ClientsLaid DEF c
<1> QED BY <1>3, <1>4, <1>5, <1>6, <1>7

LEMMA NewSpells ==
  ASSUME NEW c \in Chains
  PROVE  Spells(<<New(c)>>, c, <<>>)
<1> DEFINE x == New(c)
           u == <<x>>
<1>1. x \in Cmds
  BY DEF Cmds
<1> HIDE DEF x
<1>2. u \in Seq(Cmds) /\ Len(u) = 1 /\ u[1] = x
  BY <1>1
<1>3. <<>> \in Seq(Rules) /\ Len(<<>>) = 0
  OBVIOUS
<1> HIDE DEF u
<1>4. Spells(u, c, <<>>)
  BY <1>2, <1>3 DEF Spells, x
<1> QED BY <1>4 DEF u, x

LEMMA OutputLaid ==
  ASSUME NEW c \in Chains, ~ForClients(c), NEW p \in Plans, NEW rules \in Seq(Rules),
         Own(c, p) = rules
  PROVE  OutputRules(c, rules) \in Seq(Cmds) /\ LaidOut(OutputRules(c, rules), {c}, p)
<1> DEFINE Q == Inner(c, p)
           u == <<New(c)>> \o Adds(c, Q)
           y == Jump(c, Senders)
           J == <<y>>
<1>1. Q \in Seq(Rules)
  BY OwnTyped
<1>2. OutputRules(c, rules) = u \o J
  BY DEF OutputRules, Inner, Guards, OutputGuards
<1>3. Spells(u, c, Q)
  <2>1. <<>> \o Q = Q
    BY ONLY <1>1, ConcatEmptySeq
  <2> HIDE DEF Q
  <2>2. Spells(u, c, <<>> \o Q)
    BY <1>1, NewSpells, SpellsMore
  <2> QED BY <2>1, <2>2
<1>4. y \in Cmds
  BY DEF Cmds
<1>5. Leading(c, p) = <<Senders>>
  BY DEF Leading
<1> HIDE DEF u, y
<1>6. J \in Seq(Cmds) /\ Len(J) = 1 /\ J[1] = y /\ Len(Leading(c, p)) = 1
      /\ Leading(c, p)[1] = Senders
  BY <1>4, <1>5
<1>7. \A k \in 1..Len(J) : J[k] = Jump(c, Leading(c, p)[k])
  BY <1>6 DEF y
<1> HIDE DEF J
<1> QED BY <1>2, <1>3, <1>6, <1>7, SpelledIsLaid

LEMMA LaidIf ==
  ASSUME NEW p, NEW u \in Seq(Cmds), NEW C, LaidOut(u, C, p), NEW b \in BOOLEAN
  PROVE  If(b, u) \in Seq(Cmds) /\ LaidOut(If(b, u), IF b THEN C ELSE {}, p)
<1>1. CASE b
  BY <1>1 DEF If
<1>2. CASE ~b
  BY <1>2, LaidEmpty DEF If
<1> QED BY <1>1, <1>2

\* Two blocks of a program, one after the other.
LEMMA LaidNext ==
  ASSUME NEW p \in Plans, NEW C \in SUBSET Chains, NEW D \in SUBSET Chains,
         C \cap D = {}, NEW u, NEW v,
         u \in Seq(Cmds) /\ LaidOut(u, C, p), v \in Seq(Cmds) /\ LaidOut(v, D, p)
  PROVE  u \o v \in Seq(Cmds) /\ LaidOut(u \o v, C \cup D, p)
<1>1. u \o v \in Seq(Cmds)
  OBVIOUS
<1> QED BY <1>1, LaidBoth

LEMMA OutputParts ==
  ASSUME NEW p \in Plans
  PROVE  /\ Output(p) \in Seq(Cmds)
         /\ LaidOut(Output(p), {Out("nat")} \cup
                      (IF MarksUDPForTun(p.mode) THEN {Out("mangle")} ELSE {}), p)
<1> DEFINE a == OutputRules(Out("nat"), <<On("tcp", "core")>>)
           r == If(p.hijack, <<On("dnsUdp", "return")>>) \o <<On("udp", "mark")>>
           b == OutputRules(Out("mangle"), r)
           m == MarksUDPForTun(p.mode)
           D == IF m THEN {Out("mangle")} ELSE {}
<1>1. p.hijack \in BOOLEAN /\ m \in BOOLEAN
  BY PlansAssumption DEF Plan, MarksUDPForTun
<1>2. \A s \in Seq(Rules), t \in BOOLEAN : If(t, s) \in Seq(Rules)
  BY RuleLists
<1>3. r \in Seq(Rules) /\ <<On("tcp", "core")>> \in Seq(Rules)
  <2>1. If(p.hijack, <<On("dnsUdp", "return")>>) \in Seq(Rules)
        /\ <<On("udp", "mark")>> \in Seq(Rules)
    BY <1>1, <1>2, CommonRules
  <2>2. r \in Seq(Rules)
    BY ONLY <2>1, PlacesOfBoth
  <2> QED BY <2>2, CommonRules
<1>4. Own(Out("nat"), p) = <<On("tcp", "core")>> /\ Own(Out("mangle"), p) = r
  BY ChainsApart DEF Own
<1>5. Output(p) = a \o If(m, b)
  BY DEF Output
<1> HIDE DEF r
<1>6. a \in Seq(Cmds) /\ LaidOut(a, {Out("nat")}, p)
  BY <1>3, <1>4, ChainsNamed, ChainsApart, OutputLaid
<1>7. b \in Seq(Cmds) /\ LaidOut(b, {Out("mangle")}, p)
  BY <1>3, <1>4, ChainsNamed, ChainsApart, OutputLaid
<1> HIDE DEF a, b, m
<1>8. If(m, b) \in Seq(Cmds) /\ LaidOut(If(m, b), D, p)
  BY <1>1, <1>7, LaidIf
<1>9. /\ {Out("nat")} \in SUBSET Chains /\ D \in SUBSET Chains
      /\ {Out("nat")} \cap D = {}
  BY ChainsNamed, ChainsApart
<1> HIDE DEF D
<1>10. a \o If(m, b) \in Seq(Cmds) /\ LaidOut(a \o If(m, b), {Out("nat")} \cup D, p)
  BY <1>6, <1>8, <1>9, LaidNext
<1> QED BY <1>5, <1>10 DEF m, D

LEMMA DivertedLaid ==
  ASSUME NEW p \in Plans
  PROVE  /\ <<Need>> \o TProxy(p) \o <<Divert>> \in Seq(Cmds)
         /\ LaidOut(<<Need>> \o TProxy(p) \o <<Divert>>, {Pre("mangle")}, p)
<1> DEFINE a == <<Need>>
           b == TProxy(p)
           d == <<Divert>>
           x == a \o b
<1>1. /\ a \in Seq(Cmds) /\ Len(a) = 1 /\ a[1] = Need
      /\ d \in Seq(Cmds) /\ Len(d) = 1 /\ d[1] = Divert
  <2>1. Need \in Cmds /\ Divert \in Cmds
    BY DEF Cmds
  <2> QED BY <2>1
<1> HIDE DEF a, d
<1>2. a \in Seq(Cmds) /\ LaidOut(a, {}, p)
  BY <1>1, LaidNone
<1>3. d \in Seq(Cmds) /\ LaidOut(d, {}, p)
  BY <1>1, LaidNone
<1> DEFINE C == {Pre("mangle")}
<1>4. b \in Seq(Cmds) /\ LaidOut(b, C, p)
  BY ClientBlocks
<1>5. C \in SUBSET Chains /\ {} \in SUBSET Chains /\ {} \cap C = {} /\ C \cap {} = {}
      /\ {} \cup C = C /\ C \cup {} = C
  BY ChainsNamed
<1> HIDE DEF b, C
<1>6. x \in Seq(Cmds) /\ LaidOut(x, {} \cup C, p)
  BY <1>2, <1>4, <1>5, LaidNext
<1>7. x \in Seq(Cmds) /\ LaidOut(x, C, p)
  BY <1>5, <1>6
<1> HIDE DEF x
<1>8. x \o d \in Seq(Cmds) /\ LaidOut(x \o d, C \cup {}, p)
  BY <1>3, <1>5, <1>7, LaidNext
<1>9. x \o d \in Seq(Cmds) /\ LaidOut(x \o d, C, p)
  BY <1>5, <1>8
<1> QED BY <1>9 DEF x, a, b, d, C

\* Every program makes just the chains of the ruleset nftables would be given.
LEMMA BodyLaid ==
  ASSUME NEW p \in Plans, UsesFirewall(p)
  PROVE  Body(p) \in Seq(Cmds) /\ LaidOut(Body(p), Made(p), p)
<1>1. p.hijack \in BOOLEAN /\ p.mode \in Modes /\ p.router \in BOOLEAN
      /\ p.quic \in BOOLEAN
  BY PlansAssumption DEF Plan
<1>2. CASE ~NeedsFirewallCapture(p.mode)
  <2>1. p.mode = "tun" /\ p.hijack
    BY <1>2 DEF NeedsFirewallCapture, UsesFirewall
  <2>2. Body(p) = DnsOnly(p)
    BY <1>2, <2>1 DEF Body, If
  <2>3. Made(p) = {Pre("nat")}
    BY <2>1, MadeIs DEF Chains
  <2> QED BY <1>2, <2>2, <2>3, ClientBlocks
<1>3. CASE NeedsFirewallCapture(p.mode)
  <2> DEFINE b1 == CapturesTCPViaRedirect(p.mode)
             b2 == MarksUDPForTun(p.mode)
             b3 == NeedsTProxy(p.mode)
             b4 == p.router
             b5 == p.quic /\ ~CarriesUDP(p.mode)
             u1 == NatRules(p)
             u2 == UdpMark(p)
             u3 == <<Need>> \o TProxy(p) \o <<Divert>>
             u4 == Output(p)
             u5 == QuicBlock(p)
             D4 == {Out("nat")} \cup (IF b2 THEN {Out("mangle")} ELSE {})
             C1 == IF b1 THEN {Pre("nat")} ELSE {}
             C2 == IF b2 THEN {Mark} ELSE {}
             C3 == IF b3 THEN {Pre("mangle")} ELSE {}
             C4 == IF b4 THEN D4 ELSE {}
             C5 == IF b5 THEN {Quic} ELSE {}
             v1 == If(b1, u1)
             v2 == If(b2, u2)
             v3 == If(b3, u3)
             v4 == If(b4, u4)
             v5 == If(b5, u5)
  <2>1. Body(p) = (((v1 \o v2) \o v3) \o v4) \o v5
    BY <1>3 DEF Body
  <2>2. b1 \in BOOLEAN /\ b2 \in BOOLEAN /\ b3 \in BOOLEAN /\ b4 \in BOOLEAN
        /\ b5 \in BOOLEAN
    BY <1>1 DEF CapturesTCPViaRedirect, MarksUDPForTun, NeedsTProxy
  <2>3. /\ u1 \in Seq(Cmds) /\ LaidOut(u1, {Pre("nat")}, p)
        /\ u2 \in Seq(Cmds) /\ LaidOut(u2, {Mark}, p)
        /\ u5 \in Seq(Cmds) /\ LaidOut(u5, {Quic}, p)
    BY <1>3, ClientBlocks
  <2>4. u3 \in Seq(Cmds) /\ LaidOut(u3, {Pre("mangle")}, p)
    BY DivertedLaid
  <2>5. u4 \in Seq(Cmds) /\ LaidOut(u4, D4, p)
    BY OutputParts
  <2>6. Made(p) = (((C1 \cup C2) \cup C3) \cup C4) \cup C5
    <3>1. /\ Made(p) \subseteq Chains
          /\ Pre("nat") \in Made(p) <=> p.mode # "tproxy"
          /\ Mark \in Made(p) <=> p.mode = "mixed"
          /\ Pre("mangle") \in Made(p) <=> p.mode = "tproxy"
          /\ Out("nat") \in Made(p) <=> p.router /\ p.mode # "tun"
          /\ Out("mangle") \in Made(p) <=> p.router /\ p.mode = "mixed"
          /\ Quic \in Made(p) <=> p.quic /\ p.mode = "redirect"
      BY MadeIs
    <3>2. p.mode \in {"redirect", "mixed", "tproxy"}
      BY <1>1, <1>3 DEF Modes, NeedsFirewallCapture
    <3>3. /\ b1 <=> p.mode # "tproxy"
          /\ b2 <=> p.mode = "mixed"
          /\ b3 <=> p.mode = "tproxy"
          /\ b5 <=> p.quic /\ p.mode = "redirect"
      BY <3>2 DEF CapturesTCPViaRedirect, MarksUDPForTun, NeedsTProxy, CarriesUDP
    <3> DEFINE T == (((C1 \cup C2) \cup C3) \cup C4) \cup C5
    <3>4. T \subseteq Chains
      BY DEF Chains
    <3>5. /\ Pre("nat") \in T <=> b1
          /\ Mark \in T <=> b2
          /\ Pre("mangle") \in T <=> b3
          /\ Out("nat") \in T <=> b4
          /\ Out("mangle") \in T <=> b4 /\ b2
          /\ Quic \in T <=> b5
      BY ChainsApart
    <3> HIDE DEF T
    <3>6. \A c \in Chains : c \in Made(p) <=> c \in T
      BY <3>1, <3>2, <3>3, <3>5 DEF Chains
    <3>7. Made(p) = T
      BY <3>1, <3>4, <3>6
    <3> QED BY <3>7 DEF T
  <2>7. /\ C1 \in SUBSET Chains /\ C2 \in SUBSET Chains /\ C3 \in SUBSET Chains
        /\ C4 \in SUBSET Chains /\ C5 \in SUBSET Chains
        /\ C1 \cap C2 = {} /\ (C1 \cup C2) \cap C3 = {}
        /\ ((C1 \cup C2) \cup C3) \cap C4 = {}
        /\ (((C1 \cup C2) \cup C3) \cup C4) \cap C5 = {}
    BY ChainsApart, ChainsNamed
  <2> HIDE DEF b1, b2, b3, b4, b5, u1, u2, u3, u4, u5, D4
  <2>8. /\ v1 \in Seq(Cmds) /\ LaidOut(v1, C1, p)
        /\ v2 \in Seq(Cmds) /\ LaidOut(v2, C2, p)
        /\ v3 \in Seq(Cmds) /\ LaidOut(v3, C3, p)
        /\ v4 \in Seq(Cmds) /\ LaidOut(v4, C4, p)
        /\ v5 \in Seq(Cmds) /\ LaidOut(v5, C5, p)
    BY <2>2, <2>3, <2>4, <2>5, LaidIf
  <2> HIDE DEF C1, C2, C3, C4, C5, v1, v2, v3, v4, v5
  <2>9. v1 \o v2 \in Seq(Cmds) /\ LaidOut(v1 \o v2, C1 \cup C2, p)
    BY <2>7, <2>8, LaidNext
  <2> DEFINE x2 == v1 \o v2
             E2 == C1 \cup C2
  <2>10. x2 \in Seq(Cmds) /\ LaidOut(x2, E2, p) /\ E2 \in SUBSET Chains
         /\ E2 \cap C3 = {}
    BY <2>7, <2>9
  <2>11. x2 \o v3 \in Seq(Cmds) /\ LaidOut(x2 \o v3, E2 \cup C3, p)
    <3> HIDE DEF x2, E2
    <3> QED BY <2>7, <2>8, <2>10, LaidNext
  <2> DEFINE x3 == x2 \o v3
             E3 == E2 \cup C3
  <2>12. x3 \in Seq(Cmds) /\ LaidOut(x3, E3, p) /\ E3 \in SUBSET Chains
         /\ E3 \cap C4 = {}
    BY <2>7, <2>11
  <2>13. x3 \o v4 \in Seq(Cmds) /\ LaidOut(x3 \o v4, E3 \cup C4, p)
    <3> HIDE DEF x3, E3
    <3> QED BY <2>7, <2>8, <2>12, LaidNext
  <2> DEFINE x4 == x3 \o v4
             E4 == E3 \cup C4
  <2>14. x4 \in Seq(Cmds) /\ LaidOut(x4, E4, p) /\ E4 \in SUBSET Chains
         /\ E4 \cap C5 = {}
    BY <2>7, <2>13
  <2>15. x4 \o v5 \in Seq(Cmds) /\ LaidOut(x4 \o v5, E4 \cup C5, p)
    <3> HIDE DEF x4, E4
    <3> QED BY <2>7, <2>8, <2>14, LaidNext
  <2> QED BY <2>1, <2>6, <2>15
<1> QED BY <1>2, <1>3

\* TPROXY's packets are given their policy route by one of the commands.
LEMMA BodyDiverts ==
  ASSUME NEW p \in Plans, NeedsTProxy(p.mode)
  PROVE  \E d \in 1..Len(Body(p)) : Body(p)[d] = Divert
<1> DEFINE u == <<Need>> \o TProxy(p)
           e == <<Divert>>
           t == u \o e
           v4 == If(p.router, Output(p))
           v5 == If(p.quic /\ ~CarriesUDP(p.mode), QuicBlock(p))
<1>1. p.mode = "tproxy"
  BY DEF NeedsTProxy
<1>2. Body(p) = ((((<<>> \o <<>>) \o t) \o v4) \o v5)
  BY <1>1 DEF Body, NeedsFirewallCapture, CapturesTCPViaRedirect, MarksUDPForTun,
             NeedsTProxy, If
<1>3. t \in Seq(Cmds)
  BY DivertedLaid
<1>4. v4 \in Seq(Cmds) /\ v5 \in Seq(Cmds)
  <2>1. p.router \in BOOLEAN /\ (p.quic /\ ~CarriesUDP(p.mode)) \in BOOLEAN
    BY PlansAssumption DEF Plan
  <2>2. Output(p) \in Seq(Cmds)
    BY OutputParts, Zenon
  <2>3. QuicBlock(p) \in Seq(Cmds)
    BY ClientBlocks, Zenon
  <2>4. <<>> \in Seq(Cmds)
    OBVIOUS
  <2> QED BY <2>1, <2>2, <2>3, <2>4 DEF If
<1>5. u \in Seq(Cmds) /\ e \in Seq(Cmds) /\ Len(e) = 1 /\ e[1] = Divert
  <2>1. Need \in Cmds /\ Divert \in Cmds /\ TProxy(p) \in Seq(Cmds)
    BY ClientBlocks DEF Cmds
  <2>2. <<Need>> \in Seq(Cmds) /\ e \in Seq(Cmds) /\ Len(e) = 1 /\ e[1] = Divert
    BY <2>1
  <2>3. u \in Seq(Cmds)
    BY ONLY <2>1, <2>2, PlacesOfBoth
  <2> QED BY <2>2, <2>3
<1> HIDE DEF u, e, v4, v5
<1>6. /\ Len(t) = Len(u) + Len(e) /\ Len(u) \in Nat
      /\ \A i \in 1..Len(e) : t[Len(u) + i] = e[i]
  <2>1. u \in Seq(Cmds) /\ e \in Seq(Cmds)
    BY <1>5
  <2> QED BY ONLY <2>1, PlacesOfBoth
<1> DEFINE d == Len(u) + 1
<1>7. d \in 1..Len(t) /\ t[d] = Divert
  BY <1>5, <1>6
<1> HIDE DEF t, d
<1> DEFINE w == t \o v4
           z == w \o v5
<1>8. (<<>> \o <<>>) \o t = t
  <2>1. <<>> \in Seq(Cmds)
    OBVIOUS
  <2>2. <<>> \o <<>> = <<>> /\ <<>> \o t = t
    BY ONLY <1>3, <2>1, ConcatEmptySeq
  <2> QED BY <2>2
<1>9. /\ w \in Seq(Cmds) /\ Len(w) = Len(t) + Len(v4) /\ Len(t) \in Nat /\ Len(v4) \in Nat
      /\ \A i \in 1..Len(t) : w[i] = t[i]
  BY ONLY <1>3, <1>4, PlacesOfBoth
<1> HIDE DEF w
<1>10. /\ Len(z) = Len(w) + Len(v5) /\ Len(w) \in Nat /\ Len(v5) \in Nat
       /\ \A i \in 1..Len(w) : z[i] = w[i]
  <2>1. w \in Seq(Cmds) /\ v5 \in Seq(Cmds)
    BY <1>4, <1>9
  <2> QED BY ONLY <2>1, PlacesOfBoth
<1>11. Body(p) = z
  BY <1>2, <1>8 DEF w
<1> HIDE DEF z
<1>12. d \in 1..Len(z) /\ z[d] = Divert
  BY <1>7, <1>9, <1>10
<1> QED BY <1>11, <1>12

-----------------------------------------------------------------------------
\* How far a chain is when the m-th command of a program is the next one.

OnWay(c, s, m, p) ==
  /\ c \in DOMAIN chains <=> s[c] < m
  /\ c \in DOMAIN chains =>
       /\ chains[c] \in Seq(Rules)
       /\ Len(chains[c]) = IF m - s[c] <= Len(Inner(c, p)) THEN m - s[c] - 1
                           ELSE Len(Inner(c, p))
       /\ \A i \in 1..Len(chains[c]) : chains[c][i] = Inner(c, p)[i]
  /\ \A i \in DOMAIN jumps[HookOf(c)] :
       jumps[HookOf(c)][i].to = c =>
         /\ s[c] + Len(Inner(c, p)) < m
         /\ jumps[HookOf(c)][i].from \in Range(Leading(c, p))
  /\ \A k \in 1..Len(Leading(c, p)) :
       s[c] + Len(Inner(c, p)) + k < m =>
         \E i \in DOMAIN jumps[HookOf(c)] :
           jumps[HookOf(c)][i] = [from |-> Leading(c, p)[k], to |-> c]
Filled(s, m, p) ==
  /\ DOMAIN chains \subseteq Made(p)
  /\ \A c \in Made(p) : OnWay(c, s, m, p)
  /\ \A d \in 1..(m - 1) : Body(p)[d] = Divert => divert
Away(c, s, m, p) == \A k \in 0..Ends(c, p) : s[c] + k # m

LEMMA Aside ==
  ASSUME NEW p \in Plans, NEW c \in Chains, NEW s, s[c] \in Nat \ {0},
         NEW m \in Nat \ {0}, OnWay(c, s, m, p), Away(c, s, m, p),
         jumps'[HookOf(c)] = jumps[HookOf(c)],
         c \in DOMAIN chains' <=> c \in DOMAIN chains,
         c \in DOMAIN chains => chains'[c] = chains[c]
  PROVE  OnWay(c, s, m + 1, p)'
<1> DEFINE L == Len(Inner(c, p))
           E == Len(Leading(c, p))
<1>1. L \in Nat /\ E \in Nat /\ Ends(c, p) = L + E
  BY LeadingTyped DEF Ends
<1>2. \A k \in 0..(L + E) : s[c] + k # m
  BY <1>1 DEF Away
<1>3. /\ c \in DOMAIN chains <=> s[c] < m
      /\ c \in DOMAIN chains =>
           /\ chains[c] \in Seq(Rules)
           /\ Len(chains[c]) = IF m - s[c] <= L THEN m - s[c] - 1 ELSE L
           /\ \A i \in 1..Len(chains[c]) : chains[c][i] = Inner(c, p)[i]
      /\ \A i \in DOMAIN jumps[HookOf(c)] :
           jumps[HookOf(c)][i].to = c =>
             /\ s[c] + L < m
             /\ jumps[HookOf(c)][i].from \in Range(Leading(c, p))
      /\ \A k \in 1..E :
           s[c] + L + k < m =>
             \E i \in DOMAIN jumps[HookOf(c)] :
               jumps[HookOf(c)][i] = [from |-> Leading(c, p)[k], to |-> c]
  BY DEF OnWay
<1> HIDE DEF L, E
<1>4. s[c] # m /\ (s[c] < m + 1 <=> s[c] < m)
  <2>1. 0 \in 0..(L + E)
    BY <1>1
  <2>2. s[c] # m
    BY <1>2, <2>1
  <2> QED BY <2>2
<1>5. s[c] < m => m - s[c] > L + E
  <2> SUFFICES ASSUME s[c] < m, m - s[c] <= L + E PROVE FALSE
    BY <1>1
  <2>1. m - s[c] \in 0..(L + E) /\ s[c] + (m - s[c]) = m
    BY <1>1
  <2> QED BY <1>2, <2>1
<1>6. c \in DOMAIN chains' =>
        /\ chains'[c] \in Seq(Rules)
        /\ Len(chains'[c]) = IF (m + 1) - s[c] <= L THEN (m + 1) - s[c] - 1 ELSE L
        /\ \A i \in 1..Len(chains'[c]) : chains'[c][i] = Inner(c, p)[i]
  <2> SUFFICES ASSUME c \in DOMAIN chains
               PROVE  /\ chains[c] \in Seq(Rules)
                      /\ Len(chains[c]) = IF (m + 1) - s[c] <= L THEN (m + 1) - s[c] - 1
                                          ELSE L
                      /\ \A i \in 1..Len(chains[c]) : chains[c][i] = Inner(c, p)[i]
    OBVIOUS
  <2>1. m - s[c] > L /\ ~(m - s[c] <= L) /\ ~((m + 1) - s[c] <= L)
    BY <1>1, <1>3, <1>5
  <2> QED BY <1>3, <2>1
<1>7. \A i \in DOMAIN jumps'[HookOf(c)] :
        jumps'[HookOf(c)][i].to = c =>
          /\ s[c] + L < m + 1
          /\ jumps'[HookOf(c)][i].from \in Range(Leading(c, p))
  BY <1>1, <1>3
<1>8. \A k \in 1..E :
        s[c] + L + k < m + 1 =>
          \E i \in DOMAIN jumps'[HookOf(c)] :
            jumps'[HookOf(c)][i] = [from |-> Leading(c, p)[k], to |-> c]
  <2> SUFFICES ASSUME NEW k \in 1..E, s[c] + L + k < m + 1
               PROVE  s[c] + L + k < m
    BY <1>3
  <2>1. L + k \in 0..(L + E) /\ s[c] + (L + k) = s[c] + L + k
    BY <1>1
  <2>2. s[c] + L + k # m
    BY <1>2, <2>1
  <2> QED BY <1>1, <2>2
<1> QED BY <1>3, <1>4, <1>6, <1>7, <1>8 DEF OnWay, L, E

\* Whose command it is.
LEMMA Whose ==
  ASSUME NEW p \in Plans, NEW c \in Chains, NEW u, NEW C, NEW s, Laid(u, C, p, s), c \in C,
         NEW m
  PROVE  /\ u[m] \in {Need, Divert} => Away(c, s, m, p)
         /\ \A d : u[m] = New(d) /\ d # c => Away(c, s, m, p)
         /\ \A d, r : u[m] = Add(d, r) /\ d # c => Away(c, s, m, p)
         /\ \A d, S : u[m] = Jump(d, S) /\ d # c => Away(c, s, m, p)
<1>1. ASSUME ~Away(c, s, m, p)
      PROVE  \E k : u[m] = Nth(c, p, k)
  <2>1. PICK k \in 0..Ends(c, p) : s[c] + k = m
    BY <1>1 DEF Away
  <2>2. u[s[c] + k] = Nth(c, p, k)
    BY DEF Laid
  <2> QED BY <2>1, <2>2
<1>2. \A k : \/ Nth(c, p, k) = New(c)
             \/ \E r : Nth(c, p, k) = Add(c, r)
             \/ \E S : Nth(c, p, k) = Jump(c, S)
  BY DEF Nth
<1>3. /\ New(c) \notin {Need, Divert} /\ \A r : Add(c, r) \notin {Need, Divert}
      /\ \A S : Jump(c, S) \notin {Need, Divert}
  BY DEF New, Add, Jump, Need, Divert, Cmd
<1>4. /\ \A d : New(d) = New(c) => d = c
      /\ \A d, r : New(d) # Add(c, r)
      /\ \A d, S : New(d) # Jump(c, S)
  BY DEF New, Add, Jump, Cmd
<1>5. /\ \A d, r, q : Add(d, r) = Add(c, q) => d = c
      /\ \A d, r : Add(d, r) # New(c)
      /\ \A d, r, S : Add(d, r) # Jump(c, S)
  BY DEF New, Add, Jump, Cmd
<1>6. /\ \A d, S, T : Jump(d, S) = Jump(c, T) => d = c
      /\ \A d, S : Jump(d, S) # New(c)
      /\ \A d, S, r : Jump(d, S) # Add(c, r)
  BY DEF New, Add, Jump, Cmd
<1>7. u[m] \in {Need, Divert} => Away(c, s, m, p)
  BY <1>1, <1>2, <1>3
<1>8. \A d : u[m] = New(d) /\ d # c => Away(c, s, m, p)
  BY <1>1, <1>2, <1>4
<1>9. \A d, r : u[m] = Add(d, r) /\ d # c => Away(c, s, m, p)
  BY <1>1, <1>2, <1>5
<1>10. \A d, S : u[m] = Jump(d, S) /\ d # c => Away(c, s, m, p)
  BY <1>1, <1>2, <1>6
<1> QED BY <1>7, <1>8, <1>9, <1>10

LEMMA OwnNew ==
  ASSUME NEW p \in Plans, NEW c \in Chains, NEW s, s[c] \in Nat \ {0},
         NEW m \in Nat \ {0}, OnWay(c, s, m, p), s[c] = m,
         c \in DOMAIN chains', chains'[c] = <<>>, jumps' = jumps
  PROVE  OnWay(c, s, m + 1, p)'
<1> DEFINE L == Len(Inner(c, p))
           E == Len(Leading(c, p))
<1>1. L \in Nat /\ E \in Nat
  BY LeadingTyped
<1>2. \A i \in DOMAIN jumps[HookOf(c)] : jumps[HookOf(c)][i].to = c => s[c] + L < m
  BY DEF OnWay
<1> HIDE DEF L, E
<1>3. \A i \in DOMAIN jumps[HookOf(c)] : jumps[HookOf(c)][i].to # c
  BY <1>1, <1>2
<1>4. <<>> \in Seq(Rules) /\ Len(<<>>) = 0
  OBVIOUS
<1>5. /\ chains'[c] \in Seq(Rules)
      /\ Len(chains'[c]) = IF (m + 1) - s[c] <= L THEN (m + 1) - s[c] - 1 ELSE L
      /\ \A i \in 1..Len(chains'[c]) : chains'[c][i] = Inner(c, p)[i]
  BY <1>1, <1>4
<1>6. \A k \in 1..E : ~(s[c] + L + k < m + 1)
  BY <1>1
<1> QED BY <1>3, <1>5, <1>6 DEF OnWay, L, E

LEMMA OwnAdd ==
  ASSUME NEW p \in Plans, NEW c \in Chains, NEW s, s[c] \in Nat \ {0},
         NEW m \in Nat \ {0}, OnWay(c, s, m, p), NEW k \in 1..Len(Inner(c, p)),
         m = s[c] + k, c \in DOMAIN chains, c \in DOMAIN chains',
         chains'[c] = Append(chains[c], Inner(c, p)[k]), jumps' = jumps
  PROVE  OnWay(c, s, m + 1, p)'
<1> DEFINE I == Inner(c, p)
           L == Len(I)
           E == Len(Leading(c, p))
           q == chains[c]
           r == chains'[c]
<1>1. L \in Nat /\ E \in Nat /\ I \in Seq(Rules)
  BY LeadingTyped
<1>2. /\ q \in Seq(Rules)
      /\ Len(q) = IF m - s[c] <= L THEN m - s[c] - 1 ELSE L
      /\ \A i \in 1..Len(q) : q[i] = I[i]
      /\ \A i \in DOMAIN jumps[HookOf(c)] :
           jumps[HookOf(c)][i].to = c => s[c] + L < m
  BY DEF OnWay
<1>3. k \in 1..L /\ r = Append(q, I[k])
  OBVIOUS
<1> HIDE DEF I, L, E, q, r
<1>4. Len(q) = k - 1 /\ I[k] \in Rules
  <2>1. m - s[c] = k /\ k <= L
    BY <1>1, <1>3
  <2>2. Len(q) = k - 1
    BY <1>2, <2>1
  <2> QED BY <1>1, <1>3, <2>2 DEF L
<1>5. /\ r \in Seq(Rules) /\ Len(r) = k /\ r[k] = I[k]
      /\ \A i \in 1..(k - 1) : r[i] = q[i]
  <2>1. /\ q \in Seq(Rules) /\ I[k] \in Rules /\ r = Append(q, I[k])
        /\ Len(q) = k - 1 /\ k \in 1..L /\ L \in Nat
    BY <1>1, <1>2, <1>3, <1>4
  <2> QED BY ONLY <2>1
<1>6. \A i \in 1..Len(r) : r[i] = I[i]
  <2> SUFFICES ASSUME NEW i \in 1..k PROVE r[i] = I[i]
    BY <1>5
  <2>1. i \in 1..(k - 1) \/ i = k
    BY <1>3
  <2> QED BY <1>2, <1>4, <1>5, <2>1
<1>11. /\ s[c] \in Nat \ {0} /\ m = s[c] + k /\ k \in 1..L /\ L \in Nat /\ E \in Nat
  BY <1>1, <1>3
<1>7. Len(r) = IF (m + 1) - s[c] <= L THEN (m + 1) - s[c] - 1 ELSE L
  <2>1. Len(r) = k
    BY <1>5
  <2> QED BY ONLY <1>11, <2>1
<1>8. \A i \in DOMAIN jumps[HookOf(c)] : jumps[HookOf(c)][i].to # c
  <2>1. ~(s[c] + L < m)
    BY ONLY <1>11
  <2> QED BY ONLY <1>2, <2>1
<1>9. \A j \in 1..E : ~(s[c] + L + j < m + 1)
  BY ONLY <1>11
<1>10. s[c] < m + 1
  BY ONLY <1>11
<1> QED BY <1>5, <1>6, <1>7, <1>8, <1>9, <1>10 DEF OnWay, I, L, E, r

LEMMA OwnJump ==
  ASSUME NEW p \in Plans, NEW c \in Chains, NEW s, s[c] \in Nat \ {0},
         NEW m \in Nat \ {0}, OnWay(c, s, m, p), NEW k \in 1..Len(Leading(c, p)),
         m = s[c] + Len(Inner(c, p)) + k, c \in DOMAIN chains, chains' = chains,
         jumps[HookOf(c)] \in Seq(Jumps),
         [from |-> Leading(c, p)[k], to |-> c] \in Jumps,
         jumps'[HookOf(c)] = <<[from |-> Leading(c, p)[k], to |-> c]>> \o jumps[HookOf(c)]
  PROVE  OnWay(c, s, m + 1, p)'
<1> DEFINE I == Inner(c, p)
           L == Len(I)
           G == Leading(c, p)
           E == Len(G)
           j == [from |-> G[k], to |-> c]
           q == jumps[HookOf(c)]
           r == jumps'[HookOf(c)]
           a == <<j>>
<1>1. L \in Nat /\ E \in Nat /\ G \in Seq(SUBSET Senders)
  BY LeadingTyped
<1>2. /\ chains[c] \in Seq(Rules)
      /\ Len(chains[c]) = IF m - s[c] <= L THEN m - s[c] - 1 ELSE L
      /\ \A i \in 1..Len(chains[c]) : chains[c][i] = I[i]
      /\ \A i \in DOMAIN q :
           q[i].to = c => s[c] + L < m /\ q[i].from \in Range(G)
      /\ \A n \in 1..E :
           s[c] + L + n < m => \E i \in DOMAIN q : q[i] = [from |-> G[n], to |-> c]
  BY DEF OnWay
<1>3. k \in 1..E /\ m = s[c] + L + k /\ r = a \o q /\ q \in Seq(Jumps) /\ j \in Jumps
      /\ j.from = G[k] /\ j.to = c
  OBVIOUS
<1>4. G[k] \in Range(G)
  <2>1. DOMAIN G = 1..E
    BY <1>1
  <2> QED BY <1>3, <2>1 DEF Range
<1> HIDE DEF I, L, G, E, j, q, r
<1>5. a \in Seq(Jumps) /\ Len(a) = 1 /\ a[1] = j
  BY <1>3
<1> HIDE DEF a
<1>6. /\ Len(r) = 1 + Len(q) /\ DOMAIN r = 1..(1 + Len(q)) /\ DOMAIN q = 1..Len(q)
      /\ Len(q) \in Nat
      /\ r[1] = j /\ \A i \in 1..Len(q) : r[1 + i] = q[i]
  <2>1. a \in Seq(Jumps) /\ q \in Seq(Jumps)
    BY <1>3, <1>5
  <2>2. /\ a \o q \in Seq(Jumps) /\ Len(a \o q) = Len(a) + Len(q)
        /\ Len(a) \in Nat /\ Len(q) \in Nat
        /\ \A i \in 1..Len(a) : (a \o q)[i] = a[i]
        /\ \A i \in 1..Len(q) : (a \o q)[Len(a) + i] = q[i]
    BY ONLY <2>1, PlacesOfBoth
  <2>3. r = a \o q /\ Len(a) = 1 /\ a[1] = j
    BY <1>3, <1>5
  <2>4. /\ r \in Seq(Jumps) /\ Len(r) = 1 + Len(q) /\ Len(q) \in Nat
        /\ 1 \in 1..Len(a)
    BY ONLY <2>2, <2>3
  <2>5. DOMAIN r = 1..(1 + Len(q)) /\ DOMAIN q = 1..Len(q)
    BY ONLY <2>1, <2>4
  <2>6. r[1] = j /\ \A i \in 1..Len(q) : r[1 + i] = q[i]
    BY ONLY <2>2, <2>3, <2>4
  <2> QED BY ONLY <2>4, <2>5, <2>6
<1>13. k \in 1..E /\ m = s[c] + L + k
  BY <1>3
<1>12. s[c] + L < m + 1 /\ s[c] \in Nat /\ m \in Nat
  <2>1. s[c] \in Nat /\ L \in Nat /\ E \in Nat
    BY <1>1
  <2> QED BY ONLY <1>13, <2>1
<1>7. \A i \in DOMAIN r :
        r[i].to = c => s[c] + L < m + 1 /\ r[i].from \in Range(G)
  <2> SUFFICES ASSUME NEW i \in DOMAIN r, r[i].to = c
               PROVE  s[c] + L < m + 1 /\ r[i].from \in Range(G)
    OBVIOUS
  <2>1. CASE i = 1
    BY <1>3, <1>4, <1>6, <1>12, <2>1
  <2>2. CASE i # 1
    <3>1. PICK n \in 1..Len(q) : i = 1 + n
      <4>1. i \in 1..(1 + Len(q)) /\ Len(q) \in Nat /\ i # 1
        BY <1>6, <2>2
      <4>2. i - 1 \in 1..Len(q) /\ i = 1 + (i - 1)
        BY ONLY <4>1
      <4> QED BY <4>2
    <3>2. r[i] = q[n] /\ n \in DOMAIN q
      BY <1>6, <3>1
    <3> QED BY <1>2, <1>12, <3>2
  <2> QED BY <2>1, <2>2
<1>8. \A n \in 1..E :
        s[c] + L + n < m + 1 => \E i \in DOMAIN r : r[i] = [from |-> G[n], to |-> c]
  <2> SUFFICES ASSUME NEW n \in 1..E, s[c] + L + n < m + 1
               PROVE  \E i \in DOMAIN r : r[i] = [from |-> G[n], to |-> c]
    OBVIOUS
  <2>1. CASE n = k
    <3>1. r[1] = [from |-> G[n], to |-> c] /\ 1 \in DOMAIN r
      BY <1>6, <2>1 DEF j
    <3> QED BY <3>1
  <2>2. CASE n # k
    <3>1. s[c] + L + n < m
      BY ONLY <1>1, <1>12, <1>13, <2>2, n \in 1..E, s[c] + L + n < m + 1
    <3>2. PICK i \in 1..Len(q) : q[i] = [from |-> G[n], to |-> c]
      BY <1>2, <1>6, <3>1
    <3>3. r[1 + i] = q[i]
      BY <1>6
    <3>4. 1 + i \in 1..(1 + Len(q))
      BY ONLY <1>6, i \in 1..Len(q)
    <3>5. 1 + i \in DOMAIN r
      BY ONLY <1>6, <3>4
    <3> QED BY <3>2, <3>3, <3>5
  <2> QED BY <2>1, <2>2
<1>9. Len(chains[c]) = IF (m + 1) - s[c] <= L THEN (m + 1) - s[c] - 1 ELSE L
  <2>1. ~(m - s[c] <= L) /\ ~((m + 1) - s[c] <= L)
    BY ONLY <1>1, <1>12, <1>13
  <2> QED BY <1>2, <2>1
<1>10. s[c] < m + 1
  BY ONLY <1>1, <1>12
<1> QED BY <1>2, <1>7, <1>8, <1>9, <1>10 DEF OnWay, I, L, G, E, r

\* A command of a program takes it one further.
LEMMA FilledStep ==
  ASSUME NEW p \in Plans, NEW s, Laid(Body(p), Made(p), p, s), NEW m \in 1..Len(Body(p)),
         Len(Body(p)) \in Nat, Kernel, Standing, Filled(s, m, p),
         Execute(Body(p)[m]), Possible(Body(p)[m])
  PROVE  Filled(s, m + 1, p)'
<1> DEFINE B == Body(p)
           cmd == B[m]
<1>1. /\ s \in [Made(p) -> Nat \ {0}] /\ Made(p) \subseteq Chains
      /\ m \in Nat \ {0}
  <2>1. m \in Nat \ {0}
    OBVIOUS
  <2> QED BY <2>1, MadeIs DEF Laid
<1>2. \A c \in Made(p) : s[c] \in Nat \ {0} /\ c \in Chains
  BY <1>1
<1>3. \A c \in Made(p) : OnWay(c, s, m, p)
  BY DEF Filled
<1>4. \A d \in 1..(m - 1) : B[d] = Divert => divert
  BY DEF Filled
<1>5. DOMAIN chains \subseteq Made(p)
  BY DEF Filled
<1>6. \A c, d \in Made(p) : c # d => HookOf(c) # HookOf(d)
  BY OneChainPerHook
<1>7. cmd \in {Need, Divert} \/ \E c \in Made(p) : \E k \in 0..Ends(c, p) : m = s[c] + k
  BY DEF Laid
<1> HIDE DEF B
<1>8. ASSUME DOMAIN chains' \subseteq Made(p), \A c \in Made(p) : OnWay(c, s, m + 1, p)',
             divert' = divert, cmd # Divert
      PROVE  Filled(s, m + 1, p)'
  <2>1. \A d \in 1..((m + 1) - 1) : B[d] = Divert => divert'
    <3> SUFFICES ASSUME NEW d \in 1..((m + 1) - 1), B[d] = Divert PROVE divert'
      OBVIOUS
    <3>1. d = m \/ d \in 1..(m - 1)
      OBVIOUS
    <3> QED BY <1>4, <1>8, <3>1
  <2> QED BY <1>8, <2>1 DEF Filled, B
<1>9. CASE cmd \in {Need, Divert}
  <2>1. cmd.op \in {"need", "divert"}
    BY <1>9 DEF Need, Divert, Cmd
  <2>2. chains' = chains /\ jumps' = jumps
    BY <2>1, OtherStep DEF B
  <2>3. divert' = IF cmd.op = "divert" THEN TRUE ELSE divert
    BY <2>1 DEF Execute, B
  <2>4. \A c \in Made(p) : OnWay(c, s, m + 1, p)'
    <3> SUFFICES ASSUME NEW c \in Made(p) PROVE OnWay(c, s, m + 1, p)'
      OBVIOUS
    <3>1. Away(c, s, m, p)
      BY <1>2, <1>9, Whose DEF B
    <3> QED BY <1>1, <1>2, <1>3, <2>2, <3>1, Aside
  <2>5. \A d \in 1..((m + 1) - 1) : B[d] = Divert => divert'
    <3> SUFFICES ASSUME NEW d \in 1..((m + 1) - 1), B[d] = Divert PROVE divert'
      OBVIOUS
    <3>1. d = m \/ d \in 1..(m - 1)
      OBVIOUS
    <3>2. CASE d = m
      BY <2>3, <3>2 DEF Divert, Cmd
    <3>3. CASE d \in 1..(m - 1)
      BY <1>4, <2>3, <3>3
    <3> QED BY <3>1, <3>2, <3>3
  <2> QED BY <1>5, <2>2, <2>4, <2>5 DEF Filled, B
<1>10. ASSUME NEW e \in Made(p), NEW k \in 0..Ends(e, p), m = s[e] + k
       PROVE  Filled(s, m + 1, p)'
  <2> DEFINE I == Inner(e, p)
             L == Len(I)
             G == Leading(e, p)
  <2>1. cmd = Nth(e, p, k) /\ e \in Chains /\ s[e] \in Nat \ {0}
    BY <1>2, <1>10 DEF Laid, B
  <2>2. L \in Nat /\ Len(G) \in Nat /\ Ends(e, p) = L + Len(G) /\ Ends(e, p) \in Nat
        /\ G \in Seq(SUBSET Senders) /\ I \in Seq(Rules)
    BY <2>1, LeadingTyped DEF Ends
  <2>3. k \in Nat /\ k <= Ends(e, p)
    BY <2>2
  <2>4. OnWay(e, s, m, p)
    BY <1>3
  <2>5. s[e] < m <=> k # 0
    BY <1>10, <2>1, <2>3
  <2>6. e \in DOMAIN chains <=> k # 0
    BY <2>4, <2>5 DEF OnWay
  <2>7. CASE k = 0
    <3>1. cmd = New(e)
      BY <2>1, <2>7 DEF Nth
    <3>2. /\ DOMAIN chains' = DOMAIN chains \cup {e} /\ chains'[e] = <<>>
          /\ \A c \in DOMAIN chains : c # e => chains'[c] = chains[c]
      BY <3>1 DEF Execute, ChainsAfter, New, Cmd, B
    <3>3. jumps' = jumps /\ divert' = divert
      BY <2>1, <3>1, NewStep DEF B
    <3>4. \A c \in Made(p) : OnWay(c, s, m + 1, p)'
      <4> SUFFICES ASSUME NEW c \in Made(p) PROVE OnWay(c, s, m + 1, p)'
        OBVIOUS
      <4>1. CASE c = e
        <5>1. s[e] = m
          BY <1>10, <2>1, <2>7
        <5> QED BY <1>1, <2>1, <2>4, <3>2, <3>3, <4>1, <5>1, OwnNew
      <4>2. CASE c # e
        <5>1. Away(c, s, m, p)
          BY <1>2, <3>1, <4>2, Whose DEF B
        <5> QED BY <1>1, <1>2, <1>3, <3>2, <3>3, <4>2, <5>1, Aside
      <4> QED BY <4>1, <4>2
    <3>5. cmd # Divert
      BY <3>1 DEF New, Divert, Cmd
    <3>6. DOMAIN chains' \subseteq Made(p)
      BY <1>5, <3>2
    <3> QED BY <1>8, <3>3, <3>4, <3>5, <3>6
  <2>8. CASE k # 0 /\ k <= L
    <3>1. cmd = Add(e, I[k]) /\ k \in 1..L
      BY <2>1, <2>3, <2>8 DEF Nth
    <3>2. e \in DOMAIN chains
      BY <2>6, <2>8
    <3>3. chains' = [chains EXCEPT ![e] = Append(@, I[k])]
      BY <3>1 DEF Execute, ChainsAfter, Add, Cmd, B
    <3>4. /\ DOMAIN chains' = DOMAIN chains /\ chains'[e] = Append(chains[e], I[k])
          /\ \A c \in DOMAIN chains : c # e => chains'[c] = chains[c]
      BY <3>2, <3>3 DEF Kernel
    <3>5. jumps' = jumps /\ divert' = divert
      BY <2>1, <3>1, AddStep DEF B
    <3>6. \A c \in Made(p) : OnWay(c, s, m + 1, p)'
      <4> SUFFICES ASSUME NEW c \in Made(p) PROVE OnWay(c, s, m + 1, p)'
        OBVIOUS
      <4>1. CASE c = e
        BY <1>1, <1>10, <2>1, <2>4, <3>1, <3>2, <3>4, <3>5, <4>1, OwnAdd
      <4>2. CASE c # e
        <5>1. Away(c, s, m, p)
          BY <1>2, <3>1, <4>2, Whose DEF B
        <5> QED BY <1>1, <1>2, <1>3, <3>4, <3>5, <4>2, <5>1, Aside
      <4> QED BY <4>1, <4>2
    <3>7. cmd # Divert
      BY <3>1 DEF Add, Divert, Cmd
    <3>8. DOMAIN chains' \subseteq Made(p)
      BY <1>5, <3>4
    <3> QED BY <1>8, <3>5, <3>6, <3>7, <3>8
  <2>9. CASE k # 0 /\ ~(k <= L)
    <3> DEFINE n == k - L
               j == [from |-> G[n], to |-> e]
    <3>1. n \in 1..Len(G) /\ m = s[e] + L + n
      BY <1>10, <2>1, <2>2, <2>3, <2>9
    <3>2. cmd = Jump(e, G[n])
      BY <2>1, <2>9 DEF Nth
    <3>3. cmd = Cmd("jump", j)
      BY <3>2 DEF Jump
    <3>4. G[n] \in SUBSET Senders
      BY <2>2, <3>1
    <3>5. j \in Jumps /\ j.to = e
      BY <2>1, <3>4 DEF Jumps
    <3> HIDE DEF n, j
    <3>6. chains' = chains /\ divert' = divert
      BY <3>3, <3>5, JumpStep DEF B
    <3>7. /\ e \in DOMAIN chains
          /\ jumps' = [jumps EXCEPT ![HookOf(e)] = <<j>> \o @]
      <4>1. Execute(Cmd("jump", j))
        BY <3>3 DEF B
      <4>2. jumps' = [jumps EXCEPT ![HookOf(j.to)] = <<j>> \o @]
        BY <4>1 DEF Execute, JumpsAfter, Cmd
      <4> QED BY <2>6, <2>9, <3>5, <4>2
    <3>8. /\ jumps'[HookOf(e)] = <<j>> \o jumps[HookOf(e)]
          /\ jumps[HookOf(e)] \in Seq(Jumps)
          /\ \A h \in Hooks : h # HookOf(e) => jumps'[h] = jumps[h]
      BY <2>1, <3>7, NothingHooked DEF Kernel
    <3>9. \A c \in Made(p) : OnWay(c, s, m + 1, p)'
      <4> SUFFICES ASSUME NEW c \in Made(p) PROVE OnWay(c, s, m + 1, p)'
        OBVIOUS
      <4>1. CASE c = e
        BY <1>1, <2>1, <2>4, <3>1, <3>5, <3>6, <3>7, <3>8, <4>1, OwnJump DEF j
      <4>2. CASE c # e
        <5>1. Away(c, s, m, p)
          BY <1>2, <3>2, <4>2, Whose DEF B
        <5>2. jumps'[HookOf(c)] = jumps[HookOf(c)]
          BY <1>2, <1>6, <3>8, <4>2, NothingHooked
        <5> QED BY <1>1, <1>2, <1>3, <3>6, <5>1, <5>2, Aside
      <4> QED BY <4>1, <4>2
    <3>10. cmd # Divert
      BY <3>2 DEF Jump, Divert, Cmd
    <3> QED BY <1>5, <1>8, <3>6, <3>9, <3>10
  <2> QED BY <2>7, <2>8, <2>9
<1> QED BY <1>7, <1>9, <1>10

-----------------------------------------------------------------------------
\* An application that has run through.

\* Everything a plan has made is there.
Whole ==
  /\ \A c \in Made(plan) :
       /\ chains[c] = Full(c)
       /\ \A S \in Calls(c) : \E i \in DOMAIN jumps[HookOf(c)] :
            jumps[HookOf(c)][i] = [from |-> S, to |-> c]
  /\ NeedsTProxy(plan.mode) => divert

LEMMA FilledFirst ==
  ASSUME NEW p \in Plans, NEW s, Laid(Body(p), Made(p), p, s), Empty'
  PROVE  Filled(s, 1, p)'
<1>1. chains' = <<>> /\ jumps' = NoJumps /\ DOMAIN chains' = {}
  BY DEF Empty
<1>2. ASSUME NEW c \in Made(p) PROVE OnWay(c, s, 1, p)'
  <2>1. s[c] \in Nat \ {0} /\ c \in Chains
    BY MadeIs DEF Laid
  <2>2. Len(Inner(c, p)) \in Nat /\ Len(Leading(c, p)) \in Nat
    BY <2>1, LeadingTyped
  <2>3. jumps'[HookOf(c)] = <<>> /\ DOMAIN <<>> = {}
    BY <1>1, <2>1, NothingHooked
  <2>4. ~(s[c] < 1)
    BY <2>1
  <2>5. \A k \in 1..Len(Leading(c, p)) : ~(s[c] + Len(Inner(c, p)) + k < 1)
    BY <2>1, <2>2
  <2> QED BY <1>1, <2>3, <2>4, <2>5 DEF OnWay
<1> QED BY <1>1, <1>2 DEF Filled

LEMMA OnWayFull ==
  ASSUME NEW p \in Plans, NEW c \in Chains, NEW s, s[c] \in Nat \ {0}, NEW m \in Nat \ {0},
         OnWay(c, s, m, p), s[c] + Len(Inner(c, p)) < m
  PROVE  c \in DOMAIN chains /\ chains[c] = Inner(c, p)
<1> DEFINE I == Inner(c, p)
           L == Len(I)
           q == chains[c]
<1>1. I \in Seq(Rules) /\ L \in Nat
  BY LeadingTyped
<1>2. s[c] < m /\ ~(m - s[c] <= L)
  BY <1>1
<1>3. /\ c \in DOMAIN chains /\ q \in Seq(Rules) /\ Len(q) = L
      /\ \A i \in 1..Len(q) : q[i] = I[i]
  BY <1>2 DEF OnWay
<1> HIDE DEF I, q
<1>4. q = I
  BY <1>1, <1>3, SeqEqual
<1> QED BY <1>3, <1>4 DEF I, q

LEMMA FilledOurs ==
  ASSUME plan \in Plans, backend = "ipt", Kernel, Standing,
         NEW s, Laid(Body(plan), Made(plan), plan, s), NEW m \in Nat \ {0},
         Filled(s, m, plan)
  PROVE  Ours
<1> SUFFICES ASSUME NEW h \in Hooks, NEW i \in DOMAIN jumps[h]
             PROVE  /\ jumps[h][i].to \in Made(plan)
                    /\ chains[jumps[h][i].to] \in {Full(jumps[h][i].to), <<>>}
                    /\ jumps[h][i].from \in Calls(jumps[h][i].to)
  BY DEF Ours
<1> DEFINE c == jumps[h][i].to
<1>1. c \in Made(plan) /\ HookOf(c) = h
  BY DEF Standing, Filled
<1> HIDE DEF c
<1>2. s[c] \in Nat \ {0} /\ c \in Chains
  BY <1>1, MadeIs DEF Laid
<1>3. OnWay(c, s, m, plan)
  BY <1>1 DEF Filled
<1>4. s[c] + Len(Inner(c, plan)) < m /\ jumps[h][i].from \in Range(Leading(c, plan))
  BY <1>1, <1>3 DEF OnWay, c
<1>5. chains[c] = Inner(c, plan)
  BY <1>2, <1>3, <1>4, OnWayFull
<1>6. backend # "nft"
  OBVIOUS
<1> QED BY <1>1, <1>4, <1>5, <1>6 DEF Full, Calls, c

LEMMA FilledWhole ==
  ASSUME plan \in Plans, UsesFirewall(plan), backend = "ipt",
         NEW s, Laid(Body(plan), Made(plan), plan, s), NEW m \in Nat \ {0},
         Len(Body(plan)) \in Nat, m > Len(Body(plan)), Filled(s, m, plan)
  PROVE  Whole
<1>1. ASSUME NEW c \in Made(plan)
      PROVE  /\ chains[c] = Full(c)
             /\ \A S \in Calls(c) : \E i \in DOMAIN jumps[HookOf(c)] :
                  jumps[HookOf(c)][i] = [from |-> S, to |-> c]
  <2> DEFINE L == Len(Inner(c, plan))
             G == Leading(c, plan)
  <2>1. s[c] \in Nat \ {0} /\ c \in Chains /\ s[c] + Ends(c, plan) <= Len(Body(plan))
    BY MadeIs DEF Laid
  <2>2. L \in Nat /\ Len(G) \in Nat /\ Ends(c, plan) = L + Len(G)
        /\ G \in Seq(SUBSET Senders)
    BY <2>1, LeadingTyped DEF Ends
  <2>3. OnWay(c, s, m, plan)
    BY DEF Filled
  <2>4. s[c] + L < m
    BY <2>1, <2>2
  <2>5. chains[c] = Inner(c, plan)
    BY <2>1, <2>3, <2>4, OnWayFull
  <2>6. ASSUME NEW S \in Range(G)
        PROVE  \E i \in DOMAIN jumps[HookOf(c)] :
                 jumps[HookOf(c)][i] = [from |-> S, to |-> c]
    <3>1. PICK k \in 1..Len(G) : S = G[k]
      BY <2>2 DEF Range
    <3>2. s[c] + L + k < m
      BY <2>1, <2>2
    <3> QED BY <2>3, <3>1, <3>2 DEF OnWay
  <2>7. backend # "nft"
    OBVIOUS
  <2> QED BY <2>5, <2>6, <2>7 DEF Full, Calls
<1>2. ASSUME NeedsTProxy(plan.mode) PROVE divert
  <2>1. PICK d \in 1..Len(Body(plan)) : Body(plan)[d] = Divert
    BY <1>2, BodyDiverts
  <2>2. d \in 1..(m - 1)
    OBVIOUS
  <2> QED BY <2>1, <2>2 DEF Filled
<1> QED BY <1>1, <1>2 DEF Whole

LEMMA NoneOurs == jumps = NoJumps => Ours
<1>1. \A h \in Hooks : NoJumps[h] = <<>> /\ DOMAIN <<>> = {}
  BY NothingHooked
<1> QED BY <1>1 DEF Ours

\* A step that only takes away leaves what there is to lead where it led.
LEMMA FewerOurs ==
  ASSUME Ours, Standing', UNCHANGED <<backend, plan>>,
         \A c \in DOMAIN chains' : chains'[c] \in {chains[c], <<>>},
         \A h \in Hooks : \A i \in DOMAIN jumps'[h] :
           \E k \in DOMAIN jumps[h] : jumps'[h][i] = jumps[h][k]
  PROVE  Ours'
<1>1. ASSUME NEW h \in Hooks, NEW i \in DOMAIN jumps'[h], NEW c, c = jumps'[h][i].to
      PROVE  /\ c \in Made(plan) /\ chains'[c] \in {Full(c), <<>>}
             /\ jumps'[h][i].from \in Calls(c)
  <2>1. PICK k \in DOMAIN jumps[h] : jumps'[h][i] = jumps[h][k]
    OBVIOUS
  <2>2. c \in Made(plan) /\ chains[c] \in {Full(c), <<>>} /\ jumps[h][k].from \in Calls(c)
    BY <1>1, <2>1 DEF Ours
  <2>3. c \in DOMAIN chains'
    BY <1>1 DEF Standing
  <2> QED BY <2>1, <2>2, <2>3
<1>2. ASSUME NEW h \in Hooks, NEW i \in DOMAIN jumps'[h]
      PROVE  /\ jumps'[h][i].to \in Made(plan)
             /\ chains'[jumps'[h][i].to] \in {Full(jumps'[h][i].to), <<>>}
             /\ jumps'[h][i].from \in Calls(jumps'[h][i].to)
  BY <1>1
<1> QED BY <1>2 DEF Ours, Full, Calls

LEMMA SweepLess ==
  ASSUME Kernel, Standing, NEW cmd \in Sweep(Chains), Execute(cmd)
  PROVE  /\ \A c \in DOMAIN chains' : chains'[c] \in {chains[c], <<>>}
         /\ \A h \in Hooks : \A i \in DOMAIN jumps'[h] :
              \E k \in DOMAIN jumps[h] : jumps'[h][i] = jumps[h][k]
<1>1. PICK op \in {"unjump", "flush", "delete"}, c \in Chains : cmd = Cmd(op, c)
  BY DEF Sweep
<1>2. cmd.op = op /\ cmd.arg = c
  BY <1>1 DEF Cmd
<1>3. CASE op = "unjump"
  <2>1. chains' = chains
    BY <1>1, <1>3, UnjumpStep
  <2>2. jumps' = [jumps EXCEPT ![HookOf(c)] = LessOne(jumps[HookOf(c)], c)]
    BY <1>2, <1>3 DEF Execute, JumpsAfter, LessOne
  <2>3. HookOf(c) \in Hooks
    BY NothingHooked
  <2>4. ASSUME NEW h \in Hooks, NEW i \in DOMAIN jumps'[h]
        PROVE  \E k \in DOMAIN jumps[h] : jumps'[h][i] = jumps[h][k]
    <3>1. jumps \in [Hooks -> Seq(Jumps)]
      BY DEF Kernel
    <3>2. CASE h # HookOf(c)
      BY <2>2, <3>1, <3>2
    <3>3. CASE h = HookOf(c)
      <4> DEFINE q == jumps[h]
                 r == jumps'[h]
                 S == Range(q)
      <4>1. r = LessOne(q, c)
        BY <2>2, <2>3, <3>1, <3>3
      <4>2. q \in Seq(Jumps)
        BY <3>1
      <4> HIDE DEF q
      <4>3. q \in Seq(S) /\ S = {q[k] : k \in DOMAIN q}
        BY <4>2 DEF Range
      <4> HIDE DEF S, r
      <4>4. r \in Seq(S)
        BY <4>1, <4>3, DeletedJump
      <4>5. i \in DOMAIN r
        BY DEF r
      <4>6. r[i] \in S
        BY <4>4, <4>5
      <4> QED BY <4>3, <4>6 DEF q, r
    <3> QED BY <3>2, <3>3
  <2> QED BY <2>1, <2>4
<1>4. CASE op = "flush"
  <2>1. jumps' = jumps /\ DOMAIN chains' = DOMAIN chains
    BY <1>1, <1>4, FlushStep
  <2>2. chains' = IF c \in DOMAIN chains THEN [chains EXCEPT ![c] = <<>>] ELSE chains
    BY <1>2, <1>4 DEF Execute, ChainsAfter
  <2>3. \A d \in DOMAIN chains : chains'[d] \in {chains[d], <<>>}
    BY <2>2 DEF Kernel
  <2> QED BY <2>1, <2>3
<1>5. CASE op = "delete"
  <2>1. jumps' = jumps /\ DOMAIN chains' \subseteq DOMAIN chains
    BY <1>1, <1>5, DeleteStep
  <2>2. chains' \in {chains, Without(chains, c)}
    BY <1>2, <1>5 DEF Execute, ChainsAfter
  <2>3. \A d \in DOMAIN chains' : chains'[d] = chains[d]
    BY <2>2 DEF Without
  <2> QED BY <2>1, <2>3
<1> QED BY <1>3, <1>4, <1>5

-----------------------------------------------------------------------------
\* Where nothing is hooked in; the block of QUIC; the table of nftables.

\* Where nothing is hooked in every packet goes its own way.
LEMMA Untouched ==
  ASSUME jumps = NoJumps, NEW x \in Packets
  PROVE  Handed(x) = Routed(x, FALSE)
<1> DEFINE side == IF Sent(x) THEN "PREROUTING" ELSE "OUTPUT"
           m == Verdict(<<"mangle", side>>, x)
           n == Verdict(<<"nat", side>>, x)
           f == Verdict(<<"filter", "FORWARD">>, x)
<1>1. ASSUME NEW h \in Hooks PROVE Verdict(h, x) = "accept"
  <2>1. jumps[h] = <<>>
    BY NothingHooked
  <2>2. jumps[h] \in Seq(Jumps) /\ Len(jumps[h]) = 0
    BY <2>1, EmptySeq
  <2>3. \A i \in 1..Len(jumps[h]) : FALSE
    BY <2>2
  <2> QED BY <2>2, <2>3, Passed
<1>2. m = "accept" /\ n = "accept" /\ f = "accept"
  <2>1. side \in {"PREROUTING", "OUTPUT"}
    OBVIOUS
  <2> HIDE DEF side
  <2> QED BY <1>1, <2>1, HooksNamed
<1>3. Handed(x) = CASE m \in {"tproxy", "tproxyDns"} ->
                       IF ~divert THEN "lost"
                       ELSE IF m = "tproxy" THEN "core" ELSE "dns"
                  [] m \notin {"tproxy", "tproxyDns"} /\ n \in {"core", "dns"} -> n
                  [] OTHER -> IF Sent(x) /\ f = "reject"
                              THEN "refused" ELSE Routed(x, m = "mark")
  BY DEF Handed
<1> HIDE DEF m, n, f
<1>4. (m = "mark") = FALSE
  BY <1>2
<1> QED BY <1>2, <1>3, <1>4

\* A block of QUIC comes after the rules that capture TCP.
LEMMA QuicFollows ==
  ASSUME NEW p \in Plans, p.mode = "redirect"
  PROVE  Follows(Body(p), {Pre("nat")}, Quic)
<1>1. p.hijack \in BOOLEAN /\ p.router \in BOOLEAN /\ p.quic \in BOOLEAN
  <2>1. p \in Plan
    BY PlansAssumption
  <2> QED BY <2>1 DEF Plan
<1> DEFINE nat == If(CapturesTCPViaRedirect(p.mode), NatRules(p))
           udp == If(MarksUDPForTun(p.mode), UdpMark(p))
           tproxy == If(NeedsTProxy(p.mode), <<Need>> \o TProxy(p) \o <<Divert>>)
           output == If(p.router, Output(p))
           quic == If(p.quic /\ ~CarriesUDP(p.mode), QuicBlock(p))
           D == {Pre("nat")}
<1>2. Body(p) = nat \o udp \o tproxy \o output \o quic
  BY DEF Body, NeedsFirewallCapture
<1>3. nat = NatRules(p) /\ udp = <<>> /\ tproxy = <<>>
  BY DEF If, CapturesTCPViaRedirect, MarksUDPForTun, NeedsTProxy
<1>4. nat \in Seq(Build) /\ Follows(nat, D, Quic) /\ \E d \in D : Makes(nat, d)
  <2>1. Quic \in Chains \ {Pre("nat")}
    BY ChainsNamed, ChainsApart
  <2>2. Fits(nat, {Pre("nat")}) /\ Makes(nat, Pre("nat"))
    BY <1>3, PartsFit
  <2> HIDE DEF nat
  <2> QED BY <2>1, <2>2, FitsFollows DEF Fits
<1>5. /\ udp \in Seq(Build) /\ tproxy \in Seq(Build) /\ output \in Seq(Build)
      /\ quic \in Seq(Build)
  <2>1. <<>> \in Seq(Build)
    OBVIOUS
  <2>2. Output(p) \in Seq(Build) /\ QuicBlock(p) \in Seq(Build)
    BY OutputFits, PartsFit DEF Fits
  <2> QED BY <1>3, <2>1, <2>2 DEF If
<1> HIDE DEF nat, udp, tproxy, output, quic, D
<1>6. ASSUME NEW s \in Seq(Build), NEW t \in Seq(Build), Follows(s, D, Quic),
             \E d \in D : Makes(s, d)
      PROVE  /\ s \o t \in Seq(Build) /\ Follows(s \o t, D, Quic)
             /\ \E d \in D : Makes(s \o t, d)
  BY <1>6, MakesBoth, FollowsBoth
<1>7. LET x == nat \o udp
      IN x \in Seq(Build) /\ Follows(x, D, Quic) /\ \E d \in D : Makes(x, d)
  BY <1>4, <1>5, <1>6
<1>8. LET x == nat \o udp \o tproxy
      IN x \in Seq(Build) /\ Follows(x, D, Quic) /\ \E d \in D : Makes(x, d)
  BY <1>5, <1>6, <1>7
<1>9. LET x == nat \o udp \o tproxy \o output
      IN x \in Seq(Build) /\ Follows(x, D, Quic) /\ \E d \in D : Makes(x, d)
  BY <1>5, <1>6, <1>8
<1> QED BY <1>2, <1>5, <1>6, <1>9 DEF D

LEMMA HitMade == Kernel /\ Standing /\ Ours /\ Hits(Quic) # 0 => plan.mode = "redirect" \/ plan \notin Plans
<1> SUFFICES ASSUME Kernel, Standing, Ours, Hits(Quic) # 0, plan \in Plans
             PROVE  plan.mode = "redirect"
  OBVIOUS
<1> DEFINE h == HookOf(Quic)
<1>1. h \in Hooks /\ Quic \in Chains
  BY NothingHooked, ChainsNamed
<1>2. To(jumps[h], Quic) # {}
  BY FS_EmptySet DEF Hits
<1>3. PICK i \in DOMAIN jumps[h] : jumps[h][i].to = Quic
  BY <1>2 DEF To
<1>4. Quic \in Made(plan)
  BY <1>1, <1>3 DEF Ours
<1> QED BY <1>4, MadeIs

LEMMA NoHits == jumps = NoJumps => \A c \in Chains : Hits(c) = 0
BY NothingHooked DEF Hits

\* The whole table of nftables, and the steps that put it there.
LEMMA NftProgram ==
  ASSUME Typed, InOrder, backend = "nft", job \in Applies
  PROVE  LET table == Cmd("table", Ruleset(plan))
         IN /\ plan.mode = "tproxy" => /\ Len(Program) = 3 /\ Program[1] = Need
                                       /\ Program[2] = table /\ Program[3] = Divert
            /\ plan.mode # "tproxy" => Len(Program) = 1 /\ Program[1] = table
<1> DEFINE x == Need
           y == Cmd("table", Ruleset(plan))
           z == Divert
           W == {x, y, z}
<1>1. plan \in Plans /\ backend \in Backends /\ UsesFirewall(plan)
  BY DEF Typed, InOrder, Applies
<1>2. Program = If(NeedsTProxy(plan.mode), <<x>>) \o <<y>>
                \o If(NeedsTProxy(plan.mode), <<z>>)
  BY <1>1 DEF Program, Programs, NftApply, UsesFirewall, Applies
<1>3. x \in W /\ y \in W /\ z \in W
  OBVIOUS
<1> HIDE DEF x, y, z, W
<1>4. ASSUME NEW v \in W
      PROVE  <<v>> \in Seq(W) /\ Len(<<v>>) = 1 /\ <<v>>[1] = v
  OBVIOUS
<1>5. CASE plan.mode = "tproxy"
  <2> DEFINE a == <<x>>
             b == <<y>>
             c == <<z>>
             d == a \o b
             e == d \o c
  <2>1. /\ a \in Seq(W) /\ Len(a) = 1 /\ a[1] = x
        /\ b \in Seq(W) /\ Len(b) = 1 /\ b[1] = y
        /\ c \in Seq(W) /\ Len(c) = 1 /\ c[1] = z
    BY <1>3, <1>4
  <2>2. Program = e
    BY <1>2, <1>5 DEF If, NeedsTProxy
  <2> HIDE DEF a, b, c
  <2>3. /\ d \in Seq(W) /\ Len(d) = Len(a) + Len(b)
        /\ \A i \in 1..Len(a) : d[i] = a[i]
        /\ \A i \in 1..Len(b) : d[Len(a) + i] = b[i]
    BY ONLY <2>1, PlacesOfBoth
  <2>4. d \in Seq(W) /\ Len(d) = 2 /\ d[1] = x /\ d[2] = y
    BY <2>1, <2>3
  <2> HIDE DEF d
  <2>5. /\ Len(e) = Len(d) + Len(c)
        /\ \A i \in 1..Len(d) : e[i] = d[i]
        /\ \A i \in 1..Len(c) : e[Len(d) + i] = c[i]
    <3>1. d \in Seq(W) /\ c \in Seq(W)
      BY <2>1, <2>4
    <3> QED BY ONLY <3>1, PlacesOfBoth
  <2>6. Len(e) = 3 /\ e[1] = x /\ e[2] = y /\ e[3] = z
    BY <2>1, <2>4, <2>5
  <2> QED BY <1>5, <2>2, <2>6 DEF x, y, z
<1>6. CASE plan.mode # "tproxy"
  <2> DEFINE b == <<y>>
  <2>1. b \in Seq(W) /\ Len(b) = 1 /\ b[1] = y
    BY <1>3, <1>4
  <2>2. Program = <<>> \o b \o <<>>
    BY <1>2, <1>6 DEF If, NeedsTProxy
  <2> HIDE DEF b
  <2>3. <<>> \o b \o <<>> = b
    BY ONLY <2>1, ConcatEmptySeq
  <2> QED BY <1>6, <2>1, <2>2, <2>3 DEF y
<1> QED BY <1>5, <1>6

Tabulated ==
  /\ chains = Ruleset(plan)
  /\ \A c \in Made(plan) : \E i \in DOMAIN jumps[HookOf(c)] :
       jumps[HookOf(c)][i] = [from |-> Senders, to |-> c]

LEMMA TableTabulates ==
  ASSUME plan \in Plans, plan' = plan, Execute(Cmd("table", Ruleset(plan)))
  PROVE  /\ Tabulated'
         /\ \A h \in Hooks : \A i \in DOMAIN jumps'[h] :
              jumps'[h][i].from = Senders /\ jumps'[h][i].to \in Made(plan)
<1> DEFINE R == Ruleset(plan)
           At(h) == {c \in DOMAIN R : HookOf(c) = h}
           x(h) == SetToSeq(At(h))
<1>1. /\ chains' = R
      /\ jumps' = [h \in Hooks |-> [i \in DOMAIN x(h) |->
                                      [from |-> Senders, to |-> x(h)[i]]]]
  BY DEF Execute, ChainsAfter, JumpsAfter, Cmd
<1>2. DOMAIN R = Made(plan) /\ Made(plan) \subseteq Chains
  BY MadeIs DEF Made
<1> HIDE DEF R
<1>3. ASSUME NEW h
      PROVE  /\ \A i \in DOMAIN x(h) : x(h)[i] \in At(h)
             /\ \A c \in At(h) : \E i \in DOMAIN x(h) : x(h)[i] = c
  <2> DEFINE S == At(h)
             n == Cardinality(S)
  <2>1. IsFiniteSet(S)
    BY <1>2, ChainsFinite, FS_Subset
  <2> HIDE DEF S
  <2>2. n \in Nat /\ ExistsBijection(1..n, S)
    BY <2>1, FS_CardinalityType, FS_CountingElements, FS_NatBijection
  <2>3. DOMAIN SetToSeq(S) = 1..n /\ \A i \in 1..n : SetToSeq(S)[i] \in S
    BY <2>1, Listed
  <2>4. SetToSeq(S) \in [1..n -> S] /\ IsInjective(SetToSeq(S))
    <3>1. \E f \in [1..n -> S] : IsInjective(f)
      BY <2>2 DEF ExistsBijection, Bijection, Injection
    <3> QED BY <3>1 DEF SetToSeq
  <2>5. SetToSeq(S) \in Injection(1..n, S)
    BY <2>4 DEF Injection
  <2>6. \A c \in S : \E i \in 1..n : SetToSeq(S)[i] = c
    <3>1. IsFiniteSet(1..n) /\ Cardinality(1..n) = n
      BY <2>2, FS_CountingElements, FS_NatBijection, FS_Interval
    <3>2. SetToSeq(S) \in Surjection(1..n, S)
      BY <2>1, <2>5, <3>1, FS_SameCardinalityBij, FS_Injection, FS_Bijection
    <3> QED BY <3>2 DEF Surjection
  <2> QED BY <2>3, <2>6 DEF S
<1>4. ASSUME NEW h \in Hooks, NEW i \in DOMAIN jumps'[h]
      PROVE  jumps'[h][i].from = Senders /\ jumps'[h][i].to \in Made(plan)
  <2>1. i \in DOMAIN x(h) /\ jumps'[h][i] = [from |-> Senders, to |-> x(h)[i]]
    BY <1>1
  <2>2. x(h)[i] \in At(h)
    BY <1>3, <2>1
  <2> HIDE DEF x
  <2> QED BY <1>2, <2>1, <2>2
<1>5. ASSUME NEW c \in Made(plan)
      PROVE  \E i \in DOMAIN jumps'[HookOf(c)] :
               jumps'[HookOf(c)][i] = [from |-> Senders, to |-> c]
  <2>1. HookOf(c) \in Hooks /\ c \in At(HookOf(c))
    BY <1>2, NothingHooked
  <2>2. PICK i \in DOMAIN x(HookOf(c)) : x(HookOf(c))[i] = c
    BY <1>3, <2>1
  <2>3. jumps'[HookOf(c)] = [k \in DOMAIN x(HookOf(c)) |->
                               [from |-> Senders, to |-> x(HookOf(c))[k]]]
    BY <1>1, <2>1
  <2> HIDE DEF x
  <2> QED BY <2>2, <2>3
<1> QED BY <1>1, <1>4, <1>5 DEF Tabulated, R

LEMMA TabulatedWhole ==
  ASSUME backend = "nft", Tabulated, NeedsTProxy(plan.mode) => divert
  PROVE  Whole
<1>1. \A c \in Made(plan) : Full(c) = Ruleset(plan)[c] /\ Calls(c) = {Senders}
  BY DEF Full, Calls
<1> QED BY <1>1 DEF Whole, Tabulated

-----------------------------------------------------------------------------
\* What the daemon holds of the kernel, step by step.

\* Who blocks QUIC captures TCP as well, so that he is seen.
Accompanied ==
  backend = "ipt" /\ alive /\ ~stale /\ job \in Applies \cup {"none"} =>
    (Hits(Quic) # 0 => Pre("nat") \in DOMAIN chains)
\* An application sweeps where nothing is hooked in.
Bare ==
  ~stale /\ (job = "clear" \/ (backend = "ipt" /\ job \in Applies /\ at <= Sweeps)) =>
    jumps = NoJumps
Fresh == backend = "ipt" /\ job \in Applies /\ at > Sweeps => ~stale
Unwound == job = "unwind" => connected /\ refused
\* What an application has come to: iptables rule by rule, nftables at once.
Filling ==
  backend = "ipt" /\ job \in Applies /\ at > Sweeps =>
    \E p, s, m : /\ p = plan /\ m = at - Sweeps
                 /\ Laid(Body(p), Made(p), p, s) /\ Filled(s, m, p)
Tabled ==
  backend = "nft" /\ job \in Applies /\ ~stale =>
    /\ \/ chains = <<>> /\ (pending \/ at <= (IF plan.mode = "tproxy" THEN 2 ELSE 1))
       \/ Tabulated
    /\ plan.mode = "tproxy" /\ at > 3 => divert
Final ==
  Idle /\ connected /\ ~refused /\ ~stale /\ UsesFirewall(plan) =>
    Whole \/ (pending /\ chains = <<>>)
Faithful == /\ Loyal /\ Accompanied /\ Bare /\ Fresh /\ Unwound /\ Filling
            /\ Tabled /\ Final

LEMMA NoJumpsNext == jumps' = NoJumps => Ours' /\ Hits(Quic)' = 0
<1>1. (jumps = NoJumps => Ours)'
  BY NoneOurs, PTL
<1>2. (jumps = NoJumps => \A c \in Chains : Hits(c) = 0)'
  BY NoHits, PTL
<1> QED BY <1>1, <1>2, ChainsNamed

\* A new operation starts before its sweep.
LEMMA Starting == at' = 1 => Fresh' /\ Filling'
<1>1. Sweeps \in Nat /\ Sweeps >= 1
  BY SweepPlaces
<1> QED BY <1>1 DEF Fresh, Filling

LEMMA Same ==
  ASSUME UNCHANGED <<backend, plan, chains, jumps>>
  PROVE  Ours' = Ours /\ Hits(Quic)' = Hits(Quic) /\ Tabulated' = Tabulated
         /\ (Whole /\ divert' = divert => Whole')
<1>1. Ours' = Ours
  BY DEF Ours, Full, Calls
<1>2. Hits(Quic)' = Hits(Quic) /\ Tabulated' = Tabulated
  BY DEF Hits, Tabulated
<1>3. Whole /\ divert' = divert => Whole'
  BY DEF Whole, Full, Calls
<1> QED BY <1>1, <1>2, <1>3

LEMMA SweptClean ==
  Inv => (backend = "ipt" /\ job # "none" /\ at > Sweeps
          /\ (job \in Applies => at <= Sweeps + 1) => Empty)
BY SweptOut DEF Inv

LEMMA BuiltOurs ==
  Inv /\ Filling /\ backend = "ipt" /\ job \in Applies /\ at > Sweeps => Ours
<1> SUFFICES ASSUME Inv, Filling, backend = "ipt", job \in Applies, at > Sweeps
             PROVE  Ours
  OBVIOUS
<1>1. PICK p, s, m : /\ p = plan /\ m = at - Sweeps
                     /\ Laid(Body(p), Made(p), p, s) /\ Filled(s, m, p)
  BY DEF Filling
<1>2. m \in Nat \ {0}
  BY <1>1, SweepPlaces DEF Inv, Typed
<1>3. Laid(Body(plan), Made(plan), plan, s) /\ Filled(s, m, plan)
  BY <1>1
<1> QED BY <1>2, <1>3, FilledOurs DEF Inv, Typed

LEMMA FaithfulConnect ==
  ASSUME Inv, Faithful, NEW p \in Plans, Connect(p)
  PROVE  Faithful'
<1>1. /\ UNCHANGED <<backend, alive, chains, jumps, stale>>
      /\ plan' = p /\ job = "none" /\ ~connected /\ at' = 1
      /\ IF UsesFirewall(p) THEN job' = "connect" /\ connected' = FALSE
                            ELSE job' = "none" /\ connected' = TRUE
  BY DEF Connect, Idle, kernel, Inv, InOrder
<1>2. ~stale => chains = <<>> /\ jumps = NoJumps
  BY <1>1 DEF Inv, Clean, Empty
<1>3. ~stale' => chains' = <<>> /\ jumps' = NoJumps /\ Ours' /\ Hits(Quic)' = 0
  BY <1>1, <1>2, NoJumpsNext
<1>4. Fresh' /\ Filling'
  BY <1>1, Starting
<1>5. Loyal' /\ Accompanied' /\ Bare' /\ Unwound'
  BY <1>1, <1>3 DEF Loyal, Accompanied, Bare, Unwound
<1>6. Tabled'
  BY <1>1, <1>3 DEF Tabled
<1>7. Final'
  BY <1>1 DEF Final, Idle, UsesFirewall
<1> QED BY <1>4, <1>5, <1>6, <1>7 DEF Faithful

LEMMA FaithfulDisconnect ==
  ASSUME Inv, Faithful, Disconnect
  PROVE  Faithful'
<1>1. /\ UNCHANGED <<backend, plan, alive, chains, jumps, stale>>
      /\ job = "none" /\ alive /\ connected' = FALSE /\ at' = 1
      /\ job' = IF UsesFirewall(plan) THEN "disconnect" ELSE "none"
  BY DEF Disconnect, Idle, kernel, history, Inv, InOrder
<1>2. Loyal' /\ Accompanied'
  BY <1>1, Same DEF Faithful, Loyal, Accompanied
<1>3. Bare' /\ Unwound' /\ Tabled' /\ Final'
  BY <1>1 DEF Bare, Unwound, Tabled, Final, Applies
<1>4. Fresh' /\ Filling'
  BY <1>1, Starting
<1> QED BY <1>2, <1>3, <1>4 DEF Faithful

\* Where nothing is seen that the daemon would know of, there is nothing.
LEMMA UnseenNothing ==
  ASSUME Inv, Relics, Faithful, ~Installed, ~stale, alive, job = "none"
  PROVE  jumps = NoJumps /\ (backend = "nft" => chains = <<>>)
<1>1. Kernel /\ Standing /\ backend \in {"nft", "ipt"}
  BY BackendsAssumption DEF Inv, Typed
<1>2. CASE backend = "nft"
  <2> DEFINE seen == {<<t, d>> : t \in {"nat", "mangle"}, d \in {"PRE", "MARK"}}
  <2>1. Installed = IF backend = "nft" THEN DOMAIN chains # {}
                    ELSE DOMAIN chains \cap seen # {}
    BY DEF Installed
  <2> HIDE DEF seen
  <2>2. DOMAIN chains = {}
    BY <1>2, <2>1
  <2> QED BY <1>1, <2>2, NothingLeft
<1>3. CASE backend = "ipt"
  <2>1. Pre("nat") \notin DOMAIN chains
    <3>1. DOMAIN chains \cap {<<t, d>> : t \in {"nat", "mangle"},
                                         d \in {"PRE", "MARK"}} = {}
      BY <1>3 DEF Installed
    <3> QED BY <3>1 DEF Pre
  <2>2. Hits(Quic) = 0
    BY <1>3, <2>1 DEF Faithful, Accompanied
  <2>3. ASSUME NEW h \in Hooks PROVE jumps[h] = <<>>
    <3>1. jumps[h] \in Seq(Jumps)
      BY <1>1 DEF Kernel
    <3>2. \A i \in DOMAIN jumps[h] : FALSE
      <4> SUFFICES ASSUME NEW i \in DOMAIN jumps[h] PROVE FALSE
        OBVIOUS
      <4>1. h = HookOf(Quic) /\ jumps[h][i].to = Quic
        BY <1>3, <3>1, HooksBare
      <4>2. i \in To(jumps[HookOf(Quic)], Quic)
        BY <4>1 DEF To
      <4>3. IsFiniteSet(To(jumps[HookOf(Quic)], Quic))
        BY <3>1, <4>1, ToFinite
      <4> QED BY <2>2, <4>2, <4>3, FS_EmptySet DEF Hits
    <3> QED BY <3>1, <3>2, NoPlaces, Zenon
  <2>4. jumps = NoJumps
    BY <1>1, <2>3 DEF Kernel, NoJumps
  <2> QED BY <1>3, <2>4
<1> QED BY <1>1, <1>2, <1>3

LEMMA FaithfulReapply ==
  ASSUME Inv, Relics, Faithful, NEW p \in Plans, Reapply(p)
  PROVE  Faithful'
<1>1. /\ UNCHANGED <<backend, alive, connected, chains, jumps, divert, stale, refused>>
      /\ job = "none" /\ alive /\ at' = 1
  BY DEF Reapply, Idle, kernel, Inv, InOrder
<1>2. Fresh' /\ Filling'
  BY <1>1, Starting
<1>3. CASE connected /\ UsesFirewall(plan) /\ ~Installed
  <2>1. job' = "reapply"
    BY <1>3 DEF Reapply
  <2>2. ~stale => jumps = NoJumps /\ (backend = "nft" => chains = <<>>)
    BY <1>1, <1>3, UnseenNothing
  <2>3. ~stale' => /\ jumps' = NoJumps /\ Ours' /\ Hits(Quic)' = 0
                   /\ backend = "nft" => chains' = <<>>
    BY <1>1, <2>2, NoJumpsNext
  <2>4. Loyal' /\ Accompanied' /\ Bare' /\ Unwound' /\ Final'
    BY <2>1, <2>3 DEF Loyal, Accompanied, Bare, Unwound, Final, Idle
  <2>5. Tabled'
    BY <1>1, <2>3 DEF Tabled
  <2> QED BY <1>2, <2>4, <2>5 DEF Faithful
<1>4. CASE ~(connected /\ UsesFirewall(plan) /\ ~Installed)
  <2>1. plan' = plan /\ job' = "none"
    BY <1>1, <1>4 DEF Reapply
  <2>2. Loyal' /\ Accompanied'
    BY <1>1, <2>1, Same DEF Faithful, Loyal, Accompanied
  <2>3. Bare' /\ Unwound' /\ Tabled'
    BY <2>1 DEF Bare, Unwound, Tabled, Applies
  <2>4. Final'
    <3> SUFFICES ASSUME connected', ~refused', ~stale', UsesFirewall(plan)'
                 PROVE  Whole'
      BY DEF Final
    <3>1. connected /\ ~refused /\ ~stale /\ UsesFirewall(plan)
      BY <1>1, <2>1 DEF UsesFirewall
    <3>2. Whole \/ chains = <<>>
      BY <1>1, <3>1 DEF Faithful, Final, Idle
    <3>3. Whole
      BY <1>4, <3>1, <3>2, NothingSeen
    <3> QED BY <1>1, <2>1, <3>3, Same
  <2> QED BY <1>2, <2>2, <2>3, <2>4 DEF Faithful
<1> QED BY <1>3, <1>4

LEMMA FaithfulRefuse ==
  ASSUME Inv, Faithful, Refuse
  PROVE  Faithful'
<1>1. /\ UNCHANGED <<backend, plan, connected, alive, chains, jumps, stale>>
      /\ job \in Applies /\ at' = 1
      /\ \/ job = "connect" /\ job' = "disconnect"
         \/ job = "reapply" /\ job' \in {"unwind", "none"} /\ refused' = TRUE
  BY DEF Refuse, kernel, Applies
<1>2. job = "reapply" => connected
  BY DEF Inv, InOrder
<1>3. Loyal' /\ Accompanied'
  BY <1>1, Same DEF Faithful, Loyal, Accompanied
<1>4. Bare' /\ Unwound' /\ Tabled' /\ Final'
  BY <1>1, <1>2 DEF Bare, Unwound, Tabled, Final, Applies, Idle
<1>5. Fresh' /\ Filling'
  BY <1>1, Starting
<1> QED BY <1>3, <1>4, <1>5 DEF Faithful

LEMMA FaithfulKill ==
  ASSUME Kill
  PROVE  Faithful'
<1>1. alive' = FALSE /\ job' = "none" /\ at' = 1
  BY DEF Kill
<1>2. Loyal' /\ Accompanied' /\ Bare' /\ Unwound' /\ Tabled' /\ Final'
  BY <1>1 DEF Loyal, Accompanied, Bare, Unwound, Tabled, Final, Applies, Idle
<1> QED BY <1>1, <1>2, Starting DEF Faithful

LEMMA FaithfulRestart ==
  ASSUME Inv, Restart
  PROVE  Faithful'
<1>1. /\ UNCHANGED <<backend, plan, connected, chains, jumps, stale>>
      /\ job = "none" /\ ~connected /\ at' = 1 /\ job' \in {"clear", "none"}
  BY DEF Restart, kernel, history, Inv, InOrder
<1>2. ~stale' => jumps' = NoJumps /\ Ours' /\ Hits(Quic)' = 0
  BY <1>1, NoJumpsNext DEF Inv, Clean, Empty
<1>3. Loyal' /\ Accompanied' /\ Bare' /\ Unwound' /\ Tabled' /\ Final'
  BY <1>1, <1>2 DEF Loyal, Accompanied, Bare, Unwound, Tabled, Final, Applies
<1> QED BY <1>1, <1>3, Starting DEF Faithful

LEMMA FaithfulWipe ==
  ASSUME ~TornWipes, Inv, Faithful, Wipe
  PROVE  Faithful'
<1>1. /\ UNCHANGED <<backend, plan, job, at, connected, alive, divert, stale, refused>>
      /\ chains' = <<>> /\ jumps' = NoJumps /\ pending' = alive
      /\ backend = "nft" \/ job \notin Applies
  BY DEF Wipe, Applies
<1>2. Ours' /\ Hits(Quic)' = 0
  BY <1>1, NoJumpsNext
<1>3. job \in Applies => alive
  BY DEF Inv, InOrder, Applies, Typed
<1>4. Loyal' /\ Accompanied' /\ Bare' /\ Unwound' /\ Fresh' /\ Filling'
  BY <1>1, <1>2 DEF Faithful, Loyal, Accompanied, Bare, Unwound, Fresh, Filling
<1>5. Tabled'
  BY <1>1, <1>3 DEF Faithful, Tabled
<1>6. Final'
  BY <1>1 DEF Final, Idle
<1> QED BY <1>4, <1>5, <1>6 DEF Faithful

LEMMA FaithfulDone ==
  ASSUME Inv, Faithful, Done
  PROVE  Faithful'
<1>1. /\ UNCHANGED <<backend, plan, alive, chains, jumps, divert, stale, refused, pending>>
      /\ job # "none" /\ job' = "none" /\ at' = 1 /\ at > Len(Program)
      /\ connected' = (job \in {"connect", "reapply", "unwind"})
  BY DEF Done, kernel, history
<1>2. Fresh' /\ Filling'
  BY <1>1, Starting
<1>3. Bare' /\ Unwound' /\ Tabled'
  BY <1>1 DEF Bare, Unwound, Tabled, Applies
<1>4. /\ Typed /\ InOrder /\ backend \in {"nft", "ipt"} /\ plan \in Plans /\ at \in Nat
      /\ job \in Applies => UsesFirewall(plan)
      /\ job \in Jobs
  BY BackendsAssumption DEF Inv, Typed, InOrder, Applies
<1>5. CASE job \in Applies
  <2>1. Loyal' /\ Accompanied'
    BY <1>1, <1>5, Same DEF Faithful, Loyal, Accompanied
  <2>2. ASSUME ~stale PROVE Whole \/ (pending /\ chains = <<>>)
    <3>1. CASE backend = "nft"
      <4>1. IF plan.mode = "tproxy" THEN at > 3 ELSE at > 1
        BY <1>1, <1>4, <1>5, <3>1, NftProgram
      <4>2. (pending /\ chains = <<>>) \/ (Tabulated /\ (plan.mode = "tproxy" => divert))
        BY <1>4, <1>5, <2>2, <3>1, <4>1 DEF Faithful, Tabled
      <4> QED BY <3>1, <4>2, TabulatedWhole DEF NeedsTProxy
    <3>2. CASE backend = "ipt"
      <4>1. /\ Len(Program) = Sweeps + Len(Body(plan)) /\ Len(Body(plan)) \in Nat
            /\ Sweeps \in Nat
        BY <1>1, <1>4, <1>5, <3>2, ProgramOfIpt, SweepPlaces
      <4>2. at > Sweeps /\ at - Sweeps \in Nat \ {0} /\ at - Sweeps > Len(Body(plan))
        BY <1>1, <1>4, <4>1
      <4>3. PICK p, s, m : /\ p = plan /\ m = at - Sweeps
                           /\ Laid(Body(p), Made(p), p, s) /\ Filled(s, m, p)
        BY <1>5, <3>2, <4>2 DEF Faithful, Filling
      <4>4. Laid(Body(plan), Made(plan), plan, s) /\ Filled(s, m, plan)
        BY <4>3
      <4>5. m \in Nat \ {0} /\ m > Len(Body(plan))
        BY <4>2, <4>3
      <4> QED BY <1>4, <1>5, <3>2, <4>1, <4>4, <4>5, FilledWhole
    <3> QED BY <1>4, <3>1, <3>2
  <2>3. Final'
    BY <1>1, <2>2, Same DEF Final
  <2> QED BY <1>2, <1>3, <2>1, <2>3 DEF Faithful
<1>6. CASE job \notin Applies
  <2>1. chains = <<>> /\ jumps = NoJumps
    BY <1>1, <1>6, Reverted DEF Empty
  <2>2. Ours' /\ Hits(Quic)' = 0
    BY <1>1, <2>1, NoJumpsNext
  <2>3. Loyal' /\ Accompanied'
    BY <2>2 DEF Loyal, Accompanied
  <2>4. job # "unwind" => ~connected'
    BY <1>1, <1>6 DEF Applies
  <2>5. Final'
    BY <1>1, <2>4 DEF Final, Faithful, Unwound
  <2> QED BY <1>2, <1>3, <2>3, <2>5 DEF Faithful
<1> QED BY <1>5, <1>6

LEMMA FaithfulSweep ==
  ASSUME Inv, Faithful, NextCommand, backend = "ipt", at <= Sweeps
  PROVE  Faithful'
<1> DEFINE cmd == IptRevert[at]
<1>1. /\ Execute(cmd) /\ at' = at + 1 /\ job # "none" /\ at \in 1..Sweeps
      /\ UNCHANGED <<backend, plan, job>> /\ cmd \in Sweep(Chains) \cup {Undivert}
      /\ (cmd # Undivert => at # Sweeps)
  BY IptCommand
<1>2. /\ Typed /\ Kernel /\ Standing /\ Sweeps \in Nat /\ at \in Nat
  BY SweepPlaces DEF Inv, Typed
<1>3. UNCHANGED <<connected, alive, refused, pending>>
      /\ stale' = (stale /\ cmd.op # "undivert")
  <2>1. Program[at] = cmd
    BY <1>1, <1>2, ProgramOfIpt
  <2> QED BY <2>1 DEF NextCommand
<1>4. Inv'
  BY CommandStep
<1>5. Tabled' /\ Final' /\ Unwound'
  BY <1>1, <1>3 DEF Faithful, Tabled, Final, Idle, Unwound
<1>6. CASE at # Sweeps
  <2>1. cmd \in Sweep(Chains) /\ at' <= Sweeps
    BY <1>1, <1>2, <1>6, SweepPlaces
  <2>2. cmd.op # "undivert"
    BY <2>1 DEF Sweep, Cmd
  <2>3. stale' <=> stale
    BY <1>3, <2>2
  <2> HIDE DEF cmd
  <2>4. /\ \A c \in DOMAIN chains' : chains'[c] \in {chains[c], <<>>}
        /\ \A h \in Hooks : \A i \in DOMAIN jumps'[h] :
             \E k \in DOMAIN jumps[h] : jumps'[h][i] = jumps[h][k]
    BY <1>1, <1>2, <2>1, SweepLess
  <2>5. Ours => Ours'
    BY <1>1, <1>4, <2>4, FewerOurs DEF Inv
  <2>6. jumps = NoJumps => jumps' = NoJumps
    <3> SUFFICES ASSUME jumps = NoJumps PROVE jumps' = NoJumps
      OBVIOUS
    <3>1. jumps' \in [Hooks -> Seq(Jumps)]
      BY <1>4 DEF Inv, Kernel
    <3>2. ASSUME NEW h \in Hooks PROVE jumps'[h] = <<>>
      <4>1. jumps[h] = <<>> /\ DOMAIN <<>> = {}
        BY NothingHooked
      <4>2. \A i \in DOMAIN jumps'[h] : FALSE
        BY <2>4, <4>1
      <4>3. jumps'[h] \in Seq(Jumps)
        BY <3>1
      <4> QED BY <4>2, <4>3, NoPlaces, Zenon
    <3> QED BY <3>1, <3>2 DEF NoJumps
  <2>7. Bare'
    BY <1>1, <2>3, <2>6, <1>6 DEF Faithful, Bare
  <2>8. Loyal'
    BY <1>3, <2>3, <2>5 DEF Faithful, Loyal
  <2>9. Accompanied'
    <3> SUFFICES ASSUME job \in Applies, ~stale PROVE Hits(Quic)' = 0
      BY <1>1, <2>3 DEF Accompanied
    <3>1. jumps' = NoJumps
      BY <2>6 DEF Faithful, Bare
    <3> QED BY <3>1, NoJumpsNext
  <2>10. Fresh' /\ Filling'
    BY <1>1, <1>2, <2>1 DEF Fresh, Filling
  <2> QED BY <1>5, <2>7, <2>8, <2>9, <2>10 DEF Faithful
<1>7. CASE at = Sweeps
  <2>1. cmd = Undivert /\ ~stale'
    <3>1. cmd = Undivert
      BY <1>7, SweepPlaces
    <3>2. Undivert.op = "undivert"
      BY DEF Undivert, Cmd
    <3> HIDE DEF cmd
    <3> QED BY <1>3, <3>1, <3>2
  <2>2. Empty'
    <3>1. (Inv => (backend = "ipt" /\ job # "none" /\ at > Sweeps
                   /\ (job \in Applies => at <= Sweeps + 1) => Empty))'
      BY SweptClean, PTL
    <3>2. backend' = "ipt" /\ job' # "none" /\ at' > Sweeps /\ at' <= Sweeps + 1
      BY <1>1, <1>2, <1>7
    <3> QED BY <1>4, <3>1, <3>2
  <2>3. Ours' /\ Hits(Quic)' = 0 /\ jumps' = NoJumps
    BY <2>2, NoJumpsNext DEF Empty
  <2>4. Loyal' /\ Accompanied' /\ Bare'
    BY <2>3 DEF Loyal, Accompanied, Bare
  <2>5. Fresh'
    BY <2>1 DEF Fresh
  <2>6. Filling'
    <3> SUFFICES ASSUME job \in Applies PROVE Filling'
      BY <1>1 DEF Filling
    <3>1. UsesFirewall(plan) /\ plan \in Plans
      BY DEF Inv, InOrder, Typed, Applies
    <3>2. PICK p \in Plans : p = plan
      BY <3>1
    <3>3. LaidOut(Body(p), Made(p), p)
      BY <3>1, <3>2, BodyLaid
    <3>4. PICK s : Laid(Body(p), Made(p), p, s)
      BY <3>3 DEF LaidOut
    <3>5. Filled(s, 1, p)'
      BY <2>2, <3>4, FilledFirst
    <3>6. plan' = p /\ at' - Sweeps = 1
      BY <1>1, <1>2, <1>7, <3>2
    <3> QED BY <3>4, <3>5, <3>6 DEF Filling
  <2> QED BY <1>5, <2>4, <2>5, <2>6 DEF Faithful
<1> QED BY <1>6, <1>7

LEMMA FaithfulBuild ==
  ASSUME Inv, Relics, Faithful, NextCommand, backend = "ipt", at > Sweeps
  PROVE  Faithful'
<1>1. /\ Typed /\ Kernel /\ Standing /\ QuicOnly /\ Built /\ Sweeps \in Nat
      /\ at \in Nat /\ plan \in Plans /\ divert \in BOOLEAN
  BY SweepPlaces DEF Inv, Typed, Relics
<1>2. /\ at' = at + 1 /\ job # "none" /\ job \in Applies
      /\ UNCHANGED <<backend, plan, job, connected, alive, refused, pending>>
      /\ stale' => stale
  BY IptCommand DEF NextCommand
<1>3. ~stale /\ ~stale'
  BY <1>2 DEF Faithful, Fresh
<1>4. Inv'
  BY CommandStep
<1>5. PICK p, s, m : /\ p = plan /\ m = at - Sweeps
                     /\ Laid(Body(p), Made(p), p, s) /\ Filled(s, m, p)
  BY <1>2 DEF Faithful, Filling
<1> DEFINE b == Body(p)
           cmd == b[m]
<1>6. /\ m \in 1..Len(b) /\ cmd \in Build /\ Execute(cmd) /\ Possible(cmd) /\ p \in Plans
  BY <1>1, <1>5, IptCommand
<1>7. b \in Seq(Build) /\ Len(b) \in Nat /\ DOMAIN b = 1..Len(b)
  BY <1>6, BodyFits DEF Fits
<1>8. Filled(s, m + 1, p)'
  BY <1>1, <1>5, <1>6, <1>7, FilledStep
<1> HIDE DEF cmd, b
<1>9. Filling'
  <2>1. p = plan' /\ m + 1 = at' - Sweeps
    BY <1>1, <1>2, <1>5
  <2> QED BY <1>5, <1>8, <2>1 DEF Filling
<1>10. Ours'
  <2>1. (Inv /\ Filling /\ backend = "ipt" /\ job \in Applies /\ at > Sweeps => Ours)'
    BY BuiltOurs, PTL
  <2>2. backend' = "ipt" /\ job' \in Applies /\ at' > Sweeps
    BY <1>1, <1>2
  <2> QED BY <1>4, <1>9, <2>1, <2>2
<1>11. Hits(Quic)' # 0 => Pre("nat") \in DOMAIN chains'
  <2> SUFFICES ASSUME Hits(Quic)' # 0 PROVE Pre("nat") \in DOMAIN chains'
    OBVIOUS
  <2>1. p.mode = "redirect"
    <3>1. (Kernel /\ Standing /\ Ours /\ Hits(Quic) # 0
             => plan.mode = "redirect" \/ plan \notin Plans)'
      BY HitMade, PTL
    <3>2. Kernel' /\ Standing'
      BY <1>4 DEF Inv
    <3> QED BY <1>1, <1>2, <1>5, <1>10, <3>1, <3>2
  <2>2. Follows(b, {Pre("nat")}, Quic)
    BY <1>6, <2>1, QuicFollows DEF b
  <2>3. /\ DOMAIN chains \subseteq DOMAIN chains'
    BY <1>1, <1>2, <1>6, ChainsBuilt
  <2>4. CASE Hits(Quic) # 0
    <3>1. alive
      BY <1>2 DEF Inv, InOrder, Typed
    <3>2. Pre("nat") \in DOMAIN chains
      BY <1>2, <1>3, <2>4, <3>1 DEF Faithful, Accompanied
    <3> QED BY <2>3, <3>2
  <2>5. CASE Hits(Quic) = 0
    <3>1. /\ Kernel'
          /\ Hits(Quic)' <= Hits(Quic)
               + (IF cmd.op = "jump" /\ cmd.arg.to = Quic THEN 1 ELSE 0)
      BY <1>1, <1>6, BuildStep, ChainsNamed
    <3>2. Hits(Quic)' \in Nat
      BY <3>1, NothingHooked, ToFinite, ChainsNamed DEF Kernel, Hits
    <3>3. cmd.op = "jump" /\ cmd.arg.to = Quic
      BY <2>5, <3>1, <3>2
    <3>4. m \in Leads(b, Quic)
      BY <1>6, <1>7, <3>3 DEF Leads, cmd
    <3>5. PICK i \in 1..(m - 1) : b[i] = New(Pre("nat"))
      BY <2>2, <3>4 DEF Follows
    <3>6. i \in 1..Len(b) /\ Sweeps + i < at
      BY <1>1, <1>5, <1>6, <1>7, <3>5
    <3>7. Pre("nat") \in DOMAIN chains
      BY <1>1, <1>2, <1>5, <3>5, <3>6, ChainsNamed DEF Built, b
    <3> QED BY <2>3, <3>7
  <2> QED BY <2>4, <2>5
<1>12. Loyal' /\ Accompanied'
  BY <1>10, <1>11 DEF Loyal, Accompanied
<1>13. Bare' /\ Fresh'
  <2>1. at' > Sweeps /\ at' \in Nat
    BY <1>1, <1>2
  <2>2. ~(at' <= Sweeps)
    BY <1>1, <2>1
  <2>3. job' # "clear"
    BY <1>2 DEF Applies
  <2> QED BY <1>3, <2>2, <2>3 DEF Bare, Fresh
<1>14. Unwound' /\ Tabled' /\ Final'
  BY <1>2 DEF Unwound, Tabled, Final, Idle, Applies
<1> QED BY <1>9, <1>12, <1>13, <1>14 DEF Faithful

LEMMA FaithfulNft ==
  ASSUME Inv, Faithful, NextCommand, backend = "nft"
  PROVE  Faithful'
<1> DEFINE cmd == Program[at]
           table == Cmd("table", Ruleset(plan))
<1>1. /\ Typed /\ Kernel /\ Standing /\ Dropping /\ InOrder /\ at \in Nat
      /\ at >= 1 /\ divert \in BOOLEAN /\ plan \in Plans
  BY DEF Inv, Typed
<1>2. /\ job # "none" /\ at <= Len(Program) /\ Execute(cmd) /\ at' = at + 1
      /\ UNCHANGED <<backend, plan, job, connected, alive, refused, pending>>
      /\ stale' = (stale /\ cmd.op # "undivert")
  BY DEF NextCommand
<1>3. Accompanied' /\ Fresh' /\ Unwound' /\ Filling' /\ Final'
  BY <1>2 DEF Faithful, Accompanied, Fresh, Unwound, Filling, Final, Idle
<1>4. CASE job \in Applies
  <2>1. Bare'
    BY <1>2, <1>4 DEF Bare, Applies
  <2>2. \/ /\ plan.mode = "tproxy"
           /\ \/ at = 1 /\ cmd = Need
              \/ at = 2 /\ cmd = table
              \/ at = 3 /\ cmd = Divert
        \/ plan.mode # "tproxy" /\ at = 1 /\ cmd = table
    <3> HIDE DEF table
    <3>1. /\ plan.mode = "tproxy" => /\ Len(Program) = 3 /\ Program[1] = Need
                                     /\ Program[2] = table /\ Program[3] = Divert
          /\ plan.mode # "tproxy" => Len(Program) = 1 /\ Program[1] = table
      BY <1>1, <1>4, NftProgram DEF table
    <3>2. CASE plan.mode = "tproxy"
      <4>1. at = 1 \/ at = 2 \/ at = 3
        <5>1. at <= 3
          BY <1>2, <3>1, <3>2
        <5> QED BY ONLY <1>1, <5>1
      <4> QED BY <3>1, <3>2, <4>1
    <3>3. CASE plan.mode # "tproxy"
      <4>1. at = 1
        BY <1>1, <1>2, <3>1, <3>3
      <4> QED BY <3>1, <3>3, <4>1
    <3> QED BY <3>2, <3>3
  <2>3. Need.op = "need" /\ table.op = "table" /\ Divert.op = "divert"
    BY DEF Need, Divert, Cmd
  <2> HIDE DEF cmd, table
  <2>4. stale' <=> stale
    BY <1>2, <2>2, <2>3
  <2>5. CASE cmd = table
    <3>1. /\ Tabulated'
          /\ \A h \in Hooks : \A i \in DOMAIN jumps'[h] :
               jumps'[h][i].from = Senders /\ jumps'[h][i].to \in Made(plan)
      BY <1>1, <1>2, <2>5, TableTabulates DEF table
    <3>2. Ours'
      <4>1. chains' = Ruleset(plan)
        BY <1>2, <3>1 DEF Tabulated
      <4>2. ASSUME NEW h \in Hooks, NEW i \in DOMAIN jumps'[h]
            PROVE  /\ jumps'[h][i].to \in Made(plan)
                   /\ chains'[jumps'[h][i].to] = Ruleset(plan)[jumps'[h][i].to]
                   /\ jumps'[h][i].from \in {Senders}
        BY <3>1, <4>1
      <4>3. backend' = "nft" /\ plan' = plan
        BY <1>2
      <4> QED BY <4>2, <4>3 DEF Ours, Full, Calls
    <3>3. Tabled'
      <4>1. ~(plan.mode = "tproxy" /\ at' > 3)
        BY <1>1, <1>2, <2>2, <2>3, <2>5
      <4> QED BY <1>2, <3>1, <4>1 DEF Tabled
    <3> QED BY <1>3, <2>1, <3>2, <3>3 DEF Faithful, Loyal
  <2>6. CASE cmd \in {Need, Divert}
    <3>1. chains' = chains /\ jumps' = jumps
      BY <1>1, <1>2, <2>3, <2>6, OtherStep
    <3>2. Ours' = Ours /\ Tabulated' = Tabulated
      BY <1>2, <3>1, Same
    <3>3. Loyal'
      BY <1>2, <2>4, <3>2 DEF Faithful, Loyal
    <3>4. cmd = Divert => divert' = TRUE
      BY <1>2, <2>3 DEF Execute
    <3>5. Tabled'
      <4> SUFFICES ASSUME ~stale
                   PROVE  /\ \/ /\ chains = <<>>
                                /\ pending \/ at + 1 <= (IF plan.mode = "tproxy" THEN 2 ELSE 1)
                             \/ Tabulated
                          /\ plan.mode = "tproxy" /\ at + 1 > 3 => divert'
        BY <1>2, <2>4, <3>1, <3>2 DEF Tabled
      <4>1. \/ chains = <<>> /\ (pending \/ at <= (IF plan.mode = "tproxy" THEN 2 ELSE 1))
            \/ Tabulated
        BY <1>4 DEF Faithful, Tabled
      <4>2. plan.mode = "tproxy" /\ (at = 1 \/ (at = 3 /\ divert'))
        BY <2>2, <2>3, <2>6, <3>4
      <4> QED BY <4>1, <4>2
    <3> QED BY <1>3, <2>1, <3>3, <3>5 DEF Faithful
  <2> QED BY <2>2, <2>5, <2>6
<1>5. CASE job \notin Applies
  <2> DEFINE drop == Cmd("drop", <<>>)
  <2>1. jumps' = NoJumps
    <3>1. Program = <<drop, Undivert>>
      BY <1>1, <1>2, <1>5, ProgramOfNft
    <3>2. \/ at = 1 /\ cmd = drop
          \/ at = 2 /\ cmd = Undivert
      <4>1. Len(Program) = 2 /\ Program[1] = drop /\ Program[2] = Undivert
        BY <3>1
      <4>2. at = 1 \/ at = 2
        BY <1>1, <1>2, <4>1
      <4> QED BY <4>1, <4>2, Zenon
    <3> HIDE DEF cmd
    <3>3. CASE at = 1 /\ cmd = drop
      BY <1>2, <3>3 DEF Execute, JumpsAfter, Cmd
    <3>4. CASE at = 2 /\ cmd = Undivert
      <4>1. Undivert.op = "undivert" /\ Execute(Undivert)
        BY <1>2, <3>4 DEF Undivert, Cmd
      <4>2. jumps' = jumps
        BY <1>1, <4>1, OtherStep
      <4>3. jumps = NoJumps
        BY <1>1, <1>2, <1>5, <3>4 DEF Dropping
      <4> QED BY <4>2, <4>3
    <3> QED BY <3>2, <3>3, <3>4
  <2>2. Ours'
    BY <2>1, NoJumpsNext
  <2>3. Loyal' /\ Bare' /\ Tabled'
    BY <1>2, <1>5, <2>1, <2>2 DEF Loyal, Bare, Tabled
  <2> QED BY <1>3, <2>3 DEF Faithful
<1> QED BY <1>4, <1>5

LEMMA FaithfulStep ==
  ASSUME ~TornWipes, Inv, Relics, Faithful, [Next]_vars
  PROVE  Faithful'
<1>1. backend \in {"nft", "ipt"} /\ at \in Nat /\ Sweeps \in Nat
  BY BackendsAssumption, SweepPlaces DEF Inv, Typed
<1>2. ASSUME NEW p \in Plans, Connect(p) PROVE Faithful'
  BY <1>2, FaithfulConnect
<1>3. ASSUME NEW p \in Plans, Reapply(p) PROVE Faithful'
  BY <1>3, FaithfulReapply
<1>4. CASE Disconnect
  BY <1>4, FaithfulDisconnect
<1>5. CASE NextCommand
  BY <1>1, <1>5, FaithfulNft, FaithfulSweep, FaithfulBuild
<1>6. CASE Refuse
  BY <1>6, FaithfulRefuse
<1>7. CASE Done
  BY <1>7, FaithfulDone
<1>8. CASE Wipe
  BY <1>8, FaithfulWipe
<1>9. CASE Kill
  BY <1>9, FaithfulKill
<1>10. CASE Restart
  BY <1>10, FaithfulRestart
<1>11. CASE UNCHANGED vars
  <2>1. /\ UNCHANGED <<backend, plan, job, at, connected, alive, chains, jumps, divert>>
        /\ UNCHANGED <<refused, pending, stale>>
    BY <1>11 DEF vars, kernel, history
  <2>2. Ours' = Ours /\ Hits(Quic)' = Hits(Quic) /\ Tabulated' = Tabulated
        /\ (Whole => Whole')
    BY <2>1, Same
  <2>3. Filling'
    <3> SUFFICES ASSUME backend = "ipt", job \in Applies, at > Sweeps PROVE Filling'
      BY <2>1 DEF Filling
    <3>1. PICK p, s, m : /\ p = plan /\ m = at - Sweeps
                         /\ Laid(Body(p), Made(p), p, s) /\ Filled(s, m, p)
      BY DEF Faithful, Filling
    <3>2. Filled(s, m, p)'
      BY <2>1, <3>1 DEF Filled, OnWay
    <3> QED BY <2>1, <3>1, <3>2 DEF Filling
  <2>4. Final'
    BY <2>1, <2>2 DEF Faithful, Final, Idle, UsesFirewall
  <2> QED BY <2>1, <2>2, <2>3, <2>4 DEF Faithful, Loyal, Accompanied, Bare, Fresh,
             Unwound, Tabled
<1> QED
  BY <1>2, <1>3, <1>4, <1>5, <1>6, <1>7, <1>8, <1>9, <1>10, <1>11, Zenon DEF Next

LEMMA InitFaithful == Init => Faithful
<1> SUFFICES ASSUME Init PROVE Faithful
  OBVIOUS
<1>1. jumps = NoJumps /\ job = "none" /\ ~connected
  BY DEF Init
<1>2. Ours /\ Hits(Quic) = 0
  BY <1>1, NoneOurs, NoHits, ChainsNamed
<1> QED BY <1>1, <1>2 DEF Faithful, Loyal, Accompanied, Bare, Fresh, Unwound, Filling,
                          Tabled, Final, Applies

-----------------------------------------------------------------------------
\* Every packet.

\* The hooks of a packet's side are its own.
LEMMA SideOf ==
  ASSUME plan \in Plans, NEW x \in Packets, NEW c \in Made(plan)
  PROVE  /\ Sent(x) /\ HookOf(c) \in {<<"mangle", "PREROUTING">>, <<"nat", "PREROUTING">>,
                                      <<"filter", "FORWARD">>} => Comes(c, x)
         /\ ~Sent(x) /\ HookOf(c) \in {<<"mangle", "OUTPUT">>, <<"nat", "OUTPUT">>}
              => Comes(c, x)
<1>1. c \in Chains
  BY MadeIs
<1>2. /\ HookOf(c) \in {<<"mangle", "PREROUTING">>, <<"nat", "PREROUTING">>,
                        <<"filter", "FORWARD">>} => ForClients(c)
      /\ HookOf(c) \in {<<"mangle", "OUTPUT">>, <<"nat", "OUTPUT">>} => ~ForClients(c)
  BY <1>1, HooksOf, ChainsApart DEF Chains
<1> QED BY <1>2 DEF Comes

LEMMA SidesSaid ==
  ASSUME plan \in Plans, Kernel, Standing, Ours, NEW x \in Packets
  PROVE  /\ Sent(x) => \A h \in {<<"mangle", "PREROUTING">>, <<"nat", "PREROUTING">>,
                                 <<"filter", "FORWARD">>} :
                         h \in Hooks /\ Says(h, x, Verdict(h, x))
         /\ ~Sent(x) => \A h \in {<<"mangle", "OUTPUT">>, <<"nat", "OUTPUT">>} :
                          h \in Hooks /\ Says(h, x, Verdict(h, x))
<1>1. ASSUME Sent(x), NEW h \in {<<"mangle", "PREROUTING">>, <<"nat", "PREROUTING">>,
                                 <<"filter", "FORWARD">>}
      PROVE  h \in Hooks /\ Says(h, x, Verdict(h, x))
  <2>1. h \in Hooks
    BY HooksNamed
  <2>2. \A c \in Made(plan) : HookOf(c) = h => Comes(c, x)
    BY <1>1, SideOf
  <2> QED BY <2>1, <2>2, SaidAsPlanned
<1>2. ASSUME ~Sent(x), NEW h \in {<<"mangle", "OUTPUT">>, <<"nat", "OUTPUT">>}
      PROVE  h \in Hooks /\ Says(h, x, Verdict(h, x))
  <2>1. h \in Hooks
    BY HooksNamed
  <2>2. \A c \in Made(plan) : HookOf(c) = h => Comes(c, x)
    BY <1>2, SideOf
  <2> QED BY <2>1, <2>2, SaidAsPlanned
<1> QED BY <1>1, <1>2

\* Where everything is in place, a chain with a verdict of its own has its way.
LEMMA WholeHeeds ==
  ASSUME plan \in Plans, Kernel, Standing, Ours, Whole, NEW h \in Hooks, NEW x,
         \A c \in Made(plan) : HookOf(c) = h => Comes(c, x)
  PROVE  Heeds(h, x)
<1> SUFFICES ASSUME NEW c \in Made(plan), HookOf(c) = h, Reached(c, x),
                    Judged(c, plan, x) # "return"
             PROVE  Verdict(h, x) = Judged(c, plan, x)
  BY DEF Heeds
<1> DEFINE T == {i \in 1..Len(jumps[h]) :
                   x.from \in jumps[h][i].from
                   /\ ChainVerdict(jumps[h][i].to, x) # "return"}
<1>1. jumps[h] \in Seq(Jumps) /\ c \in Chains /\ Comes(c, x)
  BY MadeIs DEF Kernel
<1>2. ChainVerdict(c, x) = Judged(c, plan, x)
  BY <1>1, FullVerdict DEF Whole
<1>3. PICK S \in Calls(c) : x.from \in S
  BY <1>1, CallsReached
<1>4. PICK i \in DOMAIN jumps[h] : jumps[h][i] = [from |-> S, to |-> c]
  BY DEF Whole
<1>5. i \in T
  BY <1>1, <1>2, <1>3, <1>4
<1>6. PICK k \in T : Verdict(h, x) = ChainVerdict(jumps[h][k].to, x)
  <2>1. T # {}
    BY <1>5
  <2> QED BY <1>1, <2>1, Chosen
<1>7. jumps[h][k].to = c
  <2>1. k \in DOMAIN jumps[h]
    BY <1>1
  <2>2. jumps[h][k].to \in Made(plan) /\ HookOf(jumps[h][k].to) = h
    BY <2>1 DEF Ours, Standing
  <2> QED BY <2>2, OneChainPerHook
<1> QED BY <1>2, <1>6, <1>7

\* What an inbound does not accept is what was meant for it.
LEMMA AsHanded ==
  ASSUME NEW x \in Packets
  PROVE  /\ Handed(x) \in {Routed(x, FALSE), Promise(x)} =>
              \/ Fate(x) \in {Routed(x, FALSE), Promise(x)}
              \/ Fate(x) = "stray" /\ Misaimed(x)
         /\ Handed(x) = "lost" => Fate(x) = "lost"
         /\ Handed(x) = Promise(x) =>
              Fate(x) = IF Misaimed(x) THEN "stray" ELSE Promise(x)
<1>1. Routed(x, FALSE) \in {"tunnel", "direct"}
  BY DEF Routed
<1> QED BY <1>1 DEF Fate, Misaimed

LEMMA Planned == Inv /\ Faithful => OnlyAsPlanned
<1> SUFFICES ASSUME Inv, Faithful, alive, ~stale, NEW x \in Packets
             PROVE  \/ Handed(x) \in {Routed(x, FALSE), Promise(x)}
                    \/ /\ Handed(x) = "lost" /\ plan.mode = "tproxy"
                       /\ job # "none" \/ refused
  BY AsHanded DEF OnlyAsPlanned
<1>1. /\ plan \in Plans /\ Kernel /\ Standing /\ job \in Jobs /\ InOrder /\ Clean /\ Ours
  BY DEF Inv, Typed, Faithful, Loyal
<1>2. CASE jumps = NoJumps
  BY <1>2, Untouched
<1>3. CASE jumps # NoJumps
  <2>1. UsesFirewall(plan) /\ (job = "none" => connected)
    <3>1. CASE job = "none"
      BY <1>1, <1>3, <3>1 DEF Clean, Empty
    <3>2. CASE job # "none"
      <4>1. job # "clear"
        BY <1>3 DEF Faithful, Bare
      <4> QED BY <1>1, <3>2, <4>1 DEF Jobs, InOrder
    <3> QED BY <3>1, <3>2
  <2>2. plan.mode = "mixed" => TunnelUp
    <3>1. connected \/ job \in {"connect", "disconnect"}
      <4>1. job # "clear"
        BY <1>3 DEF Faithful, Bare
      <4>2. job \in {"reapply", "unwind"} => connected
        BY <1>1 DEF InOrder, Faithful, Unwound
      <4> QED BY <1>1, <2>1, <4>1, <4>2 DEF Jobs
    <3> QED BY <3>1 DEF TunnelUp
  <2>3. \/ Handed(x) \in {Routed(x, FALSE), Promise(x)}
        \/ Handed(x) = "lost" /\ plan.mode = "tproxy" /\ ~divert
    <3>1. /\ Sent(x) => \A h \in {<<"mangle", "PREROUTING">>, <<"nat", "PREROUTING">>,
                                  <<"filter", "FORWARD">>} :
                          h \in Hooks /\ Says(h, x, Verdict(h, x))
          /\ ~Sent(x) => \A h \in {<<"mangle", "OUTPUT">>, <<"nat", "OUTPUT">>} :
                           h \in Hooks /\ Says(h, x, Verdict(h, x))
      BY <1>1, SidesSaid
    <3> QED BY <1>1, <2>1, <2>2, <3>1, OnlyAsSaid
  <2>4. ASSUME plan.mode = "tproxy", ~divert, job = "none", ~refused
        PROVE  FALSE
    <3>1. Whole \/ chains = <<>>
      BY <2>1, <2>4 DEF Faithful, Final, Idle
    <3>2. ~Whole
      BY <2>4 DEF Whole, NeedsTProxy
    <3> QED BY <1>1, <1>3, <3>1, <3>2, NothingLeft
  <2> QED BY <2>3, <2>4
<1> QED BY <1>2, <1>3

LEMMA Captured == Inv /\ Faithful => CapturesAsPlanned
<1> SUFFICES ASSUME Inv, Faithful, Idle, connected, ~pending, ~refused, ~stale,
                    NEW x \in Packets
             PROVE  Handed(x) = Promise(x)
  BY AsHanded DEF CapturesAsPlanned, Settled
<1>1. /\ plan \in Plans /\ Kernel /\ Standing /\ Clean /\ alive /\ job = "none" /\ Ours
  BY DEF Inv, Typed, Faithful, Loyal, Idle
<1>2. plan.mode \in {"mixed", "tun"} => TunnelUp
  BY DEF TunnelUp
<1>3. CASE UsesFirewall(plan)
  <2>1. Whole
    BY <1>3 DEF Faithful, Final
  <2>2. plan.mode = "tproxy" => divert
    BY <2>1 DEF Whole, NeedsTProxy
  <2>3. /\ Sent(x) => \A h \in {<<"mangle", "PREROUTING">>, <<"nat", "PREROUTING">>,
                                <<"filter", "FORWARD">>} :
                        h \in Hooks /\ Says(h, x, Verdict(h, x))
        /\ ~Sent(x) => \A h \in {<<"mangle", "OUTPUT">>, <<"nat", "OUTPUT">>} :
                         h \in Hooks /\ Says(h, x, Verdict(h, x))
    BY <1>1, SidesSaid
  <2>4. ASSUME Sent(x), NEW h \in {<<"mangle", "PREROUTING">>, <<"nat", "PREROUTING">>,
                                   <<"filter", "FORWARD">>}
        PROVE  Heeds(h, x)
    <3>1. \A c \in Made(plan) : HookOf(c) = h => Comes(c, x)
      BY <1>1, <2>4, SideOf
    <3> QED BY <1>1, <2>1, <2>3, <2>4, <3>1, WholeHeeds
  <2>5. ASSUME ~Sent(x), NEW h \in {<<"mangle", "OUTPUT">>, <<"nat", "OUTPUT">>}
        PROVE  Heeds(h, x)
    <3>1. \A c \in Made(plan) : HookOf(c) = h => Comes(c, x)
      BY <1>1, <2>5, SideOf
    <3> QED BY <1>1, <2>1, <2>3, <2>5, <3>1, WholeHeeds
  <2> QED BY <1>1, <1>2, <1>3, <2>2, <2>3, <2>4, <2>5, HeededIsPromise
<1>4. CASE ~UsesFirewall(plan)
  <2>1. Handed(x) = Routed(x, FALSE)
    <3>1. jumps = NoJumps
      BY <1>1, <1>4 DEF Clean, Empty
    <3> QED BY <3>1, Untouched
  <2>2. plan.mode = "tun" /\ ~plan.hijack
    BY <1>4 DEF UsesFirewall, NeedsFirewallCapture
  <2>3. CASE Sent(x) /\ Asked(x)
    <3>1. Promise(x) = "tunnel"
      BY <1>1, <2>2, <2>3, PromiseIs
    <3>2. x.from # "core" /\ x.to # "listed"
      BY <2>3, NamesAssumption DEF Asked, Excused, AllBypass, Sent
    <3>3. Routed(x, FALSE) = "tunnel"
      BY <1>2, <2>2, <3>2 DEF Routed
    <3> QED BY <2>1, <3>1, <3>3
  <2>4. CASE ~(Sent(x) /\ Asked(x))
    BY <1>1, <2>1, <2>2, <2>4, PromiseIs
  <2> QED BY <2>3, <2>4
<1> QED BY <1>3, <1>4

LEMMA FaithfulInvariant == ~TornWipes => (Spec => []Faithful)
<1> SUFFICES ASSUME ~TornWipes PROVE Spec => []Faithful
  OBVIOUS
<1>1. Inv /\ Relics /\ [Next]_vars => Relics'
  BY RelicsStep
<1>2. Inv /\ Relics /\ Faithful /\ [Next]_vars => Faithful'
  BY FaithfulStep
<1> QED BY <1>1, <1>2, InitRelics, InitFaithful, FirewallInvariant, PTL DEF Spec

\* At no point of an application, a revert or a flush does a packet go anywhere
\* but where its mode means it to go or where it would go without the rules:
\* ipt.go's order of commands and nft.go's one table, for every plan, every
\* list of devices and every point at which the kernel may refuse or the daemon
\* be killed.
THEOREM NeverAstray == ~TornWipes => (Spec => []OnlyAsPlanned)
<1> SUFFICES ASSUME ~TornWipes PROVE Spec => []OnlyAsPlanned
  OBVIOUS
<1> QED BY Planned, FaithfulInvariant, FirewallInvariant, PTL

\* A daemon that is connected and at rest captures every packet as its mode
\* promises, with either backend: what Apply's rules decide, walked as the
\* kernel walks them, is what internal/model says of the mode.  There are two
\* exceptions, exactly, both in mode tproxy: hijacked DNS of clients and the
\* router's own TCP come to an inbound that does not accept them.
THEOREM CapturesWhatItPromises == ~TornWipes => (Spec => []CapturesAsPlanned)
<1> SUFFICES ASSUME ~TornWipes PROVE Spec => []CapturesAsPlanned
  OBVIOUS
<1> QED BY Captured, FaithfulInvariant, FirewallInvariant, PTL
=============================================================================
