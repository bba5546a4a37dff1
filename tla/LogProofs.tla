------------------------------ MODULE LogProofs ------------------------------
(***************************************************************************)
(* What the readers of the log, of the journal and of the tally are given, *)
(* and what reaches the system log: for rings of any size, any number of   *)
(* writers and any table of faults.                                        *)
(*                                                                         *)
(* A ring holds the end of what was written to it, wherever its hand is;   *)
(* a run of a fault is the end of its occurrences since the last report;   *)
(* and the next look for the system log is never further off than a minute *)
(* after it came up.                                                       *)
(***************************************************************************)
EXTENDS LogJournal, FiniteSetTheorems, WellFoundedInduction, TLAPS

-----------------------------------------------------------------------------
\* Numbers, and the recursion that skips unused slots.

LEMMA LeastElement ==
  ASSUME NEW T \in SUBSET Nat, T # {}
  PROVE  \E n \in T : \A m \in T : n <= m
<1>1. PICK n \in T : \A m \in T : ~(<<m, n>> \in OpToRel(<, Nat))
  BY WFMin, NatLessThanWellFounded, Zenon
<1>2. \A m \in T : ~(m < n)
  BY <1>1, Zenon DEF OpToRel
<1> QED
  BY <1>2

LEMMA UsedSlots ==
  ASSUME NEW S, NEW s \in Seq(S), NEW unused,
         \A i \in 1..Len(s) : s[i] # unused
  PROVE  Used(s, unused) = s
<1> DEFINE Next(F, i) == IF i = 0 THEN <<>>
                         ELSE IF s[i] = unused THEN F[i - 1]
                              ELSE Append(F[i - 1], s[i])
           Solves(F) == F = [i \in 0..Len(s) |-> Next(F, i)]
           kept == CHOOSE F : Solves(F)
           parts == [i \in 0..Len(s) |-> SubSeq(s, 1, i)]
<1>1. Used(s, unused) = kept[Len(s)]
  BY DEF Used
<1>2. Solves(parts)
  <2>1. \A i \in 0..Len(s) : parts[i] = Next(parts, i)
    OBVIOUS
  <2> QED BY <2>1
<1>3. Solves(kept)
  <2> HIDE DEF Solves, parts
  <2> QED BY <1>2
<1>4. kept[0] = <<>> /\ \A i \in 1..Len(s) : kept[i] = Append(kept[i - 1], s[i])
  <2>1. \A i \in 0..Len(s) : kept[i] = Next(kept, i)
    BY <1>3
  <2> HIDE DEF kept
  <2>2. kept[0] = <<>>
    BY <2>1
  <2>3. ASSUME NEW i \in 1..Len(s) PROVE kept[i] = Append(kept[i - 1], s[i])
    <3>1. i \in 0..Len(s) /\ i # 0 /\ s[i] # unused
      OBVIOUS
    <3>2. kept[i] = Next(kept, i)
      BY <2>1, <3>1
    <3> QED BY <3>1, <3>2
  <2> QED BY <2>2, <2>3
<1> DEFINE Off == {i \in 0..Len(s) : kept[i] # SubSeq(s, 1, i)}
<1> HIDE DEF kept, parts, Solves
<1>5. Off = {}
  <2> SUFFICES ASSUME Off # {} PROVE FALSE
    OBVIOUS
  <2>1. PICK n \in Off : \A m \in Off : n <= m
    <3>1. Off \in SUBSET Nat
      OBVIOUS
    <3> HIDE DEF Off
    <3> QED BY <3>1, LeastElement
  <2>2. n \in 0..Len(s) /\ kept[n] # SubSeq(s, 1, n)
    BY <2>1
  <2>3. n # 0
    <3>1. SubSeq(s, 1, 0) = <<>>
      OBVIOUS
    <3> QED BY <1>4, <2>2, <3>1
  <2>4. n \in 1..Len(s) /\ n - 1 \in 0..Len(s) /\ n - 1 \notin Off
    BY <2>1, <2>2, <2>3
  <2>5. kept[n - 1] = SubSeq(s, 1, n - 1)
    BY <2>4
  <2>6. SubSeq(s, 1, n) = Append(SubSeq(s, 1, n - 1), s[n])
    BY <2>4
  <2> QED BY <1>4, <2>2, <2>4, <2>5, <2>6
<1>6. kept[Len(s)] = SubSeq(s, 1, Len(s))
  BY <1>5
<1> QED
  BY <1>1, <1>6

-----------------------------------------------------------------------------
\* A finite set has an order of rank.

\* W in the order of falling rank.
Ranked(W, rank, s) ==
  /\ s \in [1..Cardinality(W) -> W] /\ IsInjective(s)
  /\ \A i, j \in DOMAIN s : i < j => rank[s[i]] >= rank[s[j]]

\* One more element that ranks no higher than the others goes last.
LEMMA RankLast ==
  ASSUME NEW V, IsFiniteSet(V), NEW rank, \A y \in V : rank[y] \in Nat,
         NEW x \in V, \A y \in V : rank[x] <= rank[y],
         NEW s, Ranked(V \ {x}, rank, s)
  PROVE  \E t : Ranked(V, rank, t)
<1> DEFINE n == Cardinality(V)
           t == [i \in 1..n |-> IF i = n THEN x ELSE s[i]]
<1>1. n \in Nat \ {0} /\ Cardinality(V \ {x}) = n - 1
  BY FS_CardinalityType, FS_EmptySet, FS_RemoveElement
<1> HIDE DEF n
<1>2. s \in [1..(n - 1) -> V \ {x}] /\ DOMAIN s = 1..(n - 1)
  BY <1>1 DEF Ranked
<1>3. /\ \A a, b \in 1..(n - 1) : s[a] = s[b] => a = b
      /\ \A i, j \in 1..(n - 1) : i < j => rank[s[i]] >= rank[s[j]]
  BY <1>2, Zenon DEF Ranked, IsInjective
<1>4. \A i \in 1..n : i = n \/ i \in 1..(n - 1)
  BY <1>1
<1>5. t \in [1..n -> V] /\ DOMAIN t = 1..n
  BY <1>2, <1>4
<1>6. t[n] = x /\ \A i \in 1..(n - 1) : t[i] = s[i] /\ s[i] \in V /\ s[i] # x
  BY <1>1, <1>2
<1> HIDE DEF t
<1>7. \A a, b \in 1..n : t[a] = t[b] => a = b
  BY <1>3, <1>4, <1>6, Zenon
<1>8. \A i, j \in 1..n : i < j => rank[t[i]] >= rank[t[j]]
  <2> SUFFICES ASSUME NEW i \in 1..n, NEW j \in 1..n, i < j
               PROVE  rank[t[i]] >= rank[t[j]]
    OBVIOUS
  <2>1. i \in 1..(n - 1)
    BY <1>1
  <2>2. CASE j = n
    <3>1. rank[x] <= rank[s[i]] /\ rank[x] \in Nat /\ rank[s[i]] \in Nat
      BY <1>6, <2>1
    <3>2. t[i] = s[i] /\ t[j] = x
      BY <1>6, <2>1, <2>2
    <3> QED BY <3>1, <3>2
  <2>3. CASE j # n
    <3>1. j \in 1..(n - 1)
      BY <1>1, <2>3
    <3> QED BY <1>3, <1>6, <2>1, <3>1
  <2> QED BY <2>2, <2>3
<1>9. Ranked(V, rank, t)
  BY <1>5, <1>7, <1>8, Zenon DEF Ranked, IsInjective, n
<1> QED
  BY <1>9

LEMMA Ranking ==
  ASSUME NEW W, IsFiniteSet(W), NEW rank, \A y \in W : rank[y] \in Nat
  PROVE  \E s : Ranked(W, rank, s)
<1> DEFINE Off == {V \in SUBSET W : ~\E s : Ranked(V, rank, s)}
           Sizes == {Cardinality(V) : V \in Off}
<1> SUFFICES ASSUME Off # {} PROVE FALSE
  BY Zenon
<1>1. \A V \in SUBSET W : IsFiniteSet(V) /\ Cardinality(V) \in Nat
  BY FS_Subset, FS_CardinalityType
<1>2. PICK n \in Sizes : \A m \in Sizes : n <= m
  <2>1. Sizes \in SUBSET Nat /\ Sizes # {}
    BY <1>1
  <2> HIDE DEF Sizes, Off
  <2> QED BY <2>1, LeastElement
<1>3. PICK V \in Off : n = Cardinality(V)
  BY Zenon
<1>4. \A U \in Off : Cardinality(V) <= Cardinality(U)
  BY <1>2, <1>3
<1>5. /\ IsFiniteSet(V) /\ V \in SUBSET W
      /\ \A s : ~Ranked(V, rank, s)
      /\ \A y \in V : rank[y] \in Nat
  BY <1>1, <1>3, Zenon
<1>6. V # {}
  <2> SUFFICES ASSUME V = {} PROVE Ranked({}, rank, <<>>)
    BY <1>5
  <2>1. Cardinality({}) = 0 /\ 1..0 = {} /\ DOMAIN <<>> = {} /\ <<>> \in [{} -> {}]
    BY FS_EmptySet
  <2> QED BY <2>1 DEF Ranked, IsInjective
<1>7. PICK x \in V : \A y \in V : rank[x] <= rank[y]
  <2> DEFINE R == {rank[y] : y \in V}
  <2>1. R \in SUBSET Nat /\ R # {}
    BY <1>5, <1>6
  <2>2. PICK r \in R : \A q \in R : r <= q
    <3> HIDE DEF R
    <3> QED BY <2>1, LeastElement
  <2> QED BY <2>2
<1>8. V \ {x} \notin Off
  <2>1. Cardinality(V \ {x}) = Cardinality(V) - 1 /\ Cardinality(V) \in Nat
    BY <1>5, FS_RemoveElement, FS_CardinalityType
  <2> HIDE DEF Off
  <2> QED BY <1>4, <2>1
<1>9. PICK s : Ranked(V \ {x}, rank, s)
  BY <1>5, <1>8, Zenon
<1> HIDE DEF Off, Sizes
<1> QED
  BY <1>5, <1>7, <1>9, RankLast

-----------------------------------------------------------------------------
\* A ring.

Kept(i, wrapped, size) == IF wrapped THEN size ELSE i
Place(i, wrapped, size, k) == IF wrapped THEN (i + k - 1) % size ELSE k - 1

\* The ring holds the end of s, or all of it.
Holds(array, i, wrapped, size, s) ==
  /\ IF wrapped THEN Len(s) >= size ELSE Len(s) = i
  /\ \A k \in 1..Kept(i, wrapped, size) :
       array[Place(i, wrapped, size, k)] = s[Len(s) - Kept(i, wrapped, size) + k]

Ring(array, i, wrapped, size, X) ==
  /\ array \in [0..(size - 1) -> X]
  /\ i \in 0..(size - 1) /\ wrapped \in BOOLEAN

LEMMA Around ==
  ASSUME NEW n \in Nat \ {0}, NEW i \in 0..(n - 1), NEW k \in 1..n
  PROVE  /\ (i + k - 1) % n = IF i + k - 1 < n THEN i + k - 1 ELSE i + k - 1 - n
         /\ (i + 1) % n = IF i + 1 = n THEN 0 ELSE i + 1
  OBVIOUS

LEMMA RingTakes ==
  ASSUME NEW X, NEW size \in Nat \ {0}, NEW array, NEW i, NEW wrapped,
         NEW s \in Seq(X), NEW x \in X, Ring(array, i, wrapped, size, X),
         Holds(array, i, wrapped, size, s)
  PROVE  LET r == RoundRobin(array, i, wrapped, x, size)
         IN /\ Ring(r.array, r.next, r.full, size, X)
            /\ Holds(r.array, r.next, r.full, size, Append(s, x))
<1> DEFINE r == RoundRobin(array, i, wrapped, x, size)
           array2 == r.array
           i2 == r.next
           wrapped2 == r.full
           s2 == Append(s, x)
<1>0. /\ array2 = [array EXCEPT ![i] = x] /\ i2 = (i + 1) % size
      /\ wrapped2 = (wrapped \/ i + 1 = size) /\ s2 = Append(s, x)
  BY DEF RoundRobin
<1> SUFFICES /\ Ring(array2, i2, wrapped2, size, X)
             /\ Holds(array2, i2, wrapped2, size, s2)
  OBVIOUS
<1> HIDE DEF r, array2, i2, wrapped2, s2
<1>1. /\ array \in [0..(size - 1) -> X] /\ i \in 0..(size - 1)
      /\ wrapped \in BOOLEAN
  BY DEF Ring
<1>2. i2 = IF i + 1 = size THEN 0 ELSE i + 1
  <2>1. 1 \in 1..size
    OBVIOUS
  <2> QED BY <1>0, <1>1, <2>1, Around
<1>3. i2 \in 0..(size - 1)
  BY <1>1, <1>2
<1>4. /\ array2[i] = x /\ array2 \in [0..(size - 1) -> X]
      /\ \A j \in 0..(size - 1) : j # i => array2[j] = array[j]
  BY <1>0, <1>1
<1>5. Ring(array2, i2, wrapped2, size, X)
  BY <1>0, <1>1, <1>3, <1>4 DEF Ring
<1>6. /\ Len(s2) = Len(s) + 1 /\ s2[Len(s) + 1] = x
      /\ \A j \in 1..Len(s) : s2[j] = s[j]
      /\ Len(s) \in Nat
  BY <1>0
<1>7. CASE wrapped
  <2>1. /\ Len(s) >= size
        /\ \A k \in 1..size : array[(i + k - 1) % size] = s[Len(s) - size + k]
    BY <1>7 DEF Holds, Kept, Place
  <2>2. ASSUME NEW k \in 1..size
        PROVE  array2[(i2 + k - 1) % size] = s2[Len(s2) - size + k]
    <3>0. (i2 + k - 1) % size = IF i2 + k - 1 < size THEN i2 + k - 1
                                ELSE i2 + k - 1 - size
      BY <1>3, Around
    <3>1. CASE k = size
      <4>1. (i2 + k - 1) % size = i
        BY <1>1, <1>2, <3>0, <3>1
      <4>2. Len(s2) - size + k = Len(s) + 1
        BY <1>6, <3>1
      <4> QED BY <1>4, <1>6, <4>1, <4>2
    <3>2. CASE k # size
      <4>1. k + 1 \in 1..size
        BY <3>2
      <4>2. (i + (k + 1) - 1) % size = IF i + (k + 1) - 1 < size
                                       THEN i + (k + 1) - 1
                                       ELSE i + (k + 1) - 1 - size
        BY <1>1, <4>1, Around
      <4>3. (i2 + k - 1) % size = (i + (k + 1) - 1) % size
        <5>1. CASE i + 1 = size
          BY <1>1, <1>2, <3>0, <3>2, <4>2, <5>1
        <5>2. CASE i + 1 # size
          BY <1>1, <1>2, <3>0, <3>2, <4>2, <5>2
        <5> QED BY <5>1, <5>2
      <4>4. /\ (i + (k + 1) - 1) % size # i
            /\ (i + (k + 1) - 1) % size \in 0..(size - 1)
        BY <1>1, <3>2, <4>1, <4>2
      <4>5. array2[(i2 + k - 1) % size] = s[Len(s) - size + (k + 1)]
        BY <1>4, <2>1, <4>1, <4>3, <4>4
      <4>6. /\ Len(s2) - size + k = Len(s) - size + (k + 1)
            /\ Len(s) - size + (k + 1) \in 1..Len(s)
        BY <1>6, <2>1, <3>2
      <4> QED BY <1>6, <4>5, <4>6
    <3> QED BY <3>1, <3>2
  <2>3. wrapped2 = TRUE
    BY <1>0, <1>7
  <2>4. Len(s2) >= size
    BY <1>6, <2>1
  <2>5. /\ Kept(i2, wrapped2, size) = size
        /\ \A k \in 1..size : Place(i2, wrapped2, size, k) = (i2 + k - 1) % size
    BY <2>3 DEF Kept, Place
  <2>6. Holds(array2, i2, wrapped2, size, s2)
    BY <2>2, <2>3, <2>4, <2>5 DEF Holds
  <2> QED BY <1>5, <2>6
<1>8. CASE ~wrapped
  <2>1. Len(s) = i /\ \A k \in 1..i : array[k - 1] = s[k]
    <3>1. wrapped = FALSE
      BY <1>1, <1>8
    <3>2. Len(s) = i
      BY <3>1 DEF Holds
    <3>3. ASSUME NEW k \in 1..i PROVE array[k - 1] = s[k]
      <4>1. Kept(i, wrapped, size) = i /\ Place(i, wrapped, size, k) = k - 1
        BY <3>1 DEF Kept, Place
      <4>2. array[k - 1] = s[Len(s) - i + k]
        BY <4>1 DEF Holds
      <4> QED BY <1>1, <3>2, <4>2
    <3> QED BY <3>2, <3>3
  <2>2. ASSUME NEW k \in 1..(i + 1) PROVE array2[k - 1] = s2[k]
    <3>1. CASE k = i + 1
      BY <1>1, <1>4, <1>6, <2>1, <3>1
    <3>2. CASE k # i + 1
      <4>1. k \in 1..i /\ k - 1 \in 0..(size - 1) /\ k - 1 # i
        BY <1>1, <3>2
      <4> QED BY <1>4, <1>6, <2>1, <4>1
    <3> QED BY <3>1, <3>2
  <2>3. CASE i + 1 = size
    <3>1. i2 = 0 /\ wrapped2 = TRUE /\ Len(s2) = size
      BY <1>0, <1>2, <1>6, <2>1, <2>3
    <3>2. \A k \in 1..size : (0 + k - 1) % size = k - 1
      <4> TAKE k \in 1..size
      <4>1. 0 \in 0..(size - 1)
        OBVIOUS
      <4>2. (0 + k - 1) % size = IF 0 + k - 1 < size THEN 0 + k - 1
                                 ELSE 0 + k - 1 - size
        BY <4>1, Around
      <4> QED BY <4>2
    <3>3. \A k \in 1..size : array2[k - 1] = s2[k]
      BY <2>2, <2>3
    <3>4. \A k \in 1..size :
            array2[(0 + k - 1) % size] = s2[Len(s2) - size + k]
      BY <3>1, <3>2, <3>3
    <3>5. /\ Kept(i2, wrapped2, size) = size
          /\ \A k \in 1..size : Place(i2, wrapped2, size, k) = (0 + k - 1) % size
      BY <3>1 DEF Kept, Place
    <3>6. Holds(array2, i2, wrapped2, size, s2)
      <4>1. Len(s2) >= size /\ wrapped2
        BY <3>1
      <4>2. \A k \in 1..Kept(i2, wrapped2, size) :
              array2[Place(i2, wrapped2, size, k)]
                = s2[Len(s2) - Kept(i2, wrapped2, size) + k]
        BY <3>4, <3>5
      <4> QED BY <4>1, <4>2 DEF Holds
    <3> QED BY <1>5, <3>6
  <2>4. CASE i + 1 # size
    <3>1. i2 = i + 1 /\ wrapped2 = FALSE /\ Len(s2) = i + 1
      BY <1>0, <1>2, <1>6, <1>8, <2>1, <2>4
    <3>2. /\ Kept(i2, wrapped2, size) = i + 1
          /\ \A k \in 1..(i + 1) : Place(i2, wrapped2, size, k) = k - 1
      BY <3>1 DEF Kept, Place
    <3>3. Holds(array2, i2, wrapped2, size, s2)
      BY <1>1, <2>2, <3>1, <3>2 DEF Holds
    <3> QED BY <1>5, <3>3
  <2> QED BY <2>3, <2>4
<1> QED
  BY <1>1, <1>7, <1>8

\* The newest slot is behind the hand, and can be written over.
LEMMA RingNewest ==
  ASSUME NEW X, NEW size \in Nat \ {0}, NEW array, NEW i, NEW wrapped,
         NEW s \in Seq(X), Ring(array, i, wrapped, size, X),
         Holds(array, i, wrapped, size, s), wrapped \/ i # 0
  PROVE  LET top == (i + size - 1) % size
         IN /\ top \in 0..(size - 1) /\ s # <<>>
            /\ array[top] = s[Len(s)]
            /\ top = Place(i, wrapped, size, Kept(i, wrapped, size))
            /\ \A k \in 1..Kept(i, wrapped, size) :
                 k # Kept(i, wrapped, size) => Place(i, wrapped, size, k) # top
<1> DEFINE top == (i + size - 1) % size
           n == Kept(i, wrapped, size)
<1>1. i \in 0..(size - 1) /\ wrapped \in BOOLEAN
  BY DEF Ring
<1>2. top = IF i = 0 THEN size - 1 ELSE i - 1
  <2>1. size \in 1..size
    OBVIOUS
  <2>2. top = IF i + size - 1 < size THEN i + size - 1 ELSE i + size - 1 - size
    BY <1>1, <2>1, Around
  <2> QED BY <1>1, <2>2
<1>3. n \in 1..size /\ Len(s) >= n /\ Len(s) \in Nat
  BY <1>1 DEF Kept, Holds
<1>4. ASSUME NEW k \in 1..n
      PROVE  Place(i, wrapped, size, k) = top <=> k = n
  <2>1. CASE wrapped
    <3>1. n = size
      BY <2>1 DEF Kept
    <3>2. Place(i, wrapped, size, k)
            = IF i + k - 1 < size THEN i + k - 1 ELSE i + k - 1 - size
      <4>1. Place(i, wrapped, size, k) = (i + k - 1) % size
        BY <2>1 DEF Place
      <4>2. i \in 0..(size - 1) /\ k \in 1..size /\ size \in Nat \ {0}
        BY <1>1, <3>1
      <4> QED BY ONLY <4>1, <4>2, Around
    <3> HIDE DEF top, n
    <3>3. i \in 0..(size - 1) /\ k \in 1..size /\ size \in Nat \ {0}
      BY <1>1, <3>1
    <3> QED BY ONLY <1>2, <3>1, <3>2, <3>3
  <2>2. CASE ~wrapped
    <3>1. n = i /\ Place(i, wrapped, size, k) = k - 1
      BY <2>2 DEF Kept, Place
    <3> HIDE DEF top, n
    <3> QED BY <1>1, <1>2, <1>3, <3>1
  <2> QED BY <2>1, <2>2
<1>5. array[Place(i, wrapped, size, n)] = s[Len(s) - n + n]
  BY <1>3 DEF Holds
<1>6. Len(s) - n + n = Len(s)
  BY <1>3
<1>7. n \in 1..n
  BY <1>3
<1>8. Place(i, wrapped, size, n) = top
  BY <1>4, <1>7
<1>9. array[top] = s[Len(s)]
  BY <1>5, <1>6, <1>8
<1>10. s # <<>> /\ top \in 0..(size - 1)
  BY <1>1, <1>2, <1>3
<1> HIDE DEF top, n
<1> QED
  BY <1>4, <1>8, <1>9, <1>10 DEF top, n

LEMMA RingAmends ==
  ASSUME NEW X, NEW size \in Nat \ {0}, NEW array, NEW i, NEW wrapped,
         NEW s \in Seq(X), Ring(array, i, wrapped, size, X),
         Holds(array, i, wrapped, size, s), wrapped \/ i # 0, NEW x \in X
  PROVE  LET top == (i + size - 1) % size
             array2 == [array EXCEPT ![top] = x]
             s2 == [s EXCEPT ![Len(s)] = x]
         IN /\ Ring(array2, i, wrapped, size, X) /\ s2 \in Seq(X)
            /\ Holds(array2, i, wrapped, size, s2)
<1> DEFINE top == (i + size - 1) % size
           n == Kept(i, wrapped, size)
           array2 == [array EXCEPT ![top] = x]
           s2 == [s EXCEPT ![Len(s)] = x]
<1>1. /\ array \in [0..(size - 1) -> X] /\ i \in 0..(size - 1)
      /\ wrapped \in BOOLEAN
  BY DEF Ring
<1>2. /\ top \in 0..(size - 1) /\ s # <<>>
      /\ top = Place(i, wrapped, size, n)
      /\ \A k \in 1..n : k # n => Place(i, wrapped, size, k) # top
  BY RingNewest
<1>3. s2 \in Seq(X) /\ Len(s2) = Len(s) /\ s2[Len(s)] = x
      /\ \A j \in 1..Len(s) : j # Len(s) => s2[j] = s[j]
  BY <1>2
<1>4. /\ array2 \in [0..(size - 1) -> X] /\ array2[top] = x
      /\ \A j \in 0..(size - 1) : j # top => array2[j] = array[j]
  <2> HIDE DEF top
  <2> QED BY <1>1, <1>2
<1>5. n \in 0..size /\ Len(s) >= n /\ Len(s) \in Nat
      /\ (IF wrapped THEN Len(s) >= size ELSE Len(s) = i)
  BY <1>1 DEF Kept, Holds
<1>6. ASSUME NEW k \in 1..n
      PROVE  array2[Place(i, wrapped, size, k)] = s2[Len(s2) - n + k]
  <2>1. Place(i, wrapped, size, k) \in 0..(size - 1)
    <3>1. CASE wrapped
      BY <1>1, <1>5, <3>1, Around DEF Place, Kept
    <3>2. CASE ~wrapped
      BY <1>1, <1>5, <3>2 DEF Place, Kept
    <3> QED BY <3>1, <3>2
  <2>2. array[Place(i, wrapped, size, k)] = s[Len(s) - n + k]
    BY DEF Holds
  <2> HIDE DEF top, n, array2, s2
  <2>3. CASE k = n
    <3>1. Len(s2) - n + k = Len(s)
      BY <1>3, <1>5, <2>3
    <3> QED BY <1>2, <1>3, <1>4, <2>3, <3>1
  <2>4. CASE k # n
    <3>1. Len(s) - n + k \in 1..Len(s) /\ Len(s) - n + k # Len(s)
      BY <1>5, <2>4
    <3> QED BY <1>2, <1>3, <1>4, <2>1, <2>2, <2>4, <3>1
  <2> QED BY <2>3, <2>4
<1>7. Ring(array2, i, wrapped, size, X)
  <2> HIDE DEF array2
  <2> QED BY <1>1, <1>4 DEF Ring
<1>8. Holds(array2, i, wrapped, size, s2)
  <2> HIDE DEF array2, s2
  <2> QED BY <1>3, <1>5, <1>6 DEF Holds
<1> QED
  BY <1>3, <1>7, <1>8

\* The reader is given the end of what the ring holds.
LEMMA RingRead ==
  ASSUME NEW X, NEW unused, NEW size \in Nat \ {0}, NEW array, NEW i,
         NEW wrapped, NEW s \in Seq(X), unused \notin X,
         Ring(array, i, wrapped, size, X \cup {unused}),
         Holds(array, i, wrapped, size, s)
  PROVE  InOrder(array, i, wrapped, size, unused) = Newest(s, size)
<1> DEFINE n == Kept(i, wrapped, size)
           slots == [k \in 1..n |-> array[Place(i, wrapped, size, k)]]
           end == SubSeq(s, IF Len(s) > size THEN Len(s) - size + 1 ELSE 1, Len(s))
<1>1. InOrder(array, i, wrapped, size, unused) = Used(slots, unused)
  BY DEF InOrder, Kept, Place
<1>2. n \in Nat /\ n <= Len(s) /\ Len(s) \in Nat
      /\ (Len(s) > size => n = size)
      /\ (Len(s) <= size => n = Len(s))
  BY DEF Holds, Kept, Ring
<1>3. \A k \in 1..n : slots[k] = s[Len(s) - n + k] /\ slots[k] \in X
  BY <1>2 DEF Holds
<1>4. slots \in Seq(X) /\ Len(slots) = n
  BY <1>2, <1>3
<1>5. Used(slots, unused) = slots
  BY <1>3, <1>4, UsedSlots
<1>6. /\ end \in Seq(X) /\ Len(end) = n
      /\ \A k \in 1..n : end[k] = s[Len(s) - n + k]
  BY <1>2
<1>7. slots = end
  <2> HIDE DEF slots, end
  <2> QED BY <1>3, <1>4, <1>6
<1> QED
  BY <1>1, <1>5, <1>7 DEF Newest

\* An empty ring holds nothing.
LEMMA RingEmpty ==
  ASSUME NEW X, NEW size \in Nat \ {0}, NEW x \in X
  PROVE  /\ Ring([i \in 0..(size - 1) |-> x], 0, FALSE, size, X)
         /\ Holds([i \in 0..(size - 1) |-> x], 0, FALSE, size, <<>>)
  BY DEF Ring, Holds, Kept

-----------------------------------------------------------------------------
\* What the steps keep.

Text == Messages \cup Keys \cup {"hint", "clear"}
Lines == [level : {Levels[i] : i \in DOMAIN Levels}, text : Text]
Failure == [text : Messages, repeats : Nat]

TodoOK == todo \in [Writers -> Seq(Lines \cup {Line("none", "clear")})]

RingInv ==
  /\ Ring(entries, next, full, RingSize, Lines \cup {NoEntry})
  /\ stream \in Seq(Lines)
  /\ Holds(entries, next, full, RingSize, stream)

JournalInv ==
  /\ Ring(errors, errNext, errFull, JournalSize, Failure \cup {NoError})
  /\ filed \in Seq(Failure)
  /\ Holds(errors, errNext, errFull, JournalSize, filed)
  /\ lastError \in Messages \cup {NoBanner}
  /\ lastError # NoBanner => filed # <<>> /\ lastError = filed[Len(filed)].text

\* The next look is a minute away at most, and of a minute that began before
\* the system log came up.
SinkInv ==
  /\ now \in Nat /\ nextTry \in Nat
  /\ logd \in [up : BOOLEAN, since : Nat]
  /\ logd.since <= now /\ nextTry <= now + RetryAfter
  /\ logd.up => nextTry <= logd.since + RetryAfter

Item == [count : Nat, recent : Seq(Nat), bursts : Nat]

\* The occurrence that was reported last: the run began after it.
LastReport(k) == IF reported[k] = <<>> THEN 0 ELSE reported[k][Len(reported[k])]

TallyTypeOK ==
  /\ now \in Nat
  /\ DOMAIN items \in SUBSET Keys /\ IsFiniteSet(DOMAIN items)
  /\ items \in [DOMAIN items -> Item]
  /\ seen \in [Keys -> Seq(Nat)] /\ reported \in [Keys -> Seq(Nat)]

\* What the tally keeps of a fault is the end of what was seen of it.
Runs(k) ==
  LET n == Len(seen[k])
      b == LastReport(k)
      m == IF n - b > BurstSize THEN BurstSize ELSE n - b
  IN /\ b <= n /\ \A j \in DOMAIN reported[k] : reported[k][j] <= b
     /\ IF k \in DOMAIN items
        THEN /\ Len(items[k].recent) = m
             /\ \A j \in 1..m : items[k].recent[j] = seen[k][n - m + j]
             /\ items[k].bursts = Len(reported[k])
        ELSE n = 0 /\ reported[k] = <<>>

News(k) ==
  LET s == seen[k]
      starts == {0} \cup Times(reported[k])
  IN \A i \in DOMAIN s :
       i \in Times(reported[k]) <=>
         /\ i >= BurstSize
         /\ \A b \in starts : b < i => b <= i - BurstSize
         /\ s[i] - s[i - BurstSize + 1] <= BurstWindow

TallyInv == TallyTypeOK /\ \A k \in Keys : Runs(k) /\ News(k)

IInv == TodoOK /\ RingInv /\ JournalInv /\ SinkInv /\ TallyInv

-----------------------------------------------------------------------------
\* What is still to be written.

LEMMA TextsAreLines ==
  /\ \A m \in Messages, n \in {"error", "warning"} : Line(n, m) \in Lines
  /\ Line("warning", "hint") \in Lines
  /\ \A l \in CoreLines : Line(l.level, l.key) \in Lines
  /\ \A x \in Lines : x.level # "none" /\ x # NoEntry
<1>1. {Levels[i] : i \in DOMAIN Levels} = {"debug", "info", "warning", "error"}
  BY DEF Levels
<1>2. \A l \in CoreLines : l.key \in Text
  BY DEF Text, Keys
<1>3. "hint" \in Text /\ \A m \in Messages : m \in Text
  BY DEF Text
<1> DEFINE Named == {Levels[i] : i \in DOMAIN Levels}
<1>4. Lines = [level : Named, text : Text]
      /\ \A l \in CoreLines : l.level \in Named
  BY LinesAssumption DEF Lines
<1>5. Named = {"debug", "info", "warning", "error"}
  BY <1>1
<1> HIDE DEF Named
<1> QED
  BY <1>2, <1>3, <1>4, <1>5 DEF Line, NoEntry

LEMMA TodoStep == TodoOK /\ [LogNext]_logVars => TodoOK'
<1> SUFFICES ASSUME TodoOK, [LogNext]_logVars PROVE TodoOK'
  OBVIOUS
<1> DEFINE L == Lines \cup {Line("none", "clear")}
<1> USE DEF TodoOK, Do, L
<1>1. CASE UNCHANGED logVars
  BY <1>1 DEF logVars
<1>2. CASE LogdTurns \/ Tick
  BY <1>2 DEF LogdTurns, Tick
<1>3. ASSUME NEW w \in Writers, NEW m \in Messages, Fail(w, m) PROVE TodoOK'
  <2>1. /\ Line("warning", m) \in L /\ Line("error", m) \in L
        /\ Line("warning", "hint") \in L
    BY TextsAreLines
  <2>2. \E q \in {<<>>, <<Line("warning", m)>>,
                  <<Line("error", m), Line("warning", "hint")>>} : Do(w, q)
    BY <1>3, Zenon DEF Fail
  <2> HIDE DEF L
  <2>3. <<>> \in Seq(L) /\ <<Line("warning", m)>> \in Seq(L)
        /\ <<Line("error", m), Line("warning", "hint")>> \in Seq(L)
    BY <2>1
  <2> QED BY <2>2, <2>3 DEF L
<1>4. ASSUME NEW w \in Writers, NEW l \in CoreLines, AddProcessLine(w, l)
      PROVE  TodoOK'
  <2>1. Line(l.level, l.key) \in L
    BY TextsAreLines
  <2>2. \E q \in {<<>>, <<Line(l.level, l.key)>>} : Do(w, q)
    BY <1>4, Zenon DEF AddProcessLine
  <2> HIDE DEF L
  <2>3. <<>> \in Seq(L) /\ <<Line(l.level, l.key)>> \in Seq(L)
    BY <2>1
  <2> QED BY <2>2, <2>3 DEF L
<1>5. ASSUME NEW w \in Writers,
             ClearJournal(w) \/ ClearLastError(w) \/ ResetFaults(w)
      PROVE  TodoOK'
  BY <1>5 DEF ClearJournal, ClearLastError, ResetFaults
<1>6. ASSUME NEW w \in Writers, Clear(w) \/ ClearEntries(w) PROVE TodoOK'
  <2>1. <<>> \in Seq(L) /\ <<Line("none", "clear")>> \in Seq(L)
    OBVIOUS
  <2> HIDE DEF L
  <2>2. Do(w, <<Line("none", "clear")>>) \/ Do(w, <<>>)
    BY <1>6 DEF Clear, ClearEntries
  <2> QED BY <2>1, <2>2 DEF L
<1>7. ASSUME NEW w \in Writers, Write(w) PROVE TodoOK'
  <2> HIDE DEF L
  <2>1. todo[w] \in Seq(L) /\ todo[w] # <<>> /\ Do(w, Tail(todo[w]))
    BY <1>7 DEF Write, L
  <2>2. Tail(todo[w]) \in Seq(L)
    BY <2>1
  <2> QED BY <2>1, <2>2 DEF L
<1> QED
  BY <1>1, <1>2, <1>3, <1>4, <1>5, <1>6, <1>7 DEF LogNext

\* A line that is due has a level, and is written as it is.
LEMMA WriteLine ==
  ASSUME TodoOK, NEW w \in Writers, Write(w)
  PROVE  Head(todo[w]) \in Lines
<1> DEFINE L == Lines \cup {Line("none", "clear")}
<1>1. todo[w] \in Seq(L)
  BY DEF TodoOK
<1>2. todo[w] # <<>> /\ Head(todo[w]).level # "none"
  BY DEF Write
<1>3. Head(todo[w]) \in L
  <2> HIDE DEF L
  <2> QED BY <1>1, <1>2
<1>4. Line("none", "clear").level = "none"
  BY DEF Line
<1> QED
  BY <1>2, <1>3, <1>4

-----------------------------------------------------------------------------
\* The ring of lines.

LEMMA RingStep == TodoOK /\ RingInv /\ [LogNext]_logVars => RingInv'
<1> SUFFICES ASSUME TodoOK, RingInv, [LogNext]_logVars PROVE RingInv'
  OBVIOUS
<1> DEFINE X == Lines \cup {NoEntry}
<1>1. CASE UNCHANGED <<ringVars, stream>>
  BY <1>1 DEF RingInv, ringVars
<1>2. ASSUME NEW w \in Writers, Write(w) PROVE RingInv'
  <2> DEFINE line == Head(todo[w])
             r == RoundRobin(entries, next, full, line, RingSize)
  <2>1. line \in Lines
    BY <1>2, WriteLine
  <2>2. /\ entries' = r.array /\ next' = r.next /\ full' = r.full
        /\ stream' = Append(stream, line)
    BY <1>2 DEF Write, Emit
  <2> HIDE DEF line
  <2>3. stream \in Seq(X) /\ line \in X /\ stream' \in Seq(Lines)
    BY <2>1, <2>2 DEF RingInv
  <2>4. Ring(entries, next, full, RingSize, X)
        /\ Holds(entries, next, full, RingSize, stream)
    BY DEF RingInv
  <2> HIDE DEF X
  <2>5. Ring(entries', next', full', RingSize, X)
        /\ Holds(entries', next', full', RingSize, stream')
    <3>1. RingSize \in Nat \ {0}
      BY SizesAssumption
    <3>2. Ring(r.array, r.next, r.full, RingSize, X)
          /\ Holds(r.array, r.next, r.full, RingSize, Append(stream, line))
      BY <2>3, <2>4, <3>1, RingTakes
    <3> QED BY <2>2, <3>2, Zenon
  <2> QED BY <2>3, <2>5 DEF RingInv, X
<1>3. ASSUME NEW w \in Writers, ClearEntries(w) PROVE RingInv'
  <2>1. /\ entries' = [i \in 0..(RingSize - 1) |-> NoEntry]
        /\ next' = 0 /\ full' = FALSE /\ stream' = <<>>
    BY <1>3 DEF ClearEntries
  <2>2. NoEntry \in X /\ RingSize \in Nat \ {0} /\ <<>> \in Seq(Lines)
    BY SizesAssumption
  <2> HIDE DEF X
  <2>3. Ring(entries', next', full', RingSize, X)
        /\ Holds(entries', next', full', RingSize, stream')
    BY <2>1, <2>2, RingEmpty
  <2> QED BY <2>1, <2>3 DEF RingInv, X
<1>4. ASSUME NEW w \in Writers, NEW m \in Messages, Fail(w, m)
      PROVE  UNCHANGED <<ringVars, stream>>
  BY <1>4 DEF Fail
<1>5. ASSUME NEW w \in Writers, NEW l \in CoreLines, AddProcessLine(w, l)
      PROVE  UNCHANGED <<ringVars, stream>>
  BY <1>5 DEF AddProcessLine
<1>6. ASSUME NEW w \in Writers, \/ ClearJournal(w) \/ Clear(w)
                                \/ ClearLastError(w) \/ ResetFaults(w)
      PROVE  UNCHANGED <<ringVars, stream>>
  BY <1>6 DEF ClearJournal, Clear, ClearLastError, ResetFaults, told
<1>7. CASE LogdTurns \/ Tick \/ UNCHANGED logVars
  BY <1>1, <1>7 DEF LogdTurns, Tick, logVars, told
<1> QED
  BY <1>1, <1>2, <1>3, <1>4, <1>5, <1>6, <1>7 DEF LogNext

-----------------------------------------------------------------------------
\* The journal and the banner.

LEMMA JournalStep == JournalInv /\ [LogNext]_logVars => JournalInv'
<1> SUFFICES ASSUME JournalInv, [LogNext]_logVars PROVE JournalInv'
  OBVIOUS
<1> DEFINE X == Failure \cup {NoError}
<1>1. CASE UNCHANGED <<journalVars, filed>>
  BY <1>1 DEF JournalInv, journalVars
<1>2. ASSUME NEW w \in Writers, NEW m \in Messages, Fail(w, m)
      PROVE  JournalInv'
  <2> DEFINE i == NewestError
             new == [text |-> m, repeats |-> 0]
             again == i # JournalSize /\ errors[i].text = m
             r == RoundRobin(errors, errNext, errFull, new, JournalSize)
  <2>1. /\ Ring(errors, errNext, errFull, JournalSize, X)
        /\ Holds(errors, errNext, errFull, JournalSize, filed)
        /\ filed \in Seq(Failure) /\ filed \in Seq(X)
        /\ JournalSize \in Nat \ {0}
    BY SizesAssumption DEF JournalInv
  <2>2. lastError' = m /\ m # NoBanner /\ m \in Messages
    BY <1>2, LinesAssumption DEF Fail, NoBanner
  <2>3. CASE again
    <3>1. /\ errors' = [errors EXCEPT ![i].repeats = @ + 1]
          /\ errNext' = errNext /\ errFull' = errFull
          /\ filed' = [filed EXCEPT ![Len(filed)].repeats = @ + 1]
      BY <1>2, <2>3 DEF Fail
    <3>2. /\ i = (errNext + JournalSize - 1) % JournalSize
          /\ errFull \/ errNext # 0
      <4>1. i # JournalSize
        BY <2>3
      <4> QED BY <4>1, Zenon DEF NewestError
    <3> DEFINE y == [errors[i] EXCEPT !.repeats = @ + 1]
    <3> HIDE DEF X, i
    <3>3. /\ i \in 0..(JournalSize - 1) /\ filed # <<>>
          /\ errors[i] = filed[Len(filed)]
      BY <2>1, <3>2, RingNewest
    <3>4. errors[i] \in Failure /\ errors[i].text = m
      BY <2>1, <2>3, <3>3
    <3>5. y \in Failure /\ y.text = m
      BY <3>4 DEF Failure
    <3>6. errors' = [errors EXCEPT ![i] = y]
          /\ filed' = [filed EXCEPT ![Len(filed)] = y]
      BY <3>1, <3>3
    <3> HIDE DEF y
    <3>7. y \in X
      BY <3>5 DEF X
    <3>8. /\ Ring(errors', errNext, errFull, JournalSize, X)
          /\ Holds(errors', errNext, errFull, JournalSize, filed')
      BY <2>1, <3>2, <3>6, <3>7, RingAmends
    <3>9. /\ filed' \in Seq(Failure) /\ filed' # <<>>
          /\ filed'[Len(filed')].text = m
      BY <2>1, <3>3, <3>5, <3>6
    <3> QED BY <2>2, <3>1, <3>8, <3>9 DEF JournalInv, X
  <2>4. CASE ~again
    <3>1. /\ errors' = r.array /\ errNext' = r.next /\ errFull' = r.full
          /\ filed' = Append(filed, new)
      BY <1>2, <2>4, Zenon DEF Fail
    <3>2. new \in Failure /\ new \in X /\ new.text = m
      BY DEF Failure
    <3> HIDE DEF X, new
    <3>3. Ring(r.array, r.next, r.full, JournalSize, X)
          /\ Holds(r.array, r.next, r.full, JournalSize, Append(filed, new))
      BY <2>1, <3>2, RingTakes
    <3>4. Ring(errors', errNext', errFull', JournalSize, X)
          /\ Holds(errors', errNext', errFull', JournalSize, filed')
      BY <3>1, <3>3, Zenon
    <3>5. /\ filed' \in Seq(Failure) /\ filed' # <<>>
          /\ filed'[Len(filed')].text = m
      BY <2>1, <3>1, <3>2
    <3> QED BY <2>2, <3>4, <3>5 DEF JournalInv, X
  <2> QED BY <2>3, <2>4
<1>3. ASSUME ClearErrors PROVE JournalInv'
  <2>1. /\ errors' = [j \in 0..(JournalSize - 1) |-> NoError]
        /\ errNext' = 0 /\ errFull' = FALSE /\ filed' = <<>>
        /\ lastError' = NoBanner
    BY <1>3 DEF ClearErrors
  <2>2. NoError \in X /\ JournalSize \in Nat \ {0} /\ <<>> \in Seq(Failure)
    BY SizesAssumption
  <2> HIDE DEF X
  <2>3. Ring(errors', errNext', errFull', JournalSize, X)
        /\ Holds(errors', errNext', errFull', JournalSize, filed')
    BY <2>1, <2>2, RingEmpty
  <2> QED BY <2>1, <2>2, <2>3 DEF JournalInv, X
<1>4. ASSUME NEW w \in Writers, ClearLastError(w) PROVE JournalInv'
  BY <1>4 DEF ClearLastError, JournalInv, told
<1>5. ASSUME NEW w \in Writers, ClearJournal(w) \/ Clear(w) PROVE ClearErrors
  BY <1>5 DEF ClearJournal, Clear
<1>6. ASSUME NEW w \in Writers, NEW l \in CoreLines, AddProcessLine(w, l)
      PROVE  UNCHANGED <<journalVars, filed>>
  BY <1>6 DEF AddProcessLine
<1>7. ASSUME NEW w \in Writers, ClearEntries(w) \/ ResetFaults(w) \/ Write(w)
      PROVE  UNCHANGED <<journalVars, filed>>
  BY <1>7 DEF ClearEntries, ResetFaults, Write
<1>8. CASE LogdTurns \/ Tick \/ UNCHANGED logVars
  BY <1>1, <1>8 DEF LogdTurns, Tick, logVars, told
<1> QED
  BY <1>1, <1>2, <1>3, <1>4, <1>5, <1>6, <1>7, <1>8 DEF LogNext

-----------------------------------------------------------------------------
\* The mirror.

LEMMA SinkStep == SinkInv /\ [LogNext]_logVars => SinkInv'
<1> SUFFICES ASSUME SinkInv, [LogNext]_logVars PROVE SinkInv'
  OBVIOUS
<1> USE SizesAssumption DEF SinkInv
<1>1. CASE UNCHANGED <<sinkVars, logd, now>>
  BY <1>1 DEF sinkVars
<1>2. ASSUME NEW w \in Writers, Write(w) PROVE SinkInv'
  <2>1. UNCHANGED <<logd, now>>
        /\ \/ nextTry' = nextTry
           \/ ~logd.up /\ nextTry' = now + RetryAfter
    BY <1>2 DEF Write, Emit, SinkWrite, sinkVars
  <2> QED BY <2>1
<1>3. CASE LogdTurns
  BY <1>3 DEF LogdTurns
<1>4. CASE Tick
  BY <1>4 DEF Tick, sinkVars
<1>5. ASSUME NEW w \in Writers, NEW m \in Messages, Fail(w, m)
      PROVE  UNCHANGED <<sinkVars, logd, now>>
  BY <1>5 DEF Fail
<1>6. ASSUME NEW w \in Writers, NEW l \in CoreLines, AddProcessLine(w, l)
      PROVE  UNCHANGED <<sinkVars, logd, now>>
  BY <1>6 DEF AddProcessLine
<1>7. ASSUME NEW w \in Writers,
             \/ ClearJournal(w) \/ Clear(w) \/ ClearEntries(w)
             \/ ClearLastError(w) \/ ResetFaults(w)
      PROVE  UNCHANGED <<sinkVars, logd, now>>
  BY <1>7 DEF ClearJournal, Clear, ClearEntries, ClearLastError, ResetFaults
<1>8. CASE UNCHANGED logVars
  BY <1>1, <1>8 DEF logVars
<1> QED
  BY <1>1, <1>2, <1>3, <1>4, <1>5, <1>6, <1>7, <1>8 DEF LogNext

-----------------------------------------------------------------------------
\* The tally.

\* One more occurrence, of a fault the table has a row for: the run is what was
\* kept of it and this one.
LEMMA RunGrows ==
  ASSUME TallyTypeOK, NEW k \in Keys, Runs(k),
         NEW item \in Item,
         item = IF k \in DOMAIN items THEN items[k] ELSE NoItem
  PROVE  LET n == Len(seen[k]) + 1
             b == LastReport(k)
             m == IF n - b > BurstSize THEN BurstSize ELSE n - b
             recent == Newest(Append(item.recent, now), BurstSize)
             s == Append(seen[k], now)
         IN /\ recent \in Seq(Nat) /\ Len(recent) = m
            /\ \A j \in 1..m : recent[j] = s[n - m + j]
<1> DEFINE n == Len(seen[k]) + 1
           b == LastReport(k)
           m == IF n - b > BurstSize THEN BurstSize ELSE n - b
           old == Append(item.recent, now)
           recent == Newest(old, BurstSize)
           s == Append(seen[k], now)
           m0 == IF (n - 1) - b > BurstSize THEN BurstSize ELSE (n - 1) - b
<1>1. /\ now \in Nat /\ seen[k] \in Seq(Nat) /\ reported[k] \in Seq(Nat)
      /\ BurstSize \in Nat \ {0}
  BY SizesAssumption DEF TallyTypeOK
<1>2. b \in Nat /\ b <= n - 1 /\ n \in Nat \ {0}
  BY <1>1 DEF Runs, LastReport
<1>3. item.recent \in Seq(Nat) /\ Len(item.recent) = m0
      /\ \A j \in 1..m0 : item.recent[j] = seen[k][(n - 1) - m0 + j]
  <2>1. CASE k \in DOMAIN items
    BY <1>1, <1>2, <2>1 DEF Runs, Item
  <2>2. CASE k \notin DOMAIN items
    <3>1. n - 1 = 0 /\ b = 0 /\ item.recent = <<>>
      BY <1>1, <1>2, <2>2 DEF Runs, NoItem
    <3>2. m0 = 0
      BY <1>1, <3>1
    <3>3. item.recent \in Seq(Nat) /\ Len(item.recent) = 0
      <4>1. item.recent \in Seq(Nat)
        BY DEF Item
      <4>2. Len(<<>>) = 0
        OBVIOUS
      <4> QED BY <3>1, <4>1, <4>2
    <3> HIDE DEF m0, n
    <3> QED BY <3>2, <3>3
  <2> QED BY <2>1, <2>2
<1> HIDE DEF b
<1>4. m0 \in Nat /\ m0 <= n - 1
  BY <1>1, <1>2
<1>8. m \in Nat /\ m = IF m0 + 1 > BurstSize THEN BurstSize ELSE m0 + 1
  BY <1>1, <1>2
<1> DEFINE kept == item.recent
<1> HIDE DEF m0, kept
<1>5. /\ old \in Seq(Nat) /\ Len(old) = m0 + 1 /\ old[m0 + 1] = now
      /\ \A j \in 1..m0 : old[j] = seen[k][(n - 1) - m0 + j]
  <2>1. old = Append(kept, now) /\ kept \in Seq(Nat) /\ Len(kept) = m0
        /\ \A j \in 1..m0 : kept[j] = seen[k][(n - 1) - m0 + j]
    BY <1>3 DEF kept
  <2> HIDE DEF old, n
  <2> QED BY <1>1, <1>4, <2>1
<1>6. /\ s \in Seq(Nat) /\ Len(s) = n /\ s[n] = now
      /\ \A j \in 1..(n - 1) : s[j] = seen[k][j]
  BY <1>1
<1> HIDE DEF old, s
<1>7. \A j \in 1..(m0 + 1) : old[j] = s[(n - 1) - m0 + j]
  <2> TAKE j \in 1..(m0 + 1)
  <2>1. CASE j = m0 + 1
    <3>1. (n - 1) - m0 + j = n
      <4> HIDE DEF n
      <4> QED BY <1>2, <1>4, <2>1
    <3> QED BY <1>5, <1>6, <2>1, <3>1
  <2>2. CASE j # m0 + 1
    <3>1. j \in 1..m0 /\ (n - 1) - m0 + j \in 1..(n - 1)
      BY <1>2, <1>4, <2>2
    <3> QED BY <1>5, <1>6, <3>1
  <2> QED BY <2>1, <2>2
<1> HIDE DEF n
<1>9. /\ recent \in Seq(Nat) /\ Len(recent) = m
      /\ \A j \in 1..m : recent[j] = old[(m0 + 1) - m + j]
  <2> HIDE DEF m
  <2>1. recent = SubSeq(old, (m0 + 1) - m + 1, m0 + 1)
    <3>1. Len(old) = m0 + 1
      BY <1>5
    <3>2. (m0 + 1) - m + 1
            = IF m0 + 1 > BurstSize THEN m0 + 1 - BurstSize + 1 ELSE 1
      BY <1>1, <1>4, <1>8
    <3> DEFINE start == IF Len(old) > BurstSize THEN Len(old) - BurstSize + 1
                        ELSE 1
    <3>3. recent = SubSeq(old, start, Len(old))
      BY DEF Newest
    <3>4. start = (m0 + 1) - m + 1
      <4>1. CASE m0 + 1 > BurstSize
        <5>1. start = (m0 + 1) - BurstSize + 1
          BY <3>1, <4>1, Zenon
        <5>2. m = BurstSize
          BY <1>8, <4>1, Zenon
        <5> QED BY <5>1, <5>2, Zenon
      <4>2. CASE ~(m0 + 1 > BurstSize)
        BY <3>1, <3>2, <4>2, Zenon
      <4> QED BY <4>1, <4>2
    <3> HIDE DEF old, recent, start
    <3> QED BY <3>1, <3>3, <3>4
  <2>2. /\ (m0 + 1) - m + 1 \in 1..(m0 + 2)
        /\ (m0 + 1) - ((m0 + 1) - m + 1) + 1 = m
        /\ m <= m0 + 1
    BY <1>1, <1>4, <1>8
  <2> DEFINE first == (m0 + 1) - m + 1
  <2>3. recent \in Seq(Nat) /\ Len(recent) = m
    BY <1>4, <1>5, <1>8, <2>1, <2>2
  <2>4. ASSUME NEW j \in 1..m PROVE recent[j] = old[(m0 + 1) - m + j]
    <3>1. recent[j] = old[first + j - 1]
      BY <1>4, <1>5, <1>8, <2>1, <2>2
    <3>2. first + j - 1 = (m0 + 1) - m + j
      BY <1>4, <1>8
    <3> QED BY <3>1, <3>2
  <2> QED BY <2>3, <2>4
<1> HIDE DEF m, recent
<1>10. ASSUME NEW j \in 1..m PROVE recent[j] = s[n - m + j]
  <2>1. (m0 + 1) - m + j \in 1..(m0 + 1)
        /\ (n - 1) - m0 + ((m0 + 1) - m + j) = n - m + j
    BY <1>1, <1>2, <1>4, <1>8
  <2> QED BY <1>7, <1>9, <2>1
<1> QED
  BY <1>9, <1>10 DEF n, b, m, recent, s, old

LEMMA TallyGrows ==
  ASSUME TallyInv, NEW w \in Writers, NEW l \in CoreLines,
         AddProcessLine(w, l), Counted(l), Tracked(l)
  PROVE  TallyInv'
<1> DEFINE k == l.key
           item == IF k \in DOMAIN items THEN items[k] ELSE NoItem
           n == Len(seen[k]) + 1
           b == LastReport(k)
           m == IF n - b > BurstSize THEN BurstSize ELSE n - b
           recent == Newest(Append(item.recent, now), BurstSize)
           s == Append(seen[k], now)
           burst == m = BurstSize /\ now - recent[1] <= BurstWindow
<1>0. k \in Keys /\ TallyTypeOK /\ Runs(k) /\ News(k)
  BY DEF Keys, TallyInv
<1>1. item \in Item
  BY <1>0 DEF TallyTypeOK, NoItem, Item
<1>2. /\ recent \in Seq(Nat) /\ Len(recent) = m
      /\ \A j \in 1..m : recent[j] = s[n - m + j]
  BY <1>0, <1>1, RunGrows
<1>3. /\ now \in Nat /\ seen[k] \in Seq(Nat) /\ reported[k] \in Seq(Nat)
      /\ BurstSize \in Nat \ {0} /\ BurstWindow \in Nat
      /\ IsFiniteSet(DOMAIN items) /\ items \in [DOMAIN items -> Item]
      /\ DOMAIN items \in SUBSET Keys
      /\ seen \in [Keys -> Seq(Nat)] /\ reported \in [Keys -> Seq(Nat)]
  BY <1>0, SizesAssumption DEF TallyTypeOK
<1>4. /\ b \in Nat /\ b <= n - 1 /\ n \in Nat \ {0}
      /\ b = 0 \/ b \in Times(reported[k])
      /\ \A c \in Times(reported[k]) : c \in Nat /\ c <= b
      /\ item.bursts = Len(reported[k])
  <2>1. \A c \in Times(reported[k]) : c \in Nat
    BY <1>3 DEF Times
  <2>2. /\ b \in Nat /\ b <= n - 1 /\ n \in Nat \ {0}
        /\ b = 0 \/ b \in Times(reported[k])
        /\ \A c \in Times(reported[k]) : c <= b
    BY <1>0, <1>3, SMTT(30) DEF Runs, LastReport, Times
  <2>3. item.bursts = Len(reported[k])
    BY <1>0, <1>3 DEF Runs, NoItem
  <2> QED BY <2>1, <2>2, <2>3
<1>5. /\ now' = now
      /\ DOMAIN items' = DOMAIN items \cup {k}
      /\ items' = [j \in DOMAIN items \cup {k} |->
                     IF j = k THEN Occurrence(item).row ELSE items[j]]
      /\ seen' = [seen EXCEPT ![k] = s]
      /\ reported' = IF Occurrence(item).burst
                     THEN [reported EXCEPT ![k] = Append(@, n)] ELSE reported
  BY DEF AddProcessLine
<1>6. /\ Occurrence(item).burst <=> burst
      /\ Occurrence(item).row
           = [count |-> item.count + 1,
              recent |-> IF burst THEN <<>> ELSE recent,
              bursts |-> item.bursts + IF burst THEN 1 ELSE 0]
  BY <1>2 DEF Occurrence
<1> DEFINE row == Occurrence(item).row
           r == IF burst THEN Append(reported[k], n) ELSE reported[k]
<1>7. /\ row \in Item /\ row.bursts = item.bursts + (IF burst THEN 1 ELSE 0)
      /\ row.recent = IF burst THEN <<>> ELSE recent
  <2> HIDE DEF burst, recent, item
  <2> QED BY <1>1, <1>2, <1>6 DEF Item
<1>8. /\ seen'[k] = s /\ reported'[k] = r
      /\ items'[k] = row /\ k \in DOMAIN items'
      /\ \A j \in Keys : j # k =>
           /\ seen'[j] = seen[j] /\ reported'[j] = reported[j]
           /\ j \in DOMAIN items' <=> j \in DOMAIN items
           /\ j \in DOMAIN items => items'[j] = items[j]
  <2> HIDE DEF burst, row, s, n, item
  <2>1. seen'[k] = s /\ \A j \in Keys : j # k => seen'[j] = seen[j]
    BY <1>0, <1>3, <1>5
  <2>2. CASE burst
    BY <1>0, <1>3, <1>5, <1>6, <2>1, <2>2 DEF row
  <2>3. CASE ~burst
    BY <1>0, <1>3, <1>5, <1>6, <2>1, <2>3 DEF row
  <2> QED BY <2>2, <2>3
<1>9. /\ s \in Seq(Nat) /\ Len(s) = n /\ s[n] = now
      /\ \A j \in 1..(n - 1) : s[j] = seen[k][j]
  BY <1>3
<1>10. r \in Seq(Nat) /\ Times(r) = Times(reported[k])
                                      \cup (IF burst THEN {n} ELSE {})
       /\ Len(r) = Len(reported[k]) + (IF burst THEN 1 ELSE 0)
       /\ (burst => r # <<>> /\ r[Len(r)] = n)
  <2> HIDE DEF burst, n
  <2>1. CASE burst
    <3>1. r = Append(reported[k], n) /\ n \in Nat
      BY <1>4, <2>1
    <3> HIDE DEF r
    <3>2. /\ r \in Seq(Nat) /\ DOMAIN r = DOMAIN reported[k] \cup {Len(r)}
          /\ Len(r) = Len(reported[k]) + 1 /\ r[Len(r)] = n
          /\ \A j \in DOMAIN reported[k] : r[j] = reported[k][j]
      <4> DEFINE q == reported[k]
      <4>1. q \in Seq(Nat) /\ r = Append(q, n)
        BY <1>3, <3>1
      <4> HIDE DEF q, n
      <4>2. /\ r \in Seq(Nat) /\ DOMAIN r = DOMAIN q \cup {Len(r)}
            /\ Len(r) = Len(q) + 1 /\ r[Len(r)] = n
            /\ \A j \in DOMAIN q : r[j] = q[j]
        BY <3>1, <4>1
      <4> QED BY <4>2 DEF q
    <3> HIDE DEF n
    <3>3. Times(r) = Times(reported[k]) \cup {n}
      BY <3>2 DEF Times
    <3>4. r # <<>>
      <4> DEFINE q == reported[k]
      <4>1. q \in Seq(Nat) /\ r = Append(q, n)
        BY <1>3, <3>1
      <4> HIDE DEF q
      <4> QED BY <3>1, <4>1
    <3> QED BY <2>1, <3>2, <3>3, <3>4
  <2>2. CASE ~burst
    BY <1>3, <2>2
  <2> QED BY <2>1, <2>2
<1> HIDE DEF s, recent, item, r, row
<1>11. TallyTypeOK'
  <2>1. /\ DOMAIN items' \in SUBSET Keys /\ IsFiniteSet(DOMAIN items')
    BY <1>0, <1>3, <1>5, FS_AddElement
  <2>2. items' \in [DOMAIN items' -> Item]
    BY <1>3, <1>5, <1>7, <1>8
  <2>3. seen' \in [Keys -> Seq(Nat)]
    BY <1>3, <1>5, <1>9
  <2>4. reported' \in [Keys -> Seq(Nat)]
    <3>1. reported' = [reported EXCEPT ![k] = r]
      <4> HIDE DEF burst, n
      <4> QED BY <1>3, <1>5, <1>6 DEF r
    <3> QED BY <1>0, <1>3, <1>10, <3>1
  <2>5. now' \in Nat /\ Keys' = Keys
    BY <1>3, <1>5 DEF Keys
  <2> QED BY <2>1, <2>2, <2>3, <2>4, <2>5 DEF TallyTypeOK
<1>12. LastReport(k)' = IF burst THEN n ELSE b
  <2> HIDE DEF burst, n
  <2>1. CASE burst
    BY <1>8, <1>10, <2>1 DEF LastReport
  <2>2. CASE ~burst
    BY <1>8, <2>2 DEF LastReport, r
  <2> QED BY <2>1, <2>2
<1>13. Runs(k)'
  <2>1. CASE burst
    <3>1. /\ LastReport(k)' = n /\ Len(seen'[k]) = n
          /\ row.recent = <<>> /\ row.bursts = Len(reported'[k])
      <4> HIDE DEF burst, n
      <4> QED BY <1>4, <1>7, <1>8, <1>9, <1>10, <1>12, <2>1
    <3>2. \A j \in DOMAIN reported'[k] : reported'[k][j] <= n
      <4>1. \A c \in Times(reported'[k]) : c <= n
        <5> HIDE DEF burst, n
        <5> QED BY <1>4, <1>8, <1>10, <2>1
      <4> QED BY <4>1 DEF Times
    <3> HIDE DEF burst, n, m
    <3> QED BY <1>3, <1>4, <1>8, <3>1, <3>2 DEF Runs
  <2>2. CASE ~burst
    <3>1. /\ LastReport(k)' = b /\ Len(seen'[k]) = n
          /\ row.recent = recent /\ row.bursts = Len(reported'[k])
      BY <1>4, <1>7, <1>8, <1>9, <1>10, <1>12, <2>2
    <3>2. \A j \in DOMAIN reported'[k] : reported'[k][j] <= b
      <4>1. \A c \in Times(reported'[k]) : c <= b
        BY <1>4, <1>8, <1>10, <2>2
      <4> QED BY <4>1 DEF Times
    <3>3. \A j \in 1..m : items'[k].recent[j] = seen'[k][n - m + j]
      BY <1>2, <1>8, <3>1
    <3> HIDE DEF burst, n, b
    <3> QED BY <1>2, <1>3, <1>4, <1>8, <3>1, <3>2, <3>3 DEF Runs
  <2> QED BY <2>1, <2>2
<1>14. News(k)'
  <2> SUFFICES ASSUME NEW i \in 1..n
               PROVE  i \in Times(r) <=>
                        /\ i >= BurstSize
                        /\ \A c \in {0} \cup Times(r) :
                             c < i => c <= i - BurstSize
                        /\ s[i] - s[i - BurstSize + 1] <= BurstWindow
    BY <1>8, <1>9, SMTT(30) DEF News
  <2>1. CASE i # n
    <3>1. i \in 1..(n - 1)
      BY <1>4, <2>1
    <3>2. i \in Times(r) <=> i \in Times(reported[k])
      BY <1>10, <2>1
    <3>3. (\A c \in {0} \cup Times(r) : c < i => c <= i - BurstSize)
          <=> \A c \in {0} \cup Times(reported[k]) :
                c < i => c <= i - BurstSize
      <4> HIDE DEF burst
      <4>1. ~(n < i)
        BY <1>4, <3>1
      <4> QED BY <1>10, <4>1
    <3>4. i >= BurstSize =>
            s[i] - s[i - BurstSize + 1]
              = seen[k][i] - seen[k][i - BurstSize + 1]
      <4>1. i >= BurstSize => i - BurstSize + 1 \in 1..(n - 1)
        BY <1>3, <1>4, <3>1, SMTT(20)
      <4> QED BY <1>9, <3>1, <4>1
    <3>5. i \in Times(reported[k]) <=>
            /\ i >= BurstSize
            /\ \A c \in {0} \cup Times(reported[k]) :
                 c < i => c <= i - BurstSize
            /\ seen[k][i] - seen[k][i - BurstSize + 1] <= BurstWindow
      <4>1. i \in DOMAIN seen[k]
        BY <1>3, <3>1
      <4> HIDE DEF k
      <4> QED BY <1>0, <4>1 DEF News
    <3> QED BY <3>2, <3>3, <3>4, <3>5
  <2>2. CASE i = n
    <3>1. n \in Times(r) <=> burst
      <4>1. n \notin Times(reported[k])
        BY <1>4
      <4> HIDE DEF burst, n
      <4> QED BY <1>10, <4>1
    <3>2. /\ m = BurstSize <=> n - b >= BurstSize
          /\ m = BurstSize => recent[1] = s[n - BurstSize + 1]
      <4>1. m = BurstSize <=> n - b >= BurstSize
        <5> HIDE DEF n, b
        <5> QED BY <1>3, <1>4
      <4>2. m = BurstSize => recent[1] = s[n - BurstSize + 1]
        <5> HAVE m = BurstSize
        <5> HIDE DEF n, m
        <5>1. 1 \in 1..m /\ n - m + 1 = n - BurstSize + 1
          BY <1>3, <1>4
        <5> QED BY <1>2, <5>1
      <4> QED BY <4>1, <4>2
    <3>3. (n - b >= BurstSize) <=>
            /\ n >= BurstSize
            /\ \A c \in {0} \cup Times(r) : c < n => c <= n - BurstSize
      <4>0. \A c \in Times(reported[k]) : c \in Nat
        BY <1>3, SMTT(20) DEF Times
      <4>1. ASSUME n - b >= BurstSize,
                   NEW c \in {0} \cup Times(r), c < n
            PROVE  c <= n - BurstSize
        <5>1. c = 0 \/ c \in Times(reported[k])
          BY <1>4, <1>10, <4>1
        <5> QED BY <1>3, <1>4, <4>0, <4>1, <5>1, SMTT(20)
      <4>2. ASSUME \A c \in {0} \cup Times(r) : c < n => c <= n - BurstSize
            PROVE  n - b >= BurstSize
        <5>1. b \in {0} \cup Times(r) /\ b < n
          <6> HIDE DEF burst, b
          <6> QED BY <1>4, <1>10
        <5> QED BY <1>3, <1>4, <4>2, <5>1
      <4>3. n - b >= BurstSize => n >= BurstSize
        BY <1>3, <1>4
      <4> HIDE DEF burst, n, b
      <4> QED BY <4>1, <4>2, <4>3
    <3> QED BY <1>9, <2>2, <3>1, <3>2, <3>3
  <2> QED BY <2>1, <2>2
<1>15. ASSUME NEW j \in Keys, j # k PROVE Runs(j)' /\ News(j)'
  <2>1. Runs(j) /\ News(j)
    BY DEF TallyInv
  <2>2. /\ seen'[j] = seen[j] /\ reported'[j] = reported[j]
        /\ j \in DOMAIN items' <=> j \in DOMAIN items
        /\ j \in DOMAIN items => items'[j] = items[j]
    BY <1>8, <1>15
  <2>3. LastReport(j)' = LastReport(j)
    BY <2>2 DEF LastReport
  <2> QED BY <2>1, <2>2, <2>3 DEF Runs, News
<1>16. \A j \in Keys : Runs(j)' /\ News(j)'
  BY <1>13, <1>14, <1>15
<1>17. Keys' = Keys
  BY DEF Keys
<1> QED
  BY <1>11, <1>16, <1>17 DEF TallyInv

LEMMA TallyStep == TallyInv /\ [LogNext]_logVars => TallyInv'
<1> SUFFICES ASSUME TallyInv, [LogNext]_logVars PROVE TallyInv'
  OBVIOUS
<1>0. Keys' = Keys
  BY DEF Keys
<1>1. ASSUME UNCHANGED <<items, seen, reported>>, now' \in Nat
      PROVE  TallyInv'
  <2>1. TallyTypeOK'
    BY <1>0, <1>1 DEF TallyInv, TallyTypeOK
  <2>2. \A k \in Keys : LastReport(k)' = LastReport(k)
    BY <1>1 DEF LastReport
  <2>3. \A k \in Keys : Runs(k)' /\ News(k)'
    BY <1>1, <2>2 DEF TallyInv, Runs, News
  <2> QED BY <1>0, <2>1, <2>3 DEF TallyInv
<1>2. now \in Nat
  BY DEF TallyInv, TallyTypeOK
<1>3. ASSUME NEW w \in Writers, NEW l \in CoreLines, AddProcessLine(w, l)
      PROVE  TallyInv'
  <2>1. CASE Counted(l) /\ Tracked(l)
    BY <1>3, <2>1, TallyGrows
  <2>2. CASE ~(Counted(l) /\ Tracked(l))
    BY <1>1, <1>2, <1>3, <2>2 DEF AddProcessLine, tallyVars
  <2> QED BY <2>1, <2>2
<1>4. ASSUME NEW w \in Writers, ResetFaults(w) PROVE TallyInv'
  <2>1. /\ items' = <<>> /\ seen' = [k \in Keys |-> <<>>] /\ now' = now
        /\ reported' = [k \in Keys |-> <<>>]
    BY <1>4 DEF ResetFaults, TallyInv, TallyTypeOK
  <2>2. <<>> \in Seq(Nat) /\ DOMAIN <<>> = {} /\ Len(<<>>) = 0
        /\ <<>> \in [{} -> Item]
    OBVIOUS
  <2>3. TallyTypeOK'
    BY <1>0, <1>2, <2>1, <2>2, FS_EmptySet DEF TallyTypeOK
  <2>4. ASSUME NEW k \in Keys PROVE Runs(k)' /\ News(k)'
    <3>1. /\ seen'[k] = <<>> /\ reported'[k] = <<>>
          /\ k \notin DOMAIN items'
      BY <2>1, <2>2
    <3>2. LastReport(k)' = 0
      BY <3>1 DEF LastReport
    <3>3. News(k)'
      BY <2>2, <3>1 DEF News
    <3>4. Runs(k)'
      BY <2>2, <3>1, <3>2 DEF Runs
    <3> QED BY <3>3, <3>4
  <2> QED BY <1>0, <2>3, <2>4 DEF TallyInv
<1>5. ASSUME NEW w \in Writers, NEW m \in Messages, Fail(w, m)
      PROVE  UNCHANGED <<items, seen, reported, now>>
  BY <1>5 DEF Fail, tallyVars
<1>6. ASSUME NEW w \in Writers,
             \/ ClearJournal(w) \/ Clear(w) \/ ClearEntries(w)
             \/ ClearLastError(w) \/ Write(w)
      PROVE  UNCHANGED <<items, seen, reported, now>>
  BY <1>6 DEF ClearJournal, Clear, ClearEntries, ClearLastError, Write,
              tallyVars, told
<1>7. CASE LogdTurns \/ Tick \/ UNCHANGED logVars
  BY <1>1, <1>2, <1>7, SizesAssumption
  DEF LogdTurns, Tick, logVars, tallyVars, told
<1> QED
  BY <1>1, <1>2, <1>3, <1>4, <1>5, <1>6, <1>7 DEF LogNext

-----------------------------------------------------------------------------
\* What follows.

LEMMA LogStarts == LogInit => IInv
<1> SUFFICES ASSUME LogInit PROVE IInv
  OBVIOUS
<1> USE SizesAssumption
<1>1. TodoOK
  BY DEF LogInit, TodoOK
<1>2. RingInv
  <2> DEFINE X == Lines \cup {NoEntry}
  <2>1. /\ entries = [i \in 0..(RingSize - 1) |-> NoEntry]
        /\ next = 0 /\ full = FALSE /\ stream = <<>>
    BY DEF LogInit
  <2>2. NoEntry \in X /\ RingSize \in Nat \ {0} /\ <<>> \in Seq(Lines)
    OBVIOUS
  <2> HIDE DEF X
  <2>3. Ring(entries, next, full, RingSize, X)
        /\ Holds(entries, next, full, RingSize, stream)
    BY <2>1, <2>2, RingEmpty
  <2> QED BY <2>1, <2>2, <2>3 DEF RingInv, X
<1>3. JournalInv
  <2> DEFINE X == Failure \cup {NoError}
  <2>1. /\ errors = [i \in 0..(JournalSize - 1) |-> NoError]
        /\ errNext = 0 /\ errFull = FALSE /\ filed = <<>>
        /\ lastError = NoBanner
    BY DEF LogInit
  <2>2. NoError \in X /\ JournalSize \in Nat \ {0} /\ <<>> \in Seq(Failure)
    OBVIOUS
  <2> HIDE DEF X
  <2>3. Ring(errors, errNext, errFull, JournalSize, X)
        /\ Holds(errors, errNext, errFull, JournalSize, filed)
    BY <2>1, <2>2, RingEmpty
  <2> QED BY <2>1, <2>2, <2>3 DEF JournalInv, X
<1>4. SinkInv
  BY DEF LogInit, SinkInv
<1>5. TallyInv
  <2>1. /\ items = <<>> /\ seen = [k \in Keys |-> <<>>] /\ now = 0
        /\ reported = [k \in Keys |-> <<>>]
    BY DEF LogInit
  <2>2. <<>> \in Seq(Nat) /\ DOMAIN <<>> = {} /\ Len(<<>>) = 0
        /\ <<>> \in [{} -> Item]
    OBVIOUS
  <2>3. TallyTypeOK
    BY <2>1, <2>2, FS_EmptySet DEF TallyTypeOK
  <2>4. ASSUME NEW k \in Keys PROVE Runs(k) /\ News(k)
    <3>1. seen[k] = <<>> /\ reported[k] = <<>> /\ k \notin DOMAIN items
      BY <2>1, <2>2
    <3>2. LastReport(k) = 0
      BY <3>1 DEF LastReport
    <3>3. News(k)
      BY <2>2, <3>1 DEF News
    <3>4. Runs(k)
      BY <2>2, <3>1, <3>2 DEF Runs
    <3> QED BY <3>3, <3>4
  <2> QED BY <2>3, <2>4 DEF TallyInv
<1> QED
  BY <1>1, <1>2, <1>3, <1>4, <1>5 DEF IInv

LEMMA LogAlways == LogSpec => []IInv
<1>1. IInv /\ [LogNext]_logVars => IInv'
  BY TodoStep, RingStep, JournalStep, SinkStep, TallyStep DEF IInv
<1> QED
  BY <1>1, LogStarts, PTL DEF LogSpec

\* Whatever the writers do in between, and however often the rings went round
\* or were cleared: a reader is given the newest lines and the newest failures,
\* in order and with their repeats, and the banner is the newest failure
\* (logring.go:335, logring.go:374).
THEOREM ReadersAreGivenTheTail == LogSpec => []ReadersSeeTheTail
<1>1. IInv => ReadersSeeTheTail
  <2> SUFFICES ASSUME IInv PROVE ReadersSeeTheTail
    OBVIOUS
  <2>1. NoEntry \notin Lines /\ RingSize \in Nat \ {0}
    BY TextsAreLines, SizesAssumption
  <2>2. Entries = Newest(stream, RingSize)
    BY <2>1, RingRead DEF IInv, RingInv, Entries
  <2>3. NoError \notin Failure /\ JournalSize \in Nat \ {0}
    BY LinesAssumption, SizesAssumption DEF NoError, Failure
  <2>4. Errors = Newest(filed, JournalSize)
    BY <2>3, RingRead DEF IInv, JournalInv, Errors
  <2>5. lastError # NoBanner => filed # <<>> /\ lastError = Last(filed).text
    BY DEF IInv, JournalInv, Last
  <2> QED BY <2>2, <2>4, <2>5 DEF ReadersSeeTheTail
<1> QED
  BY <1>1, LogAlways, PTL

\* What the status page shows is some order of the faults that have burst.
LEMMA TopShowsBursts ==
  ASSUME TallyInv
  PROVE  Times(Top(0)) = {k \in Keys : reported[k] # <<>>}
<1> DEFINE worth == {k \in DOMAIN items : items[k].bursts > 0}
           rank == [k \in DOMAIN items |-> items[k].count]
           Sorted(s) == /\ IsInjective(s)
                        /\ \A i, j \in DOMAIN s :
                             i < j => items[s[i]].count >= items[s[j]].count
           all == CHOOSE s \in [1..Cardinality(worth) -> worth] : Sorted(s)
<1>1. IsFiniteSet(worth) /\ Cardinality(worth) \in Nat
  <2>1. worth \in SUBSET DOMAIN items /\ IsFiniteSet(DOMAIN items)
    BY DEF TallyInv, TallyTypeOK
  <2> HIDE DEF worth
  <2> QED BY <2>1, FS_Subset, FS_CardinalityType
<1>2. \A k \in worth : rank[k] = items[k].count /\ rank[k] \in Nat
  BY DEF TallyInv, TallyTypeOK, Item
<1>3. worth = {k \in Keys : reported[k] # <<>>}
  <2>1. /\ DOMAIN items \subseteq Keys
        /\ items \in [DOMAIN items -> Item]
        /\ reported \in [Keys -> Seq(Nat)]
    BY DEF TallyInv, TallyTypeOK
  <2>2. \A k \in DOMAIN items : items[k].bursts = Len(reported[k])
    BY <2>1 DEF TallyInv, Runs
  <2>3. \A k \in Keys : k \notin DOMAIN items => reported[k] = <<>>
    BY DEF TallyInv, Runs
  <2>4. \A k \in Keys : Len(reported[k]) > 0 <=> reported[k] # <<>>
    BY <2>1
  <2> QED BY <2>1, <2>2, <2>3, <2>4
<1>4. Top(0) = all
  BY DEF Top
<1> HIDE DEF worth
<1>5. \E s \in [1..Cardinality(worth) -> worth] : Sorted(s)
  <2> HIDE DEF rank
  <2>1. PICK s : Ranked(worth, rank, s)
    BY <1>1, <1>2, Ranking
  <2>2. s \in [1..Cardinality(worth) -> worth] /\ IsInjective(s)
        /\ \A i, j \in DOMAIN s : i < j => rank[s[i]] >= rank[s[j]]
    BY <2>1, Zenon DEF Ranked
  <2>3. \A i, j \in DOMAIN s : i < j => items[s[i]].count >= items[s[j]].count
    BY <1>2, <2>2
  <2> QED BY <2>2, <2>3
<1>6. all \in [1..Cardinality(worth) -> worth] /\ IsInjective(all)
  <2> HIDE DEF Sorted
  <2>1. all \in [1..Cardinality(worth) -> worth] /\ Sorted(all)
    BY <1>5, Zenon
  <2> HIDE DEF all
  <2> QED BY <2>1, Zenon DEF Sorted
<1> HIDE DEF all, Sorted, rank
<1>7. Times(all) = worth
  <2> DEFINE n == Cardinality(worth)
  <2>1. n \in Nat /\ IsFiniteSet(1..n) /\ Cardinality(1..n) = n
    BY <1>1, FS_Interval
  <2>2. all \in Injection(1..n, worth)
    BY <1>6, Zenon DEF Injection
  <2>3. all \in Surjection(1..n, worth)
    BY <1>1, <2>1, <2>2, FS_Injection
  <2>4. DOMAIN all = 1..n /\ \A k \in worth : \E i \in 1..n : all[i] = k
    BY <1>6, <2>3, Zenon DEF Surjection
  <2> HIDE DEF n
  <2>5. \A i \in 1..n : all[i] \in worth
    BY <1>6, Zenon DEF n
  <2> QED BY <2>4, <2>5, Zenon DEF Times
<1> QED
  BY <1>3, <1>4, <1>7

\* A burst of a fault is reported when the run reaches its size within the
\* window and never otherwise, and the status page shows the same faults: for
\* every size of burst, every window and every table (faults.go, logring.go).
THEOREM BurstsAreAlwaysNews == LogSpec => []BurstsAreNews
<1>1. IInv => BurstsAreNews
  <2> SUFFICES ASSUME IInv PROVE BurstsAreNews
    OBVIOUS
  <2>1. TallyInv
    BY DEF IInv
  <2>2. \A k \in Keys : News(k)
    BY <2>1, Zenon DEF TallyInv
  <2>3. Times(Top(0)) = {k \in Keys : reported[k] # <<>>}
    BY <2>1, TopShowsBursts
  <2> HIDE DEF IInv
  <2> QED BY <2>2, <2>3, Zenon DEF BurstsAreNews, News
<1> QED
  BY <1>1, LogAlways, PTL

\* A sink that could not be opened is tried again within the minute, so once the
\* system log has been up for that long no warning is lost (syslog.go).
THEOREM MirrorAlwaysRecovers == LogSpec => MirrorRecovers
<1> DEFINE A == /\ mirrored' = FALSE /\ written' # written /\ stream' # stream
                /\ AtLeast(Last(stream').level, "warning")
                => ~logd.up \/ now - logd.since < RetryAfter
<1>1. ASSUME IInv, [LogNext]_logVars PROVE [A]_logVars
  <2> SUFFICES ASSUME mirrored' = FALSE, written' # written, stream' # stream,
                      AtLeast(Last(stream').level, "warning"), logd.up
               PROVE  now - logd.since < RetryAfter
    BY DEF A
  <2>1. PICK w \in Writers : Write(w)
    <3>1. /\ ~UNCHANGED logVars /\ ~LogdTurns /\ ~Tick
      BY DEF logVars, LogdTurns, Tick, told
    <3>2. \A w \in Writers : /\ \A m \in Messages : ~Fail(w, m)
                             /\ \A l \in CoreLines : ~AddProcessLine(w, l)
      BY DEF Fail, AddProcessLine
    <3>3. \A w \in Writers : /\ ~ClearJournal(w) /\ ~Clear(w)
                             /\ ~ClearEntries(w) /\ ~ClearLastError(w)
                             /\ ~ResetFaults(w)
      BY DEF ClearJournal, Clear, ClearEntries, ClearLastError, ResetFaults,
             told
    <3> QED BY <1>1, <3>1, <3>2, <3>3 DEF LogNext
  <2> DEFINE line == Head(todo[w])
  <2>2. stream' = Append(stream, line) /\ SinkWrite(line.level)
    BY <2>1 DEF Write, Emit
  <2>3. stream \in Seq(Lines) /\ line \in Lines
    BY <1>1, <2>1, WriteLine DEF IInv, RingInv
  <2>4. Last(stream') = line
    <3> HIDE DEF line
    <3> QED BY <2>2, <2>3 DEF Last
  <2>5. AtLeast(line.level, "warning")
    BY <2>4
  <2> HIDE DEF line
  <2>6. conn = "none" /\ now < nextTry
    BY <2>2, <2>5 DEF SinkWrite
  <2> QED BY <1>1, <2>6, SizesAssumption DEF IInv, SinkInv
<1> QED
  BY <1>1, LogAlways, PTL DEF LogSpec, MirrorRecovers
=============================================================================
