-------------------------- MODULE StatisticsProofs --------------------------
(***************************************************************************)
(* How much of another connection the chart of a connection can hold: for  *)
(* any plan, any size of the chart and any number of questions.            *)
(*                                                                         *)
(* The bound is not inductive.  What is: the samples that are late already *)
(* and the readers that still hold one are together fewer than the         *)
(* connections there were before; and what a late reading can still spoil  *)
(* is counted with what is spoilt.                                         *)
(***************************************************************************)
EXTENDS Statistics, FiniteSetTheorems, TLAPS

Sample == [of : Nat, since : Nat]
Reading == [at : {"unborn", "wait", "ask", "told", "counted", "over"},
            of : Nat, since : Nat]

StatTypeOK ==
  /\ session \in Nat /\ last \in Nat /\ serving \in Nat /\ prev \in Nat
  /\ connecting \in BOOLEAN
  /\ plan \in Seq(Targets)
  /\ reader \in [Sessions -> Reading]
  /\ history \in Seq(Sample)

\* A connect has taken the last connection down; what is connected is the last
\* one there was, and its core is the one that answers.
Sequel ==
  /\ last <= Len(plan)
  /\ connecting => session = Nobody /\ prev = Nobody /\ last < Len(plan)
  /\ connecting /\ serving # Nobody => serving = last + 1
  /\ session # Nobody => session = last /\ serving = session
  /\ \A k \in Sessions : reader[k].at # "unborn" => k <= last

\* The places of a sequence that hold one of B.
Where(h, B) == {i \in DOMAIN h : h[i] \in B}

Foreign == {x \in Sample : x.of # session}
Mixed == {x \in Sample : x.since \notin {Nobody, x.of}}

\* The readers that hold the reading of another core, and those of them that
\* have not put it beside the reading before.
Holding == {k \in Sessions : reader[k].at \in {"told", "counted"}
                             /\ reader[k].of # session}
Untold == {k \in Sessions : reader[k].at = "told" /\ reader[k].of # session}
Spoiling == {k \in Sessions : reader[k].at = "counted"
                              /\ reader[k].since \notin {Nobody, reader[k].of}}
Ajar == IF prev \in {Nobody, session} THEN 0 ELSE 1

Few ==
  session # Nobody =>
    /\ Cardinality(Where(history, Foreign)) + Cardinality(Holding) < session
    /\ Cardinality(Where(history, Mixed)) + Cardinality(Spoiling)
         + 2 * Cardinality(Untold) + Ajar <= 2 * (session - 1)

IInv == StatTypeOK /\ Sequel /\ Few

-----------------------------------------------------------------------------
\* Counting the places of a sequence.

LEMMA WhereFinite ==
  ASSUME NEW S, NEW h \in Seq(S), NEW B
  PROVE  /\ IsFiniteSet(Where(h, B))
         /\ Cardinality(Where(h, B)) \in Nat
<1>1. DOMAIN h = 1 .. Len(h) /\ Len(h) \in Nat
  OBVIOUS
<1>2. IsFiniteSet(1 .. Len(h))
  BY <1>1, FS_Interval
<1>3. Where(h, B) \in SUBSET (1 .. Len(h))
  BY <1>1 DEF Where
<1> QED
  BY <1>2, <1>3, FS_Subset, FS_CardinalityType

LEMMA WhereEmpty ==
  ASSUME NEW B
  PROVE  Cardinality(Where(<<>>, B)) = 0
<1>1. Where(<<>>, B) = {}
  BY DEF Where
<1> QED
  BY <1>1, FS_EmptySet

LEMMA WhereAppend ==
  ASSUME NEW S, NEW h \in Seq(S), NEW x \in S, NEW B
  PROVE  Cardinality(Where(Append(h, x), B))
           = Cardinality(Where(h, B)) + (IF x \in B THEN 1 ELSE 0)
<1> DEFINE n == Len(h) + 1
<1>1. /\ DOMAIN h = 1 .. Len(h) /\ Len(h) \in Nat
      /\ DOMAIN Append(h, x) = 1 .. n
      /\ \A i \in 1 .. Len(h) : Append(h, x)[i] = h[i]
      /\ Append(h, x)[n] = x
  OBVIOUS
<1>2. n \notin Where(h, B)
  BY <1>1 DEF Where
<1>3. CASE x \in B
  <2>1. Where(Append(h, x), B) = Where(h, B) \cup {n}
    BY <1>1, <1>3 DEF Where
  <2> QED
    BY <1>2, <1>3, <2>1, WhereFinite, FS_AddElement
<1>4. CASE x \notin B
  <2>1. Where(Append(h, x), B) = Where(h, B)
    BY <1>1, <1>4 DEF Where
  <2> QED
    BY <1>4, <2>1, WhereFinite
<1> QED
  BY <1>3, <1>4

LEMMA WhereTail ==
  ASSUME NEW S, NEW h \in Seq(S), h # <<>>, NEW B
  PROVE  Cardinality(Where(Tail(h), B)) <= Cardinality(Where(h, B))
<1> DEFINE f == [i \in Where(Tail(h), B) |-> i + 1]
<1>1. /\ DOMAIN h = 1 .. Len(h) /\ Len(h) \in Nat \ {0}
      /\ DOMAIN Tail(h) = 1 .. Len(h) - 1
      /\ \A i \in 1 .. Len(h) - 1 : Tail(h)[i] = h[i + 1]
  OBVIOUS
<1>2. \A i \in Where(Tail(h), B) : i \in Nat /\ i + 1 \in Where(h, B)
  BY <1>1 DEF Where
<1>3. f \in Injection(Where(Tail(h), B), Where(h, B))
  BY <1>2 DEF Injection, IsInjective
<1> HIDE DEF f
<1> QED
  BY <1>3, WhereFinite, FS_Injection

\* A chart that takes a sample, and drops its oldest if it is full, gains at
\* most that sample.
LEMMA WhereAdded ==
  ASSUME NEW S, NEW h \in Seq(S), NEW x \in S, NEW B, NEW h2,
         h2 \in {Append(h, x), Tail(Append(h, x))}
  PROVE  /\ h2 \in Seq(S)
         /\ Cardinality(Where(h2, B)) \in Nat
         /\ Cardinality(Where(h2, B))
              <= Cardinality(Where(h, B)) + (IF x \in B THEN 1 ELSE 0)
<1>1. Append(h, x) \in Seq(S) /\ Append(h, x) # <<>>
  OBVIOUS
<1>2. Tail(Append(h, x)) \in Seq(S)
  BY <1>1
<1>3. /\ Cardinality(Where(Append(h, x), B)) \in Nat
      /\ Cardinality(Where(Tail(Append(h, x)), B)) \in Nat
      /\ Cardinality(Where(h, B)) \in Nat
  BY <1>1, <1>2, WhereFinite
<1>4. Cardinality(Where(Tail(Append(h, x)), B))
        <= Cardinality(Where(Append(h, x), B))
  BY <1>1, WhereTail
<1>5. Cardinality(Where(Append(h, x), B))
        = Cardinality(Where(h, B)) + (IF x \in B THEN 1 ELSE 0)
  BY WhereAppend
<1>6. CASE h2 = Append(h, x)
  <2> Cardinality(Where(h2, B)) = Cardinality(Where(Append(h, x), B))
    BY <1>6
  <2> QED BY <1>1, <1>3, <1>5, <1>6
<1>7. CASE h2 = Tail(Append(h, x))
  <2>1. Cardinality(Where(h2, B)) = Cardinality(Where(Tail(Append(h, x)), B))
    BY <1>7
  <2>2. Cardinality(Where(h2, B))
          <= Cardinality(Where(h, B)) + (IF x \in B THEN 1 ELSE 0)
    BY <1>3, <1>4, <1>5, <2>1
  <2> QED BY <1>2, <1>3, <1>7, <2>1, <2>2
<1> QED
  BY <1>6, <1>7

-----------------------------------------------------------------------------
\* Who is connected, and who reads.

LEMMA SequelInit == StatInit => StatTypeOK /\ Sequel
<1> SUFFICES ASSUME StatInit PROVE StatTypeOK /\ Sequel
  OBVIOUS
<1>1. plan \in Seq(Targets)
  BY PlansAssumption DEF StatInit
<1>2. Unborn \in Reading /\ Unborn.at = "unborn"
  BY DEF Unborn, Asleep, Reading, Nobody
<1>3. /\ reader \in [Sessions -> Reading]
      /\ \A k \in Sessions : reader[k] = Unborn
  BY <1>2 DEF StatInit
<1>5. \A k \in Sessions : reader[k].at = "unborn"
  BY <1>2, <1>3
<1>4. history \in Seq(Sample) /\ Len(plan) \in Nat
  BY <1>1 DEF StatInit
<1>6. /\ session = 0 /\ last = 0 /\ serving = 0 /\ prev = 0
      /\ connecting = FALSE
  BY DEF StatInit, Nobody
<1>7. StatTypeOK
  BY <1>1, <1>3, <1>4, <1>6 DEF StatTypeOK
<1>8. Sequel
  BY <1>4, <1>5, <1>6 DEF Sequel, Nobody
<1> QED
  BY <1>7, <1>8

LEMMA SequelStep ==
  StatTypeOK /\ Sequel /\ [StatNext]_statVars => StatTypeOK' /\ Sequel'
<1> SUFFICES ASSUME StatTypeOK, Sequel, [StatNext]_statVars
             PROVE  StatTypeOK' /\ Sequel'
  OBVIOUS
<1> USE DEF StatTypeOK, Sequel, Nobody, Engine, view
<1>0. /\ Sessions = 1 .. Len(plan) /\ Len(plan) \in Nat
      /\ \A step \in {"unborn", "wait", "ask", "over"} :
           Asleep(step) \in Reading /\ Asleep(step).at = step
  BY DEF Sessions, Asleep, Reading
<1>1. CASE UNCHANGED statVars
  BY <1>1 DEF statVars, Sessions
<1>2. CASE HangUp
  BY <1>2 DEF HangUp, StopStats, Sessions
<1>3. CASE Dial
  BY <1>3 DEF Dial, StopStats, Sessions
<1>4. CASE CoreServes
  BY <1>4 DEF CoreServes, Sessions
<1>5. CASE DialFailed
  BY <1>5 DEF DialFailed, StopStats, Sessions
<1>6. CASE Connected
  <2> DEFINE k == last + 1
  <2>1. /\ k \in Sessions /\ Sessions' = Sessions
        /\ session' = k /\ last' = k /\ connecting' = FALSE
        /\ reader' = [reader EXCEPT ![k] = Asleep("wait")]
        /\ history' = <<>> /\ UNCHANGED <<plan, serving, prev>>
    BY <1>0, <1>6 DEF Connected, StartStats, Sessions
  <2>2. serving = k
    BY <1>6 DEF Connected
  <2>3. /\ reader' \in [Sessions -> Reading]
        /\ \A j \in Sessions : j # k => reader'[j] = reader[j]
    BY <1>0, <2>1
  <2>4. history' \in Seq(Sample)
    BY <2>1
  <2>5. \A j \in Sessions : reader'[j].at # "unborn" => j <= k
    BY <1>0, <2>1, <2>3
  <2>6. k <= Len(plan) /\ k \in Nat
    BY <1>0, <2>1
  <2> HIDE DEF k
  <2> QED
    BY <2>1, <2>2, <2>3, <2>4, <2>5, <2>6
<1>7. ASSUME NEW k \in Sessions,
             \/ StatsTick(k) \/ QueryStats(k) \/ Count(k) \/ AddSample(k)
             \/ ReaderEnds(k)
      PROVE  StatTypeOK' /\ Sequel'
  <2>1. /\ UNCHANGED <<session, plan, last, connecting, serving>>
        /\ Sessions' = Sessions
    BY <1>7 DEF StatsTick, QueryStats, Count, AddSample, ReaderEnds, Sessions
  <2>2. reader[k].at # "unborn" /\ (prev' = prev \/ ~connecting)
    BY <1>7 DEF StatsTick, QueryStats, Count, AddSample, ReaderEnds
  <2>3. \E r \in Reading : reader' = [reader EXCEPT ![k] = r]
    BY <1>0, <1>7 DEF StatsTick, QueryStats, Count, AddSample, ReaderEnds, Goes,
                      Reading, Asleep
  <2>4. prev' \in Nat
    BY <1>7 DEF StatsTick, QueryStats, Count, AddSample, ReaderEnds, Reading
  <2>5. history' \in Seq(Sample)
    <3>1. CASE AddSample(k)
      <4> DEFINE x == [of |-> reader[k].of, since |-> reader[k].since]
      <4>1. x \in Sample
        BY DEF Sample, Reading
      <4>2. history' \in {Append(history, x), Tail(Append(history, x))}
        BY <3>1 DEF AddSample
      <4> HIDE DEF x
      <4>3. /\ Append(history, x) \in Seq(Sample)
            /\ Append(history, x) # <<>>
        BY <4>1
      <4>4. Tail(Append(history, x)) \in Seq(Sample)
        BY <4>3
      <4> QED BY <4>2, <4>3, <4>4
    <3> QED BY <1>7, <3>1 DEF StatsTick, QueryStats, Count, ReaderEnds
  <2>6. \A j \in Sessions : reader'[j].at # "unborn" => j <= last
    BY <2>2, <2>3
  <2> QED
    BY <2>1, <2>2, <2>3, <2>4, <2>5, <2>6
<1>8. ASSUME NEW k \in Sessions,
             \/ ProberTick(k) \/ BalancerSelection(k) \/ RefreshBalancer(k)
             \/ MeasureMembers(k) \/ RefreshLatency(k) \/ ProberEnds(k)
      PROVE  StatTypeOK' /\ Sequel'
  BY <1>8 DEF ProberTick, BalancerSelection, RefreshBalancer, MeasureMembers,
              RefreshLatency, ProberEnds, Sessions
<1> QED
  BY <1>1, <1>2, <1>3, <1>4, <1>5, <1>6, <1>7, <1>8 DEF StatNext

-----------------------------------------------------------------------------
\* How many samples of another core there are, and how many more can come.

LEMMA ReadersFinite ==
  ASSUME StatTypeOK, NEW R \in SUBSET Sessions
  PROVE  IsFiniteSet(R) /\ Cardinality(R) \in Nat
<1>1. Sessions = 1 .. Len(plan) /\ Len(plan) \in Nat
  BY DEF Sessions, StatTypeOK
<1>2. IsFiniteSet(Sessions)
  BY <1>1, FS_Interval
<1> QED
  BY <1>2, FS_Subset, FS_CardinalityType

LEMMA CountsAreNaturals ==
  ASSUME StatTypeOK
  PROVE  /\ Cardinality(Where(history, Foreign)) \in Nat
         /\ Cardinality(Where(history, Mixed)) \in Nat
         /\ IsFiniteSet(Holding) /\ Cardinality(Holding) \in Nat
         /\ IsFiniteSet(Untold) /\ Cardinality(Untold) \in Nat
         /\ IsFiniteSet(Spoiling) /\ Cardinality(Spoiling) \in Nat
         /\ Ajar \in {0, 1}
<1>1. /\ Cardinality(Where(history, Foreign)) \in Nat
      /\ Cardinality(Where(history, Mixed)) \in Nat
  BY WhereFinite DEF StatTypeOK
<1>2. /\ Holding \in SUBSET Sessions /\ Untold \in SUBSET Sessions
      /\ Spoiling \in SUBSET Sessions
  BY DEF Holding, Untold, Spoiling
<1> QED
  BY <1>1, <1>2, ReadersFinite DEF Ajar

\* The chart is emptied, and each connection before has one reader.
LEMMA FewWhenConnected ==
  ASSUME StatTypeOK, Sequel, StatTypeOK', Sequel', Connected
  PROVE  Few'
<1> DEFINE k == last + 1
<1>1. /\ k \in Nat /\ session' = k /\ history' = <<>> /\ prev' = Nobody
      /\ Sessions' = Sessions /\ k \in Sessions
      /\ reader' = [reader EXCEPT ![k] = Asleep("wait")]
  BY DEF Connected, StartStats, Sequel, StatTypeOK, Sessions
<1>2. \A j \in Sessions : j # k /\ reader'[j].at # "unborn" => j \in 1 .. last
  <2>1. Sessions = 1 .. Len(plan) /\ Len(plan) \in Nat /\ last \in Nat
    BY DEF Sessions, StatTypeOK
  <2>2. \A j \in Sessions : j # k => reader'[j] = reader[j]
    BY <1>1 DEF StatTypeOK
  <2> QED BY <2>1, <2>2 DEF Sequel
<1>3. reader'[k].at = "wait"
  BY <1>1 DEF Asleep, StatTypeOK
<1>4. /\ Holding' \subseteq 1 .. last
      /\ Untold' \subseteq 1 .. last /\ Spoiling' \subseteq 1 .. last
      /\ Untold' \cap Spoiling' = {}
  BY <1>1, <1>2, <1>3 DEF Holding, Untold, Spoiling
<1>5. IsFiniteSet(1 .. last) /\ Cardinality(1 .. last) = last
  <2>1. last \in Nat /\ last \in Int /\ 1 \in Int
    BY DEF StatTypeOK
  <2>2. Cardinality(1 .. last) = IF 1 > last THEN 0 ELSE last - 1 + 1
    BY <2>1, FS_Interval
  <2> QED BY <2>1, <2>2, FS_Interval
<1>6. /\ IsFiniteSet(Untold') /\ Cardinality(Untold') \in Nat
      /\ IsFiniteSet(Spoiling') /\ Cardinality(Spoiling') \in Nat
      /\ Cardinality(Holding') \in Nat /\ Cardinality(Holding') <= last
  BY <1>4, <1>5, FS_Subset, FS_CardinalityType
<1>7. Cardinality(Untold') + Cardinality(Spoiling') <= last
  <2>1. /\ Untold' \cup Spoiling' \in SUBSET (1 .. last)
        /\ Cardinality(Untold' \cap Spoiling') = 0
    BY <1>4, FS_EmptySet
  <2>2. Cardinality(Untold' \cup Spoiling') <= last
    BY <1>5, <2>1, FS_Subset
  <2>3. Cardinality(Untold' \cup Spoiling')
          = Cardinality(Untold') + Cardinality(Spoiling')
              - Cardinality(Untold' \cap Spoiling')
    BY <1>6, FS_Union
  <2> QED BY <1>6, <2>1, <2>2, <2>3
<1>8. /\ Cardinality(Where(history', Foreign')) = 0
      /\ Cardinality(Where(history', Mixed)) = 0
  BY <1>1, WhereEmpty
<1>9. Ajar' = 0
  BY <1>1 DEF Ajar
<1>10. last \in Nat
  BY DEF StatTypeOK
<1>11. Cardinality(Where(history, Mixed))' = 0
  BY <1>1, <1>8 DEF Mixed, Where
<1>12. Cardinality(Spoiling') + 2 * Cardinality(Untold') <= 2 * last
  BY <1>6, <1>7, <1>10
<1> QED
  BY <1>1, <1>6, <1>8, <1>9, <1>10, <1>11, <1>12 DEF Few

\* A reading that is put beside the one before spoils its own rate at most, and
\* leaves a reading that spoils one more.
LEMMA FewWhenCounted ==
  ASSUME StatTypeOK, Sequel, Few, StatTypeOK', session # Nobody,
         NEW k \in Sessions, Count(k)
  PROVE  Few'
<1> DEFINE r == reader[k]
           r2 == [r EXCEPT !.at = "counted", !.since = prev]
<1>1. /\ r \in Reading /\ r.at = "told"
      /\ UNCHANGED <<session, plan, history>> /\ Sessions' = Sessions
      /\ prev' = r.of /\ reader' = [reader EXCEPT ![k] = r2]
      /\ r2.at = "counted" /\ r2.of = r.of /\ r2.since = prev
  BY DEF StatTypeOK, Count, Engine, Sessions, Reading
<1>2. /\ reader'[k] = r2
      /\ \A j \in Sessions : j # k => reader'[j] = reader[j]
  BY <1>1 DEF StatTypeOK
<1>3. Holding' = Holding
  BY <1>1, <1>2 DEF Holding
<1>4. Untold' = Untold \ {k} /\ (r.of # session => k \in Untold)
                             /\ (r.of = session => k \notin Untold)
  BY <1>1, <1>2 DEF Untold
<1>5. /\ k \notin Spoiling
      /\ Spoiling' = IF prev \in {Nobody, r.of} THEN Spoiling
                     ELSE Spoiling \cup {k}
  <2>1. k \notin Spoiling
    BY <1>1 DEF Spoiling
  <2>2. k \in Spoiling' <=> prev \notin {Nobody, r.of}
    BY <1>1, <1>2 DEF Spoiling
  <2>3. \A j \in Sessions : j # k => (j \in Spoiling' <=> j \in Spoiling)
    BY <1>1, <1>2 DEF Spoiling
  <2>4. Spoiling' \subseteq Sessions /\ Spoiling \subseteq Sessions
    BY <1>1 DEF Spoiling
  <2> HIDE DEF r2, r
  <2>5. CASE prev \in {Nobody, r.of}
    <3>1. Spoiling' = Spoiling
      BY <2>1, <2>2, <2>3, <2>4, <2>5
    <3> QED BY <2>1, <2>5, <3>1
  <2>6. CASE prev \notin {Nobody, r.of}
    <3>1. Spoiling' = Spoiling \cup {k}
      BY <2>2, <2>3, <2>4, <2>6
    <3> QED BY <2>1, <2>6, <3>1
  <2> QED BY <2>5, <2>6
<1>6. Ajar' = IF r.of \in {Nobody, session} THEN 0 ELSE 1
  BY <1>1 DEF Ajar
<1>7. Where(history, Foreign)' = Where(history, Foreign)
      /\ Where(history, Mixed)' = Where(history, Mixed)
  BY <1>1 DEF Where, Foreign, Mixed
<1>8. /\ Cardinality(Untold') = IF r.of # session THEN Cardinality(Untold) - 1
                                ELSE Cardinality(Untold)
      /\ Cardinality(Spoiling') = IF prev \in {Nobody, r.of}
                                  THEN Cardinality(Spoiling)
                                  ELSE Cardinality(Spoiling) + 1
  BY <1>4, <1>5, CountsAreNaturals, FS_RemoveElement, FS_AddElement
<1>9. Cardinality(Spoiling') + 2 * Cardinality(Untold') + Ajar'
        <= Cardinality(Spoiling) + 2 * Cardinality(Untold) + Ajar
  <2>1. CASE r.of = session
    BY <1>6, <1>8, <2>1, CountsAreNaturals DEF Ajar
  <2>2. CASE r.of # session
    BY <1>6, <1>8, <2>2, CountsAreNaturals DEF Ajar
  <2> QED BY <2>1, <2>2
<1>10. /\ Cardinality(Spoiling') \in Nat /\ Cardinality(Untold') \in Nat
       /\ Ajar' \in Nat /\ session \in Nat
  <2>1. /\ Spoiling' \in SUBSET Sessions /\ Untold' \in SUBSET Sessions
        /\ IsFiniteSet(Sessions)
    BY <1>1, ReadersFinite DEF Spoiling, Untold
  <2>2. Cardinality(Spoiling') \in Nat /\ Cardinality(Untold') \in Nat
    BY <2>1, FS_Subset, FS_CardinalityType
  <2> QED BY <1>6, <2>2 DEF StatTypeOK
<1>11. /\ Cardinality(Holding') = Cardinality(Holding)
       /\ Cardinality(Where(history, Foreign))'
            = Cardinality(Where(history, Foreign))
       /\ Cardinality(Where(history, Mixed))'
            = Cardinality(Where(history, Mixed))
  BY <1>3, <1>7
<1> HIDE DEF r, r2
<1> QED
  BY <1>1, <1>9, <1>10, <1>11, CountsAreNaturals DEF Few

\* What was held goes to the chart.
LEMMA FewWhenAdded ==
  ASSUME StatTypeOK, Sequel, Few, StatTypeOK', session # Nobody,
         NEW k \in Sessions, AddSample(k)
  PROVE  Few'
<1> DEFINE r == reader[k]
           x == [of |-> r.of, since |-> r.since]
<1>1. /\ r \in Reading /\ r.at = "counted"
      /\ UNCHANGED <<session, plan, prev>> /\ Sessions' = Sessions
      /\ reader' = [reader EXCEPT ![k] = Asleep("wait")]
      /\ history' \in {Append(history, x), Tail(Append(history, x))}
  BY DEF StatTypeOK, AddSample, Engine, Goes, Sessions
<1>2. x \in Sample /\ x.of = r.of /\ x.since = r.since
  BY <1>1 DEF Sample, Reading
<1>3. /\ reader'[k].at = "wait"
      /\ \A j \in Sessions : j # k => reader'[j] = reader[j]
  BY <1>1 DEF StatTypeOK, Asleep
<1>4. /\ Holding' = Holding \ {k} /\ Untold' = Untold
      /\ Spoiling' = Spoiling \ {k}
  BY <1>1, <1>3 DEF Holding, Untold, Spoiling
<1>5. /\ k \in Holding <=> x \in Foreign
      /\ k \in Spoiling <=> x \in Mixed
  BY <1>1, <1>2 DEF Holding, Spoiling, Foreign, Mixed
<1> HIDE DEF r, x
<1>6. /\ Cardinality(Holding') = Cardinality(Holding)
                                   - (IF x \in Foreign THEN 1 ELSE 0)
      /\ Cardinality(Spoiling') = Cardinality(Spoiling)
                                   - (IF x \in Mixed THEN 1 ELSE 0)
  <2>1. /\ Cardinality(Holding \ {k})
             = IF k \in Holding THEN Cardinality(Holding) - 1
               ELSE Cardinality(Holding)
        /\ Cardinality(Spoiling \ {k})
             = IF k \in Spoiling THEN Cardinality(Spoiling) - 1
               ELSE Cardinality(Spoiling)
    BY CountsAreNaturals, FS_RemoveElement
  <2> QED BY <1>4, <1>5, <2>1, CountsAreNaturals
<1>7. /\ Cardinality(Where(history', Foreign)) \in Nat
      /\ Cardinality(Where(history', Foreign))
           <= Cardinality(Where(history, Foreign))
                + (IF x \in Foreign THEN 1 ELSE 0)
      /\ Cardinality(Where(history', Mixed)) \in Nat
      /\ Cardinality(Where(history', Mixed))
           <= Cardinality(Where(history, Mixed))
                + (IF x \in Mixed THEN 1 ELSE 0)
  <2>1. /\ history \in Seq(Sample) /\ x \in Sample
        /\ history' \in {Append(history, x), Tail(Append(history, x))}
    BY <1>1, <1>2 DEF StatTypeOK
  <2>2. ASSUME NEW B
        PROVE  /\ Cardinality(Where(history', B)) \in Nat
               /\ Cardinality(Where(history', B))
                    <= Cardinality(Where(history, B)) + (IF x \in B THEN 1 ELSE 0)
    BY ONLY <2>1, WhereAdded
  <2> QED BY ONLY <2>2, Zenon
<1>8. Foreign' = Foreign /\ Ajar' = Ajar
  BY <1>1 DEF Foreign, Ajar
<1>9. /\ Cardinality(Where(history, Foreign))'
           = Cardinality(Where(history', Foreign))
      /\ Cardinality(Where(history, Mixed))'
           = Cardinality(Where(history', Mixed))
  BY <1>8 DEF Mixed
<1>10. session \in Nat
  BY DEF StatTypeOK
<1>11. Cardinality(Untold') = Cardinality(Untold)
  BY <1>4
<1>12. session' = session
  BY <1>1
<1>13. /\ Cardinality(Where(history, Foreign)) + Cardinality(Holding) < session
       /\ Cardinality(Where(history, Mixed)) + Cardinality(Spoiling)
            + 2 * Cardinality(Untold) + Ajar <= 2 * (session - 1)
  BY DEF Few
<1>14. Cardinality(Where(history, Foreign))' + Cardinality(Holding') < session
  <2>1. CASE x \in Foreign
    BY <1>6, <1>7, <1>9, <1>10, <1>13, <2>1, CountsAreNaturals
  <2>2. CASE x \notin Foreign
    BY <1>6, <1>7, <1>9, <1>10, <1>13, <2>2, CountsAreNaturals
  <2> QED BY <2>1, <2>2
<1>15. Cardinality(Where(history, Mixed))' + Cardinality(Spoiling')
         + 2 * Cardinality(Untold') + Ajar' <= 2 * (session - 1)
  <2>1. CASE x \in Mixed
    BY <1>6, <1>7, <1>8, <1>9, <1>10, <1>11, <1>13, <2>1, CountsAreNaturals
  <2>2. CASE x \notin Mixed
    BY <1>6, <1>7, <1>8, <1>9, <1>10, <1>11, <1>13, <2>2, CountsAreNaturals
  <2> QED BY <2>1, <2>2
<1> QED
  BY <1>12, <1>14, <1>15 DEF Few

LEMMA FewStep ==
  ASSUME StatTypeOK, Sequel, StatTypeOK', Sequel', Few, [StatNext]_statVars
  PROVE  Few'
<1> USE DEF Engine, view
<1>1. CASE HangUp \/ Dial \/ DialFailed
  BY <1>1 DEF HangUp, Dial, DialFailed, StopStats, Few
<1>2. CASE Connected
  BY <1>2, FewWhenConnected
<1>3. ASSUME UNCHANGED <<session, plan, prev, history, Holding, Untold, Spoiling>>
      PROVE  Few'
  <2>1. UNCHANGED <<Where(history, Foreign), Where(history, Mixed), Ajar>>
    BY <1>3 DEF Foreign, Mixed, Where, Ajar
  <2> QED BY <1>3, <2>1 DEF Few
<1>4. ASSUME UNCHANGED <<session, plan, prev, history, reader>>
      PROVE  Few'
  <2>1. UNCHANGED <<Holding, Untold, Spoiling>>
    BY <1>4 DEF Holding, Untold, Spoiling, Sessions
  <2> QED BY <1>3, <1>4, <2>1
<1>5. CASE session = Nobody /\ UNCHANGED session
  BY <1>5 DEF Few
<1>6. ASSUME NEW k \in Sessions, session # Nobody, Count(k)
      PROVE  Few'
  BY <1>6, FewWhenCounted
<1>7. ASSUME NEW k \in Sessions, session # Nobody, AddSample(k)
      PROVE  Few'
  BY <1>7, FewWhenAdded
<1>8. ASSUME NEW k \in Sessions, session # Nobody,
             StatsTick(k) \/ QueryStats(k) \/ ReaderEnds(k)
      PROVE  Few'
  <2>1. /\ UNCHANGED <<session, plan, prev, history>> /\ Sessions' = Sessions
        /\ \E s \in Reading :
             /\ reader' = [reader EXCEPT ![k] = s]
             /\ s.at \in {"wait", "ask", "over"}
                \/ (s.at = "told" /\ s.of = session)
    <3>1. \A step \in {"wait", "ask", "over"} :
            Asleep(step) \in Reading /\ Asleep(step).at = step
      BY DEF Asleep, Reading, Nobody
    <3>2. CASE StatsTick(k) \/ ReaderEnds(k)
      BY <3>1, <3>2 DEF StatsTick, ReaderEnds, Goes, Sessions
    <3>3. CASE QueryStats(k) /\ reader' = Goes(reader, k, "wait")
      BY <3>1, <3>3 DEF QueryStats, Goes, Sessions
    <3>4. CASE /\ QueryStats(k)
               /\ reader' = [reader EXCEPT ![k] =
                               [Asleep("told") EXCEPT !.of = serving]]
      <4>1. serving = session /\ serving \in Nat
        BY <1>8 DEF Sequel, StatTypeOK
      <4>2. /\ [Asleep("told") EXCEPT !.of = serving] \in Reading
            /\ [Asleep("told") EXCEPT !.of = serving].at = "told"
            /\ [Asleep("told") EXCEPT !.of = serving].of = session
        BY <4>1 DEF Asleep, Reading, Nobody
      <4> QED BY <3>4, <4>2 DEF QueryStats, Sessions
    <3> QED BY <1>8, <3>2, <3>3, <3>4 DEF QueryStats
  <2>2. /\ \A j \in Sessions : j # k => reader'[j] = reader[j]
        /\ \/ reader'[k].at \notin {"told", "counted"}
           \/ reader'[k].at = "told" /\ reader'[k].of = session
    BY <2>1 DEF StatTypeOK
  <2>3. reader[k].at \in {"wait", "ask"}
    BY <1>8 DEF StatsTick, QueryStats, ReaderEnds
  <2>4. UNCHANGED <<Holding, Untold, Spoiling>>
    BY <2>1, <2>2, <2>3 DEF Holding, Untold, Spoiling
  <2> QED BY <1>3, <2>1, <2>4
<1>9. CASE CoreServes
  BY <1>4, <1>9 DEF CoreServes
<1>10. CASE UNCHANGED statVars
  BY <1>4, <1>10 DEF statVars
<1>11. ASSUME NEW k \in Sessions,
              \/ ProberTick(k) \/ BalancerSelection(k) \/ RefreshBalancer(k)
              \/ MeasureMembers(k) \/ RefreshLatency(k) \/ ProberEnds(k)
       PROVE  Few'
  BY <1>4, <1>11 DEF ProberTick, BalancerSelection, RefreshBalancer,
                     MeasureMembers, RefreshLatency, ProberEnds
<1>12. ASSUME NEW k \in Sessions, session = Nobody,
              \/ StatsTick(k) \/ QueryStats(k) \/ Count(k) \/ AddSample(k)
              \/ ReaderEnds(k)
       PROVE  Few'
  BY <1>5, <1>12 DEF StatsTick, QueryStats, Count, AddSample, ReaderEnds
<1> QED
  BY <1>1, <1>2, <1>6, <1>7, <1>8, <1>9, <1>10, <1>11, <1>12 DEF StatNext

\* startStatsLocked empties the chart, and a reader brings at most one sample to
\* another connection's: however connections, cores and readers overlap, fewer
\* samples are late than there were connections before, and at most twice as
\* many rates are wrong.
THEOREM LateSamplesStayFew == StatSpec => []LateSamplesAreFew
<1>1. StatInit => IInv
  BY SequelInit DEF IInv, Few, StatInit
<1>2. IInv /\ [StatNext]_statVars => IInv'
  BY SequelStep, FewStep DEF IInv
<1>3. IInv => LateSamplesAreFew
  <2> SUFFICES ASSUME IInv, session # Nobody
               PROVE  LateSamplesAreFew
    BY DEF LateSamplesAreFew
  <2>1. /\ Where(history, Foreign)
             = {i \in DOMAIN history : history[i].of # session}
        /\ Where(history, Mixed)
             = {i \in DOMAIN history :
                  history[i].since \notin {Nobody, history[i].of}}
    BY DEF IInv, StatTypeOK, Where, Foreign, Mixed
  <2>2. session \in Nat
    BY DEF IInv, StatTypeOK
  <2> QED
    BY <2>1, <2>2, CountsAreNaturals DEF IInv, Few, LateSamplesAreFew
<1> QED
  BY <1>1, <1>2, <1>3, PTL DEF StatSpec
=============================================================================
