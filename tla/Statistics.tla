----------------------------- MODULE Statistics ------------------------------
(***************************************************************************)
(* The counters behind the live view: one goroutine per connection reads   *)
(* what the core has carried, one more, for a group, asks which member it  *)
(* uses and times a handshake to each (internal/daemon/engine.go, the part *)
(* "stats"; traffic.go, balancer.go, latency.go).                          *)
(*                                                                         *)
(* Both are told to end by a channel that nobody waits to see obeyed, both *)
(* ask without the engine's mutex and write what they were told with it,   *)
(* and every core answers on the same port.  So a reading may be of a core *)
(* other than the one of its goroutine, and be written under a third.      *)
(* Only that is kept of a reading: whose core gave it, by the number of    *)
(* its connection.                                                         *)
(***************************************************************************)
EXTENDS Naturals, Sequences, FiniteSets

CONSTANTS
  HistorySize,      \* samples the chart holds: 300
  Plans,            \* what is connected, one after the other: sequences of Targets
  MaxQuestions      \* bound on the questions asked of cores and of servers

\* One server, a group whose strategy looks at the health of its members, and one
\* whose strategy does not.
Targets == {"server", "healthAware", "healthBlind"}

ASSUME PlansAssumption == Plans \subseteq Seq(Targets)

VARIABLES
  session,    \* e.connected: the connection that is up
  plan,       \* e.group, of each connection: the plan of the behaviour
  last,       \* how many connections there were
  connecting, \* e.mu is held by a connect
  serving,    \* whose core answers on the port
  running,    \* the connections whose statsStop has not been closed
  reader,     \* the goroutine that reads the counters, and what it holds
  prober,     \* the goroutine that asks about the members, and what it holds
  totals, prev,       \* e.stats, e.prevStats
  history,
  memberOrder, memberPing,
  questions

view == <<totals, prev, history, memberOrder, memberPing>>
statVars == <<session, plan, last, connecting, serving, running, reader,
              prober, view, questions>>

Sessions == DOMAIN plan
Nobody == 0         \* no connection, no core, no reading

Asleep(step) == [at |-> step, of |-> Nobody, since |-> Nobody]
Unborn == Asleep("unborn")

IsGroup(k) == plan[k] # "server"
AskBalancer(k) == plan[k] = "healthAware"

StatInit ==
  /\ session = Nobody /\ last = 0 /\ connecting = FALSE /\ serving = Nobody
  /\ plan \in Plans /\ running = {}
  /\ reader = [k \in Sessions |-> Unborn]
  /\ prober = [k \in Sessions |-> Unborn]
  /\ totals = Nobody /\ prev = Nobody /\ history = <<>>
  /\ memberOrder = Nobody /\ memberPing = Nobody /\ questions = 0

-----------------------------------------------------------------------------
\* The engine.

\* Every teardown closes the channel first and stops the core last.
StopStats ==
  /\ running' = {} /\ totals' = Nobody /\ prev' = Nobody
  /\ session' = Nobody /\ serving' = Nobody
  /\ UNCHANGED <<plan, last, reader, prober, history, memberOrder, memberPing,
                 questions>>

HangUp == ~connecting /\ session # Nobody /\ StopStats /\ UNCHANGED connecting

Dial == ~connecting /\ last < Len(plan) /\ StopStats /\ connecting' = TRUE

\* The core answers some time before the connect is over.
CoreServes ==
  /\ connecting /\ serving = Nobody /\ serving' = last + 1
  /\ UNCHANGED <<session, plan, last, connecting, running, reader, prober, view,
                 questions>>

DialFailed == connecting /\ StopStats /\ connecting' = FALSE

StartStats_KeepsHistory(k) ==
  /\ running' = {k}
  /\ reader' = [reader EXCEPT ![k] = Asleep("wait")]
  /\ IF ~IsGroup(k) THEN UNCHANGED <<prober, memberOrder, memberPing>>
     ELSE /\ memberOrder' = Nobody /\ memberPing' = Nobody
          /\ prober' = [prober EXCEPT ![k] =
                          Asleep(IF AskBalancer(k) THEN "rank" ELSE "ping")]
  /\ UNCHANGED history

StartStats(k) ==
  /\ running' = {k} /\ history' = <<>>
  /\ reader' = [reader EXCEPT ![k] = Asleep("wait")]
  /\ IF ~IsGroup(k) THEN UNCHANGED <<prober, memberOrder, memberPing>>
     ELSE /\ memberOrder' = Nobody /\ memberPing' = Nobody
          /\ prober' = [prober EXCEPT ![k] =
                          Asleep(IF AskBalancer(k) THEN "rank" ELSE "ping")]

Connected ==
  /\ connecting /\ serving # Nobody /\ connecting' = FALSE
  /\ session' = last + 1 /\ last' = last + 1
  /\ StartStats(last + 1)
  /\ UNCHANGED <<plan, serving, totals, prev, questions>>

-----------------------------------------------------------------------------
\* The goroutines.  One that may both end and go on does either: a Go select
\* takes any of its cases that is ready.

Goes(g, k, step) == [g EXCEPT ![k] = Asleep(step)]
Engine == <<session, plan, last, connecting, serving, running>>

StatsTick(k) ==
  /\ reader[k].at = "wait" /\ reader' = Goes(reader, k, "ask")
  /\ questions < MaxQuestions /\ questions' = questions + 1
  /\ UNCHANGED <<Engine, prober, view>>

QueryStats(k) ==
  /\ reader[k].at = "ask"
  /\ \/ reader' = Goes(reader, k, "wait")
     \/ /\ serving # Nobody
        /\ reader' = [reader EXCEPT ![k] = [Asleep("told") EXCEPT !.of = serving]]
  /\ UNCHANGED <<Engine, prober, view, questions>>

\* Under the mutex: the rate is over the reading before, if there is one.
Count(k) ==
  /\ reader[k].at = "told" /\ ~connecting
  /\ totals' = reader[k].of /\ prev' = reader[k].of
  /\ reader' = [reader EXCEPT ![k].at = "counted", ![k].since = prev]
  /\ UNCHANGED <<Engine, prober, history, memberOrder, memberPing, questions>>

\* Without it: the sample is added to the chart.
AddSample(k) ==
  /\ reader[k].at = "counted" /\ reader' = Goes(reader, k, "wait")
  /\ LET longer == Append(history, [of |-> reader[k].of, since |-> reader[k].since])
     IN history' = IF Len(longer) > HistorySize THEN Tail(longer) ELSE longer
  /\ UNCHANGED <<Engine, prober, totals, prev, memberOrder, memberPing, questions>>

ReaderEnds(k) ==
  /\ reader[k].at = "wait" /\ k \notin running /\ reader' = Goes(reader, k, "over")
  /\ UNCHANGED <<Engine, prober, view, questions>>

\* The first round asks both things, each later one either.
ProberTick(k) ==
  /\ prober[k].at = "wait"
  /\ \E step \in {"ping"} \cup (IF AskBalancer(k) THEN {"rerank"} ELSE {}) :
       prober' = Goes(prober, k, step)
  /\ questions < MaxQuestions /\ questions' = questions + 1
  /\ UNCHANGED <<Engine, reader, view>>

BalancerSelection(k) ==
  /\ prober[k].at \in {"rank", "rerank"}
  /\ \E answer \in {Nobody, serving} :
       prober' = [prober EXCEPT ![k].of = answer,
                    ![k].at = IF @ = "rank" THEN "ranked" ELSE "reranked"]
  /\ UNCHANGED <<Engine, reader, view, questions>>

RefreshBalancer(k) ==
  /\ prober[k].at \in {"ranked", "reranked"} /\ ~connecting
  /\ memberOrder' = prober[k].of
  /\ prober' = Goes(prober, k, IF prober[k].at = "ranked" THEN "ping" ELSE "wait")
  /\ UNCHANGED <<Engine, reader, totals, prev, history, memberPing, questions>>

\* The handshakes are over; they were to the servers of this goroutine's group.
MeasureMembers(k) ==
  /\ prober[k].at = "ping" /\ prober' = Goes(prober, k, "measured")
  /\ UNCHANGED <<Engine, reader, view, questions>>

RefreshLatency(k) ==
  /\ prober[k].at = "measured" /\ ~connecting /\ memberPing' = k
  /\ prober' = Goes(prober, k, "wait")
  /\ UNCHANGED <<Engine, reader, totals, prev, history, memberOrder, questions>>

ProberEnds(k) ==
  /\ prober[k].at = "wait" /\ k \notin running /\ prober' = Goes(prober, k, "over")
  /\ UNCHANGED <<Engine, reader, view, questions>>

StatNext ==
  \/ HangUp \/ Dial \/ CoreServes \/ DialFailed \/ Connected
  \/ \E k \in Sessions :
       \/ StatsTick(k) \/ QueryStats(k) \/ Count(k) \/ AddSample(k) \/ ReaderEnds(k)
       \/ ProberTick(k) \/ BalancerSelection(k) \/ RefreshBalancer(k)
       \/ MeasureMembers(k) \/ RefreshLatency(k) \/ ProberEnds(k)

StatSpec == StatInit /\ [][StatNext]_statVars

-----------------------------------------------------------------------------
(***************************************************************************)
(* Properties.                                                             *)
(***************************************************************************)

\* The chart of a connection (history, emptied by startStatsLocked) holds at
\* most one sample of another core for each reader there was before its own,
\* and each of them spoils at most two rates: its own and the next one's.
LateSamplesAreFew ==
  LET late == {i \in DOMAIN history : history[i].of # session}
      mixed == {i \in DOMAIN history : history[i].since \notin {Nobody, history[i].of}}
  IN session # Nobody => /\ Cardinality(late) < session
                         /\ Cardinality(mixed) <= 2 * (session - 1)

\* Refuted: a reader that was behind the mutex, or between it and the chart,
\* brings its sample to the chart of the next connection (traffic.go:67).
ChartIsOfThisConnection ==
  session # Nobody => \A i \in DOMAIN history : history[i].of = session

\* Refuted: the ranks are "empty when the core could not be asked" (engine.go:105).
\* The answer about the group before is written under one whose core is never
\* asked, and stays until that connection ends.
RanksWereAskedFor ==
  (session # Nobody /\ plan[session] = "healthBlind") => memberOrder = Nobody
=============================================================================
