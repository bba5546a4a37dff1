----------------------------- MODULE LogJournal -----------------------------
(***************************************************************************)
(* The daemon's log: the ring of lines, the error journal and the banner   *)
(* (internal/daemon/logring.go), the tally of what the core keeps          *)
(* repeating (faults.go) and the mirror in the system log (syslog.go).     *)
(*                                                                         *)
(* Every engine step, request handler and output pump writes to it.  The   *)
(* ring, the tally and the mirror have a lock each, so an operation that   *)
(* needs two of them, or one of them twice, is cut into steps: todo holds  *)
(* what a goroutine has still to write.  Lines are abstract: a message is  *)
(* what makes two failures the same failure, a key what makes two lines of *)
(* the core the same fault.                                                *)
(***************************************************************************)
EXTENDS Naturals, Sequences, FiniteSets, SequencesExt

CONSTANTS
  Writers,      \* goroutines that write
  Messages,     \* the failures the daemon may report
  CoreLines,    \* the lines the core may write: [key, level, ws, fatal]
  RingSize, JournalSize,         \* 2000 and 100
  EveryNth,     \* a repeated failure is logged every so often: 10
  BurstSize, BurstWindow,        \* 10 and 8 minutes
  TableLimit,   \* how many faults are told apart: 40
  RetryAfter,   \* the minute between two looks for the system log
  MaxLines, MaxTime              \* bounds on what is written, and on time

Levels == <<"debug", "info", "warning", "error">>
Rank(level) == CHOOSE i \in DOMAIN Levels : Levels[i] = level
AtLeast(level, min) == Rank(level) >= Rank(min)

ASSUME SizesAssumption ==
  /\ {RingSize, JournalSize, EveryNth, BurstSize} \subseteq Nat \ {0}
  /\ {BurstWindow, TableLimit, RetryAfter, MaxLines, MaxTime} \subseteq Nat
ASSUME LinesAssumption ==
  /\ "none" \notin Messages
  /\ \A l \in CoreLines : l.level \in {Levels[i] : i \in DOMAIN Levels}

VARIABLES
  entries, next, full,           \* the ring
  errors, errNext, errFull,      \* the journal
  lastError,    \* the banner
  items, missed,                 \* the tally
  conn, nextTry,                 \* the socket to the system log
  logd,         \* the system log listens, and since when it does or does not
  todo,         \* what each goroutine has still to do
  now,
  \* what happened: the lines and the failures since the last clear, the
  \* occurrences of each fault and those reported since the last reset, whether
  \* the last line for the system log got there
  stream, filed, seen, reported, mirrored, written

ringVars == <<entries, next, full>>
journalVars == <<errors, errNext, errFull, lastError>>
tallyVars == <<items, missed>>
sinkVars == <<conn, nextTry, mirrored>>
told == <<stream, filed, seen, reported>>
logVars == <<ringVars, journalVars, tallyVars, sinkVars, logd, todo, now, told,
             written>>

NoEntry == [level |-> "none", text |-> "none"]
NoError == [text |-> "none", repeats |-> 0]
NoBanner == "none"
Line(level, text) == [level |-> level, text |-> text]

Times(s) == {s[i] : i \in DOMAIN s}
Newest(s, n) == SubSeq(s, IF Len(s) > n THEN Len(s) - n + 1 ELSE 1, Len(s))

-----------------------------------------------------------------------------
\* The ring and the journal are arrays written round and round.

RoundRobin_NeverFull(array, i, wrapped, x, size) ==
  [array |-> [array EXCEPT ![i] = x], next |-> (i + 1) % size,
   full |-> wrapped]
RoundRobin(array, i, wrapped, x, size) ==
  [array |-> [array EXCEPT ![i] = x], next |-> (i + 1) % size,
   full |-> wrapped \/ i + 1 = size]

\* The slots that hold something, in their order.
Used(slots, unused) ==
  LET kept[i \in 0..Len(slots)] ==
        IF i = 0 THEN <<>>
        ELSE IF slots[i] = unused THEN kept[i - 1]
             ELSE Append(kept[i - 1], slots[i])
  IN kept[Len(slots)]

\* What the readers make of it, the oldest first, without the unused slots.
InOrder(array, i, wrapped, size, unused) ==
  LET at(k) == array[IF wrapped THEN (i + k - 1) % size ELSE k - 1]
  IN Used([k \in 1..(IF wrapped THEN size ELSE i) |-> at(k)], unused)

Entries == InOrder(entries, next, full, RingSize, NoEntry)
Errors == InOrder(errors, errNext, errFull, JournalSize, NoError)

\* A warning also goes to the system log.  A socket that has died is opened anew
\* once; one that cannot be opened is tried again after a while.
SinkWrite_NoReconnect(level) ==
  IF ~AtLeast(level, "warning") THEN UNCHANGED sinkVars
  ELSE IF conn = "none" /\ now < nextTry
       THEN mirrored' = FALSE /\ UNCHANGED <<conn, nextTry>>
       ELSE /\ mirrored' = (conn = "open" \/ (conn = "none" /\ logd.up))
            /\ conn' = IF conn # "none" THEN conn
                       ELSE IF logd.up THEN "open" ELSE "none"
            /\ nextTry' = IF logd.up THEN nextTry ELSE now + RetryAfter

SinkWrite(level) ==
  IF ~AtLeast(level, "warning") THEN UNCHANGED sinkVars
  ELSE IF conn = "none" /\ now < nextTry
       THEN mirrored' = FALSE /\ UNCHANGED <<conn, nextTry>>
       ELSE /\ mirrored' = logd.up
            /\ conn' = IF logd.up THEN "open" ELSE "none"
            /\ nextTry' = IF logd.up THEN nextTry ELSE now + RetryAfter

Emit(line) ==
  LET r == RoundRobin(entries, next, full, line, RingSize)
  IN /\ entries' = r.array /\ next' = r.next /\ full' = r.full
     /\ stream' = Append(stream, line)
     /\ written < MaxLines /\ written' = written + 1
     /\ SinkWrite(line.level)

Do(w, steps) == todo' = [todo EXCEPT ![w] = steps]
Ready(w) == todo[w] = <<>>

-----------------------------------------------------------------------------
\* Failures.

NewestError ==
  LET i == (errNext + JournalSize - 1) % JournalSize
  IN IF (errNext = 0 /\ ~errFull) \/ errors[i] = NoError
     THEN JournalSize ELSE i             \* JournalSize stands for "there is none"

\* The same failure as the newest is counted there, any other takes a slot.
Fail(w, msg) ==
  /\ Ready(w)
  /\ LET i == NewestError
         again == i # JournalSize /\ errors[i].text = msg
         r == RoundRobin(errors, errNext, errFull,
                         [text |-> msg, repeats |-> 0], JournalSize)
         count == errors[i].repeats + 2
     IN IF again
        THEN /\ errors' = [errors EXCEPT ![i].repeats = @ + 1]
             /\ UNCHANGED <<errNext, errFull>>
             /\ filed' = [filed EXCEPT ![Len(filed)].repeats = @ + 1]
             /\ Do(w, IF count % EveryNth = 0
                      THEN <<Line("warning", msg)>> ELSE <<>>)
        ELSE /\ errors' = r.array /\ errNext' = r.next /\ errFull' = r.full
             /\ filed' = Append(filed, [text |-> msg, repeats |-> 0])
             /\ Do(w, <<Line("error", msg), Line("warning", "hint")>>)
  /\ lastError' = msg
  /\ UNCHANGED <<ringVars, tallyVars, sinkVars, logd, now, stream, seen,
                 reported, written>>

ClearErrors ==
  /\ errors' = [i \in 0..(JournalSize - 1) |-> NoError]
  /\ errNext' = 0 /\ errFull' = FALSE /\ lastError' = NoBanner
  /\ filed' = <<>>

ClearJournal(w) ==
  /\ Ready(w) /\ ClearErrors
  /\ UNCHANGED <<ringVars, tallyVars, sinkVars, logd, todo, now, stream, seen,
                 reported, written>>

\* Clear lets go of the lock between the journal and the lines.
Clear(w) ==
  /\ Ready(w) /\ ClearErrors
  /\ Do(w, <<Line("none", "clear")>>)
  /\ UNCHANGED <<ringVars, tallyVars, sinkVars, logd, now, stream, seen,
                 reported, written>>

ClearEntries(w) ==
  /\ todo[w] # <<>> /\ Head(todo[w]).level = "none"
  /\ Do(w, <<>>)
  /\ entries' = [i \in 0..(RingSize - 1) |-> NoEntry]
  /\ next' = 0 /\ full' = FALSE
  /\ stream' = <<>>
  /\ UNCHANGED <<journalVars, tallyVars, sinkVars, logd, now, filed, seen,
                 reported, written>>

\* A successful connect, or the operator, dismisses the banner.
ClearLastError(w) ==
  /\ Ready(w) /\ lastError # NoBanner
  /\ lastError' = NoBanner
  /\ UNCHANGED <<ringVars, errors, errNext, errFull, tallyVars, sinkVars, logd,
                 todo, now, told, written>>

-----------------------------------------------------------------------------
\* What the core writes.

NoItem == [count |-> 0, recent |-> <<>>, bursts |-> 0]

\* One more occurrence of a fault: the tally's row, and whether it is a burst.
Occurrence_KeepRun(item) ==
  LET recent == Newest(Append(item.recent, now), BurstSize)
      burst == Len(recent) = BurstSize /\ now - recent[1] <= BurstWindow
  IN [row |-> [count |-> item.count + 1, recent |-> recent,
               bursts |-> item.bursts + IF burst THEN 1 ELSE 0],
      burst |-> burst]
Occurrence(item) ==
  LET recent == Newest(Append(item.recent, now), BurstSize)
      burst == Len(recent) = BurstSize /\ now - recent[1] <= BurstWindow
  IN [row |-> [count |-> item.count + 1,
               recent |-> IF burst THEN <<>> ELSE recent,
               bursts |-> item.bursts + IF burst THEN 1 ELSE 0],
      burst |-> burst]

Counted(l) == AtLeast(l.level, "error")
Filtered(l) == l.ws /\ ~l.fatal
Tracked(l) == l.key \in DOMAIN items \/ Cardinality(DOMAIN items) < TableLimit

\* The tally is asked first; the line is written later, or not at all.
AddProcessLine(w, l) ==
  /\ Ready(w)
  /\ LET item == IF l.key \in DOMAIN items THEN items[l.key] ELSE NoItem
         o == Occurrence(item)
         burst == Tracked(l) /\ o.burst
     IN /\ IF ~Counted(l) THEN UNCHANGED <<tallyVars, seen, reported>>
           ELSE IF Tracked(l)
           THEN /\ items' = [k \in DOMAIN items \cup {l.key} |->
                              IF k = l.key THEN o.row ELSE items[k]]
                /\ seen' = [seen EXCEPT ![l.key] = Append(@, now)]
                /\ reported' = IF burst
                               THEN [reported EXCEPT ![l.key] =
                                       Append(@, Len(seen[l.key]) + 1)]
                               ELSE reported
                /\ UNCHANGED missed
           ELSE missed' = missed + 1 /\ UNCHANGED <<items, seen, reported>>
        /\ Do(w, IF Counted(l) /\ Filtered(l) /\ Tracked(l) /\ ~burst THEN <<>>
                 ELSE <<Line(l.level, l.key)>>)
  /\ written < MaxLines /\ written' = written + 1
  /\ UNCHANGED <<ringVars, journalVars, sinkVars, logd, now, stream, filed>>

\* A core is started: what it repeats is counted from here.
ResetFaults(w) ==
  /\ Ready(w) /\ DOMAIN items # {}
  /\ items' = <<>> /\ missed' = 0
  /\ seen' = [k \in DOMAIN seen |-> <<>>]
  /\ reported' = [k \in DOMAIN reported |-> <<>>]
  /\ UNCHANGED <<ringVars, journalVars, sinkVars, logd, todo, now, stream,
                 filed, written>>

\* What the status page shows: the faults that have burst, the worst first.
Top(n) ==
  LET worth == {k \in DOMAIN items : items[k].bursts > 0}
      all == CHOOSE s \in [1..Cardinality(worth) -> worth] :
               /\ IsInjective(s)
               /\ \A i, j \in DOMAIN s :
                    i < j => items[s[i]].count >= items[s[j]].count
  IN IF n > 0 THEN SubSeq(all, 1, IF Len(all) < n THEN Len(all) ELSE n)
     ELSE all

-----------------------------------------------------------------------------
\* A line that is due is written; logd is started and stopped; time passes.

Write(w) ==
  /\ todo[w] # <<>> /\ Head(todo[w]).level # "none"
  /\ Emit(Head(todo[w]))
  /\ Do(w, Tail(todo[w]))
  /\ UNCHANGED <<journalVars, tallyVars, logd, now, filed, seen, reported>>

LogdTurns ==
  /\ now < MaxTime
  /\ logd' = [up |-> ~logd.up, since |-> now]
  /\ conn' = IF conn = "open" THEN "dead" ELSE conn
  /\ UNCHANGED <<ringVars, journalVars, tallyVars, nextTry, mirrored, todo, now,
                 told, written>>

Tick ==
  /\ now < MaxTime /\ now' = now + 1
  /\ UNCHANGED <<ringVars, journalVars, tallyVars, sinkVars, logd, todo, told,
                 written>>

Keys == {l.key : l \in CoreLines}

LogInit ==
  /\ entries = [i \in 0..(RingSize - 1) |-> NoEntry] /\ next = 0 /\ full = FALSE
  /\ errors = [i \in 0..(JournalSize - 1) |-> NoError]
  /\ errNext = 0 /\ errFull = FALSE /\ lastError = NoBanner
  /\ items = <<>> /\ missed = 0
  /\ logd \in [up : BOOLEAN, since : {0}]
  /\ conn = IF logd.up THEN "open" ELSE "none"
  /\ nextTry = IF logd.up THEN 0 ELSE RetryAfter
  /\ mirrored = TRUE
  /\ todo = [w \in Writers |-> <<>>] /\ now = 0
  /\ stream = <<>> /\ filed = <<>> /\ written = 0
  /\ seen = [k \in Keys |-> <<>>] /\ reported = [k \in Keys |-> <<>>]

LogNext ==
  \/ \E w \in Writers : \/ \E m \in Messages : Fail(w, m)
                        \/ \E l \in CoreLines : AddProcessLine(w, l)
                        \/ ClearJournal(w) \/ Clear(w) \/ ClearEntries(w)
                        \/ ClearLastError(w) \/ ResetFaults(w) \/ Write(w)
  \/ LogdTurns \/ Tick

LogSpec == LogInit /\ [][LogNext]_logVars

-----------------------------------------------------------------------------
\* Properties.

\* Whatever was written, cleared and overtaken, a reader is given the newest
\* lines since the last clear and the newest failures since theirs, in order and
\* with their repeats; and the banner is the newest failure or nothing.
ReadersSeeTheTail ==
  /\ Entries = Newest(stream, RingSize)
  /\ Errors = Newest(filed, JournalSize)
  /\ lastError # NoBanner => filed # <<>> /\ lastError = Last(filed).text

\* Faults of a lossy line are news when they come fast and not otherwise: what
\* is reported came within the window and was in no earlier report, no run that
\* came within it was passed over, and the status page shows the same faults.
BurstsAreNews ==
  /\ \A k \in Keys :
       LET s == seen[k]
           starts == {0} \cup Times(reported[k])
           within(i) == s[i] - s[i - BurstSize + 1] <= BurstWindow
       IN \A i \in DOMAIN s :
            i \in Times(reported[k]) <=>
              /\ i >= BurstSize
              /\ \A b \in starts : b < i => b <= i - BurstSize
              /\ within(i)
  /\ Times(Top(0)) = {k \in Keys : reported[k] # <<>>}

\* A restart of the system log costs at most the lines of a minute: a warning
\* written when it has been there for longer reaches it.
MirrorRecovers ==
  [][/\ mirrored' = FALSE /\ written' # written /\ stream' # stream
     /\ AtLeast(Last(stream').level, "warning")
     => ~logd.up \/ now - logd.since < RetryAfter]_logVars
=============================================================================
