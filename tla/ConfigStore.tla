---------------------------- MODULE ConfigStore -----------------------------
(***************************************************************************)
(* The configuration of the device and everything that rewrites it: the    *)
(* UCI store (internal/ucicfg), the handlers that edit it (internal/api),  *)
(* the reconciliation of subscriptions (internal/model), and the engine,   *)
(* which reads it when it connects, writes the selection when it has       *)
(* connected, and says whether what is stored is what is running           *)
(* (internal/daemon/fingerprint.go).                                       *)
(*                                                                         *)
(* A store operation holds the store's lock and is one step.  A handler    *)
(* that waits between reading and writing (a download, a handshake, a      *)
(* connect) is two, and the store may change in between.                   *)
(***************************************************************************)
EXTENDS CoreConfig

CONSTANTS
  Offers,       \* the servers that forms, share links and listings describe
  Listings,     \* what a subscription may return
  Rulebook,     \* the rules the operator writes
  Groupings,    \* the strategies the operator gives groups
  Changes,      \* [field, value]: what one settings form changes
  Documents,    \* whole configurations the operator may paste
  Pins,         \* the certificates servers present
  FirstData,    \* what the device starts with
  UsesBinary,   \* the uci binary, or a file that is rewritten
  MaxIds, MaxRequests, MaxFails   \* bounds: sections made, requests, failures

VARIABLES
  file,         \* the committed sections, in order
  staged,       \* what uci export shows: the file and the edits not committed
  running,      \* Absent, or [target, made, core]: what the tunnel was built of,
                \* and the configuration its core was given
  dialing,      \* Absent, or a connect between its reading and its writing
  job,          \* Absent, or a handler between its reading and its writing
  minted, requests, fails

vars == <<file, staged, running, dialing, job, minted, requests, fails>>

-----------------------------------------------------------------------------
\* Sections.

OfType(f, type) == SelectSeq(f, LAMBDA x : x.type = type)
Ids(list) == {x.id : x \in Range(list)}

\* The settings are read option by option, whatever else the section holds.
Settings(x) ==
  [type |-> "main", id |-> x.id, enabled |-> x.enabled, active |-> x.active,
   kind |-> x.kind, mode |-> x.mode, dns |-> x.dns, sniff |-> x.sniff,
   keeps |-> x.keeps, auto |-> x.auto]

\* A configuration is read from sections and written as sections.
Load(f) ==
  [main |-> Normal(Settings(OfType(f, "main")[1])),
   profiles |-> OfType(f, "profile"),
   groups |-> OfType(f, "group"), rules |-> OfType(f, "rule"),
   subs |-> OfType(f, "sub")]
Sections(d) == <<d.main>> \o d.profiles \o d.groups \o d.rules \o d.subs

\* uci: a section that is there keeps its place, a new one comes last.
Set(f, x) ==
  IF x.id \in Ids(f) THEN [i \in DOMAIN f |-> IF f[i].id = x.id THEN x ELSE f[i]]
  ELSE Append(f, x)
Without(f, ids) == SelectSeq(f, LAMBDA x : x.id \notin ids)

\* The sections that go are deleted, then those of the new package are set; a
\* command that fails leaves what was staged by then.
AfterDeletes(f, s, n) ==
  Without(f, Ids(SubSeq(Without(f, Ids(s)), 1, n)))
AfterSets(f, s, n) ==
  FoldLeft(Set, Without(f, Ids(f) \ Ids(s)), SubSeq(s, 1, n))
Torn(f, s) == {AfterDeletes(f, s, n) : n \in 0..Len(Without(f, Ids(s)))}
              \cup {AfterSets(f, s, n) : n \in 0..Len(s)}

Stored == Load(staged)

Commit(d) ==
  /\ staged' = IF UsesBinary THEN AfterSets(file, Sections(d), Len(Sections(d)))
               ELSE Sections(d)
  /\ file' = staged' /\ UNCHANGED fails
Abort(d) ==
  /\ fails < MaxFails /\ fails' = fails + 1
  /\ staged' \in IF UsesBinary THEN Torn(file, Sections(d)) ELSE {staged}
  /\ UNCHANGED file
Save(d) == Commit(d) \/ Abort(d)
NoSave == UNCHANGED <<file, staged, fails>>

Named(list, id) == \E x \in Range(list) : x.id = id
Get(list, id) == list[SelectInSeq(list, LAMBDA x : x.id = id)]
Replace(list, x) ==
  [i \in DOMAIN list |-> IF list[i].id = x.id THEN x ELSE list[i]]
Select(d, id) == [d EXCEPT !.main.active = id]

-----------------------------------------------------------------------------
\* What a connect to a target is built from, and what it builds.

Members(d, g) ==
  LET kept == SelectSeq(g.members, LAMBDA id : Named(d.profiles, id))
  IN [i \in DOMAIN kept |-> Get(d.profiles, kept[i])]

Servers(d, id) ==
  IF Named(d.groups, id) THEN Members(d, Get(d.groups, id))
  ELSE IF Named(d.profiles, id) THEN <<Get(d.profiles, id)>> ELSE <<>>

\* The settings without what cannot reach the core.
coreSettingsOf_NoSniff(s) ==
  [s EXCEPT !.active = Absent, !.kind = "profile", !.auto = FALSE,
            !.enabled = FALSE, !.sniff = "auto"]
coreSettingsOf(s) ==
  [s EXCEPT !.active = Absent, !.kind = "profile", !.auto = FALSE,
            !.enabled = FALSE]

materialFor(d, id) ==
  [active |-> id, kind |-> IF Named(d.groups, id) THEN "group" ELSE "profile",
   rules |-> d.rules, settings |-> coreSettingsOf(d.main),
   group |-> IF Named(d.groups, id) THEN Get(d.groups, id) ELSE Absent,
   servers |-> Servers(d, id)]

Connectable(d, id) ==
  IF Named(d.groups, id)
  THEN ValidGroup(Get(d.groups, id)) /\ Servers(d, id) # <<>>
  ELSE Named(d.profiles, id) /\ ValidProfile(Get(d.profiles, id))

Compile(d, id) ==
  Build(d.main, Servers(d, id),
        IF Named(d.groups, id) THEN Get(d.groups, id).strategy ELSE Absent,
        d.rules, {})
Builds(d, id) == CanBuild(Servers(d, id), d.rules, Features)

ConfigChanged ==
  running # Absent /\ materialFor(Stored, Stored.main.active) # running.made

-----------------------------------------------------------------------------
\* Requests that are one store operation.

Request == requests < MaxRequests /\ requests' = requests + 1
Mint(n) == minted + n <= MaxIds /\ minted' = minted + n
Id(n) == minted + n
Idle == UNCHANGED <<running, dialing, job>>

Profile(p, id, sub) == [type |-> "profile", id |-> id, sub |-> sub] @@ p
Rule(r, id) == [type |-> "rule", id |-> id] @@ r
Group(members, st, id) ==
  [type |-> "group", id |-> id, members |-> members, strategy |-> st,
   probe |-> "ok"]

Subscription(id, count) == [type |-> "sub", id |-> id, count |-> count]

\* Update: read, change, write, under one lock.
Update(d) == Save(d) /\ Idle
Drop(d, part, id) == [d EXCEPT ![part] = Without(@, {id})]

createProfile(p) ==
  /\ ValidProfile(p) /\ Request /\ Mint(1)
  /\ Update([Stored EXCEPT !.profiles = Append(@, Profile(p, Id(1), Absent))])

\* Links are taken as they are, under the subscription the caller names.
importProfiles(p, sub) ==
  /\ Request /\ Mint(1)
  /\ Update([Stored EXCEPT !.profiles = Append(@, Profile(p, Id(1), sub))])

\* The caller's profile takes the place of the stored one, its subscription with
\* it: a caller that leaves it out makes the profile one of the operator's own.
updateProfile(id, p, sub) ==
  /\ ValidProfile(p) /\ Named(Stored.profiles, id)
  /\ Request /\ UNCHANGED minted
  /\ Update([Stored EXCEPT !.profiles = Replace(@, Profile(p, id, sub))])

PruneMembers(groups, profiles) ==
  [i \in DOMAIN groups |->
     [groups[i] EXCEPT !.members =
        SelectSeq(@, LAMBDA id : Named(profiles, id))]]

ProfileDropped_KeepsActive(d, id) ==
  [Drop(d, "profiles", id) EXCEPT
     !.groups = [i \in DOMAIN @ |->
        [@[i] EXCEPT !.members = SelectSeq(@, LAMBDA m : m # id)]]]
ProfileDropped(d, id) ==
  [Drop(d, "profiles", id) EXCEPT
     !.main.active = IF @ = id THEN Absent ELSE @,
     !.groups = [i \in DOMAIN @ |->
        [@[i] EXCEPT !.members = SelectSeq(@, LAMBDA m : m # id)]]]
deleteProfile(id) ==
  /\ Request /\ UNCHANGED minted
  /\ Update(ProfileDropped(Stored, id))

validGroup(d, members) ==
  /\ members # <<>> /\ IsInjective(members)
  /\ \A id \in Range(members) : Named(d.profiles, id)
createGroup(members, st) ==
  /\ validGroup(Stored, members) /\ Request /\ Mint(1)
  /\ Update([Stored EXCEPT !.groups = Append(@, Group(members, st, Id(1)))])
updateGroup(id, members, st) ==
  /\ validGroup(Stored, members) /\ Named(Stored.groups, id)
  /\ Request /\ UNCHANGED minted
  /\ Update([Stored EXCEPT !.groups = Replace(@, Group(members, st, id))])
deleteGroup(id) ==
  /\ Request /\ UNCHANGED minted
  /\ LET d == Drop(Stored, "groups", id)
     IN Update(IF d.main.active # id THEN d
               ELSE [d EXCEPT !.main.active = Absent, !.main.kind = "profile"])

createRule(r) ==
  /\ ValidRule(r) /\ Request /\ Mint(1)
  /\ Update([Stored EXCEPT !.rules = Append(@, Rule(r, Id(1)))])
updateRule(id, r) ==
  /\ ValidRule(r) /\ Named(Stored.rules, id) /\ Request /\ UNCHANGED minted
  /\ Update([Stored EXCEPT !.rules = Replace(@, Rule(r, id))])
replaceRules(list) ==
  /\ \A r \in Range(list) : ValidRule(r)
  /\ Request /\ UNCHANGED minted
  /\ Update([Stored EXCEPT !.rules = list])
deleteRule(id) ==
  /\ Request /\ UNCHANGED minted /\ Update(Drop(Stored, "rules", id))

\* The selection survives the servers it leaves with only where there are none.
deleteSubscription(id) ==
  /\ Request /\ UNCHANGED minted
  /\ LET d == [Drop(Stored, "subs", id) EXCEPT
                 !.profiles = SelectSeq(@, LAMBDA p : p.sub # id)]
     IN Update(IF Named(d.profiles, d.main.active) THEN d ELSE Select(d, Absent))

-----------------------------------------------------------------------------
\* Requests that wait: settings, whole documents, certificates, subscriptions.

Begin(j) == job = Absent /\ job' = j /\ UNCHANGED <<running, dialing>>
End == job' = Absent /\ UNCHANGED <<running, dialing>>
Sets(change, s) == Normal([s EXCEPT ![change.field] = change.value])
Affects(a, b) == a # [b EXCEPT !.auto = a.auto]

putSettings(change) ==
  /\ Request /\ UNCHANGED minted
  /\ LET before == Stored.main
         after == Sets(change, before)
         d == [Stored EXCEPT !.main = after]
     IN \/ Commit(d) /\ IF Affects(before, after)
                        THEN Begin([op |-> "applying"]) ELSE Idle
        \/ Abort(d) /\ Idle

\* Safe to save, as the checker sees it.
Check(d) ==
  LET ids == Ids(d.profiles) \cup Ids(d.groups)
  IN /\ IsInjective([i \in DOMAIN d.profiles |-> d.profiles[i].id])
     /\ IsInjective([i \in DOMAIN d.groups |-> d.groups[i].id])
     /\ IsInjective([i \in DOMAIN d.rules |-> d.rules[i].id])
     /\ Ids(d.profiles) \cap Ids(d.groups) = {}
     /\ \A p \in Range(d.profiles) : ValidProfile(p)
     /\ \A g \in Range(d.groups) : /\ ValidGroup(g)
                                   /\ Range(g.members) \subseteq Ids(d.profiles)
     /\ d.main.active \in ids \cup {Absent}

\* What the engine owns is taken from what is stored now.
putConfig(doc) ==
  /\ Request /\ NoSave /\ UNCHANGED minted
  /\ LET now == Stored.main
         next == [doc EXCEPT !.main = Normal([@ EXCEPT !.enabled = now.enabled,
                                                       !.kind = now.kind])]
     IN Check(next) /\ Begin([op |-> "editing", data |-> next])
DocumentSaved ==
  /\ job # Absent /\ job.op = "editing"
  /\ Save(job.data) /\ End /\ UNCHANGED <<minted, requests>>

\* The certificate is read off the wire; one that differs from what was pinned
\* when the request came in is refused unless the caller insists.
fetchCert(id) ==
  /\ Named(Stored.profiles, id) /\ Get(Stored.profiles, id).sec = "tls"
  /\ Request /\ NoSave /\ UNCHANGED minted
  /\ Begin([op |-> "pinning", id |-> id, had |-> Get(Stored.profiles, id).pin])
Amend(d, p) == [d EXCEPT !.profiles = Replace(@, p)]
CertRefused ==
  /\ job # Absent /\ job.op = "pinning"
  /\ NoSave /\ End /\ UNCHANGED <<minted, requests>>
CertFetched(pin, unver, replace) ==
  /\ job # Absent /\ job.op = "pinning"
  /\ (job.had \in {Absent, pin} \/ replace) /\ Named(Stored.profiles, job.id)
  /\ Save(Amend(Stored, [Get(Stored.profiles, job.id) EXCEPT
                           !.pin = pin, !.unver = unver, !.insecure = FALSE]))
  /\ End
  /\ UNCHANGED <<minted, requests>>

\* A subscription is stored first and taken back when it cannot be read.
RefreshBegins(sub, creating) ==
  Begin([op |-> "fetching", sub |-> sub, creating |-> creating,
         at |-> IF Named(Stored.profiles, Stored.main.active)
                THEN Get(Stored.profiles, Stored.main.active).at ELSE Absent])
createSubscription ==
  /\ Request /\ Mint(1)
  /\ LET d == [Stored EXCEPT !.subs = Append(@, Subscription(Id(1), 0))]
     IN \/ Commit(d) /\ RefreshBegins(Id(1), TRUE)
        \/ Abort(d) /\ Idle
refreshSubscription(sub) ==
  /\ Named(Stored.subs, sub) /\ Request /\ NoSave /\ UNCHANGED minted
  /\ RefreshBegins(sub, FALSE)

Identity(p) == <<p.proto, p.at, p.user, p.name>>
SameServer(a, b) == Identity(a) = Identity(b)

\* The n-th of the listing's entries for one server is the n-th of the stored.
OfServer(list, p) == SelectSeq(list, LAMBDA x : SameServer(x, p))
Was_UsedTwice(mine, listing, i) ==
  LET same == OfServer(mine, listing[i])
  IN IF same = <<>> THEN {} ELSE {same[1]}
Was(mine, listing, i) ==
  LET n == Len(OfServer(SubSeq(listing, 1, i), listing[i]))
      same == OfServer(mine, listing[i])
  IN IF n <= Len(same) THEN {same[n]} ELSE {}

Fresh(mine, listing, i) ==
  Cardinality({k \in 1..i : Was(mine, listing, k) = {}})
MergeSubscription(stored, listing, sub) ==
  LET mine == SelectSeq(stored, LAMBDA p : p.sub = sub)
      entry(i) ==
        LET was == Was(mine, listing, i)
            old == CHOOSE p \in was : TRUE
        IN IF was = {} THEN Profile(listing[i], Id(Fresh(mine, listing, i)), sub)
           ELSE [Profile(listing[i], old.id, sub) EXCEPT
                   !.pin = IF @ = Absent THEN old.pin ELSE @]
  IN SelectSeq(stored, LAMBDA p : p.sub # sub)
     \o [i \in DOMAIN listing |-> entry(i)]

\* The selection follows the endpoint that was selected before the download.
Refreshed(d, j, listing) ==
  LET merged == MergeSubscription(d.profiles, listing, j.sub)
      there == SelectSeq(merged, LAMBDA p : p.sub = j.sub /\ p.at = j.at)
  IN [d EXCEPT
        !.profiles = merged,
        !.groups = PruneMembers(@, merged),
        !.subs = Replace(@, Subscription(j.sub, Len(listing))),
        !.main.active = IF there # <<>> THEN Last(there).id
                        ELSE IF Named(merged, @) THEN @ ELSE Absent]

TakenBack == IF job.creating
             THEN job' = [op |-> "undoing", sub |-> job.sub] ELSE job' = Absent
RefreshFetched(listing) ==
  /\ job # Absent /\ job.op = "fetching"
  /\ LET d == Refreshed(Stored, job, listing)
         mine == SelectSeq(Stored.profiles, LAMBDA p : p.sub = job.sub)
     IN /\ Mint(Fresh(mine, listing, Len(listing)))
        /\ \/ Commit(d) /\ job' = Absent
           \/ Abort(d) /\ TakenBack
  /\ UNCHANGED <<running, dialing, requests>>
RefreshFails ==
  /\ job # Absent /\ job.op = "fetching"
  /\ NoSave /\ TakenBack /\ UNCHANGED <<running, dialing, minted, requests>>
SubscriptionUndone ==
  /\ job # Absent /\ job.op = "undoing"
  /\ Save(Drop(Stored, "subs", job.sub)) /\ End /\ UNCHANGED <<minted, requests>>

-----------------------------------------------------------------------------
\* The engine.  A connect holds the engine's mutex from its reading to its
\* writing, so nothing else of the engine happens in between.

Free == dialing = Absent

Dialing(d, id, back, retry) ==
  LET t == IF id = Absent THEN d.main.active ELSE id
  IN IF Connectable(d, t)
     THEN [target |-> t, made |-> materialFor(d, t),
           core |-> IF Builds(d, t) THEN Compile(d, t) ELSE Absent,
           back |-> back, retry |-> retry]
     ELSE Absent
\* What cannot be dialled is given up for what was connected before.
OrBack(d, x, back) ==
  IF x = Absent /\ back # Absent THEN Dialing(d, back, Absent, TRUE) ELSE x

Dials(id) ==
  LET was == IF running = Absent THEN Absent ELSE running.target
      back == IF was = id THEN Absent ELSE was
  IN /\ Free /\ dialing' = OrBack(Stored, Dialing(Stored, id, back, TRUE), back)
     /\ running' = Absent

Connect(id) ==
  /\ Request /\ Dials(id) /\ NoSave /\ UNCHANGED <<job, minted>>

\* Settings that were changed under a connection are applied by a connect.
ConnectedIsAsked ==
  /\ job # Absent /\ job.op = "applying" /\ Free
  /\ job' = IF running = Absent THEN Absent ELSE [op |-> "reconnecting"]
  /\ NoSave /\ UNCHANGED <<running, dialing, minted, requests>>
SettingsApplied ==
  /\ job # Absent /\ job.op = "reconnecting"
  /\ Dials(Absent) /\ job' = Absent /\ NoSave /\ UNCHANGED <<minted, requests>>

DialSucceeds ==
  /\ dialing # Absent /\ dialing.core # Absent
  /\ running' = [target |-> dialing.target, made |-> dialing.made,
                 core |-> dialing.core]
  /\ Save([Stored EXCEPT
             !.main.active = dialing.target, !.main.enabled = TRUE,
             !.main.kind = dialing.made.kind])
  /\ dialing' = Absent /\ UNCHANGED <<job, minted, requests>>

GivesUp == dialing' = OrBack(Stored, Absent, dialing.back)
DialFails ==
  /\ dialing # Absent /\ GivesUp
  /\ NoSave /\ UNCHANGED <<running, job, minted, requests>>

\* No data came back: the certificate is looked at, and where it has changed on
\* a server that is allowed to change it, it is stored and dialled again, once.
NewPin(pin) ==
  /\ dialing # Absent /\ dialing.core # Absent /\ dialing.made.kind = "profile"
  /\ LET p == dialing.made.servers[1]
         d == Amend(Stored, [Get(Stored.profiles, p.id) EXCEPT !.pin = pin])
         now == Load(staged')
         again == IF dialing.retry
                  THEN Dialing(now, dialing.target, dialing.back, FALSE)
                  ELSE Absent
     IN /\ p.auto /\ CanAutoPin(p) /\ p.pin \notin {Absent, pin}
        /\ Named(Stored.profiles, p.id)
        /\ \/ Commit(d) /\ dialing' = OrBack(now, again, dialing.back)
           \/ Abort(d) /\ GivesUp
  /\ UNCHANGED <<running, job, minted, requests>>

Disconnect ==
  /\ Request /\ Free /\ running' = Absent
  /\ Save([Stored EXCEPT !.main.enabled = FALSE])
  /\ UNCHANGED <<dialing, job, minted>>

Factory == [main |-> [type |-> "main", id |-> 0, enabled |-> FALSE,
                      active |-> Absent, kind |-> "profile", mode |-> "mixed",
                      dns |-> "dnsmasq", sniff |-> "auto", keeps |-> TRUE,
                      auto |-> TRUE],
            profiles |-> <<>>, groups |-> <<>>, rules |-> <<>>, subs |-> <<>>]
FactoryReset ==
  /\ Request /\ Free /\ running' = Absent
  /\ Save(Factory)
  /\ UNCHANGED <<dialing, job, minted>>

\* The daemon is started anew; staged edits outlive it, not the device's reboot.
Restart ==
  /\ Request
  /\ running' = Absent /\ dialing' = Absent /\ job' = Absent
  /\ staged' \in {staged, file}
  /\ UNCHANGED <<file, fails, minted>>

-----------------------------------------------------------------------------

Init ==
  /\ file = Sections(FirstData) /\ staged = file
  /\ running = Absent /\ dialing = Absent /\ job = Absent
  /\ minted = Max(Ids(file)) /\ requests = 0 /\ fails = 0

Edit ==
  LET d == Stored
      targets == Ids(d.profiles) \cup Ids(d.groups)
      lists == {<<x>> : x \in Ids(d.profiles)}
               \cup {[i \in DOMAIN d.profiles |-> d.profiles[i].id]}
  IN \/ \E p \in Offers :
          \/ createProfile(p)
          \/ \E sub \in Ids(d.subs) \cup {Absent} : importProfiles(p, sub)
          \/ \E id \in Ids(d.profiles) :
               \E sub \in {Get(d.profiles, id).sub, Absent} :
                 updateProfile(id, p, sub)
     \/ \E id \in Ids(d.profiles) : deleteProfile(id) \/ fetchCert(id)
     \/ \E m \in lists, st \in Groupings :
          createGroup(m, st) \/ \E id \in Ids(d.groups) : updateGroup(id, m, st)
     \/ \E id \in Ids(d.groups) : deleteGroup(id)
     \/ \E r \in Rulebook :
          createRule(r) \/ \E id \in Ids(d.rules) : updateRule(id, r)
     \/ replaceRules(Reverse(d.rules))
     \/ \E id \in Ids(d.rules) : deleteRule(id)
     \/ createSubscription
     \/ \E id \in Ids(d.subs) : refreshSubscription(id) \/ deleteSubscription(id)
     \/ \E change \in Changes : putSettings(change)
     \/ \E doc \in Documents \cup {d} : putConfig(doc)
     \/ \E id \in targets \cup {Absent} : Connect(id)
     \/ Disconnect \/ FactoryReset \/ Restart

Resume ==
  \/ DocumentSaved \/ CertRefused
  \/ \E pin \in Pins : \/ \E unver, replace \in BOOLEAN :
                            CertFetched(pin, unver, replace)
                       \/ NewPin(pin)
  \/ \E listing \in Listings : RefreshFetched(listing)
  \/ RefreshFails \/ SubscriptionUndone
  \/ ConnectedIsAsked \/ SettingsApplied
  \/ DialSucceeds \/ DialFails

Next == Edit \/ Resume
Spec == Init /\ [][Next]_vars

-----------------------------------------------------------------------------
\* Properties.

\* No notice means nothing to apply: while the tunnel is up and ConfigChanged
\* (fingerprint.go:111) says that what is stored is what is running, a connect
\* to the stored selection would give the core the configuration it has.
PendingTellsTruth ==
  running # Absent /\ ~ConfigChanged =>
    LET active == Stored.main.active
    IN Builds(Stored, active) /\ Compile(Stored, active) = running.core

Resolves(d) ==
  d.main.active = Absent \/ Named(d.profiles, d.main.active)
                       \/ Named(d.groups, d.main.active)

\* Nothing that removes servers leaves a selection of what is gone.  The one step
\* that can is the end of a connect whose target went while it was dialling.
SelectionResolves ==
  [][fails' = 0 /\ Resolves(Stored) =>
       \/ Resolves(Load(staged'))
       \/ /\ dialing # Absent /\ running' # Absent
          /\ Load(staged').main.active = dialing.target]_vars

\* A refresh reconciles: a server that is listed as often as it is stored keeps
\* its id, its place in the groups, and its pin; what other subscriptions and
\* the operator put there is not touched; and there are as many servers as the
\* subscription says were listed (model.go:1127, server.go:878).
RefreshKeepsIdentity ==
  [][(fails' = 0 /\ job # Absent /\ job' = Absent /\ staged' # staged)
     => job.op # "fetching" \/
        LET old == Stored
            new == Load(staged')
            in(d) == SelectSeq(d.profiles, LAMBDA p : p.sub = job.sub)
        IN /\ \A p \in Range(old.profiles) :
                \/ p \in Range(new.profiles)
                \/ /\ p.sub = job.sub
                   /\ Len(OfServer(in(old), p)) <= Len(OfServer(in(new), p)) =>
                        /\ Named(in(new), p.id)
                        /\ SameServer(Get(in(new), p.id), p)
                        /\ Get(in(new), p.id).pin = Absent => p.pin = Absent
           /\ \A g \in Range(old.groups) : \A id \in Range(g.members) :
                Named(new.profiles, id) =>
                  id \in Range(Get(new.groups, g.id).members)
           /\ \A s \in Range(new.subs) :
                s.id = job.sub => Len(in(new)) = s.count]_vars

\* The order of the rules is part of what they mean, and a list that is stored is
\* stored in its order (server.go:603).
RulesKeepTheirOrder ==
  [][replaceRules(Reverse(Stored.rules)) /\ fails' = fails =>
       Load(staged').rules = Reverse(Stored.rules)]_vars
=============================================================================
