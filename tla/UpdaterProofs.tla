--------------------------- MODULE UpdaterProofs ---------------------------
(***************************************************************************)
(* What an installer is started from, and whose progress is shown, for any *)
(* number of callers, versions and bundles, and however often the release  *)
(* page, the tunnel and the daemon change.                                 *)
(***************************************************************************)
EXTENDS Updater, TLAPS

Steps == {"idle", "checked", "latest", "sums", "bundle", "verify", "unpack",
          "start"}
Busy(c) == job[c].at \notin {"idle", "checked"}
Known == Versions \cup {Running}

\* An installer that was started as it should be.
Installations ==
  {x \in [tag : Versions, want : Bundles, runs : Bundles, over : Known] :
     x.runs = x.want /\ Newer(x.tag, x.over)}

Typed ==
  /\ newest \in Versions /\ version \in Known
  /\ installing \in BOOLEAN /\ handed \in BOOLEAN
  /\ DOMAIN job = Callers /\ \A c \in Callers : job[c].at \in Steps
  /\ dir = [file |-> dir.file, unpacked |-> dir.unpacked]
  /\ installers \in Seq(Installations)

\* What a goroutine has found by the time it is where it is.
FoundBy(c) ==
  /\ job[c].at \in {"sums", "bundle", "verify", "unpack", "start"} =>
       job[c].tag \in Versions /\ Newer(job[c].tag, version)
  /\ job[c].at \in {"bundle", "verify", "unpack", "start"} =>
       job[c].want \in Bundles
  /\ job[c].at = "verify" => dir.file = job[c].got
  /\ job[c].at = "unpack" =>
       /\ dir.file = job[c].want
       /\ job[c] = [at |-> "unpack", tag |-> job[c].tag, want |-> job[c].want]
  /\ job[c].at = "start" => dir.unpacked = job[c].want

\* The claim has one holder, whose progress is shown.
Claimed ==
  /\ installing <=> ((\E c \in Callers : Busy(c)) \/ handed)
  /\ handed => stage = "installing"
  /\ \A c \in Callers : Busy(c) =>
       /\ ~handed /\ \A d \in Callers : Busy(d) => d = c
       /\ stage = Shown(job[c].at)
       /\ job[c].at # "latest" => target = job[c].tag

IInv == Typed /\ Claimed /\ \A c \in Callers : FoundBy(c)

-----------------------------------------------------------------------------

LEMMA InitIsSafe == UpdInit => IInv
<1> SUFFICES ASSUME UpdInit PROVE IInv
  OBVIOUS
<1>1. DOMAIN job = Callers /\ \A c \in Callers : job[c].at = "idle"
  BY DEF UpdInit, Idle
<1>2. Typed
  <2>1. installers \in Seq(Installations)
    BY DEF UpdInit
  <2>2. dir = [file |-> dir.file, unpacked |-> dir.unpacked]
    BY DEF UpdInit
  <2>3. newest \in Versions /\ version \in Known
    BY DEF UpdInit, Known
  <2>4. installing \in BOOLEAN /\ handed \in BOOLEAN
    BY DEF UpdInit
  <2> QED BY <1>1, <2>1, <2>2, <2>3, <2>4 DEF Typed, Steps
<1>3. Claimed
  BY <1>1 DEF UpdInit, Claimed, Busy
<1>4. \A c \in Callers : FoundBy(c)
  BY <1>1 DEF FoundBy
<1> QED BY <1>2, <1>3, <1>4 DEF IInv

\* The invariant speaks of what the properties are about.
LEMMA ClaimedIsShown == IInv => ProgressIsTheInstalls
  BY DEF IInv, Claimed, Busy, ProgressIsTheInstalls

LEMMA InstallersAreVouchedFor == IInv => OnlyTheVouchedFor
<1> SUFFICES ASSUME IInv, NEW i \in DOMAIN installers
             PROVE  /\ installers[i].runs = installers[i].want
                    /\ Newer(installers[i].tag, installers[i].over)
  BY DEF OnlyTheVouchedFor
<1>1. installers[i] \in Installations
  BY DEF IInv, Typed
<1> QED BY <1>1 DEF Installations

-----------------------------------------------------------------------------
\* Another process remembers nothing; the directory and the installers stay.

LEMMA NewProcessIsSafe ==
  ASSUME IInv, NEW v \in Known, NewProcess(v),
         installers' \in Seq(Installations)
  PROVE  IInv'
<1>1. Typed'
  BY DEF IInv, Typed, NewProcess, Idle, Steps
<1>2. Claimed'
  BY DEF Claimed, Busy, NewProcess, Idle
<1>3. \A c \in Callers : FoundBy(c)'
  BY DEF FoundBy, NewProcess, Idle
<1> QED BY <1>1, <1>2, <1>3 DEF IInv

\* A failure gives the claim back, and nobody else held it.
LEMMA FailureIsSafe ==
  ASSUME IInv, NEW c \in Callers, Busy(c), Done(c),
         dir' = [file |-> dir'.file, unpacked |-> dir'.unpacked],
         UNCHANGED <<newest, version, installers, handed>>
  PROVE  IInv'
<1>1. Typed'
  BY DEF IInv, Typed, Done, Idle, Steps
<1>2. \A d \in Callers : ~Busy(d)'
  BY DEF IInv, Typed, Claimed, Done, Busy, Idle
<1>3. Claimed'
  BY <1>2 DEF IInv, Claimed, Done, Busy
<1>4. \A d \in Callers : FoundBy(d)'
  BY <1>2 DEF FoundBy, Busy
<1> QED BY <1>1, <1>3, <1>4 DEF IInv

\* The holder's next step, from one state of its to another.
LEMMA ProgressIsSafe ==
  ASSUME IInv, NEW c \in Callers, Busy(c), Busy(c)',
         Typed', \A d \in Callers : d # c => job'[d] = job[d],
         UNCHANGED <<installing, handed>>,
         stage' = Shown(job'[c].at), job'[c].at # "latest",
         target' = job'[c].tag, FoundBy(c)'
  PROVE  IInv'
<1>1. \A d \in Callers : d # c => ~Busy(d)'
  BY DEF IInv, Claimed, Busy
<1>2. Claimed'
  BY <1>1 DEF IInv, Claimed, Busy
<1>3. \A d \in Callers : FoundBy(d)'
  BY <1>1 DEF FoundBy, Busy
<1> QED BY <1>2, <1>3 DEF IInv

-----------------------------------------------------------------------------

LEMMA NextIsSafe == IInv /\ [UpdNext]_updVars => IInv'
<1> SUFFICES ASSUME IInv, [UpdNext]_updVars PROVE IInv'
  OBVIOUS
<1> USE DEF IInv
<1>1. ASSUME NEW c \in Callers, BeginCheck(c) PROVE IInv'
  <2>1. /\ UNCHANGED <<newest, version, progressVars, dir, installers, handed>>
        /\ ~Busy(c) /\ DOMAIN job' = Callers /\ job'[c].at = "checked"
        /\ \A d \in Callers : d # c => job'[d] = job[d]
    BY <1>1 DEF BeginCheck, Typed, Busy, Idle, worldVars
  <2> QED BY <2>1 DEF Typed, Claimed, FoundBy, Busy, progressVars, Steps
<1>2. ASSUME NEW c \in Callers, StoreCheck(c) PROVE IInv'
  <2>1. /\ UNCHANGED <<newest, version, progressVars, dir, installers, handed>>
        /\ ~Busy(c) /\ DOMAIN job' = Callers /\ job'[c].at = "idle"
        /\ \A d \in Callers : d # c => job'[d] = job[d]
    BY <1>2 DEF StoreCheck, Typed, Busy, Idle, worldVars
  <2> QED BY <2>1 DEF Typed, Claimed, FoundBy, Busy, progressVars, Steps
<1>3. ASSUME NEW c \in Callers, ClaimInstall(c) PROVE IInv'
  <2>1. CASE installing
    BY <2>1, <1>3 DEF ClaimInstall, Typed, Claimed, FoundBy, Busy,
                      progressVars, worldVars
  <2>2. CASE ~installing
    <3>1. /\ UNCHANGED <<newest, version, dir, installers, handed>>
          /\ installing' = TRUE /\ stage' = "checking"
          /\ DOMAIN job' = Callers /\ job'[c].at = "latest"
          /\ \A d \in Callers : d # c => job'[d] = job[d]
      BY <2>2, <1>3 DEF ClaimInstall, Typed, worldVars
    <3>2. ~handed /\ \A d \in Callers : ~Busy(d)
      BY <2>2 DEF Claimed
    <3>3. Typed'
      BY <3>1 DEF Typed, Steps
    <3>4. Claimed'
      BY <3>1, <3>2 DEF Claimed, Busy, Shown
    <3>5. \A d \in Callers : FoundBy(d)'
      BY <3>1, <3>2 DEF FoundBy, Busy
    <3> QED BY <3>3, <3>4, <3>5
  <2> QED BY <2>1, <2>2
<1>4. ASSUME NEW c \in Callers, AskLatest(c) PROVE IInv'
  <2>0. Busy(c) /\ UNCHANGED <<newest, version, installers, handed>>
    BY <1>4 DEF AskLatest, Busy, worldVars
  <2>1. CASE Done(c) /\ UNCHANGED dir
    BY <2>0, <2>1, FailureIsSafe DEF Typed
  <2>2. CASE /\ Newer(newest, version) /\ target' = newest
             /\ dir' = [file |-> Nothing, unpacked |-> Nothing]
             /\ job' = [job EXCEPT ![c] = [at |-> "sums", tag |-> newest]]
             /\ UNCHANGED <<installing, stage, info>>
    <3>1. /\ DOMAIN job' = Callers /\ job'[c] = [at |-> "sums", tag |-> newest]
          /\ \A d \in Callers : d # c => job'[d] = job[d]
      BY <2>2 DEF Typed
    <3>2. Typed'
      BY <2>0, <2>2, <3>1 DEF Typed, Steps
    <3>3. stage' = Shown(job'[c].at)
      BY <1>4, <2>0, <2>2, <3>1 DEF Claimed, AskLatest, Shown
    <3>4. FoundBy(c)' /\ Busy(c)'
      BY <2>0, <2>2, <3>1 DEF FoundBy, Busy, Typed
    <3> QED BY <2>0, <2>2, <3>1, <3>2, <3>3, <3>4, ProgressIsSafe
  <2> QED BY <1>4, <2>1, <2>2 DEF AskLatest
<1>5. ASSUME NEW c \in Callers, FetchSums(c) PROVE IInv'
  <2>0. Busy(c) /\ UNCHANGED <<newest, version, dir, installers, handed>>
    BY <1>5 DEF FetchSums, Busy, worldVars
  <2>1. CASE Done(c)
    BY <2>0, <2>1, FailureIsSafe DEF Typed
  <2>2. CASE /\ site[job[c].tag].sums \in Bundles /\ stage' = "downloading"
             /\ job' = [job EXCEPT ![c] =
                          [at |-> "bundle", tag |-> job[c].tag,
                           want |-> site[job[c].tag].sums]]
             /\ UNCHANGED <<installing, target, info>>
    <3>1. /\ DOMAIN job' = Callers
          /\ job'[c] = [at |-> "bundle", tag |-> job[c].tag,
                        want |-> site[job[c].tag].sums]
          /\ \A d \in Callers : d # c => job'[d] = job[d]
      BY <2>2 DEF Typed
    <3>2. Typed'
      BY <2>0, <2>2, <3>1 DEF Typed, Steps
    <3>3. stage' = Shown(job'[c].at) /\ target' = job'[c].tag
      BY <1>5, <2>0, <2>2, <3>1 DEF Claimed, FetchSums, Shown
    <3>4. FoundBy(c)' /\ Busy(c)'
      BY <1>5, <2>0, <2>2, <3>1 DEF FoundBy, Busy, FetchSums
    <3> QED BY <2>0, <2>2, <3>1, <3>2, <3>3, <3>4, ProgressIsSafe
  <2> QED BY <1>5, <2>1, <2>2 DEF FetchSums
<1>6. ASSUME NEW c \in Callers, Download(c) PROVE IInv'
  <2>0. Busy(c) /\ UNCHANGED <<newest, version, installers, handed>>
    BY <1>6 DEF Download, Busy, worldVars
  <2>1. CASE Done(c) /\ dir' = [dir EXCEPT !.file = Nothing]
    <3>1. dir' = [file |-> dir'.file, unpacked |-> dir'.unpacked]
      BY <2>1 DEF Typed
    <3> QED BY <2>0, <2>1, <3>1, FailureIsSafe
  <2>2. CASE /\ dir' = [dir EXCEPT !.file = site[job[c].tag].bundle]
             /\ stage' = "verifying"
             /\ job' = [job EXCEPT ![c] =
                  [at |-> "verify", tag |-> job[c].tag, want |-> job[c].want,
                   got |-> site[job[c].tag].bundle]]
             /\ UNCHANGED <<installing, target, info>>
    <3>1. /\ DOMAIN job' = Callers
          /\ job'[c] = [at |-> "verify", tag |-> job[c].tag,
                        want |-> job[c].want, got |-> site[job[c].tag].bundle]
          /\ dir' = [file |-> site[job[c].tag].bundle,
                     unpacked |-> dir.unpacked]
          /\ \A d \in Callers : d # c => job'[d] = job[d]
      BY <2>2 DEF Typed
    <3>2. Typed'
      BY <2>0, <2>2, <3>1 DEF Typed, Steps
    <3>3. stage' = Shown(job'[c].at) /\ target' = job'[c].tag
      BY <1>6, <2>0, <2>2, <3>1 DEF Claimed, Download, Shown
    <3>4. FoundBy(c)' /\ Busy(c)'
      BY <1>6, <2>0, <2>2, <3>1 DEF FoundBy, Busy, Download
    <3> QED BY <2>0, <2>2, <3>1, <3>2, <3>3, <3>4, ProgressIsSafe
  <2> QED BY <1>6, <2>1, <2>2 DEF Download
<1>7. ASSUME NEW c \in Callers, Verify(c) PROVE IInv'
  <2>0. Busy(c) /\ UNCHANGED <<newest, version, installers, handed>>
    BY <1>7 DEF Verify, Busy, worldVars
  <2>1. CASE Done(c) /\ dir' = [dir EXCEPT !.file = Nothing]
    <3>1. dir' = [file |-> dir'.file, unpacked |-> dir'.unpacked]
      BY <2>1 DEF Typed
    <3> QED BY <2>0, <2>1, <3>1, FailureIsSafe
  <2>2. CASE /\ job[c].got = job[c].want /\ stage' = "unpacking"
             /\ job' = [job EXCEPT ![c] =
                          [at |-> "unpack", tag |-> job[c].tag,
                           want |-> job[c].want]]
             /\ UNCHANGED <<installing, target, info, dir>>
    <3>1. /\ DOMAIN job' = Callers
          /\ job'[c] = [at |-> "unpack", tag |-> job[c].tag,
                        want |-> job[c].want]
          /\ \A d \in Callers : d # c => job'[d] = job[d]
      BY <2>2 DEF Typed
    <3>2. Typed'
      BY <2>0, <2>2, <3>1 DEF Typed, Steps
    <3>3. stage' = Shown(job'[c].at) /\ target' = job'[c].tag
      BY <1>7, <2>0, <2>2, <3>1 DEF Claimed, Verify, Shown
    <3>4. FoundBy(c)' /\ Busy(c)'
      BY <1>7, <2>0, <2>2, <3>1 DEF FoundBy, Busy, Verify
    <3> QED BY <2>0, <2>2, <3>1, <3>2, <3>3, <3>4, ProgressIsSafe
  <2> QED BY <1>7, <2>1, <2>2 DEF Verify
<1>8. ASSUME NEW c \in Callers, Unpack(c) PROVE IInv'
  <2>0. /\ Busy(c) /\ job[c].at = "unpack"
        /\ UNCHANGED <<newest, version, installers, handed>>
    BY <1>8 DEF Unpack, Busy, worldVars
  <2>1. CASE Done(c) /\ UNCHANGED dir
    BY <2>0, <2>1, FailureIsSafe DEF Typed
  <2>2. CASE /\ dir' = [dir EXCEPT !.unpacked = dir.file]
             /\ job' = [job EXCEPT ![c].at = "start"]
             /\ UNCHANGED <<progressVars, info>>
    <3>0. job[c] = [at |-> "unpack", tag |-> job[c].tag, want |-> job[c].want]
      BY <2>0 DEF FoundBy
    <3>1. /\ DOMAIN job' = Callers
          /\ job'[c] = [at |-> "start", tag |-> job[c].tag,
                        want |-> job[c].want]
          /\ dir' = [file |-> dir.file, unpacked |-> dir.file]
          /\ \A d \in Callers : d # c => job'[d] = job[d]
      BY <2>2, <3>0 DEF Typed
    <3>2. Typed'
      BY <2>0, <2>2, <3>1 DEF Typed, Steps, progressVars
    <3>3. stage' = Shown(job'[c].at) /\ target' = job'[c].tag
      <4>1. stage = Shown("unpack") /\ target = job[c].tag
        BY <2>0 DEF Claimed
      <4> QED BY <4>1, <2>2, <3>1 DEF Shown, progressVars
    <3>4. FoundBy(c)' /\ Busy(c)'
      <4>1. /\ job[c].tag \in Versions /\ Newer(job[c].tag, version)
            /\ job[c].want \in Bundles /\ dir.file = job[c].want
        BY <2>0 DEF FoundBy
      <4>2. Newer(job'[c].tag, version')
        BY <4>1, <2>0, <3>1
      <4> QED BY <4>1, <4>2, <3>1 DEF FoundBy, Busy
    <3> QED BY <2>0, <2>2, <3>1, <3>2, <3>3, <3>4, ProgressIsSafe
               DEF progressVars
  <2> QED BY <1>8, <2>1, <2>2 DEF Unpack
<1>9. ASSUME NEW c \in Callers, StartInstaller(c) PROVE IInv'
  <2>0. Busy(c) /\ UNCHANGED <<newest, version, dir>>
    BY <1>9 DEF StartInstaller, Busy, worldVars
  <2>1. CASE Done(c) /\ UNCHANGED <<installers, handed>>
    BY <2>0, <2>1, FailureIsSafe DEF Typed
  <2>2. CASE /\ installers' = Append(installers,
                  [tag |-> job[c].tag, want |-> job[c].want,
                   runs |-> dir.unpacked, over |-> version])
             /\ handed' = TRUE /\ stage' = "installing"
             /\ job' = [job EXCEPT ![c] = Idle]
             /\ UNCHANGED <<installing, target, info>>
    <3>1. /\ DOMAIN job' = Callers /\ job'[c].at = "idle"
          /\ \A d \in Callers : d # c => job'[d] = job[d]
      BY <2>2 DEF Typed, Idle
    <3>2. [tag |-> job[c].tag, want |-> job[c].want, runs |-> dir.unpacked,
           over |-> version] \in Installations
      BY <1>9 DEF StartInstaller, FoundBy, Typed, Installations
    <3>3. Typed'
      <4>1. installers' \in Seq(Installations)
        BY <2>2, <3>2 DEF Typed
      <4> QED BY <2>0, <2>2, <3>1, <4>1 DEF Typed, Steps
    <3>4. \A d \in Callers : ~Busy(d)'
      BY <2>0, <3>1 DEF Claimed, Busy
    <3>5. Claimed'
      BY <2>0, <2>2, <3>4 DEF Claimed, Typed
    <3>6. \A d \in Callers : FoundBy(d)'
      BY <3>4 DEF FoundBy, Busy
    <3> QED BY <3>3, <3>5, <3>6
  <2> QED BY <1>9, <2>1, <2>2 DEF StartInstaller
<1>10. ASSUME InstallerEnds PROVE IInv'
  <2>1. installers' \in Seq(Installations)
    BY <1>10 DEF InstallerEnds, Typed
  <2>2. CASE \E v \in {Head(installers).tag, Head(installers).over} :
               NewProcess(v)
    <3>1. Head(installers) \in Installations
      BY <1>10 DEF InstallerEnds, Typed
    <3>2. PICK v \in {Head(installers).tag, Head(installers).over} :
            NewProcess(v)
      BY <2>2
    <3>3. v \in Known
      BY <3>1, <3>2 DEF Installations, Known
    <3> QED BY <2>1, <3>2, <3>3, NewProcessIsSafe
  <2>3. CASE UNCHANGED <<worldVars, idle, progressVars, info, job, dir, handed,
                         sent, asks>>
    BY <2>1, <2>3 DEF Typed, Claimed, FoundBy, Busy, worldVars, progressVars
  <2> QED BY <1>10, <2>2, <2>3 DEF InstallerEnds
<1>11. ASSUME DaemonDies PROVE IInv'
  BY <1>11, NewProcessIsSafe DEF DaemonDies, Typed
<1>12. ASSUME Publish PROVE IInv'
  BY <1>12 DEF Publish, Typed, Claimed, FoundBy, Busy, progressVars
<1>13. ASSUME TunnelChanges PROVE IInv'
  BY <1>13 DEF TunnelChanges, Typed, Claimed, FoundBy, Busy, progressVars
<1>14. ASSUME IdleCloses PROVE IInv'
  BY <1>14 DEF IdleCloses, Typed, Claimed, FoundBy, Busy, progressVars, worldVars
<1>15. ASSUME UNCHANGED updVars PROVE IInv'
  BY <1>15 DEF updVars, Typed, Claimed, FoundBy, Busy, progressVars, worldVars
<1> QED
  BY <1>1, <1>2, <1>3, <1>4, <1>5, <1>6, <1>7, <1>8, <1>9, <1>10, <1>11, <1>12,
     <1>13, <1>14, <1>15 DEF UpdNext

LEMMA SafeAlways == UpdSpec => []IInv
  BY InitIsSafe, NextIsSafe, PTL DEF UpdSpec

\* Nothing is installed but what the checksum file of its release vouched for,
\* and only over an older version (FetchWith, runInstall).
THEOREM NothingUnverified == UpdSpec => []OnlyTheVouchedFor
  BY SafeAlways, InstallersAreVouchedFor, PTL

\* One install at a time in one daemon, and the progress shown is its own
\* (claimInstall, CheckUpdate).
THEOREM OneInstall == UpdSpec => []ProgressIsTheInstalls
  BY SafeAlways, ClaimedIsShown, PTL
=============================================================================
