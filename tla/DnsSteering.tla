---------------------------- MODULE DnsSteering ----------------------------
(***************************************************************************)
(* Pointing the router's resolver at the core, and back:                   *)
(* internal/mode/dns.go, as the engine drives it (engine.go).              *)
(*                                                                         *)
(* There are two ways.  Where dnsmasq reads a directory, a snippet is put  *)
(* there; it is on a RAM disk.  Elsewhere the dhcp configuration is edited *)
(* through uci: add_list and set change a staged copy in RAM, commit makes *)
(* it the configuration on flash, and a state file on flash holds what     *)
(* noresolv was.  dnsmasq goes by what it read when it was last started.   *)
(*                                                                         *)
(* The daemon may be killed, or the power cut, between any two steps; the  *)
(* init system, LuCI or netifd may commit or restart dnsmasq at any time.  *)
(***************************************************************************)
EXTENDS Naturals

CONSTANTS
  Ports,       \* the DNS ports the settings may name
  None,        \* no port, no file
  Ways,        \* "snippet" and "uci": how this dnsmasq can be configured
  MayFail,     \* the steps that can fail in this instance
  MaxCrashes   \* bound on kills and power cuts

Noresolv == {"unset", "0", "1"}
Failable == {"write", "record", "add", "set", "commit", "probe",
             "restartSnippet", "restartUci",
             "remove", "unlist", "unset", "recommit", "restore"}

ASSUME NoneAssumption == None \notin Ports \cup Noresolv
ASSUME WaysAssumption == Ways \subseteq {"snippet", "uci"}
ASSUME FailAssumption == MayFail \subseteq Failable
ASSUME CrashesAssumption == MaxCrashes \in Nat

VARIABLES
  way, own,    \* the device: its way, and the operator's noresolv
  conf,        \* the dhcp configuration on flash: our servers, noresolv
  edit,        \* the same with the changes that are not committed
  saved,       \* /etc/xwrt-dns.state, None when it does not exist
  snippet,     \* the port in xwrt.conf, None when it does not exist
  loaded,      \* what dnsmasq runs with
  port,        \* Settings.DNSPort
  up,          \* the daemon runs
  handle,      \* e.dns: the port of its settings, None for nil
  applied,     \* Apply has succeeded
  pc,          \* the next step of Apply or Revert, "idle" outside
  inside,      \* Revert was called by Apply
  dirty,       \* Revert: snippet || edited
  crashes,
  behind       \* history: dnsmasq was left with what no Revert will look for

device == <<way, own, behind>>
files == <<conf, edit, saved, snippet>>
object == <<handle, applied, inside, dirty>>
vars == <<device, files, loaded, port, up, object, pc, crashes>>

Dhcp(s, n) == [server |-> s, noresolv |-> n]
Own == Dhcp({}, own)

\* What dnsmasq runs with after it has read c and its directory.
Read(c) == IF snippet = None THEN c
           ELSE Dhcp(c.server \cup {snippet}, "1")

Restarted == loaded' \in {Read(conf), Read(edit)}

-----------------------------------------------------------------------------
\* Apply.

\* The object is made early in a connect and Apply comes last; a connect that
\* fails in between tears the object down without it.
NewDNS ==
  /\ up /\ pc = "idle" /\ handle = None
  /\ handle' = port /\ pc' = "made"
  /\ UNCHANGED <<device, files, loaded, port, up, applied, inside, dirty,
                 crashes>>

Apply ==
  /\ up /\ pc = "made"
  /\ pc' = IF way = "snippet" THEN "write" ELSE "record"
  /\ UNCHANGED <<device, files, loaded, port, up, object, crashes>>

\* Apply returns an error; the engine tears the connection down.
ApplyFails == pc' = "failed"

WriteSnippet_NoRestart ==
  /\ up /\ pc = "write"
  /\ \/ pc' = "probe" /\ snippet' = handle
     \/ "write" \in MayFail /\ ApplyFails /\ UNCHANGED snippet
  /\ UNCHANGED <<device, conf, edit, saved, loaded, port, up, object, crashes>>

WriteSnippet ==
  /\ up /\ pc = "write"
  /\ \/ snippet = handle /\ pc' = "probe" /\ UNCHANGED snippet
     \/ snippet # handle /\ pc' = "restartSnippet" /\ snippet' = handle
     \/ "write" \in MayFail /\ ApplyFails /\ UNCHANGED snippet
  /\ UNCHANGED <<device, conf, edit, saved, loaded, port, up, object, crashes>>

\* A restart that fails may have been one that was only late.
RestartSnippet ==
  /\ up /\ pc = "restartSnippet"
  /\ \/ Restarted /\ pc' = "probe" /\ UNCHANGED behind
     \/ /\ "restartSnippet" \in MayFail /\ pc' = "withdraw" /\ behind' = TRUE
        /\ Restarted \/ UNCHANGED loaded
  /\ UNCHANGED <<way, own, files, port, up, object, crashes>>

Withdraw ==
  /\ up /\ pc = "withdraw"
  /\ snippet' = None
  /\ ApplyFails
  /\ UNCHANGED <<device, conf, edit, saved, loaded, port, up, object, crashes>>

\* Revert, called when a step of Apply has failed.
RevertInside == pc' = "remove" /\ inside' = TRUE /\ dirty' = FALSE

Record_Nothing ==
  /\ up /\ pc = "record"
  /\ pc' = "add"
  /\ UNCHANGED <<device, files, loaded, port, up, object, crashes>>

Record ==
  /\ up /\ pc = "record"
  /\ \/ saved' = edit.noresolv /\ pc' = "add"
     \/ "record" \in MayFail /\ ApplyFails /\ UNCHANGED saved
  /\ UNCHANGED <<device, conf, edit, snippet, loaded, port, up, object,
                 crashes>>

AddServer ==
  /\ up /\ pc = "add"
  /\ \/ /\ edit' = [edit EXCEPT !.server = @ \cup {handle}]
        /\ pc' = "set" /\ UNCHANGED <<inside, dirty>>
     \/ "add" \in MayFail /\ RevertInside /\ UNCHANGED edit
  /\ UNCHANGED <<device, conf, saved, snippet, loaded, port, up, handle,
                 applied, crashes>>

SetNoresolv ==
  /\ up /\ pc = "set"
  /\ \/ /\ edit' = [edit EXCEPT !.noresolv = "1"]
        /\ pc' = "commit" /\ UNCHANGED <<inside, dirty>>
     \/ "set" \in MayFail /\ RevertInside /\ UNCHANGED edit
  /\ UNCHANGED <<device, conf, saved, snippet, loaded, port, up, handle,
                 applied, crashes>>

CommitEdit ==
  /\ up /\ pc = "commit"
  /\ \/ /\ conf' = edit
        /\ pc' = "restartUci" /\ UNCHANGED <<inside, dirty>>
     \/ "commit" \in MayFail /\ RevertInside /\ UNCHANGED conf
  /\ UNCHANGED <<device, edit, saved, snippet, loaded, port, up, handle,
                 applied, crashes>>

RestartUci ==
  /\ up /\ pc = "restartUci"
  /\ \/ Restarted /\ pc' = "probe" /\ UNCHANGED <<inside, dirty>>
     \/ /\ "restartUci" \in MayFail /\ RevertInside
        /\ Restarted \/ UNCHANGED loaded
  /\ UNCHANGED <<device, files, port, up, handle, applied, crashes>>

\* The core must answer on its DNS port, or everything is put back.
Probe ==
  /\ up /\ pc = "probe"
  /\ \/ pc' = "idle" /\ applied' = TRUE /\ UNCHANGED <<inside, dirty>>
     \/ "probe" \in MayFail /\ RevertInside /\ UNCHANGED applied
  /\ UNCHANGED <<device, files, loaded, port, up, handle, crashes>>

-----------------------------------------------------------------------------
\* Revert, called by Apply, by a teardown, or at the start of the daemon on an
\* object that never applied anything.

TearDown ==
  /\ up /\ handle # None
  /\ pc \in {"made", "failed"} \/ (pc = "idle" /\ applied)
  /\ pc' = "remove" /\ inside' = FALSE /\ dirty' = FALSE
  /\ UNCHANGED <<device, files, loaded, port, up, handle, applied, crashes>>

AfterSnippet_Always == pc' = "unlist"

AfterSnippet == pc' = IF saved = None THEN "restore" ELSE "unlist"

RemoveSnippet ==
  /\ up /\ pc = "remove"
  /\ dirty' = (snippet # None)
  /\ \/ snippet' = None
     \/ "remove" \in MayFail /\ UNCHANGED snippet
  /\ AfterSnippet
  /\ UNCHANGED <<device, conf, edit, saved, loaded, port, up, handle, applied,
                 inside, crashes>>

\* del_list takes away the entry of the port this object was made with.
Unlist ==
  /\ up /\ pc = "unlist"
  /\ pc' = "unset"
  /\ \/ edit' = [edit EXCEPT !.server = @ \ {handle}]
     \/ "unlist" \in MayFail /\ UNCHANGED edit
  /\ UNCHANGED <<device, conf, saved, snippet, loaded, port, up, object,
                 crashes>>

Unset_Zero ==
  /\ up /\ pc = "unset"
  /\ pc' = "recommit"
  /\ edit' = [edit EXCEPT !.noresolv = "0"]
  /\ UNCHANGED <<device, conf, saved, snippet, loaded, port, up, object,
                 crashes>>

Unset ==
  /\ up /\ pc = "unset"
  /\ pc' = "recommit"
  /\ \/ edit' = [edit EXCEPT !.noresolv = saved]
     \/ "unset" \in MayFail /\ UNCHANGED edit
  /\ UNCHANGED <<device, conf, saved, snippet, loaded, port, up, object,
                 crashes>>

Recommit ==
  /\ up /\ pc = "recommit"
  /\ pc' = "forget"
  /\ \/ conf' = edit
     \/ "recommit" \in MayFail /\ UNCHANGED conf
  /\ UNCHANGED <<device, edit, saved, snippet, loaded, port, up, object,
                 crashes>>

\* The state file goes whether or not the commit succeeded.
Forget ==
  /\ up /\ pc = "forget"
  /\ pc' = "restore"
  /\ saved' = None /\ dirty' = TRUE
  /\ UNCHANGED <<device, conf, edit, snippet, loaded, port, up, handle,
                 applied, inside, crashes>>

\* dnsmasq is restarted if anything was in place, and Revert returns, having
\* deleted what told it so.
Restart_OnlyIfApplied ==
  IF applied THEN Restarted /\ behind' = FALSE
             ELSE UNCHANGED <<loaded, behind>>

Restart ==
  \/ dirty /\ Restarted /\ behind' = FALSE
  \/ dirty /\ "restore" \in MayFail /\ UNCHANGED loaded /\ behind' = TRUE
  \/ ~dirty /\ UNCHANGED <<loaded, behind>>

Restore ==
  /\ up /\ pc = "restore"
  /\ Restart
  /\ applied' = FALSE /\ dirty' = FALSE /\ inside' = FALSE
  /\ IF inside THEN ApplyFails /\ UNCHANGED handle
               ELSE pc' = "idle" /\ handle' = None
  /\ UNCHANGED <<way, own, files, port, up, crashes>>

-----------------------------------------------------------------------------
\* The daemon's life, and what others do.

\* ClearStaleState reverts on a new object, made from the settings of now.
Start ==
  /\ ~up
  /\ up' = TRUE
  /\ handle' = port /\ pc' = "remove"
  /\ UNCHANGED <<device, files, loaded, port, applied, inside, dirty, crashes>>

Lose ==
  /\ up /\ crashes < MaxCrashes
  /\ crashes' = crashes + 1
  /\ up' = FALSE /\ handle' = None /\ pc' = "idle"
  /\ applied' = FALSE /\ inside' = FALSE /\ dirty' = FALSE
  /\ UNCHANGED <<way, own, port>>

\* A Revert that is killed here has deleted what the next would go by.
Kill ==
  /\ Lose
  /\ behind' = (behind \/ (pc = "restore" /\ dirty))
  /\ UNCHANGED <<files, loaded>>

\* RAM is gone; dnsmasq starts with what is on flash.
PowerCut ==
  /\ Lose
  /\ behind' = FALSE
  /\ snippet' = None /\ edit' = conf /\ loaded' = conf
  /\ UNCHANGED <<conf, saved>>

SetPort ==
  /\ port' \in Ports
  /\ UNCHANGED <<device, files, loaded, up, object, pc, crashes>>

OthersCommit ==
  /\ conf' = edit
  /\ UNCHANGED <<device, edit, saved, snippet, loaded, port, up, object, pc,
                 crashes>>

OthersRestart ==
  /\ Restarted
  /\ UNCHANGED <<device, files, port, up, object, pc, crashes>>

-----------------------------------------------------------------------------
Init ==
  /\ way \in Ways /\ own \in Noresolv
  /\ conf = Own /\ edit = Own /\ loaded = Own
  /\ saved = None /\ snippet = None
  /\ port \in Ports
  /\ up = FALSE /\ handle = None /\ pc = "idle"
  /\ applied = FALSE /\ inside = FALSE /\ dirty = FALSE
  /\ crashes = 0 /\ behind = FALSE

Applying ==
  \/ NewDNS \/ Apply \/ WriteSnippet \/ RestartSnippet \/ Withdraw
  \/ Record \/ AddServer \/ SetNoresolv \/ CommitEdit \/ RestartUci \/ Probe

Reverting ==
  \/ TearDown \/ RemoveSnippet \/ Unlist \/ Unset \/ Recommit \/ Forget
  \/ Restore

World == Start \/ Kill \/ PowerCut \/ SetPort \/ OthersCommit \/ OthersRestart

Next == Applying \/ Reverting \/ World

Spec == Init /\ [][Next]_vars

-----------------------------------------------------------------------------
\* Properties.

Steps == {"idle", "made", "write", "restartSnippet", "withdraw", "record",
          "add", "set", "commit", "restartUci", "probe", "failed", "remove",
          "unlist", "unset", "recommit", "forget", "restore"}
DhcpType == [server : SUBSET Ports, noresolv : Noresolv]

\* Every variable has its type.
TypeOK ==
  /\ way \in Ways /\ own \in Noresolv
  /\ conf \in DhcpType /\ edit \in DhcpType /\ loaded \in DhcpType
  /\ saved \in Noresolv \cup {None} /\ snippet \in Ports \cup {None}
  /\ port \in Ports /\ up \in BOOLEAN /\ handle \in Ports \cup {None}
  /\ applied \in BOOLEAN /\ inside \in BOOLEAN /\ dirty \in BOOLEAN
  /\ pc \in Steps /\ crashes \in Nat /\ behind \in BOOLEAN

\* Whenever the dhcp configuration is not the operator's, the state file is there
\* and says what it was: a kill or a power cut at any point can be undone.
EditIsRecorded == (conf # Own \/ edit # Own) => saved = own

Unsteered == up /\ pc = "idle" /\ handle = None

\* A daemon without a connection has left every file as the operator had it, the
\* staged changes included, whatever failed and wherever it was killed before.
FilesAreRestored ==
  Unsteered => /\ snippet = None /\ saved = None
               /\ conf = Own /\ edit = Own

\* dnsmasq, too, runs with what the operator had, whatever failed and wherever the
\* daemon was killed, but for three moments at which the trace of the change is
\* deleted and dnsmasq is not restarted after it: a restart behind a snippet
\* fails, the last restart of a Revert fails, or the daemon is killed before it.
\* Even then the next Revert that restarts dnsmasq makes up for it, and so does
\* a power cut.
RevertRestores == Unsteered /\ ~behind => loaded = Own

\* Where Apply has succeeded, dnsmasq asks the core and nothing else.
ApplySteers == (applied /\ pc = "idle") => /\ handle \in loaded.server
                                         /\ loaded.noresolv = "1"

\* dns.go:233: "Mark it applied before restarting so a failed restart still
\* reverts".  In a daemon that is never killed, dnsmasq is put back after one.
FailedRestartReverts == Unsteered /\ crashes = 0 => loaded = Own

\* dns.go:471: both ways are undone on an object that never applied anything:
\* "that is the startup path, cleaning up after a previous run that was killed
\* rather than stopped".
ResolverComesBack == Unsteered => loaded = Own
=============================================================================
