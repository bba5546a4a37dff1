----------------------------- MODULE DnsProofs -----------------------------
(***************************************************************************)
(* The operator's resolver configuration can be restored at any time, and  *)
(* is: for any number of kills and power cuts.                             *)
(***************************************************************************)
EXTENDS DnsSteering, TLAPS

\* The steps of Revert do not fail, and the port is changed only in a daemon
\* that runs without a connection: never under the handle that names it, nor
\* while a daemon that was killed has left it in the configuration.
RevertWorks == MayFail \cap {"remove", "unlist", "unset", "recommit"} = {}
KeepsPort == port' # port => Unsteered
PortKept == [][KeepsPort]_vars

Life ==
  /\ ~up => pc = "idle" /\ handle = None
  /\ pc # "idle" => handle \in Ports

\* Each way leaves the other's files alone.
Separate ==
  /\ way = "snippet" => conf = Own /\ edit = Own /\ saved = None
  /\ way = "uci" => snippet = None

\* What was saved is the operator's, and is there when it is needed.
Recorded ==
  /\ saved # None => saved = own
  /\ EditIsRecorded
  /\ pc \in {"add", "set", "commit", "restartUci", "unlist", "unset",
             "recommit", "forget"} => saved = own /\ way = "uci"
  /\ pc = "record" => way = "uci"
  /\ pc \in {"write", "restartSnippet", "withdraw"} => way = "snippet"

\* The files at the steps where they are known.
Clean == snippet = None /\ saved = None /\ conf = Own /\ edit = Own

Restoring ==
  /\ Unsteered => Clean
  /\ pc \in {"made", "write", "record", "failed", "restore"} => Clean
  /\ pc \in {"add", "unlist", "unset", "recommit", "forget"} => snippet = None
  /\ pc \in {"unset", "recommit", "forget"} => edit.server = {}
  /\ pc \in {"recommit", "forget"} => edit = Own
  /\ pc = "forget" => conf = Own

OnePort == /\ handle \in {None, port}
           /\ conf.server \cup edit.server \subseteq {port}

IInv == TypeOK /\ Life /\ Separate /\ Recorded /\ Restoring /\ OnePort

\* How far Apply has got, and what dnsmasq runs with once it is through.
Asks(c) == handle \in c.server /\ c.noresolv = "1"
Steered == pc = "probe" \/ (pc = "idle" /\ applied)

Steering ==
  /\ ~up => ~applied
  /\ pc = "set" => handle \in edit.server
  /\ pc = "commit" => Asks(edit)
  /\ pc = "restartUci" => Asks(edit) /\ conf = edit
  /\ pc = "restartSnippet" => snippet = handle
  /\ Steered =>
       /\ handle # None /\ Asks(loaded)
       /\ way = "uci" => Asks(conf) /\ conf = edit /\ saved = own
       /\ way = "snippet" => snippet = handle

\* Unless dnsmasq was left behind, what it runs with is the operator's, or the
\* trace of the change is there for the next Revert to find.
Returning ==
  ~behind =>
    /\ pc # "withdraw"
    /\ up /\ pc = "idle" /\ handle # None => applied
    /\ ~up => snippet # None \/ saved # None \/ loaded = Own
    /\ Unsteered => loaded = Own
    /\ pc \in {"made", "write", "record", "failed"} => loaded = Own
    /\ pc = "remove" /\ saved = None /\ snippet = None => loaded = Own
    /\ pc = "restore" /\ ~dirty => loaded = Own

LEMMA ReadType ==
  ASSUME TypeOK, NEW c \in DhcpType
  PROVE  Read(c) \in DhcpType
BY DEF Read, TypeOK, DhcpType, Dhcp, Noresolv

LEMMA RestartedType == TypeOK /\ Restarted => loaded' \in DhcpType
BY ReadType DEF Restarted, TypeOK

LEMMA InitIInv == Init => IInv
<1> SUFFICES ASSUME Init PROVE IInv
  OBVIOUS
<1>1. Own \in DhcpType
  BY DEF Init, Own, Dhcp, DhcpType
<1>2. TypeOK
  BY <1>1, CrashesAssumption DEF Init, TypeOK, Steps
<1>3. Life /\ Separate /\ Recorded /\ Restoring
  BY DEF Init, Life, Separate, Recorded, EditIsRecorded, Restoring, Unsteered,
         Clean
<1>4. OnePort
  BY DEF Init, OnePort, Own, Dhcp
<1> QED BY <1>2, <1>3, <1>4 DEF IInv

LEMMA StepIInv ==
  ASSUME RevertWorks
  PROVE  IInv /\ [Next]_vars /\ (KeepsPort \/ UNCHANGED vars) => IInv'
<1> SUFFICES ASSUME IInv, [Next]_vars, KeepsPort \/ UNCHANGED vars PROVE IInv'
  OBVIOUS
<1> USE NoneAssumption, FailAssumption
    DEF IInv, TypeOK, Steps, DhcpType, Noresolv, Life, Separate, Recorded,
        EditIsRecorded, Restoring, OnePort, Unsteered, Clean, Own, Dhcp,
        device, files, object
<1>1. CASE NewDNS BY <1>1 DEF NewDNS
<1>2. CASE Apply BY <1>2, WaysAssumption DEF Apply
<1>3. CASE WriteSnippet BY <1>3 DEF WriteSnippet, ApplyFails
<1>4. CASE RestartSnippet
  <2>1. /\ loaded' \in DhcpType /\ behind' \in BOOLEAN
        /\ pc = "restartSnippet" /\ pc' \in {"probe", "withdraw"} /\ up
        /\ UNCHANGED <<way, own, conf, edit, saved, snippet, port, up, handle,
                       applied, inside, dirty, crashes>>
    BY <1>4, RestartedType DEF RestartSnippet
  <2>2. TypeOK'
    BY <2>1
  <2>3. Life' /\ Separate' /\ Recorded' /\ Restoring'
        /\ OnePort'
    BY <2>1
  <2> QED BY <2>2, <2>3
<1>5. CASE Withdraw BY <1>5 DEF Withdraw, ApplyFails
<1>6. CASE Record BY <1>6 DEF Record, ApplyFails
<1>7. CASE AddServer
  <2>1. TypeOK'
    <3>1. /\ up' \in BOOLEAN /\ applied' \in BOOLEAN
          /\ inside' \in BOOLEAN /\ dirty' \in BOOLEAN /\ behind' \in BOOLEAN
      BY <1>7 DEF AddServer, RevertInside
    <3>2. /\ conf' \in DhcpType /\ edit' \in DhcpType /\ loaded' \in DhcpType
          /\ saved' \in Noresolv \cup {None}
          /\ snippet' \in Ports \cup {None}
      BY <1>7 DEF AddServer, RevertInside
    <3>3. /\ way' \in Ways /\ own' \in Noresolv /\ port' \in Ports
          /\ handle' \in Ports \cup {None} /\ pc' \in Steps /\ crashes' \in Nat
      BY <1>7 DEF AddServer, RevertInside
    <3> QED BY <3>1, <3>2, <3>3 DEF TypeOK
  <2>2. Life' /\ Separate' /\ Recorded' /\ Restoring'
        /\ OnePort'
    BY <1>7 DEF AddServer, RevertInside
  <2> QED BY <2>1, <2>2
<1>8. CASE SetNoresolv
  <2>1. /\ conf' \in DhcpType /\ edit' \in DhcpType /\ pc' \in Steps
        /\ inside' \in BOOLEAN /\ dirty' \in BOOLEAN
        /\ UNCHANGED <<device, loaded, saved, snippet, port, up, handle,
                       applied, crashes>>
    BY <1>8 DEF SetNoresolv, RevertInside
  <2>2. TypeOK'
    BY <2>1
  <2>3. Life' /\ Separate' /\ Recorded' /\ Restoring'
        /\ OnePort'
    BY <1>8 DEF SetNoresolv, RevertInside
  <2> QED BY <2>2, <2>3
<1>9. CASE CommitEdit
  <2>1. /\ conf' \in DhcpType /\ edit' \in DhcpType /\ pc' \in Steps
        /\ inside' \in BOOLEAN /\ dirty' \in BOOLEAN
        /\ UNCHANGED <<device, loaded, saved, snippet, port, up, handle,
                       applied, crashes>>
    BY <1>9 DEF CommitEdit, RevertInside
  <2>2. TypeOK'
    BY <2>1
  <2>3. Life' /\ Separate' /\ Recorded' /\ Restoring'
        /\ OnePort'
    BY <1>9 DEF CommitEdit, RevertInside
  <2> QED BY <2>2, <2>3
<1>10. CASE RestartUci
  <2>1. /\ loaded' \in DhcpType /\ pc' \in Steps
        /\ inside' \in BOOLEAN /\ dirty' \in BOOLEAN
        /\ UNCHANGED <<device, files, port, up, handle, applied, crashes>>
    BY <1>10, RestartedType DEF RestartUci, RevertInside
  <2>2. TypeOK'
    BY <2>1
  <2>3. Life' /\ Separate' /\ Recorded' /\ Restoring'
        /\ OnePort'
    BY <1>10 DEF RestartUci, RevertInside
  <2> QED BY <2>2, <2>3
<1>11. CASE Probe
  <2>1. TypeOK'
    <3>1. /\ up' \in BOOLEAN /\ applied' \in BOOLEAN
          /\ inside' \in BOOLEAN /\ dirty' \in BOOLEAN /\ behind' \in BOOLEAN
      BY <1>11 DEF Probe, RevertInside
    <3>2. /\ conf' \in DhcpType /\ edit' \in DhcpType /\ loaded' \in DhcpType
          /\ saved' \in Noresolv \cup {None}
          /\ snippet' \in Ports \cup {None}
      BY <1>11 DEF Probe, RevertInside
    <3>3. /\ way' \in Ways /\ own' \in Noresolv /\ port' \in Ports
          /\ handle' \in Ports \cup {None} /\ pc' \in Steps /\ crashes' \in Nat
      BY <1>11 DEF Probe, RevertInside
    <3> QED BY <3>1, <3>2, <3>3 DEF TypeOK
  <2>2. Life' /\ Separate' /\ Recorded' /\ Restoring'
        /\ OnePort'
    BY <1>11 DEF Probe, RevertInside
  <2> QED BY <2>1, <2>2
<1>12. CASE TearDown
  <2>1. TypeOK'
    <3>1. /\ up' \in BOOLEAN /\ applied' \in BOOLEAN
          /\ inside' \in BOOLEAN /\ dirty' \in BOOLEAN /\ behind' \in BOOLEAN
      BY <1>12 DEF TearDown
    <3>2. /\ conf' \in DhcpType /\ edit' \in DhcpType /\ loaded' \in DhcpType
          /\ saved' \in Noresolv \cup {None}
          /\ snippet' \in Ports \cup {None}
      BY <1>12 DEF TearDown
    <3>3. /\ way' \in Ways /\ own' \in Noresolv /\ port' \in Ports
          /\ handle' \in Ports \cup {None} /\ pc' \in Steps /\ crashes' \in Nat
      BY <1>12 DEF TearDown
    <3> QED BY <3>1, <3>2, <3>3 DEF TypeOK
  <2>2. Life' /\ Separate' /\ Recorded' /\ Restoring'
        /\ OnePort'
    BY <1>12 DEF TearDown
  <2> QED BY <2>1, <2>2
<1>13. CASE RemoveSnippet
  BY <1>13, WaysAssumption DEF RemoveSnippet, AfterSnippet, RevertWorks
<1>14. CASE Unlist BY <1>14 DEF Unlist, RevertWorks
<1>15. CASE Unset BY <1>15 DEF Unset, RevertWorks
<1>16. CASE Recommit BY <1>16 DEF Recommit, RevertWorks
<1>17. CASE Forget BY <1>17 DEF Forget
<1>18. CASE Restore
  <2>1. /\ UNCHANGED <<way, own, files, port, up, crashes>>
        /\ behind' \in BOOLEAN /\ pc = "restore" /\ pc' \in {"failed", "idle"} /\ up
        /\ applied' = FALSE /\ dirty' = FALSE /\ inside' = FALSE
        /\ handle' \in {handle, None} /\ (pc' = "failed" => handle' = handle)
    BY <1>18 DEF Restore, Restart, ApplyFails
  <2>2. loaded' \in DhcpType
    BY <1>18, RestartedType DEF Restore, Restart
  <2>3. TypeOK'
    <3>1. /\ up' \in BOOLEAN /\ applied' \in BOOLEAN
          /\ inside' \in BOOLEAN /\ dirty' \in BOOLEAN /\ behind' \in BOOLEAN
      BY <2>1
    <3>2. /\ conf' \in DhcpType /\ edit' \in DhcpType
          /\ saved' \in Noresolv \cup {None}
          /\ snippet' \in Ports \cup {None}
      BY <2>1
    <3>3. /\ way' \in Ways /\ own' \in Noresolv /\ port' \in Ports
          /\ handle' \in Ports \cup {None} /\ pc' \in Steps /\ crashes' \in Nat
      BY <2>1
    <3> QED BY <2>2, <3>1, <3>2, <3>3 DEF TypeOK
  <2>4. Life' /\ Separate' /\ Recorded' /\ Restoring'
        /\ OnePort'
    BY <1>18, <2>1 DEF Restore, Restart, ApplyFails
  <2> QED BY <2>3, <2>4
<1>19. CASE Start BY <1>19 DEF Start
<1>20. CASE Kill
  <2>1. TypeOK'
    <3>1. /\ up' \in BOOLEAN /\ applied' \in BOOLEAN
          /\ inside' \in BOOLEAN /\ dirty' \in BOOLEAN /\ behind' \in BOOLEAN
      BY <1>20 DEF Kill, Lose
    <3>2. /\ conf' \in DhcpType /\ edit' \in DhcpType /\ loaded' \in DhcpType
          /\ saved' \in Noresolv \cup {None}
          /\ snippet' \in Ports \cup {None}
      BY <1>20 DEF Kill, Lose
    <3>3. /\ way' \in Ways /\ own' \in Noresolv /\ port' \in Ports
          /\ handle' \in Ports \cup {None} /\ pc' \in Steps /\ crashes' \in Nat
      BY <1>20 DEF Kill, Lose
    <3> QED BY <3>1, <3>2, <3>3 DEF TypeOK
  <2>2. Life' /\ Separate' /\ Recorded' /\ Restoring'
        /\ OnePort'
    BY <1>20 DEF Kill, Lose
  <2> QED BY <2>1, <2>2
<1>21. CASE PowerCut
  <2>1. TypeOK'
    <3>1. /\ up' \in BOOLEAN /\ applied' \in BOOLEAN
          /\ inside' \in BOOLEAN /\ dirty' \in BOOLEAN /\ behind' \in BOOLEAN
      BY <1>21 DEF PowerCut, Lose
    <3>2. /\ conf' \in DhcpType /\ edit' \in DhcpType /\ loaded' \in DhcpType
          /\ saved' \in Noresolv \cup {None}
          /\ snippet' \in Ports \cup {None}
      BY <1>21 DEF PowerCut, Lose
    <3>3. /\ way' \in Ways /\ own' \in Noresolv /\ port' \in Ports
          /\ handle' \in Ports \cup {None} /\ pc' \in Steps /\ crashes' \in Nat
      BY <1>21 DEF PowerCut, Lose
    <3> QED BY <3>1, <3>2, <3>3 DEF TypeOK
  <2>2. Life' /\ Separate' /\ Recorded' /\ Restoring'
        /\ OnePort'
    BY <1>21 DEF PowerCut, Lose
  <2> QED BY <2>1, <2>2
<1>22. CASE SetPort BY <1>22 DEF SetPort, KeepsPort, vars
<1>23. CASE OthersCommit BY <1>23 DEF OthersCommit
<1>24. CASE OthersRestart BY <1>24, RestartedType DEF OthersRestart
<1>25. CASE UNCHANGED vars BY <1>25 DEF vars
<1> QED
  BY <1>1, <1>2, <1>3, <1>4, <1>5, <1>6, <1>7, <1>8, <1>9, <1>10, <1>11,
     <1>12, <1>13, <1>14, <1>15, <1>16, <1>17, <1>18, <1>19, <1>20, <1>21,
     <1>22, <1>23, <1>24, <1>25 DEF Next, Applying, Reverting, World

\* Whenever the dhcp configuration is not the operator's, the state file says
\* what it was.
THEOREM EditsAreRecorded ==
  ASSUME RevertWorks
  PROVE  Spec /\ PortKept => []EditIsRecorded
<1>1. IInv => EditIsRecorded
  BY DEF IInv, Recorded
<1> QED BY <1>1, InitIInv, StepIInv, PTL DEF Spec, PortKept

\* A daemon without a connection has left every file as the operator had it,
\* wherever it was killed before.
THEOREM FilesComeBack ==
  ASSUME RevertWorks
  PROVE  Spec /\ PortKept => []FilesAreRestored
<1>1. IInv => FilesAreRestored
  BY DEF IInv, Restoring, Clean, FilesAreRestored
<1> QED BY <1>1, InitIInv, StepIInv, PTL DEF Spec, PortKept

-----------------------------------------------------------------------------
\* Where Apply has succeeded.

LEMMA InitSteering == Init => Steering /\ Returning
BY NoneAssumption DEF Init, Steering, Returning, Steered, Unsteered, Own,
                      Dhcp

LEMMA SteeringStep ==
  IInv /\ Steering /\ [Next]_vars => Steering'
<1> SUFFICES ASSUME IInv, Steering, [Next]_vars PROVE Steering'
  OBVIOUS
<1> USE NoneAssumption
    DEF IInv, TypeOK, DhcpType, Noresolv, Life, Separate, Recorded,
        EditIsRecorded, Restoring, Clean, Own, Dhcp, Read, Restarted,
        Steering, Steered, Asks, device, files, object
<1>1. CASE NewDNS BY <1>1 DEF NewDNS
<1>2. CASE Apply BY <1>2 DEF Apply
<1>3. CASE WriteSnippet BY <1>3 DEF WriteSnippet, ApplyFails
<1>4. CASE RestartSnippet
  <2>1. CASE pc' = "probe"
    <3>1. snippet = handle /\ handle # None /\ way = "snippet"
      BY <1>4 DEF RestartSnippet
    <3>2. Asks(Read(conf)) /\ Asks(Read(edit))
      BY <3>1
    <3> QED BY <1>4, <2>1, <3>1, <3>2 DEF RestartSnippet
  <2>2. CASE pc' # "probe"
    BY <1>4, <2>2 DEF RestartSnippet
  <2> QED BY <2>1, <2>2
<1>5. CASE Withdraw BY <1>5 DEF Withdraw, ApplyFails
<1>6. CASE Record BY <1>6 DEF Record, ApplyFails
<1>7. CASE AddServer BY <1>7 DEF AddServer, RevertInside
<1>8. CASE SetNoresolv BY <1>8 DEF SetNoresolv, RevertInside
<1>9. CASE CommitEdit BY <1>9 DEF CommitEdit, RevertInside
<1>10. CASE RestartUci BY <1>10 DEF RestartUci, RevertInside
<1>11. CASE Probe BY <1>11, WaysAssumption DEF Probe, RevertInside
<1>12. CASE TearDown BY <1>12 DEF TearDown
<1>13. CASE RemoveSnippet BY <1>13 DEF RemoveSnippet, AfterSnippet
<1>14. CASE Unlist BY <1>14 DEF Unlist
<1>15. CASE Unset BY <1>15 DEF Unset
<1>16. CASE Recommit BY <1>16 DEF Recommit
<1>17. CASE Forget BY <1>17 DEF Forget
<1>18. CASE Restore BY <1>18 DEF Restore, ApplyFails
<1>19. CASE Start BY <1>19 DEF Start
<1>20. CASE Kill \/ PowerCut BY <1>20 DEF Kill, PowerCut, Lose
<1>21. CASE SetPort BY <1>21 DEF SetPort
<1>22. CASE OthersCommit BY <1>22 DEF OthersCommit
<1>23. CASE OthersRestart
  <2>1. CASE Steered
    <3>1. Asks(Read(conf)) /\ Asks(Read(edit))
      <4>1. CASE way = "uci"
        BY <2>1, <4>1
      <4>2. CASE way = "snippet"
        BY <2>1, <4>2
      <4> QED BY <4>1, <4>2, WaysAssumption
    <3> QED BY <1>23, <2>1, <3>1 DEF OthersRestart
  <2>2. CASE ~Steered
    <3>1. /\ ~Steered'
          /\ UNCHANGED <<pc, up, applied, handle, edit, conf, snippet>>
      BY <1>23, <2>2 DEF OthersRestart
    <3> QED BY <3>1
  <2> QED BY <2>1, <2>2
<1>24. CASE UNCHANGED vars BY <1>24 DEF vars
<1> QED
  BY <1>1, <1>2, <1>3, <1>4, <1>5, <1>6, <1>7, <1>8, <1>9, <1>10, <1>11,
     <1>12, <1>13, <1>14, <1>15, <1>16, <1>17, <1>18, <1>19, <1>20, <1>21,
     <1>22, <1>23, <1>24 DEF Next, Applying, Reverting, World

\* Once Apply has succeeded, dnsmasq asks the core and nothing else, whoever
\* commits or restarts it meanwhile, until the daemon takes it back or dies.
THEOREM ApplyAlwaysSteers ==
  ASSUME RevertWorks
  PROVE  Spec /\ PortKept => []ApplySteers
<1>1. IInv /\ Steering => ApplySteers
  BY DEF Steering, Steered, Asks, ApplySteers
<1> QED
  BY <1>1, InitIInv, StepIInv, InitSteering, SteeringStep, PTL
     DEF Spec, PortKept

-----------------------------------------------------------------------------
\* Where Revert has returned.

LEMMA ReturningStep ==
  IInv /\ IInv' /\ Steering /\ Returning /\ [Next]_vars => Returning'
<1> SUFFICES ASSUME IInv, IInv', Steering, Returning, [Next]_vars
             PROVE  Returning'
  OBVIOUS
<1> USE NoneAssumption
    DEF IInv, TypeOK, Noresolv, Life, Separate, Recorded,
        EditIsRecorded, Restoring, Unsteered, Clean, Own, Read, Restarted,
        Steering, Steered, Returning, device, files, object
<1>1. CASE NewDNS BY <1>1 DEF NewDNS
<1>2. CASE Apply BY <1>2 DEF Apply
<1>3. CASE WriteSnippet BY <1>3 DEF WriteSnippet, ApplyFails
<1>4. CASE RestartSnippet BY <1>4 DEF RestartSnippet
<1>5. CASE Withdraw BY <1>5 DEF Withdraw, ApplyFails
<1>6. CASE Record BY <1>6 DEF Record, ApplyFails
<1>7. CASE AddServer BY <1>7 DEF AddServer, RevertInside
<1>8. CASE SetNoresolv BY <1>8 DEF SetNoresolv, RevertInside
<1>9. CASE CommitEdit BY <1>9 DEF CommitEdit, RevertInside
<1>10. CASE RestartUci BY <1>10 DEF RestartUci, RevertInside
<1>11. CASE Probe BY <1>11, WaysAssumption DEF Probe, RevertInside
<1>12. CASE TearDown BY <1>12, WaysAssumption DEF TearDown
<1>13. CASE RemoveSnippet BY <1>13 DEF RemoveSnippet, AfterSnippet
<1>14. CASE Unlist BY <1>14 DEF Unlist
<1>15. CASE Unset BY <1>15 DEF Unset
<1>16. CASE Recommit BY <1>16 DEF Recommit
<1>17. CASE Forget BY <1>17 DEF Forget
<1>18. CASE Restore BY <1>18 DEF Restore, Restart, ApplyFails
<1>19. CASE Start BY <1>19 DEF Start
<1>20. CASE Kill
  <2>1. /\ ~behind' => ~behind /\ ~(pc = "restore" /\ dirty)
        /\ up /\ ~up' /\ pc' = "idle" /\ UNCHANGED <<own, files, loaded>>
    BY <1>20 DEF Kill, Lose
  <2>2. SUFFICES ASSUME ~behind, ~(pc = "restore" /\ dirty)
                 PROVE  snippet # None \/ saved # None \/ loaded = Own
    BY <2>1
  <2>3. CASE pc = "idle"
    BY <2>1, <2>2, <2>3, WaysAssumption
  <2>4. CASE pc \in {"made", "write", "record", "failed", "withdraw", "remove",
                      "restore"}
    BY <2>2, <2>4
  <2>5. CASE pc \in {"restartSnippet", "probe"}
    BY <2>5, WaysAssumption
  <2>6. CASE pc \in {"add", "set", "commit", "restartUci", "unlist", "unset",
                      "recommit", "forget"}
    BY <2>6
  <2> QED BY <2>3, <2>4, <2>5, <2>6 DEF Steps
<1>21. CASE PowerCut
  <2>1. /\ ~up' /\ pc' = "idle" /\ loaded' = conf /\ conf' = conf
        /\ UNCHANGED <<own, saved>>
    BY <1>21 DEF PowerCut, Lose
  <2>2. conf # Own => saved # None
    OBVIOUS
  <2> QED BY <2>1, <2>2
<1>22. CASE SetPort BY <1>22 DEF SetPort
<1>23. CASE OthersCommit BY <1>23 DEF OthersCommit
<1>24. CASE OthersRestart BY <1>24 DEF OthersRestart
<1>25. CASE UNCHANGED vars BY <1>25 DEF vars
<1> QED
  BY <1>1, <1>2, <1>3, <1>4, <1>5, <1>6, <1>7, <1>8, <1>9, <1>10, <1>11,
     <1>12, <1>13, <1>14, <1>15, <1>16, <1>17, <1>18, <1>19, <1>20, <1>21,
     <1>22, <1>23, <1>24, <1>25 DEF Next, Applying, Reverting, World

\* Whichever step of Apply failed and wherever the daemon was killed or lost its
\* power, dnsmasq runs with what the operator had, except after one of the three
\* moments that behind records: a failed restart behind a snippet, a failed last
\* restart of a Revert, and a kill before it, as long as no restart or power cut
\* has made up for it.  The other steps of Revert are assumed to work.
THEOREM RevertAlwaysRestores ==
  ASSUME RevertWorks
  PROVE  Spec /\ PortKept => []RevertRestores
<1>1. IInv /\ Returning => RevertRestores
  BY DEF Returning, RevertRestores
<1> QED
  BY <1>1, InitIInv, StepIInv, InitSteering, SteeringStep, ReturningStep, PTL
     DEF Spec, PortKept
=============================================================================
