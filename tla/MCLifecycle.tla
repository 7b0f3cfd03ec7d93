---------------------------- MODULE MCLifecycle -----------------------------
(***************************************************************************)
(* Model checking how a devnet is set up, how a node is started and how    *)
(* the nodes go on together: Setup has the validators' keys of all nodes,  *)
(* Startup the own key and the stages of one node, Devnet the proposals of *)
(* several.  They share no state, so a behaviour is one of one of them,    *)
(* and the idle ones keep still.                                           *)
(***************************************************************************)
EXTENDS Setup

CONSTANTS Formats, MaxStarts, Members, Owner, MaxAge, MaxMissed

VARIABLES
  part,  \* whose behaviour this is
  keyPath, file, stage, open, hostKey, discoveryKey, identities, lost, fault, starts,
  turn, age, up, acted, missed, gap

startupVars ==
  <<keyPath, file, stage, open, hostKey, discoveryKey, identities, lost, fault, starts>>
devnetVars == <<turn, age, up, acted, missed, gap>>

S == INSTANCE Startup
D == INSTANCE Devnet WITH Nodes <- Members

ASSUME StartupAssumed == S!StartupAssumption
ASSUME DevnetAssumed == D!DevnetAssumption

(* Three nodes, of which one runs two validators in turn.                  *)
MCOwner == <<"n1", "n1", "n2", "n3">>

SetupOnly == part = "setup" /\ UNCHANGED <<part, startupVars, devnetVars>>
StartupOnly == part = "startup" /\ UNCHANGED <<part, vars, devnetVars>>
DevnetOnly == part = "devnet" /\ UNCHANGED <<part, vars, startupVars>>

SetupIdle == Init /\ registry = << >>
StartupIdle == S!Init /\ keyPath /\ file = S!Absent

LifecycleInit ==
  \/ part = "setup" /\ Init /\ StartupIdle /\ D!Init
  \/ part = "startup" /\ SetupIdle /\ S!Init /\ D!Init
  \/ part = "devnet" /\ SetupIdle /\ StartupIdle /\ D!Init

LifecycleNext ==
  (SetupOnly /\ Next) \/ (StartupOnly /\ S!Next) \/ (DevnetOnly /\ D!Next)

lifecycleVars == <<part, vars, startupVars, devnetVars>>

(* The fairness is that of Devnet; nothing is assumed of the others.       *)
LifecycleSpec ==
  /\ LifecycleInit /\ [][LifecycleNext]_lifecycleVars
  /\ WF_lifecycleVars(DevnetOnly /\ D!NextSlot)
  /\ \A n \in Members :
       /\ WF_lifecycleVars(DevnetOnly /\ D!OnInterval(n))
       /\ WF_lifecycleVars(DevnetOnly /\ D!Restart(n))

(* The properties of Startup; see there.                                   *)
OneIdentity == S!OneIdentity
FailsCleanly == S!FailsCleanly

(* Blocks keep coming, whatever nodes crash and restart, as long as no two *)
(* proposers in a row are down.                                            *)
BlocksKeepComing == part = "devnet" => D!BlocksKeepComing

(* Two such slots end the chain: from then on every node finds its head    *)
(* too old for duties (slot <= HeadSlot + 2 in node/ticker.go).            *)
GapEndsChain == D!GapEndsChain

(* Devnet on its own, for the theorem about it.                            *)
DevnetSpec == D!Spec
=============================================================================
