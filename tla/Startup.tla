------------------------------ MODULE Startup -------------------------------
(***************************************************************************)
(* node.New (node/lifecycle.go, network/host.go, network/p2p): the stages  *)
(* of starting a node, what each opens, what is closed when a later one    *)
(* fails, and the file with the node's key, which two loaders read in two  *)
(* ways.  The file is all that survives the process.  Reading it may fail, *)
(* and a crash or a failing write may leave it half written.               *)
(***************************************************************************)
EXTENDS Integers

CONSTANTS
  Formats,      \* formats of a key file that is there from the beginning
  MaxStarts     \* bound: how often the node is started

StartupAssumption ==
  Formats \subseteq {"libp2p", "hex", "raw"} /\ MaxStarts \in Nat

VARIABLES
  keyPath,  \* was --node-key given?
  file,     \* the key file
  stage,    \* what New does next; "running", "failed" or "down"
  open,     \* what the process has open
  hostKey, discoveryKey,
  identities,  \* the keys the node has run with
  lost,        \* the keys in files that were overwritten by a new one
  fault,    \* did something outside the program fail in this start?
  starts    \* also numbers the keys that are generated

vars ==
  <<keyPath, file, stage, open, hostKey, discoveryKey, identities, lost, fault, starts>>

NoKey == 0
Absent == [format |-> "absent", key |-> NoKey]
Torn == [format |-> "torn", key |-> NoKey]
File(format, key) == [format |-> format, key |-> key]

(* A key is a number: 1 is that of an old file, the others are generated.  *)
NewHostKey == 2 * starts
NewNodeKey == 2 * starts + 1

Init ==
  /\ keyPath \in BOOLEAN
  /\ file \in {Absent} \cup {File(f, 1) : f \in Formats}
  /\ stage = "down" /\ open = {}
  /\ hostKey = NoKey /\ discoveryKey = NoKey
  /\ identities = {} /\ lost = {} /\ fault = FALSE /\ starts = 0

Start ==
  /\ stage \in {"down", "failed"} /\ starts < MaxStarts
  /\ stage' = "host" /\ starts' = starts + 1
  /\ open' = {} /\ hostKey' = NoKey /\ discoveryKey' = NoKey /\ fault' = FALSE
  /\ UNCHANGED <<keyPath, file, identities, lost>>

Go(next, opened) == stage' = next /\ open' = open \cup opened
Fail(closed) == stage' = "failed" /\ open' = open \ closed
Unfaulted == UNCHANGED <<keyPath, identities, lost, fault, starts>>

-----------------------------------------------------------------------------
(* NewHost and JoinTopics.                                                 *)

Host == {"host", "gossip"}

(* Mutant: the key in the file is ignored.                                 *)
KeyOfFileNew(readable) == File("libp2p", NewHostKey)

(* loadOrGenerateKey: the file it uses from now on.  Whatever goes wrong   *)
(* with the reading is taken for a file that does not exist.               *)
KeyOfFile(readable) ==
  IF file # Absent /\ readable THEN file ELSE File("libp2p", NewHostKey)

(* The keys lost when a file that cannot be read is written again.         *)
Lost(readable) == IF file = Absent \/ readable THEN {} ELSE {file.key}

(* Without a path the key is a new one and is not saved.                   *)
NewHost ==
  /\ stage = "host" /\ ~ keyPath
  /\ Go("join", Host) /\ hostKey' = NewHostKey
  /\ UNCHANGED <<file, discoveryKey>> /\ Unfaulted

LoadHostKey ==
  /\ stage = "host" /\ keyPath
  /\ \E readable \in BOOLEAN :
       /\ file' = KeyOfFile(readable)
       /\ lost' = lost \cup Lost(readable)
       /\ fault' = (fault \/ ~ readable)
  /\ IF file'.format = "libp2p" THEN Go("join", Host) /\ hostKey' = file'.key
     ELSE Fail({}) /\ UNCHANGED hostKey
  /\ UNCHANGED <<keyPath, discoveryKey, identities, starts>>

JoinTopics ==
  /\ stage = "join"
  /\ Go("manager", {})
  /\ UNCHANGED <<file, hostKey, discoveryKey>> /\ Unfaulted

-----------------------------------------------------------------------------
(* initDiscovery: NewLocalNodeManager and NewDiscoveryService.             *)

(* Hex, 32 raw bytes, or a libp2p key.                                     *)
Readable == {"hex", "raw", "libp2p"}

(* loadOrGenerateNodeKey.  A new key is saved as hex; without a path it    *)
(* cannot be saved.                                                        *)
LoadNodeKey ==
  /\ stage = "manager"
  /\ CASE ~ keyPath -> Fail(Host) /\ UNCHANGED <<file, discoveryKey>>
       [] keyPath /\ file = Absent ->
            /\ file' = File("hex", NewNodeKey) /\ discoveryKey' = NewNodeKey
            /\ Go("discovery", {"db"})
       [] keyPath /\ file # Absent ->
            /\ IF file.format \in Readable
               THEN discoveryKey' = file.key /\ Go("discovery", {"db"})
               ELSE Fail(Host) /\ UNCHANGED discoveryKey
            /\ UNCHANGED file
  /\ UNCHANGED hostKey /\ Unfaulted

(* A node without discovery goes on.  If the UDP socket was open by then   *)
(* nobody closes it.                                                       *)
StartDiscovery ==
  /\ stage = "discovery"
  /\ \E opened \in {{"udp", "discv5"}, {}, {"udp"}} :
       /\ Go("keys", opened)
       /\ fault' = (fault \/ opened # {"udp", "discv5"})
  /\ UNCHANGED <<keyPath, file, hostKey, discoveryKey, identities, lost, starts>>

-----------------------------------------------------------------------------
(* loadValidatorKeys, registerHandlers, ConnectBootnodes, startMetrics.    *)

LoadValidatorKeys ==
  /\ stage = "keys"
  /\ Go("handlers", {})
  /\ UNCHANGED <<file, hostKey, discoveryKey>> /\ Unfaulted

RegisterHandlers ==
  /\ stage = "handlers"
  /\ Go("running", {})
  /\ identities' = identities \cup {hostKey}
  /\ UNCHANGED <<keyPath, file, hostKey, discoveryKey, lost, fault, starts>>

(* Mutant: only the host and the database are closed.                      *)
CleanupNoDiscovery == Host \cup {"db"}

(* Discovery, if there is one, the manager and the host.                   *)
Cleanup == Host \cup {"db"} \cup (IF "discv5" \in open THEN {"discv5", "udp"} ELSE {})

(* What each stage closes when it fails for reasons outside the program.   *)
Closes(s) ==
  CASE s = "host" -> {}
    [] s \in {"join", "manager"} -> Host
    [] s \in {"keys", "handlers"} -> Cleanup

StageFails ==
  /\ stage \in {"host", "join", "manager", "keys", "handlers"}
  /\ fault' = TRUE
  /\ Fail(Closes(stage))
  /\ UNCHANGED <<keyPath, file, hostKey, discoveryKey, identities, lost, starts>>

-----------------------------------------------------------------------------
(* The process ends, by a crash or at the end of Run.                      *)
Stop ==
  /\ stage \notin {"down", "failed"}
  /\ stage' = "down" /\ open' = {}
  /\ UNCHANGED <<file, hostKey, discoveryKey>> /\ Unfaulted

(* os.WriteFile of the new key truncates the file first; a crash or an     *)
(* error cuts it short.                                                    *)
WriteCutShort ==
  /\ stage = "host" /\ keyPath
  /\ file' = Torn /\ fault' = TRUE
  /\ \E readable \in BOOLEAN :
       /\ KeyOfFile(readable) # file
       /\ lost' = lost \cup Lost(readable)
  /\ stage' \in {"down", "failed"}
  /\ UNCHANGED <<keyPath, open, hostKey, discoveryKey, identities, starts>>

Next ==
  \/ Start \/ NewHost \/ LoadHostKey \/ JoinTopics \/ LoadNodeKey \/ StartDiscovery
  \/ LoadValidatorKeys \/ RegisterHandlers \/ StageFails \/ Stop \/ WriteCutShort

Spec == Init /\ [][Next]_vars

-----------------------------------------------------------------------------
(* Properties.                                                             *)

(* A node whose key is on disk has one identity: libp2p and discovery use  *)
(* the key of the file although they have loaders of their own, and the    *)
(* peer id changes from one start to another only when the file with the   *)
(* old key was overwritten, after a read of it failed.                     *)
OneIdentity ==
  /\ stage = "running" => hostKey = file.key /\ discoveryKey = file.key
  /\ \A k, l \in identities \ lost : k = l

(* New accepts the file it wrote itself, if the write was not cut short:   *)
(* when nothing outside the program failed, it fails only for a file that  *)
(* libp2p did not write, or without --node-key, when the key that          *)
(* discovery generates has no path to be saved under.                      *)
OwnFileAccepted ==
  stage = "failed" /\ ~ fault => ~ keyPath \/ file.format \in {"hex", "raw", "torn"}

(* When New fails, nothing that was opened on the way stays open, except   *)
(* the socket of a discovery service that could not start.                 *)
FailureClosesAll ==
  stage = "failed" => open \subseteq IF fault THEN {"udp"} ELSE {}

(* A failed start has a reason and leaves nothing behind.                  *)
FailsCleanly == OwnFileAccepted /\ FailureClosesAll
=============================================================================
