-------------------------- MODULE LifecycleProofs --------------------------
(***************************************************************************)
(* Proofs about how a devnet is set up (Setup), how a node is started      *)
(* (Startup, here S), and how the nodes of a devnet go on together         *)
(* (Devnet, here D), for any number of nodes, validators, keygen runs and  *)
(* starts.                                                                 *)
(***************************************************************************)
EXTENDS MCLifecycle, WellFoundedInduction, TLAPS

-----------------------------------------------------------------------------
(* The start of a node.                                                    *)

StartupTypes ==
  /\ keyPath \in BOOLEAN /\ fault \in BOOLEAN
  /\ file.format \in {"absent", "torn", "libp2p", "hex", "raw"}
  /\ file.format = "absent" <=> file = S!Absent
  /\ stage \in {"down", "failed", "host", "join", "manager", "discovery", "keys",
                "handlers", "running"}

(* After its loader, each key is that of the file, which libp2p wrote.     *)
KeysOfFile ==
  /\ stage \in {"join", "manager", "discovery", "keys", "handlers", "running"} /\ keyPath
       => file.format = "libp2p" /\ hostKey = file.key
  /\ stage \in {"discovery", "keys", "handlers", "running"}
       => keyPath /\ discoveryKey = file.key
  /\ \A k \in identities : k \in lost \/ (file.format = "libp2p" /\ k = file.key)

(* What a node has open when discovery has been tried.                     *)
OpenNow ==
  {S!Host \cup {"db"} \cup o : o \in {{}, {"udp"}, {"udp", "discv5"}}}

(* What is open at each stage.                                             *)
OpenAt ==
  /\ stage \in {"down", "host"} => open = {}
  /\ stage \in {"join", "manager"} => open = S!Host
  /\ stage = "discovery" => open = S!Host \cup {"db"}
  /\ stage \in {"keys", "handlers", "running"} => open \in OpenNow
  /\ FailsCleanly

StartupInv == StartupTypes /\ KeysOfFile /\ OpenAt

(* Before the first start nothing is open, and no key has been used.       *)
LEMMA StartupInit == S!Init => StartupInv
<1> SUFFICES ASSUME S!Init PROVE StartupInv
  OBVIOUS
<1>1. Formats \subseteq {"libp2p", "hex", "raw"}
  BY StartupAssumed DEF S!StartupAssumption
<1>2. StartupTypes
  <2>1. keyPath \in BOOLEAN /\ fault \in BOOLEAN
    BY Zenon DEF S!Init
  <2>2. file = S!Absent \/ \E f \in {"libp2p", "hex", "raw"} : file = S!File(f, 1)
    BY <1>1 DEF S!Init
  <2>3. /\ file.format \in {"absent", "torn", "libp2p", "hex", "raw"}
        /\ file.format = "absent" <=> file = S!Absent
    BY <2>2 DEF S!Absent, S!File
  <2> QED
    BY <2>1, <2>3 DEF S!Init, StartupTypes
<1>3. stage = "down" /\ open = {} /\ identities = {}
  BY DEF S!Init
<1> QED
  BY <1>2, <1>3 DEF StartupInv, KeysOfFile, OpenAt, FailsCleanly, S!FailsCleanly,
     S!OwnFileAccepted, S!FailureClosesAll

(* The keys and what is open, action by action.                            *)
LEMMA StartupNext == StartupInv /\ [S!Next]_(S!vars) => StartupInv'
<1> SUFFICES ASSUME StartupInv, [S!Next]_(S!vars)
             PROVE  StartupInv'
  OBVIOUS
<1> USE DEF StartupInv, KeysOfFile, OpenAt, OpenNow, FailsCleanly, S!FailsCleanly,
            S!OwnFileAccepted, S!FailureClosesAll, S!Host, S!Unfaulted
<1>1. CASE S!Start
  BY <1>1 DEF S!Start, StartupTypes
<1>2. CASE S!LoadHostKey
  <2>1. PICK readable \in BOOLEAN :
          /\ file' = S!KeyOfFile(readable)
          /\ lost' = lost \cup S!Lost(readable)
          /\ fault' = (fault \/ ~ readable)
    BY <1>2 DEF S!LoadHostKey
  <2>2. CASE file # S!Absent /\ readable
    <3>1. file' = file /\ lost' = lost
      BY <2>1, <2>2 DEF S!KeyOfFile, S!Lost
    <3>2. fault' \in BOOLEAN
      BY <2>1, Zenon DEF StartupTypes
    <3>3. file.format # "absent"
      BY <2>2 DEF StartupTypes
    <3> QED
      BY <1>2, <3>1, <3>2, <3>3 DEF S!LoadHostKey, S!Go, S!Fail, S!Absent, StartupTypes
  <2>3. CASE ~ (file # S!Absent /\ readable)
    <3>1. file' = S!File("libp2p", S!NewHostKey) /\ lost \subseteq lost'
      BY <2>1, <2>3 DEF S!KeyOfFile
    <3>2. file # S!Absent => file.key \in lost'
      BY <2>1, <2>3 DEF S!Lost
    <3>3. \A k \in identities : k \in lost'
      BY <3>1, <3>2 DEF StartupTypes
    <3>4. fault' \in BOOLEAN
      BY <2>1, Zenon DEF StartupTypes
    <3> QED
      BY <1>2, <3>1, <3>3, <3>4 DEF S!LoadHostKey, S!Go, S!Fail, S!File, S!Absent,
         StartupTypes
  <2> QED
    BY <2>2, <2>3
<1>3. CASE S!JoinTopics
  BY <1>3 DEF S!JoinTopics, S!Go, StartupTypes
<1>4. CASE S!LoadNodeKey
  BY <1>4 DEF S!LoadNodeKey, S!Go, S!Fail, S!File, S!Absent, S!Readable, StartupTypes
<1>5. CASE S!StartDiscovery
  BY <1>5 DEF S!StartDiscovery, S!Go, StartupTypes
<1>6. CASE S!LoadValidatorKeys
  BY <1>6 DEF S!LoadValidatorKeys, S!Go, StartupTypes
<1>7. CASE S!RegisterHandlers
  BY <1>7 DEF S!RegisterHandlers, S!Go, StartupTypes
<1>8. CASE S!StageFails
  BY <1>8 DEF S!StageFails, S!Closes, S!Cleanup, S!Fail, StartupTypes
<1>9. CASE S!Stop
  BY <1>9 DEF S!Stop, StartupTypes
<1>10. CASE S!WriteCutShort
  <2>1. PICK readable \in BOOLEAN :
          S!KeyOfFile(readable) # file /\ lost' = lost \cup S!Lost(readable)
    BY <1>10 DEF S!WriteCutShort
  <2>2. lost \subseteq lost' /\ (file # S!Absent => file.key \in lost')
    BY <2>1 DEF S!KeyOfFile, S!Lost
  <2>3. \A k \in identities : k \in lost'
    BY <2>2 DEF StartupTypes
  <2> QED
    BY <1>10, <2>3 DEF S!WriteCutShort, S!Torn, S!Absent, StartupTypes
<1>11. CASE S!NewHost
  BY <1>11 DEF S!NewHost, S!Go, StartupTypes
<1>12. CASE UNCHANGED S!vars
  BY <1>12 DEF S!vars, StartupTypes
<1> QED
  BY <1>1, <1>2, <1>3, <1>4, <1>5, <1>6, <1>7, <1>8, <1>9, <1>10, <1>11, <1>12 DEF S!Next

(* The keys and the open handles are right after any number of starts,     *)
(* failures and crashes.                                                   *)
THEOREM StartupInvariance == S!Spec => []StartupInv
BY StartupInit, StartupNext, PTL DEF S!Spec

(* OneIdentity: libp2p and discovery run with the key of the file, and all *)
(* starts give the same peer id, whatever wrote the file, but for keys     *)
(* that loadOrGenerateKey overwrote because it could not read the file.    *)
THEOREM NodeHasOneIdentity == S!Spec => []OneIdentity
<1>1. StartupInv => OneIdentity
  BY DEF StartupInv, KeysOfFile, OneIdentity, S!OneIdentity
<1> QED
  BY <1>1, StartupInvariance, PTL

(* FailsCleanly: New fails only for a reason outside the program or a file *)
(* that libp2p did not write, and closes what earlier stages opened.       *)
THEOREM StartsFailCleanly == S!Spec => []FailsCleanly
<1>1. StartupInv => FailsCleanly
  BY DEF StartupInv, OpenAt
<1> QED
  BY <1>1, StartupInvariance, PTL

-----------------------------------------------------------------------------
(* Keys and validators.yaml.                                               *)

(* The least element of a set of naturals.                                 *)
LEMMA MinIn ==
  ASSUME NEW T \in SUBSET Nat, T # {}
  PROVE  Min(T) \in T
<1>1. IsWellFoundedOn(OpToRel(<, Nat), Nat)
  BY NatLessThanWellFounded, Zenon
<1>2. PICK m \in T : \A y \in T : ~ (<<y, m>> \in OpToRel(<, Nat))
  BY <1>1, WFMin, Zenon
<1>3. \A y \in T : ~ (y < m)
  BY <1>2, Zenon DEF OpToRel
<1>4. \A y \in T : m <= y
  BY <1>3
<1> QED
  BY <1>4 DEF Min

(* A line of config.yaml holds the key it was made from.                   *)
LEMMA LineKeepsKey == \A k \in Int : Head(TrimPrefix(Line(k))) = k
<1> SUFFICES ASSUME NEW k \in Int PROVE Head(TrimPrefix(Line(k))) = k
  OBVIOUS
<1>1. Line(k) = <<"0x", k>> /\ Head(Line(k)) = "0x"
  BY DEF Line
<1>2. Tail(Line(k)) = <<k>>
  BY <1>1
<1> QED
  BY <1>1, <1>2 DEF TrimPrefix

(* A half of validator i's key is there in full, in part or not at all.    *)
FilesInv ==
  /\ pk \in [Indices -> Int] /\ sk \in [Indices -> Int]
  /\ \A i \in Indices : pk[i] \in {Absent, Torn, i} /\ sk[i] \in {Absent, Torn, i}

(* keygen has listed the public keys of the validators it is done with.    *)
GenInv ==
  /\ gen.pc \in {"off", "pk", "sk"}
  /\ gen.i \in Nat /\ gen.count \in Nat /\ gen.i <= gen.count /\ gen.count <= Count
  /\ gen.pc = "sk" => gen.i < gen.count
  /\ gen = [pc |-> gen.pc, i |-> gen.i, count |-> gen.count, pubkeys |-> gen.pubkeys]
  /\ gen.pubkeys \in Seq(Int) /\ Len(gen.pubkeys) = gen.i
  /\ \A k \in 1 .. gen.i : gen.pubkeys[k] = k - 1

(* config.yaml has the key of seed i at index i.                           *)
ConfigInv ==
  /\ DOMAIN config = 1 .. Len(config)
  /\ Len(config) \in Nat /\ Len(config) <= Count
  /\ \A k \in 1 .. Len(config) : config[k] = Line(k - 1)

RegistryInv ==
  /\ DOMAIN registry \subseteq Nat
  /\ \A a \in DOMAIN registry :
       /\ DOMAIN registry[a].validators \subseteq Nat
       /\ \A j \in DOMAIN registry[a].validators : registry[a].validators[j] \in 0 .. Count

(* A running node has whole keys, for its own entry of validators.yaml.    *)
NodeKeys(n) ==
  [running |-> TRUE, ids |-> GetValidatorIndices(n),
   key |-> [i \in ToSet(GetValidatorIndices(n)) |-> [pk |-> i, sk |-> i]]]

NodesInv ==
  /\ keys = [n \in Nodes |-> keys[n]]
  /\ \A n \in Nodes : keys[n] # NoKeys =>
       /\ config # << >> /\ Validate
       /\ keys[n] = NodeKeys(n)

SetupInv == FilesInv /\ GenInv /\ ConfigInv /\ RegistryInv /\ NodesInv

(* The ids of a node are the validators of one entry, which names it.      *)
LEMMA IndicesOfEntry ==
  ASSUME RegistryInv, NEW n, GetValidatorIndices(n) # << >>
  PROVE  \E a \in DOMAIN registry :
           registry[a].node = n /\ GetValidatorIndices(n) = registry[a].validators
<1> DEFINE own == {a \in DOMAIN registry : registry[a].node = n}
<1>1. own # {}
  BY DEF GetValidatorIndices
<1>2. own \in SUBSET Nat
  BY DEF RegistryInv
<1> HIDE DEF own
<1>3. Min(own) \in own
  BY <1>1, <1>2, MinIn
<1>4. GetValidatorIndices(n) = registry[Min(own)].validators
  BY <1>1 DEF GetValidatorIndices, own
<1> QED
  BY <1>3, <1>4 DEF own

(* Two equal ids are at the same place of the same entry.                  *)
LEMMA PlacesDiffer ==
  ASSUME Validate,
         NEW a \in DOMAIN registry, NEW b \in DOMAIN registry,
         NEW j \in DOMAIN registry[a].validators, NEW k \in DOMAIN registry[b].validators,
         registry[a].validators[j] = registry[b].validators[k]
  PROVE  a = b /\ j = k
<1> DEFINE places == UNION {{c} \X DOMAIN registry[c].validators : c \in DOMAIN registry}
           index(p) == registry[p[1]].validators[p[2]]
<1>1. <<a, j>> \in places /\ <<b, k>> \in places
  OBVIOUS
<1>2. index(<<a, j>>) = index(<<b, k>>)
  OBVIOUS
<1>3. \A p, q \in places : index(p) = index(q) => p = q
  BY Zenon DEF Validate
<1>4. <<a, j>> = <<b, k>>
  BY <1>1, <1>2, <1>3
<1> QED
  BY <1>4

(* An accepted id is a validator of config.yaml.                           *)
LEMMA IdsInRange ==
  ASSUME Validate, RegistryInv, NEW n, NEW i \in ToSet(GetValidatorIndices(n))
  PROVE  i \in Nat /\ i < NumValidators
<1>1. GetValidatorIndices(n) # << >>
  BY DEF ToSet
<1>2. PICK a \in DOMAIN registry : GetValidatorIndices(n) = registry[a].validators
  BY <1>1, IndicesOfEntry
<1>3. PICK j \in DOMAIN registry[a].validators : i = registry[a].validators[j]
  BY <1>2 DEF ToSet
<1> DEFINE places == UNION {{c} \X DOMAIN registry[c].validators : c \in DOMAIN registry}
           index(p) == registry[p[1]].validators[p[2]]
<1>4. <<a, j>> \in places
  OBVIOUS
<1>5. \A p \in places : index(p) < NumValidators
  BY Zenon DEF Validate
<1>6. index(<<a, j>>) < NumValidators
  BY <1>4, <1>5
<1> QED
  BY <1>3, <1>6 DEF RegistryInv

(* No key and no config.yaml is made yet, and no node runs.                *)
LEMMA SetupInit == Init => SetupInv
<1> SUFFICES ASSUME Init PROVE SetupInv
  OBVIOUS
<1>1. Count \in Nat /\ MaxEntries \in Nat /\ MaxShare \in Nat
  BY SetupAssumption
<1>2. FilesInv
  BY DEF Init, FilesInv, Absent
<1>3. GenInv
  BY <1>1 DEF Init, GenInv, Off
<1>4. ConfigInv
  BY <1>1 DEF Init, ConfigInv
<1>5. RegistryInv
  <2>1. PICK m \in 0 .. MaxEntries : registry \in [1 .. m -> Assignments]
    BY DEF Init, BoundedSeq, SeqOf
  <2>2. ASSUME NEW a \in DOMAIN registry
        PROVE  /\ DOMAIN registry[a].validators \subseteq Nat
               /\ \A j \in DOMAIN registry[a].validators :
                    registry[a].validators[j] \in 0 .. Count
    <3>1. registry[a].validators \in BoundedSeq(0 .. Count, MaxShare)
      BY <2>1 DEF Assignments
    <3>2. PICK l \in 0 .. MaxShare : registry[a].validators \in [1 .. l -> 0 .. Count]
      BY <3>1 DEF BoundedSeq, SeqOf
    <3> QED
      BY <3>2
  <2> QED
    BY <2>1, <2>2 DEF RegistryInv
<1>6. NodesInv
  BY DEF Init, NodesInv
<1> QED
  BY <1>2, <1>3, <1>4, <1>5, <1>6 DEF SetupInv

(* What validators.yaml and config.yaml give stays the same with them.     *)
LEMMA SameFiles ==
  ASSUME UNCHANGED <<registry, config>>
  PROVE  /\ RegistryInv => RegistryInv'
         /\ ConfigInv => ConfigInv'
         /\ Validate' = Validate
         /\ \A n : GetValidatorIndices(n)' = GetValidatorIndices(n)
         /\ \A n : NodeKeys(n)' = NodeKeys(n)
<1>1. RegistryInv => RegistryInv'
  BY DEF RegistryInv
<1>2. ConfigInv => ConfigInv'
  BY DEF ConfigInv
<1>3. Validate' = Validate
  BY DEF Validate, NumValidators
<1>4. \A n : GetValidatorIndices(n)' = GetValidatorIndices(n)
  BY DEF GetValidatorIndices
<1>5. \A n : NodeKeys(n)' = NodeKeys(n)
  BY <1>4 DEF NodeKeys
<1> QED
  BY <1>1, <1>2, <1>3, <1>4, <1>5

(* A node that runs keeps its keys while the other files change.           *)
LEMMA SameNodes ==
  ASSUME NodesInv, UNCHANGED <<registry, config, keys>>
  PROVE  NodesInv'
BY SameFiles DEF NodesInv, NoKeys

(* Every step of keygen and every start keeps the keys right.              *)
LEMMA SetupNext == SetupInv /\ [Next]_vars => SetupInv'
<1> SUFFICES ASSUME SetupInv, [Next]_vars PROVE SetupInv'
  OBVIOUS
<1> USE DEF SetupInv
<1>0. Count \in Nat
  BY SetupAssumption
<1>1. ASSUME NEW count \in 1 .. Count, Keygen(count) PROVE SetupInv'
  <2>1. GenInv'
    BY <1>0, <1>1 DEF Keygen, GenInv
  <2>2. FilesInv'
    BY <1>1 DEF Keygen, FilesInv, files
  <2> QED
    BY <1>1, <2>1, <2>2, SameFiles, SameNodes DEF Keygen
<1>2. CASE SavePublicKey
  <2>1. GenInv'
    BY <1>2 DEF SavePublicKey, GenInv
  <2>2. FilesInv'
    <3>1. gen.i \in Indices
      BY <1>0, <1>2 DEF SavePublicKey, GenInv, Indices
    <3>2. Keypair(gen.i).pk = gen.i
      BY DEF Keypair, GenerateKeypair, Seed
    <3> QED
      BY <1>2, <3>1, <3>2 DEF SavePublicKey, FilesInv, Indices
  <2> QED
    BY <1>2, <2>1, <2>2, SameFiles, SameNodes DEF SavePublicKey
<1>3. CASE SaveSecretKey
  <2>1. gen.i \in Indices
    BY <1>0, <1>3 DEF SaveSecretKey, GenInv, Indices
  <2>2. Keypair(gen.i).pk = gen.i /\ Keypair(gen.i).sk = gen.i
    BY DEF Keypair, GenerateKeypair, Seed
  <2>3. GenInv'
    <3> DEFINE new == Append(gen.pubkeys, gen.i)
    <3>1. gen' = [pc |-> "pk", i |-> gen.i + 1, count |-> gen.count, pubkeys |-> new]
      BY <1>3, <2>2 DEF SaveSecretKey, GenInv
    <3>2. gen.pubkeys \in Seq(Int) /\ Len(gen.pubkeys) = gen.i /\ gen.i \in Nat
      BY DEF GenInv
    <3>3. /\ new \in Seq(Int) /\ Len(new) = gen.i + 1
          /\ \A k \in 1 .. gen.i : new[k] = gen.pubkeys[k]
          /\ new[gen.i + 1] = gen.i
      BY <3>2
    <3>4. \A k \in 1 .. gen.i + 1 : new[k] = k - 1
      BY <3>2, <3>3 DEF GenInv
    <3>5. gen.i + 1 <= gen.count /\ gen.count \in Nat /\ gen.count <= Count
      BY <1>0, <1>3 DEF SaveSecretKey, GenInv
    <3> HIDE DEF new
    <3>6. gen'.i = gen.i + 1 /\ gen'.count = gen.count /\ gen'.pubkeys = new /\ gen'.pc = "pk"
      BY <3>1
    <3> QED
      BY <3>1, <3>2, <3>3, <3>4, <3>5, <3>6 DEF GenInv
  <2>4. FilesInv'
    BY <1>3, <2>1, <2>2 DEF SaveSecretKey, FilesInv, Indices
  <2> QED
    BY <1>3, <2>3, <2>4, SameFiles, SameNodes DEF SaveSecretKey
<1>4. CASE PrintYAML
  <2>1. GenInv' /\ FilesInv' /\ RegistryInv'
    BY <1>0, <1>4 DEF PrintYAML, GenInv, FilesInv, RegistryInv, Off, files
  <2>2. CASE UNCHANGED config
    BY <1>4, <2>1, <2>2, SameFiles, SameNodes DEF PrintYAML
  <2>3. CASE config = << >> /\ config' = [i \in DOMAIN gen.pubkeys |-> Line(gen.pubkeys[i])]
    <3>1. DOMAIN gen.pubkeys = 1 .. gen.i /\ gen.i \in Nat /\ gen.i <= Count
      BY <1>0 DEF GenInv
    <3>2. config' \in Seq({Line(k) : k \in Int}) /\ Len(config') = gen.i
      BY <2>3, <3>1 DEF GenInv
    <3>3. ConfigInv'
      BY <2>3, <3>1, <3>2 DEF ConfigInv, GenInv
    <3>4. \A n \in Nodes : keys[n] = NoKeys
      BY <2>3 DEF NodesInv
    <3>5. NodesInv'
      BY <1>4, <3>4 DEF NodesInv, PrintYAML, NoKeys
    <3> QED
      BY <2>1, <3>3, <3>5
  <2> QED
    BY <1>4, <2>2, <2>3 DEF PrintYAML
<1>5. CASE KeygenStops
  <2>1. GenInv'
    BY <1>0, <1>5 DEF KeygenStops, GenInv, Off
  <2>2. FilesInv'
    BY <1>0, <1>5 DEF KeygenStops, FilesInv, GenInv, files, Indices, Torn
  <2> QED
    BY <1>5, <2>1, <2>2, SameFiles, SameNodes DEF KeygenStops
<1>6. ASSUME NEW n \in Nodes, Start(n) PROVE SetupInv'
  <2> DEFINE ids == GetValidatorIndices(n)
             new == [i \in ToSet(ids) |-> [pk |-> pk[i], sk |-> sk[i]]]
  <2>1. GenInv' /\ FilesInv' /\ RegistryInv' /\ ConfigInv'
    BY <1>6, SameFiles DEF Start, GenInv, FilesInv, files
  <2>2. Validate /\ config # << >>
    BY <1>6 DEF Start
  <2>3. \A i \in ToSet(ids) : pk[i] = i /\ sk[i] = i
    <3> SUFFICES ASSUME NEW i \in ToSet(ids) PROVE pk[i] = i /\ sk[i] = i
      OBVIOUS
    <3>1. i \in Indices
      BY <1>0, <2>2, IdsInRange DEF Indices, NumValidators, ConfigInv
    <3>2. CanLoadKeypair(i)
      BY <1>6 DEF Start, ToSet
    <3> QED
      BY <3>1, <3>2 DEF CanLoadKeypair, CanRestoreKeypair, FilesInv
  <2>4. new = [i \in ToSet(ids) |-> [pk |-> i, sk |-> i]]
    BY <2>3
  <2>5. keys' = [keys EXCEPT ![n] = NodeKeys(n)]
    <3>1. keys' = [keys EXCEPT ![n] = [running |-> TRUE, ids |-> ids, key |-> new]]
      BY <1>6 DEF Start
    <3> HIDE DEF new
    <3> QED
      BY <2>4, <3>1 DEF NodeKeys
  <2>6. UNCHANGED <<registry, config>>
    BY <1>6 DEF Start
  <2>7. NodesInv'
    BY <2>2, <2>5, <2>6, SameFiles DEF NodesInv, NoKeys
  <2> QED
    BY <2>1, <2>7
<1>7. ASSUME NEW n \in Nodes, Stop(n) PROVE SetupInv'
  <2>1. GenInv' /\ FilesInv' /\ RegistryInv' /\ ConfigInv'
    BY <1>7, SameFiles DEF Stop, GenInv, FilesInv, files
  <2>2. keys' = [keys EXCEPT ![n] = NoKeys] /\ UNCHANGED <<registry, config>>
    BY <1>7 DEF Stop
  <2>3. Validate' = Validate /\ (\A m : NodeKeys(m)' = NodeKeys(m)) /\ NoKeys' = NoKeys
    BY <2>2, SameFiles DEF NoKeys
  <2>4. \A m \in Nodes : keys'[m] # NoKeys => keys[m] # NoKeys /\ keys'[m] = keys[m]
    BY <2>2 DEF NodesInv
  <2>5. NodesInv'
    BY <2>2, <2>3, <2>4 DEF NodesInv
  <2> QED
    BY <2>1, <2>5
<1>8. CASE UNCHANGED vars
  <2>1. GenInv' /\ FilesInv'
    BY <1>8 DEF vars, GenInv, FilesInv
  <2> QED
    BY <1>8, <2>1, SameFiles, SameNodes DEF vars
<1> QED
  BY <1>1, <1>2, <1>3, <1>4, <1>5, <1>6, <1>7, <1>8 DEF Next

(* Keys, config.yaml and the nodes' keys agree whatever keygen run is cut  *)
(* short or repeated and whatever node is stopped or started.              *)
THEOREM SetupInvariance == Spec => []SetupInv
BY SetupInit, SetupNext, PTL DEF Spec

(* SigningKeysRight: a running node signs for each of its validators with  *)
(* the key config.yaml has at the validator's index, and no validator is   *)
(* run twice, whatever validators.yaml says and however keygen is run.     *)
THEOREM NodesSignWithGenesisKeys == Spec => []SigningKeysRight
<1>1. SetupInv => KeysMatchGenesis
  <2> SUFFICES ASSUME SetupInv, NEW n \in Nodes, NEW i \in ToSet(keys[n].ids)
               PROVE  /\ i < NumValidators
                      /\ keys[n].key[i] = [pk |-> Pubkey(i), sk |-> Pubkey(i)]
    BY DEF KeysMatchGenesis
  <2>1. keys[n] # NoKeys
    BY DEF NoKeys, ToSet
  <2>2. Validate /\ keys[n] = NodeKeys(n)
    BY <2>1 DEF SetupInv, NodesInv
  <2>3. i \in ToSet(GetValidatorIndices(n)) /\ keys[n].key[i] = [pk |-> i, sk |-> i]
    BY <2>2 DEF NodeKeys
  <2>4. i \in Nat /\ i < NumValidators
    BY <2>2, <2>3, IdsInRange DEF SetupInv
  <2>5. config[i + 1] = Line(i)
    BY <2>4 DEF SetupInv, ConfigInv, NumValidators
  <2>6. Pubkey(i) = i
    BY <2>4, <2>5, LineKeepsKey DEF Pubkey
  <2> QED
    BY <2>3, <2>4, <2>6
<1>2. SetupInv => OneNodePerValidator
  <2> SUFFICES ASSUME SetupInv PROVE OneNodePerValidator
    OBVIOUS
  <2>1. \A n \in Nodes : keys[n].ids = << >> \/ (Validate /\ keys[n].ids = GetValidatorIndices(n))
    BY DEF SetupInv, NodesInv, NoKeys, NodeKeys
  <2>2. ASSUME NEW n \in Nodes, NEW m \in Nodes,
               NEW j \in DOMAIN keys[n].ids, NEW k \in DOMAIN keys[m].ids,
               keys[n].ids[j] = keys[m].ids[k]
        PROVE  n = m /\ j = k
    <3>1. keys[n].ids # << >> /\ keys[m].ids # << >>
      OBVIOUS
    <3>2. /\ Validate
          /\ keys[n].ids = GetValidatorIndices(n)
          /\ keys[m].ids = GetValidatorIndices(m)
      BY <2>1, <3>1
    <3>3. PICK a \in DOMAIN registry :
            registry[a].node = n /\ GetValidatorIndices(n) = registry[a].validators
      BY <3>1, <3>2, IndicesOfEntry DEF SetupInv
    <3>4. PICK b \in DOMAIN registry :
            registry[b].node = m /\ GetValidatorIndices(m) = registry[b].validators
      BY <3>1, <3>2, IndicesOfEntry DEF SetupInv
    <3>5. /\ j \in DOMAIN registry[a].validators /\ k \in DOMAIN registry[b].validators
          /\ registry[a].validators[j] = registry[b].validators[k]
      BY <2>2, <3>2, <3>3, <3>4
    <3>6. a = b /\ j = k
      BY <3>2, <3>5, PlacesDiffer
    <3> QED
      BY <3>3, <3>4, <3>6
  <2>3. \A n, m \in Nodes : n # m => ToSet(keys[n].ids) \intersect ToSet(keys[m].ids) = {}
    BY <2>2 DEF ToSet
  <2>4. \A n \in Nodes : IsInjective(keys[n].ids)
    BY <2>2 DEF IsInjective
  <2> QED
    BY <2>3, <2>4 DEF OneNodePerValidator
<1> QED
  BY <1>1, <1>2, SetupInvariance, PTL DEF SigningKeysRight

-----------------------------------------------------------------------------
(* The nodes of a devnet.                                                  *)

(* MinIn, for the Min of Devnet.                                           *)
LEMMA DevnetMinIn ==
  ASSUME NEW T \in SUBSET Nat, T # {}
  PROVE  D!Min(T) \in T
<1>1. Min(T) \in T
  BY MinIn
<1> QED
  BY <1>1 DEF Min, D!Min

(* No node's head is newer than the last slot somebody proposed in.        *)
AgesInv ==
  /\ up \subseteq Members /\ up # {}
  /\ age \in [Members -> Nat] /\ missed \in Nat
  /\ missed >= 2 => gap
  /\ D!proposer \notin acted =>
       \A n \in Members : age[n] >= 1 /\ (missed >= 1 => age[n] >= 2)
  /\ gap => \A n \in Members : age[n] >= 3

(* At genesis all heads are at slot 0, one slot ago.                       *)
LEMMA DevnetInit == D!DevnetAssumption /\ D!Init => AgesInv
<1> SUFFICES ASSUME D!DevnetAssumption, D!Init PROVE AgesInv
  OBVIOUS
<1>1. Members # {}
  <2>1. Owner \in Seq(Members) /\ Len(Owner) > 0
    BY DEF D!DevnetAssumption, D!N
  <2>2. Owner[1] \in Members
    BY <2>1
  <2> QED
    BY <2>2
<1> QED
  BY <1>1 DEF D!Init, AgesInv

(* A head gets newer only by a proposal or from another node.              *)
LEMMA DevnetNext == D!DevnetAssumption /\ AgesInv /\ [D!Next]_(D!vars) => AgesInv'
<1> SUFFICES ASSUME D!DevnetAssumption, AgesInv, [D!Next]_(D!vars) PROVE AgesInv'
  OBVIOUS
<1>0. MaxAge \in Nat /\ MaxAge > 3
  BY DEF D!DevnetAssumption
<1>1. CASE D!NextSlot
  <2>1. \A n \in Members : age'[n] \in {age[n] + 1, MaxAge}
    <3> SUFFICES ASSUME NEW n \in Members PROVE age'[n] \in {age[n] + 1, MaxAge}
      OBVIOUS
    <3>1. {age[n] + 1, MaxAge} \in SUBSET Nat /\ {age[n] + 1, MaxAge} # {}
      BY <1>0 DEF AgesInv
    <3>2. D!Min({age[n] + 1, MaxAge}) \in {age[n] + 1, MaxAge}
      BY <3>1, DevnetMinIn
    <3> QED
      BY <1>1, <3>2 DEF D!NextSlot, D!Older
  <2>2. age' \in [Members -> Nat]
    <3>1. age' = [n \in Members |-> age'[n]]
      BY <1>1 DEF D!NextSlot
    <3>2. \A n \in Members : age'[n] \in Nat
      BY <1>0, <2>1 DEF AgesInv
    <3> HIDE <1>1
    <3> QED
      BY <3>1, <3>2
  <2>3. missed' = (IF D!proposer \in acted THEN 0 ELSE missed + 1) /\ up' = up
    BY <1>1 DEF D!NextSlot
  <2>4. (gap' <=> gap \/ missed' = 2)
    BY <1>1, Zenon DEF D!NextSlot
  <2>5. \A n \in Members : age'[n] >= 1
    BY <1>0, <2>1 DEF AgesInv
  <2>6. missed' >= 1 => \A n \in Members : age'[n] >= 2
    BY <1>0, <2>1, <2>3 DEF AgesInv
  <2>7. missed' >= 2 => gap'
    BY <2>3, <2>4 DEF AgesInv
  <2>8. gap' => \A n \in Members : age'[n] >= 3
    <3>1. CASE gap
      BY <1>0, <2>1, <3>1 DEF AgesInv
    <3>2. CASE missed' = 2
      BY <1>0, <2>1, <2>3, <3>2 DEF AgesInv
    <3> QED
      BY <2>4, <3>1, <3>2
  <2> QED
    BY <2>2, <2>3, <2>5, <2>6, <2>7, <2>8 DEF AgesInv
<1>2. ASSUME NEW n \in Members, D!OnInterval(n) PROVE AgesInv'
  <2>1. /\ UNCHANGED <<turn, up, missed, gap>> /\ acted' = acted \cup {n}
        /\ D!proposer' = D!proposer /\ n \in up
    BY <1>2 DEF D!OnInterval, D!proposer
  <2>2. PICK a \in IF D!GateOpen(age[n]) THEN {age[n]} ELSE D!SyncedAges(n) :
          age' = IF D!GateOpen(a) /\ n = D!proposer
                 THEN [m \in Members |-> IF m = n \/ m \in D!SameHead(a) THEN 0 ELSE age[m]]
                 ELSE [age EXCEPT ![n] = a]
    BY <1>2 DEF D!OnInterval
  <2>3. \E m \in Members : a = age[m]
    BY <2>2 DEF D!SyncedAges, AgesInv
  <2>4. CASE D!GateOpen(a) /\ n = D!proposer
    <3>1. ~ gap
      BY <2>3, <2>4 DEF AgesInv, D!GateOpen
    <3>2. age' = [m \in Members |-> IF m = n \/ m \in D!SameHead(a) THEN 0 ELSE age[m]]
      BY <2>2, <2>4
    <3>3. age' \in [Members -> Nat]
      BY <3>2 DEF AgesInv
    <3> QED
      BY <2>1, <2>4, <3>1, <3>3 DEF AgesInv
  <2>5. CASE ~ (D!GateOpen(a) /\ n = D!proposer)
    <3>1. age' = [age EXCEPT ![n] = a]
      BY <2>2, <2>5
    <3> QED
      BY <2>1, <2>3, <3>1 DEF AgesInv
  <2> QED
    BY <2>4, <2>5
<1>3. ASSUME NEW n \in Members, D!Crash(n) PROVE AgesInv'
  <2>1. /\ UNCHANGED <<turn, acted, missed, gap>> /\ up' = up \ {n}
        /\ D!proposer' = D!proposer
        /\ age' = [age EXCEPT ![n] = MaxAge]
    BY <1>3 DEF D!Crash, D!proposer
  <2>2. up \ {n} # {}
    BY <1>3 DEF D!Crash
  <2> QED
    BY <1>0, <2>1, <2>2 DEF AgesInv
<1>4. ASSUME NEW n \in Members, D!Restart(n) PROVE AgesInv'
  <2>1. /\ UNCHANGED <<turn, acted, missed, gap>> /\ up' = up \cup {n}
        /\ D!proposer' = D!proposer
    BY <1>4 DEF D!Restart, D!proposer
  <2>2. PICK a \in {age[n], D!Newest} : age' = [age EXCEPT ![n] = a]
    BY <1>4 DEF D!Restart
  <2>3. \E m \in Members : a = age[m]
    <3> DEFINE ages == {age[p] : p \in up}
    <3>1. ages \in SUBSET Nat /\ ages # {}
      BY DEF AgesInv
    <3>2. D!Min(ages) \in ages
      BY <3>1, DevnetMinIn
    <3> QED
      BY <2>2, <3>2 DEF D!Newest, AgesInv
  <2> QED
    BY <2>1, <2>2, <2>3 DEF AgesInv
<1>5. CASE UNCHANGED D!vars
  BY <1>5 DEF D!vars, AgesInv, D!proposer
<1> QED
  BY <1>1, <1>2, <1>3, <1>4, <1>5 DEF D!Next

(* GapEndsChain: after two slots in a row without a proposer every node    *)
(* finds its head too old for its duties, for good, whatever the number of *)
(* nodes and whichever crash, sync or restart.                             *)
THEOREM GapEndsEveryChain ==
  ASSUME D!DevnetAssumption
  PROVE  DevnetSpec => []GapEndsChain
<1>1. AgesInv => GapEndsChain
  BY DEF AgesInv, GapEndsChain, D!GapEndsChain, D!GateOpen
<1>2. D!Init => AgesInv
  BY DevnetInit
<1>3. AgesInv /\ [D!Next]_(D!vars) => AgesInv'
  BY DevnetNext
<1> QED
  BY <1>1, <1>2, <1>3, PTL DEF DevnetSpec, D!Spec
=============================================================================
