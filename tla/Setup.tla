------------------------------- MODULE Setup --------------------------------
(***************************************************************************)
(* Setting up a devnet: cmd/keygen writes the validators' keys and prints  *)
(* the list of public keys for config.yaml, and cmd/gean starts a node     *)
(* from config.yaml, validators.yaml and the key directory (config/*.go,   *)
(* loadValidatorKeys in node/lifecycle.go, xmss/leansig/keystore.go).      *)
(*                                                                         *)
(* keygen may stop between two files or within one, may be run again, with *)
(* another number of validators, and while nodes run; nodes may stop and   *)
(* be started again.  Each half of a key is named by the seed the key is   *)
(* generated from.                                                         *)
(***************************************************************************)
EXTENDS Integers, SequencesExt

CONSTANTS
  Nodes,       \* node names
  Count,       \* bound: the most validators keygen makes keys for
  MaxRuns,     \* bound: how often keygen is run
  MaxEntries,  \* bound: entries of validators.yaml
  MaxShare     \* bound: validators of one entry of validators.yaml

ASSUME SetupAssumption == {Count, MaxRuns, MaxEntries, MaxShare} \subseteq Nat

Indices == 0 .. Count - 1
Absent == -1
Torn == -2

(* The entries of validators.yaml.  The map format has each node once, in  *)
(* any order; the legacy format is a list of anything.                     *)
Assignments == [node : Nodes, validators : BoundedSeq(0 .. Count, MaxShare)]

VARIABLES
  pk, sk,     \* the files validator_i.pk and validator_i.sk
  gen,        \* the keygen process
  runs,       \* how often it has been run
  config,     \* GENESIS_VALIDATORS of config.yaml; << >> before it is made
  registry,   \* validators.yaml
  keys        \* of every node: the keys it runs with

vars == <<pk, sk, gen, runs, config, registry, keys>>
files == <<pk, sk>>

Off == [pc |-> "off", i |-> 0, count |-> 0, pubkeys |-> << >>]
NoKeys == [running |-> FALSE, ids |-> << >>, key |-> << >>]

Init ==
  /\ pk = [i \in Indices |-> Absent] /\ sk = pk
  /\ gen = Off /\ runs = 0
  /\ config = << >>
  /\ registry \in BoundedSeq(Assignments, MaxEntries)
  /\ keys = [n \in Nodes |-> NoKeys]

-----------------------------------------------------------------------------
(* cmd/keygen.                                                             *)

(* The scheme derives both halves of a key from the seed.                  *)
GenerateKeypair(seed) == [pk |-> seed, sk |-> seed]

(* Mutant: every run takes new seeds.                                      *)
SeedFresh(i) == i + Count * runs

(* "Deterministic seed based on index".                                    *)
Seed(i) == i

Keypair(i) == GenerateKeypair(Seed(i))

Keygen(count) ==
  /\ gen = Off /\ runs < MaxRuns
  /\ gen' = [pc |-> "pk", i |-> 0, count |-> count, pubkeys |-> << >>]
  /\ runs' = runs + 1
  /\ UNCHANGED <<files, config, registry, keys>>

(* SaveKeypair writes the public key first.                                *)
SavePublicKey ==
  /\ gen.pc = "pk" /\ gen.i < gen.count
  /\ pk' = [pk EXCEPT ![gen.i] = Keypair(gen.i).pk]
  /\ gen' = [gen EXCEPT !.pc = "sk"]
  /\ UNCHANGED <<sk, runs, config, registry, keys>>

SaveSecretKey ==
  /\ gen.pc = "sk"
  /\ sk' = [sk EXCEPT ![gen.i] = Keypair(gen.i).sk]
  /\ gen' = [gen EXCEPT !.pc = "pk", !.i = @ + 1, !.pubkeys = Append(@, Keypair(gen.i).pk)]
  /\ UNCHANGED <<pk, runs, config, registry, keys>>

(* A line of the list is the public key in hex with 0x before it.          *)
Line(key) == <<"0x", key>>

(* The list is printed, with --print-yaml, when all keys are made; the     *)
(* first one printed may become the devnet's config.yaml, for good.        *)
PrintYAML ==
  /\ gen.pc = "pk" /\ gen.i = gen.count
  /\ gen' = Off
  /\ \/ config = << >> /\ config' = [i \in DOMAIN gen.pubkeys |-> Line(gen.pubkeys[i])]
     \/ UNCHANGED config
  /\ UNCHANGED <<files, runs, registry, keys>>

(* The process ends early; a file it was writing may be cut short.         *)
KeygenStops ==
  /\ gen # Off
  /\ gen' = Off
  /\ \/ UNCHANGED files
     \/ gen.pc = "pk" /\ gen.i < gen.count /\ pk' = [pk EXCEPT ![gen.i] = Torn] /\ UNCHANGED sk
     \/ gen.pc = "sk" /\ sk' = [sk EXCEPT ![gen.i] = Torn] /\ UNCHANGED pk
  /\ UNCHANGED <<runs, config, registry, keys>>

-----------------------------------------------------------------------------
(* cmd/gean.                                                               *)

(* LoadGenesisConfig: the validators are numbered as they stand.           *)
TrimPrefix(line) == IF Head(line) = "0x" THEN Tail(line) ELSE line
Pubkey(idx) == Head(TrimPrefix(config[idx + 1]))
NumValidators == Len(config)

(* ValidatorRegistry.Validate: every index is in range and new.            *)
Validate ==
  LET places == UNION {{a} \X DOMAIN registry[a].validators : a \in DOMAIN registry}
      index(p) == registry[p[1]].validators[p[2]]
  IN  /\ \A p \in places : index(p) < NumValidators
      /\ \A p, q \in places : index(p) = index(q) => p = q

(* The first entry with the node's name.                                   *)
GetValidatorIndices(n) ==
  LET own == {a \in DOMAIN registry : registry[a].node = n}
  IN  IF own = {} THEN << >> ELSE registry[Min(own)].validators

(* A half that was cut short does not deserialize.                         *)
CanRestoreKeypair(pkBytes, skBytes) == Torn \notin {pkBytes, skBytes}

(* LoadKeypair reads both files.                                           *)
CanLoadKeypair(idx) ==
  Absent \notin {pk[idx], sk[idx]} /\ CanRestoreKeypair(pk[idx], sk[idx])

(* main and node.New, as far as the files go; with a file that is not      *)
(* accepted the process ends.                                              *)
Start(n) ==
  LET ids == GetValidatorIndices(n)
  IN  /\ ~ keys[n].running
      /\ config # << >> /\ Validate
      /\ \A j \in DOMAIN ids : CanLoadKeypair(ids[j])
      /\ keys' = [keys EXCEPT ![n] =
                    [running |-> TRUE, ids |-> ids,
                     key |-> [i \in ToSet(ids) |-> [pk |-> pk[i], sk |-> sk[i]]]]]
      /\ UNCHANGED <<files, gen, runs, config, registry>>

Stop(n) ==
  /\ keys[n].running
  /\ keys' = [keys EXCEPT ![n] = NoKeys]
  /\ UNCHANGED <<files, gen, runs, config, registry>>

Next ==
  \/ \E count \in 1 .. Count : Keygen(count)
  \/ SavePublicKey \/ SaveSecretKey \/ PrintYAML \/ KeygenStops
  \/ \E n \in Nodes : Start(n) \/ Stop(n)

Spec == Init /\ [][Next]_vars

-----------------------------------------------------------------------------
(* Properties.                                                             *)

(* A running node signs for each of its validators with the key config.yaml*)
(* has at the validator's index, however often and with whatever number of *)
(* validators keygen has been run or cut short since.                      *)
KeysMatchGenesis ==
  \A n \in Nodes : \A i \in ToSet(keys[n].ids) :
    /\ i < NumValidators
    /\ keys[n].key[i] = [pk |-> Pubkey(i), sk |-> Pubkey(i)]

(* No validator is run twice, by two nodes or by one: its one-time keys    *)
(* would sign two messages for a slot.                                     *)
OneNodePerValidator ==
  \A n, m \in Nodes :
    /\ n # m => ToSet(keys[n].ids) \intersect ToSet(keys[m].ids) = {}
    /\ IsInjective(keys[n].ids)

(* What signs for a validator is its key, and one node has it.             *)
SigningKeysRight == KeysMatchGenesis /\ OneNodePerValidator
=============================================================================
