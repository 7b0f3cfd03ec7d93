----------------------------- MODULE MCNetwork ------------------------------
(***************************************************************************)
(* Model checking what a node does with the network: Gossip, one request   *)
(* of Reqresp, and Storage, the maps that both end in.  What the checks    *)
(* are about is apart, so a behaviour is one of one of them, and the       *)
(* others keep still.                                                      *)
(***************************************************************************)
EXTENDS Storage

(* A fork at genesis, a chain of two received blocks, a block of this      *)
(* node's own, an invalid block.                                           *)
MCParent ==
  "a" :> "g" @@ "b" :> "a" @@ "c" :> "g" @@ "own" :> "a" @@ "bad" :> "a"

CONSTANTS Contents, SnappyTags, QueueLimit, MaxMessages
CONSTANTS Roots, Stored, TooLarge, Unencodable, MaxRequestBlocks, MaxRoots

(* A content that parses as a block and one that parses as an attestation. *)
MCContents == {<<5, 1>>, <<6, 2>>}

VARIABLES part
VARIABLES seen, queue, reading, handled, log
VARIABLES foreign, kind, request, cpc, got, outcome, spc, sendQueue, down, stream

gossipVars == <<seen, queue, reading, handled, log>>
reqrespVars ==
  <<foreign, kind, request, cpc, got, outcome, spc, sendQueue, down, stream>>

G == INSTANCE Gossip
R == INSTANCE Reqresp WITH queue <- sendQueue

ASSUME GossipAssumed == G!GossipAssumption
ASSUME ReqrespAssumed == R!ReqrespAssumption

StorageOnly == part = "storage" /\ UNCHANGED <<part, gossipVars, reqrespVars>>
GossipOnly == part = "gossip" /\ UNCHANGED <<part, vars, reqrespVars>>
ReqrespOnly == part = "reqresp" /\ UNCHANGED <<part, vars, gossipVars>>

NetworkInit ==
  /\ Init /\ G!Init
  /\ \/ part = "reqresp" /\ R!Init
     \/ /\ part \in {"storage", "gossip"}
        /\ foreign = FALSE /\ kind = "status" /\ request = << >>
        /\ cpc = "done" /\ got = << >> /\ outcome = "ok"
        /\ spc = "closed" /\ sendQueue = << >> /\ down = << >> /\ stream = "eof"

NetworkNext ==
  (StorageOnly /\ Next) \/ (GossipOnly /\ G!Next) \/ (ReqrespOnly /\ R!Next)

NetworkVars == <<vars, part, gossipVars, reqrespVars>>

(* The fairness of Gossip and Reqresp.                                     *)
NetworkSpec ==
  /\ NetworkInit /\ [][NetworkNext]_NetworkVars
  /\ \A topic \in G!Topics : WF_NetworkVars(G!Read(topic) /\ GossipOnly)
  /\ WF_NetworkVars(R!ClientStep /\ ReqrespOnly)
  /\ WF_NetworkVars(R!ServerStep /\ ReqrespOnly)

(* The properties of Gossip; see there.                                    *)
SeenMeansSame == G!SeenMeansSame
QueuesDrain == G!QueuesDrain

(* The properties of Reqresp; see there.                                   *)
AnswerFaithful == R!AnswerFaithful
RequestEnds == R!RequestEnds
=============================================================================
