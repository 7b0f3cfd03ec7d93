------------------------------- MODULE Gossip -------------------------------
(***************************************************************************)
(* What a node does with gossip (network/gossipsub, node/handler.go): the  *)
(* message id, the cache of seen ids, one queue and one reader goroutine   *)
(* per topic.  Peers may send any data, in any order and repeatedly; the   *)
(* node's own messages take the same way, since libp2p delivers them to    *)
(* the publisher's subscription too.                                       *)
(*                                                                         *)
(* Data are sequences of bytes.  SHA-256 is injective, so the id is the    *)
(* sequence that is hashed.  Snappy has several encodings of one content:  *)
(* an encoding is a tag followed by the content, and data with no such tag *)
(* is not snappy.                                                          *)
(***************************************************************************)
EXTENDS Integers, SequencesExt

CONSTANTS
  Contents,     \* what is encoded: sequences of bytes
  SnappyTags,   \* the first bytes of snappy data
  QueueLimit,   \* messages a subscription buffers: 32 in libp2p
  MaxMessages   \* bound: messages that arrive

Block == "block"
Attestation == "attestation"
Topics == {Block, Attestation}

(* The names of the joined topics; the length comes before the name.       *)
TopicBytes(topic) == IF topic = Block THEN <<1, 2>> ELSE <<3, 4, 2>>

GossipAssumption ==
  /\ {QueueLimit, MaxMessages} \subseteq Nat
  /\ Contents \subseteq Seq(Nat) /\ SnappyTags \subseteq Nat
  /\ SnappyTags # {}
  /\ \A c \in Contents : c # << >> /\ Head(c) \notin SnappyTags

VARIABLES
  seen,     \* ids seen within SeenMessagesTTL (24 s)
  queue,    \* per topic: the data its subscription holds
  reading,  \* per topic: does its reader goroutine still run?
  handled,  \* per topic: the contents handed to OnBlock or OnAttestation
  log       \* what happened to the seen cache, oldest first

vars == <<seen, queue, reading, handled, log>>

Encode(tag, content) == <<tag>> \o content
IsSnappy(data) == Head(data) \in SnappyTags
Decode(data) == Tail(data)

Wire == Contents \cup {Encode(t, c) : t \in SnappyTags, c \in Contents}

(* UnmarshalSSZ of a block or an attestation: which contents are which.    *)
Parses(topic, content) == Last(content) = IF topic = Block THEN 1 ELSE 2

DomainValidSnappy == 1
DomainInvalidSnappy == 0

(* Mutant: one domain for all messages.                                    *)
MessageIDNoDomain(topic, data) ==
  <<Len(TopicBytes(topic))>> \o TopicBytes(topic) \o
    (IF IsSnappy(data) THEN Decode(data) ELSE data)

(* domain + topic_len + topic + data.                                      *)
ComputeMessageID(topic, data) ==
  <<IF IsSnappy(data) THEN DomainValidSnappy ELSE DomainInvalidSnappy,
    Len(TopicBytes(topic))>> \o TopicBytes(topic) \o
    (IF IsSnappy(data) THEN Decode(data) ELSE data)

Init ==
  /\ seen = {} /\ log = << >>
  /\ queue = [t \in Topics |-> << >>] /\ handled = [t \in Topics |-> << >>]
  /\ reading = [t \in Topics |-> TRUE]

-----------------------------------------------------------------------------
(* libp2p: a message whose id is in the cache is dropped; a new one goes   *)
(* to the subscription, and is lost if its buffer is full.                 *)
Deliver(topic, data) ==
  LET id == ComputeMessageID(topic, data)
      event(what) == [what |-> what, topic |-> topic, data |-> data, id |-> id]
  IN  IF id \in seen
      THEN /\ log' = Append(log, event("dropped"))
           /\ UNCHANGED <<seen, queue, reading, handled>>
      ELSE /\ seen' = seen \cup {id}
           /\ log' = Append(log, event("accepted"))
           /\ queue' = IF Len(queue[topic]) < QueueLimit
                       THEN [queue EXCEPT ![topic] = Append(@, data)] ELSE queue
           /\ UNCHANGED <<reading, handled>>

Arrive(topic, data) ==
  /\ Len(SelectSeq(log, LAMBDA e : e.what # "expired")) < MaxMessages
  /\ Deliver(topic, data)

(* PublishBlock and PublishAttestation.                                    *)
Publish(topic, content) ==
  /\ Parses(topic, content)
  /\ \E tag \in SnappyTags : Arrive(topic, Encode(tag, content))

Expire(id) ==
  /\ id \in seen
  /\ seen' = seen \ {id}
  /\ log' = Append(log, [what |-> "expired", id |-> id])
  /\ UNCHANGED <<queue, reading, handled>>

-----------------------------------------------------------------------------
(* Mutant: the reader returns when it cannot decode a message.             *)
AfterBadMessageReturn == FALSE

(* The loop goes on.                                                       *)
AfterBadMessage == TRUE

(* readBlockMessages and readAttestationMessages.                          *)
Read(topic) ==
  /\ reading[topic] /\ queue[topic] # << >>
  /\ queue' = [queue EXCEPT ![topic] = Tail(@)]
  /\ LET data == Head(queue[topic])
         good == IsSnappy(data) /\ Parses(topic, Decode(data))
     IN  /\ handled' = IF good THEN [handled EXCEPT ![topic] = Append(@, Decode(data))]
                       ELSE handled
         /\ reading' = [reading EXCEPT ![topic] = good \/ AfterBadMessage]
  /\ UNCHANGED <<seen, log>>

Next ==
  \/ \E topic \in Topics :
       \/ \E data \in Wire : Arrive(topic, data)
       \/ \E content \in Contents : Publish(topic, content)
       \/ Read(topic)
  \/ \E id \in seen : Expire(id)

Spec == Init /\ [][Next]_vars /\ \A topic \in Topics : WF_vars(Read(topic))

-----------------------------------------------------------------------------
(* Properties.                                                             *)

SameMessage(e, f) ==
  /\ e.topic = f.topic
  /\ IsSnappy(e.data) <=> IsSnappy(f.data)
  /\ IF IsSnappy(e.data) THEN Decode(e.data) = Decode(f.data) ELSE e.data = f.data

(* No message shadows another: one that is dropped as seen has the topic   *)
(* and the content of one that was accepted before.  In particular data    *)
(* that is no snappy cannot take the id of a block (ComputeMessageID).     *)
NothingShadowed ==
  \A i \in DOMAIN log : log[i].what = "dropped" =>
    \E j \in 1 .. i - 1 : log[j].what = "accepted" /\ SameMessage(log[i], log[j])

(* A block or vote is not handled again while its id is cached, however    *)
(* the copies were compressed.                                             *)
NotHandledTwice ==
  \A i, j \in DOMAIN log :
    i < j /\ log[i].what = "accepted" /\ log[j].what = "accepted"
      /\ SameMessage(log[i], log[j])
        => \E k \in i + 1 .. j - 1 : log[k].what = "expired" /\ log[k].id = log[i].id

(* What a subscription holds is read, also behind data that cannot be      *)
(* decoded: no message stops the reader goroutine of its topic.            *)
QueuesDrain == \A topic \in Topics : []<>(queue[topic] = << >>)

(* A message is dropped as seen exactly when the same one was accepted and *)
(* its id has not expired since.                                           *)
SeenMeansSame == NothingShadowed /\ NotHandledTwice
=============================================================================
