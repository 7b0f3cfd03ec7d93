---------------------------- MODULE MCForkChoice ----------------------------
(***************************************************************************)
(* ForkChoice with three validators.  This node runs validator 0, the      *)
(* proposer of slot 3; 1 and 2 are elsewhere and may equivocate.           *)
(*                                                                         *)
(*      G(0) --- A(1) --- B(2) --- D(4)        B: votes for A in the body  *)
(*         \                                   D: votes for B in the body  *)
(*          C(2) --- E(5)                      E: votes for C in the body  *)
(*                                                                         *)
(* B justifies A, D justifies B and finalizes A, E justifies C: with E     *)
(* before D the justified block is C and the finalized one A.              *)
(***************************************************************************)
EXTENDS ForkChoice

G == 4
A == 6
B == 2
C == 8
D == 1
E == 5

Vote(v, slot, head, headSlot, tgt, tgtSlot, src, srcSlot) ==
  [validator |-> v, slot |-> slot, head |-> Checkpoint(head, headSlot),
   target |-> Checkpoint(tgt, tgtSlot), source |-> Checkpoint(src, srcSlot)]

VoteA(v) == Vote(v, 1, A, 1, A, 1, G, 0)
VoteB(v) == Vote(v, 2, B, 2, B, 2, A, 1)
VoteC(v) == Vote(v, 2, C, 2, C, 2, G, 0)

Envelope(root, slot, parent, body, proposerAtt, sigs) ==
  [root |-> root, proposerAtt |-> proposerAtt, sigs |-> sigs,
   block |-> [slot |-> slot, proposer |-> slot % NumValidators,
              parent |-> parent, body |-> body, stateRootOK |-> TRUE]]

EnvelopeA == Envelope(A, 1, G, << >>, <<Vote(1, 1, A, 1, G, 0, G, 0)>>, <<TRUE>>)
EnvelopeB == Envelope(B, 2, A, <<VoteA(2), VoteA(1)>>, << >>, <<TRUE, TRUE>>)
EnvelopeC == Envelope(C, 2, G, << >>, <<VoteC(2)>>, <<TRUE>>)
EnvelopeD == Envelope(D, 4, B, <<VoteB(1), VoteB(2)>>, << >>, <<TRUE, TRUE>>)

EnvelopeE == Envelope(E, 5, C, <<VoteC(1), VoteC(2)>>, << >>, <<TRUE, TRUE>>)

MCEnvelopes == {EnvelopeA, EnvelopeB, EnvelopeC, EnvelopeD, EnvelopeE}

MCGossipVotes ==
  {[att |-> VoteA(1), sig |-> TRUE], [att |-> VoteC(2), sig |-> FALSE]}

MCAggregates ==
  {[data |-> VoteB(0), lengthOK |-> TRUE, votes |-> <<<<2, TRUE>>, <<7, TRUE>>>>]}
=============================================================================
