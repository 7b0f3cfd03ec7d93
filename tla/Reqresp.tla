------------------------------ MODULE Reqresp ------------------------------
(***************************************************************************)
(* One request and its answer (network/reqresp): the client's              *)
(* RequestStatus or RequestBlocksByRoot, the server's handler, and the     *)
(* stream between them.  The answer is a sequence of tokens: response      *)
(* codes and snappy frames, which the client has to read in step.  The     *)
(* stream may be reset at any point, and then what is unread is lost.      *)
(***************************************************************************)
EXTENDS Integers, SequencesExt

CONSTANTS
  Roots,              \* bound: block roots
  Stored,             \* the server has these blocks, ...
  TooLarge,           \* ... of which these do not fit in a frame (10 MiB)
  Unencodable,        \* ... and these have more signatures than SSZ allows
  MaxRequestBlocks,   \* 1024
  MaxRoots            \* bound: roots of a request

ReqrespAssumption ==
  /\ Stored \subseteq Roots /\ TooLarge \subseteq Stored /\ Unencodable \subseteq Stored
  /\ {MaxRequestBlocks, MaxRoots} \subseteq Nat

VARIABLES
  foreign,   \* is the peer another implementation?
  kind,      \* "status" or "blocks"
  request,   \* the roots asked for
  cpc,       \* client: "open", "code", "frame" or "done"
  got,       \* the blocks read
  outcome,   \* "none", "ok" or "error"
  spc,       \* server: "none", "read", "code", "frame" or "closed"
  queue,     \* what it has to send: roots, or the status
  down,      \* the tokens on their way to the client
  stream     \* "open", "eof" or "reset"

vars == <<foreign, kind, request, cpc, got, outcome, spc, queue, down, stream>>
asked == <<foreign, kind, request>>
server == <<spc, queue>>
client == <<cpc, got, outcome>>

Status == "status"
Code(ok) == [type |-> "code", ok |-> ok]
Frame(item, good) == [type |-> "frame", item |-> item, good |-> good]

Init ==
  /\ foreign \in BOOLEAN
  /\ kind \in {"status", "blocks"}
  /\ request \in IF kind = "status" THEN {<< >>} ELSE BoundedSeq(Roots, MaxRoots)
  /\ cpc = "open" /\ got = << >> /\ outcome = "none"
  /\ spc = "none" /\ queue = << >> /\ down = << >> /\ stream = "open"

-----------------------------------------------------------------------------
(* The client.                                                             *)

End(result) == cpc' = "done" /\ outcome' = result

(* NewStream, the request frame and CloseWrite.                            *)
SendRequest ==
  /\ cpc = "open"
  /\ cpc' = "code" /\ spc' = "read"
  /\ UNCHANGED <<asked, got, outcome, queue, down, stream>>

SendRequestFails ==
  /\ cpc = "open"
  /\ End("error")
  /\ UNCHANGED <<asked, got, server, down, stream>>

(* At the end of the stream the blocks are complete; a status is not.      *)
ReadResponseCode ==
  /\ cpc = "code"
  /\ \/ /\ down # << >>
        /\ down' = Tail(down)
        /\ IF Head(down).ok THEN cpc' = "frame" /\ UNCHANGED outcome
           ELSE End(IF kind = "blocks" THEN "ok" ELSE "error")
     \/ /\ down = << >> /\ stream # "open"
        /\ End(IF kind = "blocks" /\ stream = "eof" THEN "ok" ELSE "error")
        /\ UNCHANGED down
  /\ UNCHANGED <<asked, got, server, stream>>

(* Mutant: a stream that ends in the middle of a response is like one that *)
(* ends between two.                                                       *)
FrameMissingOk == IF stream = "eof" THEN "ok" ELSE "error"

(* The answer ends after a response code.                                  *)
FrameMissing == "error"

Fits(frame) == frame.item \notin TooLarge

(* ReadSnappyFrame, then ReadStatus or UnmarshalSSZ.  A block that cannot  *)
(* be decoded is skipped.                                                  *)
ReadFrame ==
  /\ cpc = "frame"
  /\ \/ /\ down # << >>
        /\ down' = Tail(down)
        /\ LET frame == Head(down)
           IN  IF ~ Fits(frame) THEN End("error") /\ UNCHANGED got
               ELSE IF kind = "status"
               THEN End(IF frame.good THEN "ok" ELSE "error") /\ UNCHANGED got
               ELSE /\ cpc' = "code"
                    /\ got' = IF frame.good THEN Append(got, frame.item) ELSE got
                    /\ UNCHANGED outcome
     \/ /\ down = << >> /\ stream # "open"
        /\ End(FrameMissing)
        /\ UNCHANGED <<down, got>>
  /\ UNCHANGED <<asked, server, stream>>

-----------------------------------------------------------------------------
(* The server.                                                             *)

(* Mutant: the handler returns without the deferred Close.                 *)
CloseForgotten == spc' = "closed" /\ UNCHANGED stream

Close == spc' = "closed" /\ stream' = IF stream = "open" THEN "eof" ELSE stream

(* OnBlocksByRoot: the blocks that the store has, root by root.            *)
Available ==
  LET found[i \in 0 .. Len(request)] ==
        IF i = 0 THEN << >>
        ELSE IF request[i] \in Stored THEN Append(found[i - 1], request[i])
        ELSE found[i - 1]
  IN  found[Len(request)]

(* readBlocksByRootRequest and OnBlocksByRoot, or ReadStatus and OnStatus. *)
ReadRequest ==
  /\ spc = "read"
  /\ IF Len(request) > MaxRequestBlocks THEN Close /\ UNCHANGED queue
     ELSE /\ spc' = "code"
          /\ queue' = IF kind = "status" THEN <<Status>> ELSE Available
          /\ UNCHANGED stream
  /\ UNCHANGED <<asked, client, down>>

Written(token) == IF stream = "open" THEN Append(down, token) ELSE down

Rest == Tail(queue)

WriteCode ==
  /\ spc = "code" /\ queue # << >>
  /\ down' = Written(Code(TRUE))
  /\ spc' = "frame"
  /\ UNCHANGED <<asked, client, queue, stream>>

(* A write error, or a block that cannot be encoded, ends the handler.     *)
WriteFrame ==
  /\ spc = "frame"
  /\ IF Head(queue) \in Unencodable \/ stream # "open"
     THEN Close /\ UNCHANGED <<queue, down>>
     ELSE /\ spc' = "code"
          /\ down' = Written(Frame(Head(queue), TRUE))
          /\ queue' = Rest
          /\ UNCHANGED stream
  /\ UNCHANGED <<asked, client>>

Finish ==
  /\ spc = "code" /\ queue = << >>
  /\ Close
  /\ UNCHANGED <<asked, client, queue, down>>

(* Another implementation may answer with an error code, or with something *)
(* that is not a block or a status of this version.                        *)
ForeignAnswer ==
  /\ foreign /\ spc = "code" /\ queue # << >>
  /\ \/ down' = Written(Code(FALSE)) /\ Close /\ UNCHANGED queue
     \/ /\ down' = Written(Code(TRUE)) \o
                   (IF stream = "open" THEN <<Frame(Head(queue), FALSE)>> ELSE << >>)
        /\ queue' = Tail(queue) /\ UNCHANGED <<spc, stream>>
  /\ UNCHANGED <<asked, client>>

Reset ==
  /\ cpc \in {"code", "frame"} /\ stream # "reset"
  /\ stream' = "reset" /\ down' = << >>
  /\ UNCHANGED <<asked, client, server>>

-----------------------------------------------------------------------------
ClientStep == SendRequest \/ SendRequestFails \/ ReadResponseCode \/ ReadFrame
ServerStep == ReadRequest \/ WriteCode \/ WriteFrame \/ Finish \/ ForeignAnswer

Next == ClientStep \/ ServerStep \/ Reset

(* The client goes on, and so does the peer: the client's reads have no    *)
(* deadline.                                                               *)
Spec == Init /\ [][Next]_vars /\ WF_vars(ClientStep) /\ WF_vars(ServerStep)

-----------------------------------------------------------------------------
(* Properties.                                                             *)

(* The client reads codes where codes are and frames where frames are.     *)
InStep ==
  down # << >> /\ cpc \in {"code", "frame"} => Head(down).type = cpc

(* What a client gets from another node of this program is what that node  *)
(* has of the roots it was asked for, in the order of the request: all of  *)
(* them if no error is reported, unless the request was too long,          *)
(* otherwise a prefix of them.  The sync walk takes the first block for    *)
(* the root it asked for.                                                  *)
AnswerComplete ==
  ~ foreign /\ kind = "blocks" =>
    /\ IsPrefix(got, Available)
    /\ outcome = "ok" => got = Available \/ Len(request) > MaxRequestBlocks

(* The same with a foreign peer that may skip blocks: nothing is           *)
(* reordered, repeated or made up.                                         *)
AnswerInOrder ==
  \E at \in [DOMAIN got -> DOMAIN Available] :
    /\ \A i, j \in DOMAIN got : i < j => at[i] < at[j]
    /\ \A i \in DOMAIN got : got[i] = Available[at[i]]

(* An answer is read in step, in order, and without an error only whole.   *)
AnswerFaithful == InStep /\ AnswerInOrder /\ AnswerComplete

(* Every request ends, with a result or an error, as long as the peer does *)
(* not fall silent: the main loop waits for it.                            *)
RequestEnds == <>(cpc = "done")
=============================================================================
