----------------------------- MODULE MCAyameStream -----------------------------
(******************************************************************************)
(* Instances of AyameStream: the unary SayHello call of goa_client.cpp,       *)
(* and the same call on a server's stream.                                    *)
(******************************************************************************)
EXTENDS AyameStream

Unary == <<"initial_metadata", "message", "trailing_metadata">>

\* The client's stub issues the whole call as one batch; the call may also be
\* cancelled.
MCCall == [sends |-> Unary, recvs |-> Unary, cancel |-> FALSE]
MCCancel == [sends |-> <<>>, recvs |-> <<>>, cancel |-> TRUE]

MCClientBatch == [o \in {"call"} |-> MCCall]
MCCancelBatch == [o \in {"call", "cancel"} |-> IF o = "call" THEN MCCall ELSE MCCancel]
MCNoRequires == [o \in Ops |-> {}]

\* The server reads the metadata, then the message, then waits for the client's
\* half-close; its answer is the subject of AyameCall.
MCRecv(frame) == [sends |-> <<>>, recvs |-> <<frame>>, cancel |-> FALSE]
MCServerBatch ==
    [ recvInitial |-> MCRecv("initial_metadata"), recvMessage |-> MCRecv("message"),
      recvTrailing |-> MCRecv("trailing_metadata"), cancel |-> MCCancel ]
MCServerOps == DOMAIN MCServerBatch
MCServerRequires ==
    [ recvInitial |-> {}, recvMessage |-> {"recvInitial"},
      recvTrailing |-> {"recvMessage"}, cancel |-> {} ]

MCUnaryReplies == {Unary}

\* A unary answer, one without a message, and one whose message has two slices.
MCAnyReplies ==
    {Unary, <<"initial_metadata", "trailing_metadata">>,
     <<"initial_metadata", "message", "message", "trailing_metadata">>}
================================================================================
