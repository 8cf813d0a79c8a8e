------------------------------- MODULE AyameCall -------------------------------
(******************************************************************************)
(* The SayHello call of goa_client.cpp and goa_server.cpp end to end: two     *)
(* AyameStreams, each with its three threads, joined by one data channel that *)
(* delivers in order.  What one stream sent is what the other one receives.   *)
(* The call is made when signaling is complete on both sides; one that was    *)
(* made before that is the subject of AyameStream's own runs.                 *)
(******************************************************************************)
EXTENDS Naturals, Sequences, FiniteSets

CONSTANTS Faults, Null

Frames == {"initial_metadata", "message", "trailing_metadata"}

ASSUME FaultsAssumption == Faults \subseteq {"close", "pull", "exit"}

VARIABLES
    request, answer,   \* the frames the client and the server have sent
    \* the client's stream, under the names of AyameStream
    pc, op, todo, ready_, waited, dc, cb, pending_op_, data_queue_, func_queue_,
    execq, done, refs, held, life, arrived, issued, dropped, ran, reg, rcvd, got, raced,
    \* the server's stream
    s_pc, s_op, s_todo, s_ready_, s_waited, s_dc, s_cb, s_pending_op_, s_data_queue_,
    s_func_queue_, s_execq, s_done, s_refs, s_held, s_life, s_arrived, s_issued,
    s_dropped, s_ran, s_reg, s_rcvd, s_got, s_raced

clientVars ==
    <<pc, op, todo, ready_, waited, dc, cb, pending_op_, data_queue_, func_queue_,
      execq, done, refs, held, life, arrived, issued, dropped, ran, reg, rcvd, got, raced>>
serverVars ==
    <<s_pc, s_op, s_todo, s_ready_, s_waited, s_dc, s_cb, s_pending_op_, s_data_queue_,
      s_func_queue_, s_execq, s_done, s_refs, s_held, s_life, s_arrived, s_issued,
      s_dropped, s_ran, s_reg, s_rcvd, s_got, s_raced>>
vars == <<request, answer, clientVars, serverVars>>

\* A unary call is three frames in either direction.
Unary == <<"initial_metadata", "message", "trailing_metadata">>

Sends(frames) == [sends |-> frames, recvs |-> <<>>, cancel |-> FALSE]
Recvs(frame) == [sends |-> <<>>, recvs |-> <<frame>>, cancel |-> FALSE]

\* The stub issues the whole call as one batch.
ClientBatch == [o \in {"call"} |-> [sends |-> Unary, recvs |-> Unary, cancel |-> FALSE]]

\* The server reads the metadata, then the message, then the handler calls Finish and
\* core waits for the client's half-close.  Of its ways to answer SayHelloHandler
\* takes the first; a handler may finish with an error status, or with an empty
\* message, whose frame WebRTC does not send, or with a message of two slices.
ServerBatch ==
    [ recvInitial  |-> Recvs("initial_metadata"),
      recvMessage  |-> Recvs("message"),
      recvTrailing |-> Recvs("trailing_metadata"),
      finishOK     |-> Sends(Unary),
      finishShort  |-> Sends(<<"initial_metadata", "trailing_metadata">>),
      finishSliced |-> Sends(<<"initial_metadata", "message", "message",
                               "trailing_metadata">>) ]
Finish == {"finishOK", "finishShort", "finishSliced"}
ServerRequires ==
    [o \in DOMAIN ServerBatch |-> IF o = "recvInitial" THEN {}
                                  ELSE IF o = "recvMessage" THEN {"recvInitial"}
                                  ELSE {"recvMessage"}]

\* No batch is a null pointer.
ASSUME NullAssumption == Null \notin {"call"} \cup DOMAIN ServerBatch

Client == INSTANCE AyameStream WITH
    IsClient <- TRUE, Ops <- {"call"}, Batch <- ClientBatch,
    Requires <- [o \in {"call"} |-> {}], Replies <- Seq(Frames), ReplyAfter <- 0,
    sent <- request, reply <- answer

Server == INSTANCE AyameStream WITH
    IsClient <- FALSE, Ops <- DOMAIN ServerBatch, Batch <- ServerBatch,
    Requires <- ServerRequires, Replies <- Seq(Frames), ReplyAfter <- 0,
    sent <- answer, reply <- request,
    pc <- s_pc, op <- s_op, todo <- s_todo, ready_ <- s_ready_, waited <- s_waited,
    dc <- s_dc, cb <- s_cb, pending_op_ <- s_pending_op_, data_queue_ <- s_data_queue_,
    func_queue_ <- s_func_queue_, execq <- s_execq, done <- s_done, refs <- s_refs,
    held <- s_held, life <- s_life, arrived <- s_arrived, issued <- s_issued,
    dropped <- s_dropped, ran <- s_ran, reg <- s_reg, rcvd <- s_rcvd, got <- s_got,
    raced <- s_raced

Init == request = <<>> /\ answer = <<>> /\ Client!Init /\ Server!Init

ClientStep ==
    /\ Client!Next
    /\ life' # life => ready_ /\ pc["ioc"] = "idle"
    /\ UNCHANGED serverVars

\* The server hears of the channel once the client has created it, its handler
\* finishes the call once, and core keeps the call until it is finished and the client
\* has half-closed it.
ServerStep ==
    /\ Server!Next
    /\ s_life' # s_life => dc # "none" /\ s_ready_ /\ s_pc["ioc"] = "idle"
    /\ Cardinality(s_issued' \cap Finish) <= 1
    /\ s_held /\ ~s_held' => "recvTrailing" \in s_issued /\ s_issued \cap Finish # {}
    /\ UNCHANGED clientVars

Next == ClientStep \/ ServerStep

Spec == Init /\ [][Next]_vars

\* Both ends go on, the channel is announced, and the server's core and handler do
\* their part.
FairSpec ==
    /\ Spec /\ Client!Fairness /\ Server!Fairness
    /\ WF_vars(ServerStep /\ \E o \in DOMAIN ServerBatch : Server!OnDataChannel(o))
    /\ WF_vars(ServerStep /\ \E o \in DOMAIN ServerBatch : Server!PerformStreamOp(o))

--------------------------------------------------------------------------------
(******************************************************************************)
(* Properties.                                                                *)
(******************************************************************************)
Framed(frames) ==
    /\ Len(frames) <= 3
    /\ \A i \in 1..Len(frames) : frames[i] = Unary[i]

Mismatch(pairs) == \E i \in DOMAIN pairs : pairs[i][1][2] # pairs[i][2]

\* A receive lambda of PerformOp is given a frame of another kind, or ends the process
\* with the exception of json::parse, only if the peer's frames were not one of each
\* kind: no interleaving of the six threads mixes up a well framed call.
MismatchExplained ==
    /\ Mismatch(got) \/ pc["app"] = "terminated" => ~Framed(answer)
    /\ Mismatch(s_got) \/ s_pc["app"] = "terminated" => ~Framed(request)

\* The i-th receive of either side is given the i-th frame that the other side's
\* PerformOp has sent: between the threads of both sides, and with a channel on which
\* InitDataChannel has yet to set the callbacks, no frame is lost, doubled or overtaken.
FramesEndToEnd ==
    /\ \A i \in DOMAIN got : i \in DOMAIN answer /\ got[i] = <<reg[i], answer[i]>>
    /\ \A i \in DOMAIN s_got : i \in DOMAIN request /\ s_got[i] = <<s_reg[i], request[i]>>

\* The race for pending_op_ is the client's: a server has its first batch on the signaling
\* thread, which opens the channel, and its next one only when a frame has come, so that
\* a channel that is still connecting when it is accepted strands nothing.
ServerNeverStrands == ~Server!Stranded

\* PerformOp has no frame that ends a call: it is over for the client, and half-closed
\* for the server, only after three frames, so that a call that is finished with an
\* error status, an empty message or a failed Pull never ends.
EndNeedsThreeFrames ==
    /\ Client!Complete("call") => Len(answer) >= 3
    /\ Server!Complete("recvTrailing") => Len(request) >= 3

\* A well framed call ends on both sides, but if the client's batch lost the race for
\* pending_op_.
WellFramedCallEnds ==
    (issued # {}) ~> \/ ~Framed(request) \/ ~Framed(answer)
                     \/ Client!Stranded /\ raced
                     \/ /\ Client!Complete("call")
                        /\ \A o \in s_issued : Server!Complete(o)
                        /\ "recvTrailing" \in s_issued
================================================================================
