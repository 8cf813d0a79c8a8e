---------------------------- MODULE AyameCallProofs ----------------------------
(******************************************************************************)
(* Theorems about AyameCall: what the two streams of a call do to each other. *)
(* Each of them keeps the invariants of AyameStreamBatchProofs, whatever the  *)
(* other one has sent; what is added here is what one can conclude from the   *)
(* frames it has received about the state of the other.                       *)
(******************************************************************************)
EXTENDS AyameCall, TLAPS

\* The streams again, with what is proved about them.
C == INSTANCE AyameStreamBatchProofs WITH
    IsClient <- TRUE, Ops <- {"call"}, Batch <- ClientBatch,
    Requires <- [o \in {"call"} |-> {}], Replies <- Seq(Frames), ReplyAfter <- 0,
    sent <- request, reply <- answer

S == INSTANCE AyameStreamBatchProofs WITH
    IsClient <- FALSE, Ops <- DOMAIN ServerBatch, Batch <- ServerBatch,
    Requires <- ServerRequires, Replies <- Seq(Frames), ReplyAfter <- 0,
    sent <- answer, reply <- request,
    pc <- s_pc, op <- s_op, todo <- s_todo, ready_ <- s_ready_, waited <- s_waited,
    dc <- s_dc, cb <- s_cb, pending_op_ <- s_pending_op_, data_queue_ <- s_data_queue_,
    func_queue_ <- s_func_queue_, execq <- s_execq, done <- s_done, refs <- s_refs,
    held <- s_held, life <- s_life, arrived <- s_arrived, issued <- s_issued,
    dropped <- s_dropped, ran <- s_ran, reg <- s_reg, rcvd <- s_rcvd, got <- s_got,
    raced <- s_raced

ClientInv == C!StreamInv /\ C!CallInv /\ C!HeardInv
ServerInv == S!StreamInv /\ S!HeardInv

\* Both streams, each having heard a beginning of what the other one has sent.
BothInv == ClientInv /\ ServerInv

LEMMA SameClient == Client!Next = C!Next
  BY DEF
     Client!Frames, C!Frames, Client!Threads, C!Threads, Client!threadVars,
     C!threadVars, Client!channelVars, C!channelVars, Client!queueVars, C!queueVars,
     Client!closureVars, C!closureVars, Client!lifeVars, C!lifeVars, Client!peerVars,
     C!peerVars, Client!batchVars, C!batchVars, Client!vars, C!vars, Client!Goto,
     C!Goto, Client!SigFree, C!SigFree, Client!Pieces, C!Pieces, Client!Complete,
     C!Complete, Client!StreamRefs, C!StreamRefs, Client!InitStream, C!InitStream,
     Client!CreateDataChannel, C!CreateDataChannel, Client!AddOnReady, C!AddOnReady,
     Client!InitDataChannel, C!InitDataChannel, Client!OnDataChannel, C!OnDataChannel,
     Client!PerformStreamOp, C!PerformStreamOp, Client!PerformOp, C!PerformOp,
     Client!CheckOpen, C!CheckOpen, Client!AfterPend, C!AfterPend, Client!PendOp,
     C!PendOp, Client!RunOp, C!RunOp, Client!SendFrame, C!SendFrame, Client!PullFails,
     C!PullFails, Client!SchedulesOnComplete, C!SchedulesOnComplete, Client!SendsDone,
     C!SendsDone, Client!Receive, C!Receive, Client!Enqueue, C!Enqueue, Client!Popped,
     C!Popped, Client!WaitForRecv, C!WaitForRecv, Client!RecvsDone, C!RecvsDone,
     Client!FlushExecCtx, C!FlushExecCtx, Client!BecomeReady, C!BecomeReady,
     Client!InWindow, C!InWindow, Client!RerunsOnReady, C!RerunsOnReady, Client!OnReady,
     C!OnReady, Client!ClearReadyWaited, C!ClearReadyWaited, Client!IocEnds, C!IocEnds,
     Client!ChannelOpens, C!ChannelOpens, Client!ChannelCloses, C!ChannelCloses,
     Client!RerunsOnOpen, C!RerunsOnOpen, Client!OnStateChange, C!OnStateChange,
     Client!SomeoneWaits, C!SomeoneWaits, Client!Served, C!Served, Client!OnMessage,
     C!OnMessage, Client!ReleaseCall, C!ReleaseCall, Client!PerformOpStep,
     C!PerformOpStep, Client!Next, C!Next

LEMMA SameServer == Server!Next = S!Next
  BY DEF
     Server!Frames, S!Frames, Server!Threads, S!Threads, Server!threadVars,
     S!threadVars, Server!channelVars, S!channelVars, Server!queueVars, S!queueVars,
     Server!closureVars, S!closureVars, Server!lifeVars, S!lifeVars, Server!peerVars,
     S!peerVars, Server!batchVars, S!batchVars, Server!vars, S!vars, Server!Goto,
     S!Goto, Server!SigFree, S!SigFree, Server!Pieces, S!Pieces, Server!Complete,
     S!Complete, Server!StreamRefs, S!StreamRefs, Server!InitStream, S!InitStream,
     Server!CreateDataChannel, S!CreateDataChannel, Server!AddOnReady, S!AddOnReady,
     Server!InitDataChannel, S!InitDataChannel, Server!OnDataChannel, S!OnDataChannel,
     Server!PerformStreamOp, S!PerformStreamOp, Server!PerformOp, S!PerformOp,
     Server!CheckOpen, S!CheckOpen, Server!AfterPend, S!AfterPend, Server!PendOp,
     S!PendOp, Server!RunOp, S!RunOp, Server!SendFrame, S!SendFrame, Server!PullFails,
     S!PullFails, Server!SchedulesOnComplete, S!SchedulesOnComplete, Server!SendsDone,
     S!SendsDone, Server!Receive, S!Receive, Server!Enqueue, S!Enqueue, Server!Popped,
     S!Popped, Server!WaitForRecv, S!WaitForRecv, Server!RecvsDone, S!RecvsDone,
     Server!FlushExecCtx, S!FlushExecCtx, Server!BecomeReady, S!BecomeReady,
     Server!InWindow, S!InWindow, Server!RerunsOnReady, S!RerunsOnReady, Server!OnReady,
     S!OnReady, Server!ClearReadyWaited, S!ClearReadyWaited, Server!IocEnds, S!IocEnds,
     Server!ChannelOpens, S!ChannelOpens, Server!ChannelCloses, S!ChannelCloses,
     Server!RerunsOnOpen, S!RerunsOnOpen, Server!OnStateChange, S!OnStateChange,
     Server!SomeoneWaits, S!SomeoneWaits, Server!Served, S!Served, Server!OnMessage,
     S!OnMessage, Server!ReleaseCall, S!ReleaseCall, Server!PerformOpStep,
     S!PerformOpStep, Server!Next, S!Next

LEMMA SameInit == Init => C!Init /\ S!Init
  BY DEF Init, Client!Init, C!Init, Server!Init, S!Init, Client!Threads, C!Threads,
     Server!Threads, S!Threads

--------------------------------------------------------------------------------
(******************************************************************************)
(* The constants of the two streams are as AyameStream assumes.               *)
(******************************************************************************)
LEMMA ServerOps ==
  /\ DOMAIN ServerBatch = {"recvInitial", "recvMessage", "recvTrailing"} \cup Finish
  /\ ServerBatch["recvInitial"] = Recvs("initial_metadata")
  /\ ServerBatch["recvMessage"] = Recvs("message")
  /\ ServerBatch["recvTrailing"] = Recvs("trailing_metadata")
  /\ \A o \in Finish : \E s \in Seq(Frames) : s # <<>> /\ ServerBatch[o] = Sends(s)
<1>1. /\ DOMAIN ServerBatch = {"recvInitial", "recvMessage", "recvTrailing", "finishOK",
                              "finishShort", "finishSliced"}
      /\ ServerBatch["recvInitial"] = Recvs("initial_metadata")
      /\ ServerBatch["recvMessage"] = Recvs("message")
      /\ ServerBatch["recvTrailing"] = Recvs("trailing_metadata")
      /\ ServerBatch["finishOK"] = Sends(Unary)
      /\ ServerBatch["finishShort"] = Sends(<<"initial_metadata", "trailing_metadata">>)
      /\ ServerBatch["finishSliced"]
            = Sends(<<"initial_metadata", "message", "message", "trailing_metadata">>)
  BY DEF ServerBatch
<1>2. /\ Unary \in Seq(Frames) /\ Unary # <<>>
      /\ <<"initial_metadata", "trailing_metadata">> \in Seq(Frames) \ {<<>>}
      /\ <<"initial_metadata", "message", "message", "trailing_metadata">>
            \in Seq(Frames) \ {<<>>}
  BY DEF Unary, Frames
<1>3. \A o \in Finish : \E s \in Seq(Frames) : s # <<>> /\ ServerBatch[o] = Sends(s)
  BY <1>1, <1>2 DEF Finish
<1> QED
  BY <1>1, <1>3 DEF Finish

LEMMA ClientConstants ==
  /\ ClientBatch \in [{"call"} -> C!Batches]
  /\ [o \in {"call"} |-> {}] \in [{"call"} -> SUBSET {"call"}]
  /\ Seq(Frames) \subseteq Seq(C!Frames)
  /\ Null \notin {"call"}
  /\ \A o \in {"call"} : ClientBatch[o].cancel => ClientBatch[o].sends = <<>>
  /\ \A o \in {"call"} : \A i, j \in 1..Len(ClientBatch[o].recvs) :
        ClientBatch[o].recvs[i] = ClientBatch[o].recvs[j] => i = j
  BY NullAssumption DEF ClientBatch, C!Batches, C!Frames, Frames, Unary

LEMMA ServerConstants ==
  /\ ServerBatch \in [DOMAIN ServerBatch -> S!Batches]
  /\ ServerRequires \in [DOMAIN ServerBatch -> SUBSET DOMAIN ServerBatch]
  /\ Seq(Frames) \subseteq Seq(S!Frames)
  /\ Null \notin DOMAIN ServerBatch
  /\ \A o \in DOMAIN ServerBatch : ServerBatch[o].cancel => ServerBatch[o].sends = <<>>
  /\ \A o \in DOMAIN ServerBatch : \A i, j \in 1..Len(ServerBatch[o].recvs) :
        ServerBatch[o].recvs[i] = ServerBatch[o].recvs[j] => i = j
<1>1. ServerBatch \in [DOMAIN ServerBatch -> S!Batches]
  <2>1. ServerBatch = [o \in DOMAIN ServerBatch |-> ServerBatch[o]]
    BY DEF ServerBatch
  <2>2. \A f \in Frames : Recvs(f) \in S!Batches
    BY DEF Recvs, S!Batches, S!Frames, Frames
  <2>3. \A s \in Seq(Frames) : Sends(s) \in S!Batches
    BY DEF Sends, S!Batches, S!Frames, Frames
  <2>4. \A o \in DOMAIN ServerBatch : ServerBatch[o] \in S!Batches
    BY <2>2, <2>3, ServerOps DEF Frames
  <2> QED
    BY <2>1, <2>4
<1>2. ServerRequires \in [DOMAIN ServerBatch -> SUBSET DOMAIN ServerBatch]
  BY ServerOps DEF ServerRequires
<1>3. \A o \in DOMAIN ServerBatch :
        /\ ServerBatch[o].cancel => ServerBatch[o].sends = <<>>
        /\ \A i, j \in 1..Len(ServerBatch[o].recvs) :
              ServerBatch[o].recvs[i] = ServerBatch[o].recvs[j] => i = j
  BY ServerOps DEF Recvs, Sends
<1> QED
  BY <1>1, <1>2, <1>3, NullAssumption DEF S!Frames, Frames

--------------------------------------------------------------------------------
(******************************************************************************)
(* The invariant.                                                             *)
(******************************************************************************)
LEMMA BothInit == Init => BothInv
<1>1. C!Init => C!StreamInv /\ C!CallInv /\ C!HeardInv
  BY ClientConstants, FaultsAssumption, C!StreamInit, C!CallInit, C!HeardInit
<1>2. S!Init => S!StreamInv /\ S!HeardInv
  BY ServerConstants, FaultsAssumption, S!StreamInit, S!HeardInit
<1> QED
  BY <1>1, <1>2, SameInit DEF BothInv, ClientInv, ServerInv

\* The server finishes a call only when it has read a message.
LEMMA AnswerFollowsRequest ==
  ASSUME ServerInv, answer # <<>>
  PROVE  request # <<>>
<1>1. /\ S!TypeInv /\ S!PairedInOrder /\ S!ClosureInv /\ S!SentInv /\ S!RequiresInv
      /\ S!HeardInv
  BY DEF ServerInv, S!StreamInv, S!WireInv
<1>2. PICK o \in s_issued : ServerBatch[o].sends # <<>>
  BY <1>1 DEF S!SentInv
<1>3. o \in DOMAIN ServerBatch /\ "recvMessage" \in ServerRequires[o]
  <2>1. o \in DOMAIN ServerBatch
    BY <1>1 DEF S!TypeInv, S!TypeOK, S!BatchesOK
  <2>2. o \in Finish
    BY <1>2, <2>1, ServerOps DEF Recvs
  <2> QED
    BY <2>1, <2>2 DEF ServerRequires, Finish
<1>4. S!Complete("recvMessage")
  BY <1>1, <1>3 DEF S!RequiresInv
<1>5. <<"recvMessage", "message">> \in s_done
  <2>1. ServerBatch["recvMessage"].recvs = <<"message">>
    BY ServerOps DEF Recvs
  <2>2. <<"recvMessage", "message">> \in S!Pieces("recvMessage")
    BY <2>1 DEF S!Pieces
  <2> QED
    BY <1>4, <2>2 DEF S!Complete
<1>6. PICK i \in 1..Len(s_got) : s_got[i][1] = <<"recvMessage", "message">>
  <2>1. <<"recvMessage", "message">> \in S!Recvs
    BY ServerOps DEF S!Recvs, S!Frames
  <2> QED
    BY <1>1, <1>5, <2>1 DEF S!ClosureInv, S!Paired
<1>7. s_got \in Seq(S!Recvs \X S!Frames) /\ s_rcvd \in Seq(S!Frames)
  BY <1>1 DEF S!TypeInv, S!TypeOK, S!QueuesOK
<1>8. 1 <= Len(s_rcvd)
  BY <1>1, <1>6, <1>7 DEF S!PairedInOrder
<1>9. request \in Seq(Frames) /\ Len(s_rcvd) <= Len(request)
  BY <1>1 DEF S!HeardInv, S!TypeInv, S!TypeOK, S!PeerOK
<1> QED
  BY <1>7, <1>8, <1>9

\* A step of the client only adds to the request: when it creates its channel nothing
\* was sent yet.
LEMMA RequestGrows ==
  ASSUME ClientInv, C!Next
  PROVE  /\ answer' = answer
         /\ request' = request \/ \E f \in Frames : request' = Append(request, f)
<1>1. C!TypeInv /\ C!OneChannelInv
  BY DEF ClientInv, C!StreamInv, C!CallInv
<1>2. answer' = answer
  BY ClientConstants, FaultsAssumption, C!WireSteps
<1>3. ASSUME NEW t \in C!Threads, C!CreateDataChannel(t) PROVE request = <<>>
  BY <1>1, <1>3 DEF C!CreateDataChannel, C!OneChannelInv, C!At, C!Threads
<1>4. \/ request' = request
      \/ request' = <<>> /\ \E t \in C!Threads : C!CreateDataChannel(t)
      \/ dc = "open" /\ \E f \in C!Frames : request' = Append(request, f)
  BY <1>1, ClientConstants, FaultsAssumption, C!SentGrows
<1> QED
  BY <1>2, <1>3, <1>4 DEF C!Frames, Frames

\* A step of the server only adds to the answer: it creates no channel.
LEMMA AnswerGrows ==
  ASSUME ServerInv, S!Next
  PROVE  /\ request' = request
         /\ answer' = answer \/ \E f \in Frames : answer' = Append(answer, f)
<1>1. S!TypeInv /\ S!CreateInv
  BY DEF ServerInv, S!StreamInv, S!LostInv
<1>2. request' = request
  BY ServerConstants, FaultsAssumption, S!WireSteps
<1>3. ASSUME NEW t \in S!Threads, S!CreateDataChannel(t) PROVE FALSE
  BY <1>1, <1>3 DEF S!CreateDataChannel, S!CreateInv
<1>4. \/ answer' = answer
      \/ answer' = <<>> /\ \E t \in S!Threads : S!CreateDataChannel(t)
      \/ s_dc = "open" /\ \E f \in S!Frames : answer' = Append(answer, f)
  BY <1>1, ServerConstants, FaultsAssumption, S!SentGrows
<1> QED
  BY <1>2, <1>3, <1>4 DEF S!Frames, Frames

\* Neither end notices what the other one puts into the channel.
LEMMA ClientStays ==
  ASSUME ClientInv, UNCHANGED <<clientVars, request>>,
         answer' = answer \/ \E f \in Frames : answer' = Append(answer, f)
  PROVE  ClientInv'
<1>1. /\ UNCHANGED <<C!threadVars, C!channelVars, C!queueVars, C!closureVars, C!lifeVars,
                     C!peerVars, C!batchVars>>
      /\ UNCHANGED <<arrived, rcvd>>
  BY DEF clientVars, C!threadVars, C!channelVars, C!queueVars, C!closureVars, C!lifeVars,
     C!peerVars, C!batchVars
<1>2. C!TypeInv /\ answer \in Seq(Frames)
  BY DEF ClientInv, C!StreamInv, C!TypeInv, C!TypeOK, C!PeerOK
<1>3. answer' \in Seq(Frames)
  BY <1>2
<1>4. C!StreamInv' /\ C!CallInv'
  BY <1>1, <1>3, ClientConstants, FaultsAssumption, C!StreamReply, C!CallReply DEF ClientInv
<1>5. C!HeardInv'
  <2>1. CASE answer' = answer
    BY <1>1, <2>1 DEF ClientInv, C!HeardInv
  <2>2. ASSUME NEW f \in C!Frames, answer' = Append(answer, f) PROVE C!HeardInv'
    BY <1>1, <1>2, <2>2, ClientConstants, FaultsAssumption, C!HeardReply DEF ClientInv
  <2> QED
    BY <2>1, <2>2 DEF C!Frames, Frames
<1> QED
  BY <1>4, <1>5 DEF ClientInv

LEMMA ServerStays ==
  ASSUME ServerInv, UNCHANGED <<serverVars, answer>>,
         request' = request \/ \E f \in Frames : request' = Append(request, f)
  PROVE  ServerInv'
<1>1. /\ UNCHANGED <<S!threadVars, S!channelVars, S!queueVars, S!closureVars, S!lifeVars,
                     S!peerVars, S!batchVars>>
      /\ UNCHANGED <<s_arrived, s_rcvd>>
  BY DEF serverVars, S!threadVars, S!channelVars, S!queueVars, S!closureVars, S!lifeVars,
     S!peerVars, S!batchVars
<1>2. S!TypeInv /\ request \in Seq(Frames)
  BY DEF ServerInv, S!StreamInv, S!TypeInv, S!TypeOK, S!PeerOK
<1>3. request' \in Seq(Frames)
  BY <1>2
<1>4. S!StreamInv'
  BY <1>1, <1>3, ServerConstants, FaultsAssumption, S!StreamReply DEF ServerInv
<1>5. S!HeardInv'
  <2>1. CASE request' = request
    BY <1>1, <2>1 DEF ServerInv, S!HeardInv
  <2>2. ASSUME NEW f \in S!Frames, request' = Append(request, f) PROVE S!HeardInv'
    BY <1>1, <1>2, <2>2, ServerConstants, FaultsAssumption, S!HeardReply DEF ServerInv
  <2> QED
    BY <2>1, <2>2 DEF S!Frames, Frames
<1> QED
  BY <1>4, <1>5 DEF ServerInv

\* A step of the client.  A frame of the answer finds the callback set: the server had
\* a message before it answered, and the client sends none before InitDataChannel.
LEMMA ClientGoesOn ==
  ASSUME BothInv, C!Next
  PROVE  ClientInv'
<1>1. C!StreamInv'
  BY ClientConstants, FaultsAssumption, C!StreamNext DEF BothInv, ClientInv
<1>2. /\ C!TypeInv /\ C!OnceInv /\ C!PlaceInv /\ C!CallInv /\ C!HeardInv
      /\ C!OneChannelInv
  BY DEF BothInv, ClientInv, C!StreamInv, C!StrandInv, C!CallInv
<1>3. C!UnaryCall
  BY DEF C!UnaryCall, C!UnaryReply, ClientBatch, Unary
<1>4. C!CallInv'
  BY <1>2, <1>3, ClientConstants, FaultsAssumption, C!CallNext
<1>5. C!OnMessage => cb
  <2> SUFFICES ASSUME C!OnMessage PROVE cb
    OBVIOUS
  <2>1. answer \in Seq(Frames) /\ arrived \in Nat /\ arrived < Len(answer)
    BY <1>2 DEF C!TypeInv, C!TypeOK, C!PeerOK, C!OnMessage
  <2>2. answer # <<>>
    BY <2>1
  <2>3. request # <<>>
    BY <2>2, AnswerFollowsRequest DEF BothInv
  <2> QED
    BY <1>2, <2>3 DEF C!OneChannelInv
<1>6. \A t \in C!Threads : C!CreateDataChannel(t) => arrived = 0
  BY <1>2, ClientConstants, FaultsAssumption, C!NewChannelEmpty
<1>7. C!HeardInv'
  BY <1>2, <1>5, <1>6, ClientConstants, FaultsAssumption, C!HeardNext
<1> QED
  BY <1>1, <1>4, <1>7 DEF ClientInv

\* A step of the server, whose channel has its callbacks from the start.
LEMMA ServerGoesOn ==
  ASSUME BothInv, S!Next
  PROVE  ServerInv'
<1>1. S!StreamInv'
  BY ServerConstants, FaultsAssumption, S!StreamNext DEF BothInv, ServerInv
<1>2. S!TypeInv /\ S!CreateInv /\ S!AcceptedInv /\ S!HeardInv
  BY DEF BothInv, ServerInv, S!StreamInv, S!LostInv, S!WireInv
<1>3. S!OnMessage => s_cb
  BY <1>2 DEF S!OnMessage, S!AcceptedInv
<1>4. \A t \in S!Threads : S!CreateDataChannel(t) => s_arrived = 0
  BY <1>2 DEF S!CreateDataChannel, S!CreateInv
<1>5. S!HeardInv'
  BY <1>2, <1>3, <1>4, ServerConstants, FaultsAssumption, S!HeardNext
<1> QED
  BY <1>1, <1>5 DEF ServerInv

LEMMA BothNext == BothInv /\ [Next]_vars => BothInv'
<1> SUFFICES ASSUME BothInv, [Next]_vars PROVE BothInv'
  OBVIOUS
<1>1. CASE ClientStep
  <2>1. C!Next /\ UNCHANGED serverVars
    BY <1>1, SameClient DEF ClientStep
  <2>2. ClientInv'
    BY <2>1, ClientGoesOn
  <2>3. ServerInv'
    BY <2>1, RequestGrows, ServerStays DEF BothInv
  <2> QED
    BY <2>2, <2>3 DEF BothInv
<1>2. CASE ServerStep
  <2>1. S!Next /\ UNCHANGED clientVars
    BY <1>2, SameServer DEF ServerStep
  <2>2. ServerInv'
    BY <2>1, ServerGoesOn
  <2>3. ClientInv'
    BY <2>1, AnswerGrows, ClientStays DEF BothInv
  <2> QED
    BY <2>2, <2>3 DEF BothInv
<1>3. CASE UNCHANGED vars
  BY <1>3, ClientStays, ServerStays DEF vars, BothInv
<1> QED
  BY <1>1, <1>2, <1>3 DEF Next

--------------------------------------------------------------------------------
(******************************************************************************)
(* What the frames say.                                                       *)
(******************************************************************************)

\* The server's core asks for the frames in their order, whichever threads perform its
\* batches: the metadata, then the message, then the half-close.
LEMMA ServerOrder ==
  ASSUME ServerInv, NEW i \in 1..Len(s_reg)
  PROVE  /\ i = 1 => s_reg[i] = <<"recvInitial", "initial_metadata">>
         /\ i = 2 => s_reg[i] = <<"recvMessage", "message">>
         /\ i = 3 => s_reg[i] = <<"recvTrailing", "trailing_metadata">>
         /\ s_reg[i] = <<"recvTrailing", "trailing_metadata">> => i >= 3
<1>1. S!TypeInv /\ S!RegOnce /\ S!RequiresInv /\ s_reg \in Seq(S!Recvs)
  BY DEF ServerInv, S!StreamInv, S!LostInv, S!RegInv, S!WireInv, S!TypeInv, S!TypeOK,
     S!QueuesOK
<1> DEFINE initial == <<"recvInitial", "initial_metadata">>
           message == <<"recvMessage", "message">>
           trailing == <<"recvTrailing", "trailing_metadata">>
<1>2. ASSUME NEW j \in 1..Len(s_reg)
      PROVE  s_reg[j] \in {initial, message, trailing}
  <2>1. s_reg[j] \in S!Pieces(s_reg[j][1])
    BY <1>1 DEF S!RegOnce
  <2>2. PICK o \in DOMAIN ServerBatch, f \in S!Frames : s_reg[j] = <<o, f>>
    BY <1>1 DEF S!Recvs
  <2>3. f # "on_complete" /\ <<o, f>> \in S!Pieces(o)
    BY <2>1, <2>2 DEF S!Frames
  <2>4. PICK k \in DOMAIN ServerBatch[o].recvs : f = ServerBatch[o].recvs[k]
    BY <2>3 DEF S!Pieces
  <2>5. o \notin Finish
    BY <2>4, ServerOps DEF Sends
  <2> QED
    BY <2>2, <2>4, <2>5, ServerOps DEF Recvs
<1>3. /\ initial \in S!Pieces("recvInitial") /\ message \in S!Pieces("recvMessage")
      /\ "message" \in S!Frames /\ "initial_metadata" \in S!Frames
      /\ ServerRequires["recvMessage"] = {"recvInitial"}
      /\ ServerRequires["recvTrailing"] = {"recvMessage"}
  BY ServerOps DEF S!Pieces, S!Frames, Recvs, ServerRequires
<1>3a. ASSUME NEW j \in 1..Len(s_reg), NEW p \in ServerRequires[s_reg[j][1]],
             NEW f \in S!Frames, <<p, f>> \in S!Pieces(p)
      PROVE  \E k \in 1..(j - 1) : s_reg[k] = <<p, f>>
  <2>1. S!RequiresInv
    BY <1>1
  <2> QED
    BY <1>3a, <2>1 DEF S!RequiresInv
<1>4. ASSUME NEW j \in 1..Len(s_reg), s_reg[j] = message
      PROVE  \E k \in 1..(j - 1) : s_reg[k] = initial
  <2>1. "recvInitial" \in ServerRequires[s_reg[j][1]]
    BY <1>3, <1>4
  <2>2. <<"recvInitial", "initial_metadata">> \in S!Pieces("recvInitial") /\ "initial_metadata" \in S!Frames
    BY <1>3
  <2>3. \E k \in 1..(j - 1) : s_reg[k] = <<"recvInitial", "initial_metadata">>
    BY <1>3a, <2>1, <2>2
  <2> QED
    BY <2>3
<1>5. ASSUME NEW j \in 1..Len(s_reg), s_reg[j] = trailing
      PROVE  \E k \in 1..(j - 1) : s_reg[k] = message
  <2>1. "recvMessage" \in ServerRequires[s_reg[j][1]]
    BY <1>3, <1>5
  <2>2. <<"recvMessage", "message">> \in S!Pieces("recvMessage") /\ "message" \in S!Frames
    BY <1>3
  <2>3. \E k \in 1..(j - 1) : s_reg[k] = <<"recvMessage", "message">>
    BY <1>3a, <2>1, <2>2
  <2> QED
    BY <2>3
<1>6. \A j, k \in 1..Len(s_reg) : s_reg[j] = s_reg[k] => j = k
  BY <1>1 DEF S!RegOnce
<1>7. initial # message /\ initial # trailing /\ message # trailing
  OBVIOUS
<1>8. Len(s_reg) \in Nat
  BY <1>1
<1> HIDE DEF initial, message, trailing
<1>9. ASSUME NEW j \in 1..Len(s_reg), s_reg[j] = message PROVE j >= 2
  BY <1>4, <1>8, <1>9
<1>10. ASSUME NEW j \in 1..Len(s_reg), s_reg[j] = trailing PROVE j >= 3
  <2>1. PICK k \in 1..(j - 1) : s_reg[k] = message
    BY <1>5, <1>10
  <2>2. k \in 1..Len(s_reg)
    BY <1>8
  <2>3. k >= 2
    BY <1>9, <2>1, <2>2
  <2> QED
    BY <2>3
<1>11. i = 1 => s_reg[i] = initial
  BY <1>2, <1>9, <1>10
<1>12. i = 2 => s_reg[i] = message
  <2>1. 1 \in 1..Len(s_reg)
    BY <1>8
  <2>2. s_reg[1] = initial
    BY <1>2, <1>9, <1>10, <2>1
  <2> QED
    BY <1>2, <1>6, <1>10, <2>1, <2>2
<1>13. i = 3 => s_reg[i] = trailing
  <2> SUFFICES ASSUME i = 3 PROVE s_reg[i] = trailing
    OBVIOUS
  <2>1. 1 \in 1..Len(s_reg) /\ 2 \in 1..Len(s_reg)
    BY <1>8
  <2>2. s_reg[1] = initial
    BY <1>2, <1>9, <1>10, <2>1
  <2>3. s_reg[2] = message
    BY <1>2, <1>6, <1>10, <2>1, <2>2
  <2> QED
    BY <1>2, <1>6, <2>1, <2>2, <2>3
<1> QED
  BY <1>10, <1>11, <1>12, <1>13 DEF initial, message, trailing

\* The receive and the frame of each pair, on either side.
LEMMA ClientPairs ==
  ASSUME ClientInv, NEW i \in DOMAIN got
  PROVE  /\ i \in 1..Len(got) /\ i \in 1..Len(answer) /\ got[i] = <<reg[i], answer[i]>>
         /\ i <= 3 => reg[i][2] = Unary[i]
<1>1. C!TypeInv /\ C!PairedInOrder /\ C!HeardInv /\ C!FirstThree
  BY DEF ClientInv, C!StreamInv, C!CallInv, C!OrderInv
<1>2. /\ got \in Seq(C!Recvs \X C!Frames) /\ reg \in Seq(C!Recvs)
      /\ rcvd \in Seq(C!Frames) /\ answer \in Seq(Frames)
  BY <1>1 DEF C!TypeInv, C!TypeOK, C!QueuesOK, C!PeerOK
<1>3. i \in 1..Len(got) /\ i \in 1..Len(reg) /\ i \in 1..Len(rcvd)
  BY <1>1, <1>2 DEF C!PairedInOrder
<1>4. got[i] = <<reg[i], answer[i]>> /\ i \in 1..Len(answer)
  BY <1>1, <1>2, <1>3 DEF C!PairedInOrder, C!HeardInv
<1> QED
  BY <1>1, <1>3, <1>4 DEF C!FirstThree, C!UnaryReply, Unary

LEMMA ServerPairs ==
  ASSUME ServerInv, NEW i \in DOMAIN s_got
  PROVE  /\ i \in 1..Len(s_got) /\ i \in 1..Len(s_reg) /\ i \in 1..Len(request)
         /\ s_got[i] = <<s_reg[i], request[i]>>
         /\ i <= 3 => s_reg[i][2] = Unary[i]
<1>1. S!TypeInv /\ S!PairedInOrder /\ S!HeardInv
  BY DEF ServerInv, S!StreamInv
<1>2. /\ s_got \in Seq(S!Recvs \X S!Frames) /\ s_reg \in Seq(S!Recvs)
      /\ s_rcvd \in Seq(S!Frames) /\ request \in Seq(Frames)
  BY <1>1 DEF S!TypeInv, S!TypeOK, S!QueuesOK, S!PeerOK
<1>3. i \in 1..Len(s_got) /\ i \in 1..Len(s_reg) /\ i \in 1..Len(s_rcvd)
  BY <1>1, <1>2 DEF S!PairedInOrder
<1>4. s_got[i] = <<s_reg[i], request[i]>> /\ i \in 1..Len(request)
  BY <1>1, <1>2, <1>3 DEF S!PairedInOrder, S!HeardInv
<1>5. i <= 3 => i = 1 \/ i = 2 \/ i = 3
  BY <1>3
<1>6. i <= 3 => s_reg[i][2] = Unary[i]
  BY <1>3, <1>5, ServerOrder DEF Unary
<1> QED
  BY <1>3, <1>4, <1>6

\* A well framed call is never mixed up, on either side: a receive gets a frame of
\* another kind, or throws, only if the frames of the peer were not one of each kind.
THEOREM NothingMixedUp == Spec => []MismatchExplained
<1>1. ASSUME BothInv PROVE MismatchExplained
  <2>1. ASSUME Framed(answer), NEW i \in DOMAIN got PROVE got[i][1][2] = got[i][2]
    BY <1>1, <2>1, ClientPairs DEF BothInv, Framed
  <2>2. ASSUME Framed(request), NEW i \in DOMAIN s_got PROVE s_got[i][1][2] = s_got[i][2]
    BY <1>1, <2>2, ServerPairs DEF BothInv, Framed
  <2>3. pc["app"] = "terminated" => Mismatch(got)
    BY <1>1 DEF BothInv, ClientInv, C!StreamInv, C!WireInv, C!ThrownInv, C!At, Mismatch,
       C!TypeInv, C!TypeOK, C!QueuesOK
  <2>4. s_pc["app"] = "terminated" => Mismatch(s_got)
    BY <1>1 DEF BothInv, ServerInv, S!StreamInv, S!WireInv, S!ThrownInv, S!At, Mismatch,
       S!TypeInv, S!TypeOK, S!QueuesOK
  <2> QED
    BY <2>1, <2>2, <2>3, <2>4 DEF MismatchExplained, Mismatch
<1> QED
  BY <1>1, BothInit, BothNext, PTL DEF Spec

\* The call is over for the client, and half-closed for the server, only when three
\* frames have come: no other frame of PerformOp ends it.
THEOREM EndIsThirdFrame == Spec => []EndNeedsThreeFrames
<1>1. ASSUME BothInv, Client!Complete("call") PROVE Len(answer) >= 3
  <2>1. /\ C!ClosureInv /\ C!TypeInv /\ got \in Seq(C!Recvs \X C!Frames)
        /\ answer \in Seq(Frames)
    BY <1>1 DEF BothInv, ClientInv, C!StreamInv, C!TypeInv, C!TypeOK, C!QueuesOK, C!PeerOK
  <2>2. <<"call", "trailing_metadata">> \in done
    <3>1. ClientBatch["call"].recvs[3] = "trailing_metadata"
          /\ 3 \in DOMAIN ClientBatch["call"].recvs
      BY DEF ClientBatch, Unary
    <3> QED
      BY <1>1, <3>1 DEF Client!Complete, Client!Pieces
  <2>3. PICK i \in 1..Len(got) : got[i][1] = <<"call", "trailing_metadata">>
    BY <2>1, <2>2 DEF C!ClosureInv, C!Paired, C!Recvs, C!Frames
  <2>4. /\ i \in 1..Len(answer) /\ got[i] = <<reg[i], answer[i]>>
        /\ i <= 3 => reg[i][2] = Unary[i]
    BY <1>1, <2>1, ClientPairs DEF BothInv
  <2>5. reg[i][2] = "trailing_metadata"
    BY <2>3, <2>4
  <2>6. i = 1 \/ i = 2 \/ i >= 3
    BY <2>1
  <2>7. i >= 3
    BY <2>4, <2>5, <2>6 DEF Unary
  <2> QED
    BY <2>1, <2>4, <2>7
<1>2. ASSUME BothInv, Server!Complete("recvTrailing") PROVE Len(request) >= 3
  <2>1. /\ S!ClosureInv /\ S!TypeInv /\ s_got \in Seq(S!Recvs \X S!Frames)
        /\ request \in Seq(Frames)
    BY <1>2 DEF BothInv, ServerInv, S!StreamInv, S!TypeInv, S!TypeOK, S!QueuesOK, S!PeerOK
  <2>2. <<"recvTrailing", "trailing_metadata">> \in s_done
    <3>1. ServerBatch["recvTrailing"].recvs = <<"trailing_metadata">>
      BY ServerOps DEF Recvs
    <3>2. <<"recvTrailing", "trailing_metadata">> \in Server!Pieces("recvTrailing")
      BY <3>1 DEF Server!Pieces
    <3> QED
      BY <1>2, <3>2 DEF Server!Complete
  <2>3. PICK i \in 1..Len(s_got) : s_got[i][1] = <<"recvTrailing", "trailing_metadata">>
    <3>1. <<"recvTrailing", "trailing_metadata">> \in S!Recvs
      BY ServerOps DEF S!Recvs, S!Frames
    <3> QED
      BY <2>1, <2>2, <3>1 DEF S!ClosureInv, S!Paired
  <2>4. i \in 1..Len(request) /\ i \in 1..Len(s_reg) /\ s_got[i] = <<s_reg[i], request[i]>>
    BY <1>2, <2>1, ServerPairs DEF BothInv
  <2>5. i >= 3
    BY <1>2, <2>3, <2>4, ServerOrder DEF BothInv
  <2> QED
    BY <2>1, <2>4, <2>5
<1>3. BothInv => EndNeedsThreeFrames
  BY <1>1, <1>2 DEF EndNeedsThreeFrames
<1> QED
  BY <1>3, BothInit, BothNext, PTL DEF Spec

\* Whatever a receive of either side was given is the frame of its place in what the
\* other side has sent.
THEOREM EndToEndOrder == Spec => []FramesEndToEnd
<1>1. ASSUME BothInv PROVE FramesEndToEnd
  <2>1. answer \in Seq(Frames) /\ request \in Seq(Frames)
    BY <1>1 DEF BothInv, ClientInv, ServerInv, C!StreamInv, S!StreamInv, C!TypeInv,
       S!TypeInv, C!TypeOK, S!TypeOK, C!PeerOK, S!PeerOK
  <2>2. \A i \in DOMAIN got : i \in DOMAIN answer /\ got[i] = <<reg[i], answer[i]>>
    BY <1>1, <2>1, ClientPairs DEF BothInv
  <2>3. \A i \in DOMAIN s_got : i \in DOMAIN request /\ s_got[i] = <<s_reg[i], request[i]>>
    BY <1>1, <2>1, ServerPairs DEF BothInv
  <2> QED
    BY <2>2, <2>3 DEF FramesEndToEnd
<1> QED
  BY <1>1, BothInit, BothNext, PTL DEF Spec

--------------------------------------------------------------------------------
(******************************************************************************)
(* What holds of a stream by itself holds of both ends of a call.             *)
(******************************************************************************)

\* No step of one end disturbs the other: each end calls back only into a live stream,
\* the client's thread performs the call at most once, the server performs every batch
\* at most once, and the client strands the call only through the race for pending_op_.
THEOREM EndsKeepTheirPromises ==
  Spec => [](/\ Client!CallbackTargetLives /\ Server!CallbackTargetLives
             /\ Client!IssuerRunsOnce /\ Server!ServerPerformsOnce
             /\ Client!StrandedOnlyIfRaced)
<1>1. ASSUME BothInv
      PROVE  /\ Client!CallbackTargetLives /\ Client!IssuerRunsOnce
             /\ Client!StrandedOnlyIfRaced
  <2>1. C!TypeInv /\ C!OnceInv /\ C!StrandInv
    BY <1>1 DEF BothInv, ClientInv, C!StreamInv
  <2>2. Client!CallbackTargetLives
    BY <2>1 DEF C!TypeInv, C!TypeOK, C!LifeOK, C!ChannelOK, C!LifeInv,
       Client!CallbackTargetLives, C!Threads, Client!Threads
  <2>3. Client!IssuerRunsOnce
    BY <2>1 DEF C!OnceInv, C!AppRan, Client!IssuerRunsOnce
  <2>4. Client!StrandedOnlyIfRaced
    BY <2>1 DEF C!StrandInv, C!RerunInv, Client!StrandedOnlyIfRaced, Client!Stranded,
       C!Kept, C!At, Client!Threads, C!Threads
  <2> QED
    BY <2>2, <2>3, <2>4
<1>2. ASSUME BothInv
      PROVE  Server!CallbackTargetLives /\ Server!ServerPerformsOnce
  <2>1. S!TypeInv /\ S!ServerInv
    BY <1>2 DEF BothInv, ServerInv, S!StreamInv
  <2>2. Server!CallbackTargetLives
    BY <2>1 DEF S!TypeInv, S!TypeOK, S!LifeOK, S!ChannelOK, S!LifeInv,
       Server!CallbackTargetLives, S!Threads, Server!Threads
  <2>3. Server!ServerPerformsOnce
    BY <2>1 DEF S!ServerInv, S!ServerBatchInv, Server!ServerPerformsOnce
  <2> QED
    BY <2>2, <2>3
<1> QED
  BY <1>1, <1>2, BothInit, BothNext, PTL DEF Spec

\* A server strands no batch: when a thread of its core tests the channel, a frame has
\* come through it already.
THEOREM ServerStrandsNothing == Spec => []ServerNeverStrands
<1> DEFINE Inv == BothInv /\ S!FirstInv
<1>1. S!AcceptedCall
  <2>1. \A o, p \in DOMAIN ServerBatch : ServerRequires[o] = {} /\ ServerRequires[p] = {} => o = p
    BY DEF ServerRequires
  <2>2. \A o \in DOMAIN ServerBatch : \A p \in ServerRequires[o] : ServerBatch[p].recvs # <<>>
    BY ServerOps DEF ServerRequires, Recvs
  <2> QED
    BY <2>1, <2>2 DEF S!AcceptedCall
<1>2. Init => Inv
  BY BothInit, SameInit, ServerConstants, FaultsAssumption, S!FirstInit
<1>3. ASSUME Inv, [Next]_vars PROVE S!FirstInv'
  <2>1. CASE S!Next
    BY <1>1, <1>3, <2>1, ServerConstants, FaultsAssumption, S!FirstNext DEF BothInv, ServerInv
  <2>2. CASE UNCHANGED serverVars
    BY <1>3, <2>2 DEF serverVars, S!FirstInv
  <2> QED
    BY <1>3, <2>1, <2>2, SameServer DEF Next, ClientStep, ServerStep, vars
<1>4. Inv => ServerNeverStrands
  <2>1. Inv => ~S!Stranded
    BY ServerConstants, FaultsAssumption, S!FirstSafe DEF BothInv, ServerInv
  <2> QED
    BY <2>1 DEF ServerNeverStrands, Server!Stranded, S!Stranded, Server!Threads, S!Threads
<1>5. Inv /\ [Next]_vars => Inv'
  BY <1>3, BothNext
<1> QED
  BY <1>2, <1>4, <1>5, PTL DEF Spec

\* Both ends of a call implement RecvPairing, each being fed by what the other one sends.
THEOREM BothEndsPair ==
  Spec => Client!ImplementsRecvPairing /\ Server!ImplementsRecvPairing
<1>1. Init => Client!Pairing!Init /\ Server!Pairing!Init
  BY DEF Init, Client!Init, Server!Init, Client!Pairing!Init, Server!Pairing!Init
<1>2. ASSUME BothInv, BothInv', [Next]_vars
      PROVE  [Client!Pairing!Next]_<<reg, rcvd, got>>
  <2>1. CASE C!Next
    <3>1. [C!Pairing!Next]_<<reg, rcvd, got>>
      BY <1>2, <2>1, ClientConstants, FaultsAssumption, C!PairingStep
         DEF BothInv, ClientInv, C!StreamInv
    <3> QED
      BY <3>1 DEF C!Pairing!Next, C!Pairing!Register, C!Pairing!Arrive, C!Pairing!Pairs,
         Client!Pairing!Next, Client!Pairing!Register, Client!Pairing!Arrive,
         Client!Pairing!Pairs, C!Recvs, Client!Recvs, C!Frames, Client!Frames
  <2>2. CASE UNCHANGED clientVars
    BY <2>2 DEF clientVars
  <2> QED
    BY <1>2, <2>1, <2>2, SameClient DEF Next, ClientStep, ServerStep, vars
<1>3. ASSUME BothInv, BothInv', [Next]_vars
      PROVE  [Server!Pairing!Next]_<<s_reg, s_rcvd, s_got>>
  <2>1. CASE S!Next
    <3>1. [S!Pairing!Next]_<<s_reg, s_rcvd, s_got>>
      BY <1>3, <2>1, ServerConstants, FaultsAssumption, S!PairingStep
         DEF BothInv, ServerInv, S!StreamInv
    <3> QED
      BY <3>1 DEF S!Pairing!Next, S!Pairing!Register, S!Pairing!Arrive, S!Pairing!Pairs,
         Server!Pairing!Next, Server!Pairing!Register, Server!Pairing!Arrive,
         Server!Pairing!Pairs, S!Recvs, Server!Recvs, S!Frames, Server!Frames
  <2>2. CASE UNCHANGED serverVars
    BY <2>2 DEF serverVars
  <2> QED
    BY <1>3, <2>1, <2>2, SameServer DEF Next, ClientStep, ServerStep, vars
<1> QED
  BY <1>1, <1>2, <1>3, BothInit, BothNext, PTL
     DEF Spec, Client!ImplementsRecvPairing, Server!ImplementsRecvPairing,
         Client!Pairing!Spec, Server!Pairing!Spec
================================================================================
