------------------------------ MODULE AyameStream ------------------------------
(******************************************************************************)
(* One AyameStream (ayame_transport.h): the gRPC stream that carries a call   *)
(* over a WebRTC data channel.  Three threads enter its code without a common *)
(* lock:                                                                      *)
(*   "app"  the gRPC thread that holds the call combiner: it constructs a     *)
(*          client stream and issues its operation batches one at a time;     *)
(*   "ioc"  the io_context thread, which runs AyameTransport::OnReady;        *)
(*   "sig"  WebRTC's signaling thread, which runs the data channel callbacks. *)
(* PerformOp is cut at every access to state another thread writes (dc_,      *)
(* ready_, pending_op_) and at every call that WebRTC proxies to the          *)
(* signaling thread (CreateDataChannel, state, Send): such a call waits until *)
(* that thread is between two callbacks.  OnMessage and WaitForRecv hold      *)
(* mutex_ from their first access to their last, so each is one step.         *)
(******************************************************************************)
EXTENDS Naturals, Sequences

CONSTANTS
    Ops,        \* the batches gRPC core may issue on this stream
    Batch,      \* Batch[o]: the sends, the receives and the cancel flag of o
    Requires,   \* Requires[o]: batches that complete before core issues o
    Replies,    \* the frame sequences the peer may send on a channel
    ReplyAfter, \* frames the peer must have got before it sends its first one
    IsClient,   \* is the stream constructed by a client call?
    Faults,     \* "close": the channel may close; "pull": a message source may
                \* fail; "exit": the io_context may run out of work
    Null

Frames == {"initial_metadata", "message", "trailing_metadata"}

Threads == {"app", "ioc", "sig"}

Batches == [sends : Seq(Frames), recvs : Seq(Frames), cancel : BOOLEAN]

Recvs == Ops \X Frames

ASSUME ConstantsAssumption ==
    /\ Batch \in [Ops -> Batches]
    /\ Requires \in [Ops -> SUBSET Ops]
    /\ Replies \subseteq Seq(Frames)
    /\ ReplyAfter \in Nat
    /\ IsClient \in BOOLEAN
    /\ Faults \subseteq {"close", "pull", "exit"}
    /\ Null \notin Ops

\* Core sends a cancel in a batch of its own.
ASSUME CancelAssumption == \A o \in Ops : Batch[o].cancel => Batch[o].sends = <<>>

\* A batch has one flag for each kind of receive, so none of a kind comes twice.
ASSUME RecvsAssumption ==
    \A o \in Ops : \A i, j \in 1..Len(Batch[o].recvs) :
        Batch[o].recvs[i] = Batch[o].recvs[j] => i = j

VARIABLES
    pc,           \* where each thread is in the stream's code
    op,           \* the op argument of the PerformOp each thread runs
    todo,         \* the frames that PerformOp has still to send or to wait for
    ready_,       \* AyameSignaling::ready_
    waited,       \* is the stream's lambda in AyameTransport::ready_waited_?
    dc,           \* dc_: "none" (nullptr) or the state of its data channel
    cb,           \* has InitDataChannel set the callbacks of dc_?
    pending_op_,
    data_queue_, func_queue_,
    execq,        \* the closures waiting in the ExecCtx of each thread
    done,         \* the closures that have run
    refs,         \* the stream's reference count
    held,         \* does the call still hold its reference?
    life,         \* "none", "live" or "dead": the stream object
    reply, arrived, sent, \* the peer's frames, how many came, what it was sent
    \* what happened so far
    issued, dropped, ran, reg, rcvd, got, raced

threadVars == <<pc, op, todo>>
channelVars == <<ready_, waited, dc, cb>>
queueVars == <<data_queue_, func_queue_, reg, rcvd, got>>
closureVars == <<execq, done>>
lifeVars == <<refs, held, life>>
peerVars == <<arrived, sent>>
batchVars == <<pending_op_, issued, dropped, ran, raced>>
vars == <<threadVars, channelVars, queueVars, closureVars, lifeVars, peerVars,
          batchVars, reply>>

Labels == {"idle", "ctor", "addready", "ctorinit", "perform", "create", "init",
           "check", "pend", "run", "send", "recv", "ret", "changed", "onready",
           "ended", "terminated"}

Closures == Ops \X (Frames \cup {"on_complete"})

ThreadsOK ==
    /\ pc \in [Threads -> Labels]
    /\ op \in [Threads -> Ops \cup {Null}]
    /\ todo \in [Threads -> Seq(Frames)]
ChannelOK ==
    /\ ready_ \in BOOLEAN /\ waited \in BOOLEAN /\ cb \in BOOLEAN
    /\ dc \in {"none", "connecting", "open", "closed"}
QueuesOK ==
    /\ data_queue_ \in Seq(Frames) /\ func_queue_ \in Seq(Recvs)
    /\ reg \in Seq(Recvs) /\ rcvd \in Seq(Frames) /\ got \in Seq(Recvs \X Frames)
ClosuresOK == execq \in [Threads -> SUBSET Closures] /\ done \in SUBSET Closures
LifeOK == refs \in 0..2 /\ held \in BOOLEAN /\ life \in {"none", "live", "dead"}
PeerOK == reply \in Replies /\ arrived \in Nat /\ sent \in Seq(Frames)
BatchesOK ==
    /\ pending_op_ \in Ops \cup {Null}
    /\ issued \in SUBSET Ops /\ dropped \in SUBSET Ops
    /\ ran \in [Ops -> Seq(Threads)]
    /\ raced \in BOOLEAN

TypeOK ==
    /\ ThreadsOK /\ ChannelOK /\ QueuesOK /\ ClosuresOK /\ LifeOK /\ PeerOK
    /\ BatchesOK

Init ==
    /\ pc = [t \in Threads |-> "idle"]
    /\ op = [t \in Threads |-> Null]
    /\ todo = [t \in Threads |-> <<>>]
    /\ ready_ = FALSE
    /\ waited = FALSE
    /\ dc = "none"
    /\ cb = FALSE
    /\ pending_op_ = Null
    /\ data_queue_ = <<>> /\ func_queue_ = <<>>
    /\ execq = [t \in Threads |-> {}]
    /\ done = {}
    /\ refs = 0 /\ held = FALSE /\ life = "none"
    /\ reply \in Replies /\ arrived = 0 /\ sent = <<>>
    /\ issued = {} /\ dropped = {} /\ ran = [o \in Ops |-> <<>>] /\ raced = FALSE
    /\ reg = <<>> /\ rcvd = <<>> /\ got = <<>>

--------------------------------------------------------------------------------
Goto(t, label) == pc' = [pc EXCEPT ![t] = label]

\* A call WebRTC proxies to the signaling thread runs when that thread is idle,
\* or at once when the caller is that thread.
SigFree(t) == t = "sig" \/ pc["sig"] = "idle"

\* The closures gRPC core expects a batch to run.
Pieces(o) ==
    {<<o, Batch[o].recvs[i]>> : i \in DOMAIN Batch[o].recvs}
        \cup IF Batch[o].sends # <<>> \/ Batch[o].cancel
             THEN {<<o, "on_complete">>} ELSE {}

Complete(o) == Pieces(o) \subseteq done

(******************************************************************************)
(* Construction.                                                              *)
(******************************************************************************)

\* Mutants: the reference "AyameStream::ctor" is not taken, or is taken twice.
MutNoCtorRef == 1
MutTwoCtorRefs == 3

\* init_stream: the count holds the call's reference and "AyameStream::ctor".
StreamRefs == 2

\* init_stream of a client call.
InitStream ==
    /\ IsClient /\ life = "none" /\ pc["app"] = "idle"
    /\ life' = "live" /\ refs' = StreamRefs /\ held' = TRUE
    /\ Goto("app", "ctor")
    /\ UNCHANGED <<op, todo, channelVars, queueVars, closureVars, peerVars,
                   batchVars, reply>>

\* AyameSignaling::CreateDataChannel, called by the constructor and by
\* PerformOp: nullptr until ready_, else a new channel with this stream as its
\* observer and no callback set yet.  A channel dc_ held before is destroyed.
CreateDataChannel(t) ==
    /\ pc[t] \in {"ctor", "create"}
    /\ \/ /\ ~ready_
          /\ Goto(t, IF pc[t] = "ctor" THEN "addready" ELSE "check")
          /\ UNCHANGED <<dc, cb, peerVars>>
       \/ /\ ready_ /\ SigFree(t)
          /\ dc' = "connecting" /\ cb' = FALSE /\ sent' = <<>> /\ arrived' = 0
          /\ Goto(t, IF pc[t] = "ctor" THEN "ctorinit" ELSE "init")
    /\ UNCHANGED <<op, todo, ready_, waited, queueVars, closureVars, lifeVars,
                   batchVars, reply>>

AddOnReady ==
    /\ pc["app"] = "addready"
    /\ waited' = TRUE
    /\ Goto("app", "idle")
    /\ UNCHANGED <<op, todo, ready_, dc, cb, queueVars, closureVars, lifeVars,
                   peerVars, batchVars, reply>>

InitDataChannel(t) ==
    /\ pc[t] \in {"ctorinit", "init"}
    /\ cb' = TRUE
    /\ Goto(t, IF pc[t] = "ctorinit" THEN "idle" ELSE "check")
    /\ UNCHANGED <<op, todo, ready_, waited, dc, queueVars, closureVars,
                   lifeVars, peerVars, batchVars, reply>>

\* AyameTransport::OnDataChannel of a server, with the accept callback of gRPC
\* core: the stream is constructed around the channel the peer opened, and the
\* ExecCtx of OnDataChannel issues the first batch of the call, all of it on the
\* signaling thread.
OnDataChannel(o) ==
    /\ ~IsClient /\ life = "none" /\ pc["sig"] = "idle"
    /\ Requires[o] = {} /\ ~Batch[o].cancel
    /\ life' = "live" /\ refs' = StreamRefs /\ held' = TRUE
    /\ dc' \in {"connecting", "open"} /\ cb' = TRUE
    /\ issued' = issued \cup {o}
    /\ op' = [op EXCEPT !["sig"] = o]
    /\ Goto("sig", "perform")
    /\ UNCHANGED <<todo, ready_, waited, queueVars, closureVars, peerVars,
                   pending_op_, dropped, ran, raced, reply>>

(******************************************************************************)
(* PerformOp(op), on whichever thread calls it.                               *)
(******************************************************************************)

\* perform_stream_op: core issues a batch when those it depends on are complete.
PerformStreamOp(o) ==
    /\ held /\ pc["app"] = "idle"
    /\ o \notin issued
    /\ \A p \in Requires[o] : p \in issued /\ Complete(p)
    /\ issued' = issued \cup {o}
    /\ op' = [op EXCEPT !["app"] = o]
    /\ Goto("app", "perform")
    /\ UNCHANGED <<todo, channelVars, queueVars, closureVars, lifeVars, peerVars,
                   pending_op_, dropped, ran, raced, reply>>

\* The test of dc_ against nullptr.
PerformOp(t) ==
    /\ pc[t] = "perform"
    /\ Goto(t, IF dc = "none" THEN "create" ELSE "check")
    /\ UNCHANGED <<op, todo, channelVars, queueVars, closureVars, lifeVars,
                   peerVars, batchVars, reply>>

\* The test that the channel is there and open.
CheckOpen(t) ==
    /\ pc[t] = "check"
    /\ dc = "none" \/ SigFree(t)
    /\ Goto(t, IF dc = "open" THEN "run" ELSE "pend")
    /\ UNCHANGED <<op, todo, channelVars, queueVars, closureVars, lifeVars,
                   peerVars, batchVars, reply>>

\* Mutant: no return after the batch is kept.
MutNoReturn == "run"

\* Where PerformOp goes on after keeping the batch.
AfterPend == "ret"

\* Not open: keep the batch for later, unless another one is kept already.
PendOp(t) ==
    /\ pc[t] = "pend"
    /\ \/ /\ pending_op_ \in {Null, op[t]}
          /\ pending_op_' = op[t]
          /\ UNCHANGED dropped
       \/ /\ pending_op_ \notin {Null, op[t]}
          /\ dropped' = dropped \cup {op[t]}
          /\ UNCHANGED pending_op_
    /\ Goto(t, AfterPend)
    /\ UNCHANGED <<op, todo, channelVars, queueVars, closureVars, lifeVars,
                   peerVars, issued, ran, raced, reply>>

\* Open: from here on the batch is performed.
RunOp(t) ==
    /\ pc[t] = "run"
    /\ pending_op_' = Null
    /\ ran' = [ran EXCEPT ![op[t]] = Append(@, t)]
    /\ todo' = [todo EXCEPT ![t] = Batch[op[t]].sends]
    /\ Goto(t, "send")
    /\ UNCHANGED <<op, channelVars, queueVars, closureVars, lifeVars, peerVars,
                   issued, dropped, raced, reply>>

\* One dc_->Send: a metadata batch or one slice of the message.  The result is
\* ignored, so a frame sent on a closed channel is lost.
SendFrame(t) ==
    /\ pc[t] = "send" /\ todo[t] # <<>> /\ SigFree(t)
    /\ sent' = IF dc = "open" THEN Append(sent, Head(todo[t])) ELSE sent
    /\ todo' = [todo EXCEPT ![t] = Tail(@)]
    /\ UNCHANGED <<pc, op, channelVars, queueVars, closureVars, lifeVars,
                   arrived, batchVars, reply>>

\* message->Pull fails: the loop over the slices breaks off, the rest of the
\* message is not sent, and the error stays in the loop's own variable.
PullFails(t) ==
    /\ "pull" \in Faults /\ pc[t] = "send" /\ todo[t] # <<>> /\ Head(todo[t]) = "message"
    /\ \E k \in 1..Len(todo[t]) :
          /\ \A i \in 1..k : todo[t][i] = "message"
          /\ k = Len(todo[t]) \/ todo[t][k + 1] # "message"
          /\ todo' = [todo EXCEPT ![t] = SubSeq(@, k + 1, Len(@))]
    /\ UNCHANGED <<pc, op, channelVars, queueVars, closureVars, lifeVars,
                   peerVars, batchVars, reply>>

\* Mutant: on_complete is scheduled for every batch.
MutAlwaysCompletes(o) == TRUE

\* on_complete is scheduled if the batch has anything to send; a cancel has not.
SchedulesOnComplete(o) == Batch[o].sends # <<>>

SendsDone(t) ==
    /\ pc[t] = "send" /\ todo[t] = <<>>
    /\ execq' = IF SchedulesOnComplete(op[t])
                THEN [execq EXCEPT ![t] = @ \cup {<<op[t], "on_complete">>}] ELSE execq
    /\ todo' = [todo EXCEPT ![t] = Batch[op[t]].recvs]
    /\ Goto(t, "recv")
    /\ UNCHANGED <<op, channelVars, queueVars, done, lifeVars, peerVars,
                   batchVars, reply>>

\* The lambda of a receive r applied to a frame f on thread t, which then goes
\* to next.  A metadata receive parses the frame as JSON; the bytes of a message
\* need not be any, and the exception that leaves the lambda ends the process.
Receive(t, r, f, next) ==
    /\ got' = Append(got, <<r, f>>)
    /\ \/ execq' = [execq EXCEPT ![t] = @ \cup {r}] /\ Goto(t, next)
       \/ /\ r[2] # "message" /\ f = "message"
          /\ pc' = [u \in Threads |-> "terminated"]
          /\ UNCHANGED execq

\* Mutant: what has to wait goes in front of what does already.
MutInFront(q, x) == <<x>> \o q

\* push_back of either queue.
Enqueue(q, x) == Append(q, x)

\* Mutant: pop_front is forgotten.
MutNoPop(q) == q

\* pop_front of data_queue_.
Popped(q) == Tail(q)

\* WaitForRecv: the oldest frame that waits, or else wait behind the receives
\* that do.
WaitForRecv(t) ==
    /\ pc[t] = "recv" /\ todo[t] # <<>>
    /\ LET r == <<op[t], Head(todo[t])>>
       IN  /\ reg' = Append(reg, r)
           /\ \/ /\ data_queue_ # <<>>
                 /\ data_queue_' = Popped(data_queue_)
                 /\ Receive(t, r, Head(data_queue_), "recv")
                 /\ UNCHANGED func_queue_
              \/ /\ data_queue_ = <<>>
                 /\ func_queue_' = Enqueue(func_queue_, r)
                 /\ UNCHANGED <<pc, data_queue_, got, execq>>
    /\ todo' = [todo EXCEPT ![t] = Tail(@)]
    /\ UNCHANGED <<op, channelVars, rcvd, done, lifeVars, peerVars,
                   batchVars, reply>>

RecvsDone(t) ==
    /\ pc[t] = "recv" /\ todo[t] = <<>>
    /\ Goto(t, "ret")
    /\ UNCHANGED <<op, todo, channelVars, queueVars, closureVars, lifeVars,
                   peerVars, batchVars, reply>>

\* PerformOp or a data channel callback returns to a scope that destroys its
\* ExecCtx: the closures scheduled in it run.
FlushExecCtx(t) ==
    /\ t # "ioc" /\ pc[t] = "ret"
    /\ done' = done \cup execq[t]
    /\ execq' = [execq EXCEPT ![t] = {}]
    /\ op' = [op EXCEPT ![t] = Null]
    /\ Goto(t, "idle")
    /\ UNCHANGED <<todo, channelVars, queueVars, lifeVars, peerVars, batchVars, reply>>

(******************************************************************************)
(* The io_context thread.  Its ExecCtx is the one of AyameTransport::Start,   *)
(* which lives until ioc_.run() returns: what is scheduled here waits.        *)
(******************************************************************************)

\* A candidate was applied: ready_ is set, then the listener is called.
BecomeReady ==
    /\ pc["ioc"] = "idle" /\ ~ready_
    /\ ready_' = TRUE
    /\ Goto("ioc", "onready")
    /\ UNCHANGED <<op, todo, waited, dc, cb, queueVars, closureVars, lifeVars,
                   peerVars, batchVars, reply>>

\* Thread u has found the channel unusable and has not yet stored its batch: a
\* callback that tests pending_op_ now does not see it.
InWindow(u) == pc[u] = "pend" \/ (pc[u] = "check" /\ dc = "none")

\* Mutant: the lambda given to AddOnReady does not look at pending_op_.
MutNoRerun == FALSE

\* The stream's lambda is in ready_waited_ and finds a batch to rerun.
RerunsOnReady == waited /\ pending_op_ # Null

OnReady ==
    /\ pc["ioc"] = "onready"
    /\ \/ /\ RerunsOnReady
          /\ op' = [op EXCEPT !["ioc"] = pending_op_]
          /\ Goto("ioc", "perform")
       \/ /\ ~RerunsOnReady
          /\ Goto("ioc", "ret")
          /\ UNCHANGED op
    /\ raced' = (raced \/ (dc = "none" /\ InWindow("app")))
    /\ UNCHANGED <<todo, channelVars, queueVars, closureVars, lifeVars, peerVars,
                   pending_op_, issued, dropped, ran, reply>>

ClearReadyWaited ==
    /\ pc["ioc"] = "ret"
    /\ waited' = FALSE
    /\ op' = [op EXCEPT !["ioc"] = Null]
    /\ Goto("ioc", "idle")
    /\ UNCHANGED <<todo, ready_, dc, cb, queueVars, closureVars, lifeVars,
                   peerVars, batchVars, reply>>

\* ioc_.run() returns when the websocket is gone: the thread ends, and with it
\* its ExecCtx.
IocEnds ==
    /\ "exit" \in Faults /\ pc["ioc"] = "idle"
    /\ done' = done \cup execq["ioc"]
    /\ execq' = [execq EXCEPT !["ioc"] = {}]
    /\ Goto("ioc", "ended")
    /\ UNCHANGED <<op, todo, channelVars, queueVars, lifeVars, peerVars, batchVars, reply>>

(******************************************************************************)
(* The signaling thread.                                                      *)
(******************************************************************************)

\* The channel changes state and its observer is told, on the same thread.
ChannelOpens ==
    /\ pc["sig"] = "idle" /\ dc = "connecting"
    /\ dc' = "open"
    /\ Goto("sig", IF cb THEN "changed" ELSE "idle")
    /\ raced' = (raced \/ InWindow("app") \/ InWindow("ioc"))
    /\ UNCHANGED <<op, todo, ready_, waited, cb, queueVars, closureVars,
                   lifeVars, peerVars, pending_op_, issued, dropped, ran, reply>>

ChannelCloses ==
    /\ "close" \in Faults /\ pc["sig"] = "idle" /\ dc \in {"connecting", "open"}
    /\ dc' = "closed"
    /\ Goto("sig", IF cb THEN "changed" ELSE "idle")
    /\ UNCHANGED <<op, todo, ready_, waited, cb, queueVars, closureVars,
                   lifeVars, peerVars, batchVars, reply>>

\* Mutant: the callback only logs the new state.
MutOnlyLog == FALSE

RerunsOnOpen == dc = "open" /\ pending_op_ # Null

OnStateChange ==
    /\ pc["sig"] = "changed"
    /\ \/ /\ RerunsOnOpen
          /\ op' = [op EXCEPT !["sig"] = pending_op_]
          /\ Goto("sig", "perform")
       \/ /\ ~RerunsOnOpen
          /\ Goto("sig", "idle")
          /\ UNCHANGED op
    /\ UNCHANGED <<todo, channelVars, queueVars, closureVars, lifeVars, peerVars,
                   batchVars, reply>>

\* Mutant: the frame is kept without a look at func_queue_.
MutAlwaysKeep == FALSE

SomeoneWaits == func_queue_ # <<>>

\* Mutant: a receive that was given its frame goes on waiting.
MutStillWaits(q) == q

\* pop_front of func_queue_.
Served(q) == Tail(q)

\* A frame of the peer: given to the oldest receive that waits, or else kept.
\* Before InitDataChannel there is no callback and the frame is lost.
OnMessage ==
    /\ pc["sig"] = "idle" /\ dc = "open"
    /\ Len(sent) >= ReplyAfter /\ arrived < Len(reply)
    /\ arrived' = arrived + 1
    /\ LET f == reply[arrived + 1]
       IN  IF ~cb THEN UNCHANGED <<pc, queueVars, execq>>
           ELSE /\ rcvd' = Append(rcvd, f)
                /\ UNCHANGED reg
                /\ \/ /\ SomeoneWaits
                      /\ func_queue_' = Served(func_queue_)
                      /\ Receive("sig", Head(func_queue_), f, "ret")
                      /\ UNCHANGED data_queue_
                   \/ /\ ~SomeoneWaits
                      /\ data_queue_' = Enqueue(data_queue_, f)
                      /\ Goto("sig", "idle")
                      /\ UNCHANGED <<func_queue_, got, execq>>
    /\ UNCHANGED <<op, todo, channelVars, done, lifeVars, sent, batchVars, reply>>

(******************************************************************************)
(* The end of the call: when all it issued is complete gRPC core drops its    *)
(* reference, and destroy_stream runs if that was the last one.               *)
(******************************************************************************)
ReleaseCall ==
    /\ held /\ pc["app"] = "idle"
    /\ \A o \in issued : Complete(o)
    /\ held' = FALSE
    /\ refs' = refs - 1
    /\ life' = IF refs' = 0 THEN "dead" ELSE life
    /\ UNCHANGED <<threadVars, channelVars, queueVars, closureVars, peerVars,
                   batchVars, reply>>

--------------------------------------------------------------------------------
PerformOpStep(t) ==
    \/ PerformOp(t) \/ CreateDataChannel(t) \/ InitDataChannel(t)
    \/ CheckOpen(t) \/ PendOp(t) \/ RunOp(t) \/ SendFrame(t) \/ PullFails(t)
    \/ SendsDone(t) \/ WaitForRecv(t) \/ RecvsDone(t) \/ FlushExecCtx(t)

Next ==
    \/ InitStream \/ AddOnReady \/ ReleaseCall
    \/ \E o \in Ops : OnDataChannel(o) \/ PerformStreamOp(o)
    \/ \E t \in Threads : PerformOpStep(t)
    \/ BecomeReady \/ OnReady \/ ClearReadyWaited \/ IocEnds
    \/ ChannelOpens \/ ChannelCloses \/ OnStateChange \/ OnMessage

Spec == Init /\ [][Next]_vars

\* Every thread that is inside the code goes on, and the transport below gets
\* its work done: signaling completes, a channel opens, frames arrive.
Fairness ==
    /\ WF_vars(AddOnReady \/ PerformOpStep("app"))
    /\ WF_vars(BecomeReady \/ OnReady \/ ClearReadyWaited \/ PerformOpStep("ioc"))
    /\ WF_vars(OnStateChange \/ PerformOpStep("sig"))
    /\ WF_vars(ChannelOpens)
    /\ WF_vars(OnMessage)

FairSpec == Spec /\ Fairness

--------------------------------------------------------------------------------
(******************************************************************************)
(* Properties.                                                                *)
(******************************************************************************)

\* q is what is left of s after its first n elements.
IsRest(q, s, n) ==
    /\ Len(q) = Len(s) - n
    /\ \A i \in 1..Len(q) : q[i] = s[n + i]

\* The i-th receive registered in WaitForRecv is given the i-th frame that
\* reached OnMessage, whichever of the two came first and on whichever threads;
\* what is in the two queues is what has no partner yet.
PairedInOrder ==
    /\ Len(got) <= Len(reg) /\ Len(got) <= Len(rcvd)
    /\ \A i \in 1..Len(got) : got[i] = <<reg[i], rcvd[i]>>
    /\ IsRest(data_queue_, rcvd, Len(got))
    /\ IsRest(func_queue_, reg, Len(got))
    /\ data_queue_ = <<>> \/ func_queue_ = <<>>

\* The queues implement the pairing that RecvPairing specifies: each WaitForRecv
\* and each OnMessage is one of its steps, and no other step of any thread
\* touches what has been registered, received or paired.
Pairing == INSTANCE RecvPairing
ImplementsRecvPairing == Pairing!Spec

\* The frames carry no tag: a receive finds out what kind of frame it got from
\* the order alone.  Against a peer whose reply is exactly initial metadata, one
\* message frame and trailing metadata, every receive gets a frame of its kind.
UnaryReply == <<"initial_metadata", "message", "trailing_metadata">>

KindsMatch ==
    reply = UnaryReply => \A i \in DOMAIN got : got[i][1][2] = got[i][2]

\* A batch performed by the thread that issued it is performed only once.  One
\* that was kept may be performed again by a callback that had already taken it
\* from pending_op_, or that finds it stored there a second time.
IssuerRunsOnce ==
    \A o \in Ops : \A i \in DOMAIN ran[o] : ran[o][i] = "app" => Len(ran[o]) = 1

\* A batch kept although the channel could have been used, with no thread left
\* that would rerun it.
Stranded ==
    /\ pending_op_ # Null /\ ran[pending_op_] = <<>>
    /\ \A t \in Threads : pc[t] \in {"idle", "ended"}
    /\ dc = "open" \/ (dc = "none" /\ ready_)

\* A batch is stranded only if the channel opened, or OnReady ran, while a thread
\* was between the test of the channel and the assignment of pending_op_ in
\* PerformOp.
StrandedOnlyIfRaced == Stranded => raced

\* As long as AyameTransport::ready_waited_ or the channel holds a callback of
\* the stream, or a thread performs a batch of it, the stream has not been
\* destroyed: the lambdas keep `this' and no reference of their own.
CallbackTargetLives ==
    (waited \/ cb \/ \E t \in Threads : op[t] # Null) => life = "live"

\* A cancelled call is never released: no branch of PerformOp completes a cancel,
\* so core waits for it for ever, whatever the call itself and its replies do.
CancelIsNeverReleased == (\E o \in issued : Batch[o].cancel) => held

\* A server performs each batch once, a kept one too: the ExecCtx of OnDataChannel
\* issues the first batch on the thread that runs the channel's callbacks, so none of
\* them takes from pending_op_ what PerformOp is about to perform.
ServerPerformsOnce == ~IsClient => \A o \in Ops : Len(ran[o]) <= 1

\* A server call whose channel closes under a receive that waits is never over: the
\* state callback of InitDataChannel looks for kOpen alone, the receive keeps waiting,
\* and core keeps the call.
LostCallHangs ==
    [][~IsClient /\ dc = "closed" /\ func_queue_ # <<>> =>
         dc' = "closed" /\ func_queue_' # <<>> /\ held']_vars

\* The one batch of a client call has all its closures run, or lost the race for
\* pending_op_, or was rerun by OnReady, whose ExecCtx keeps the closures.
CallSettles ==
    \A o \in Ops :
        (o \in issued) ~> (Complete(o) \/ (Stranded /\ raced) \/ execq["ioc"] # {})

\* The comment in PerformOp: a batch that finds the channel not initialised is
\* processed later.
PendedBatchRuns == \A o \in Ops : (pending_op_ = o) ~> (ran[o] # <<>>)

\* The same comment, for a batch that comes while another one is kept.
NoBatchDropped == dropped = {}
================================================================================
