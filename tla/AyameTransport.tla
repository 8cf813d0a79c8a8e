----------------------------- MODULE AyameTransport -----------------------------
(******************************************************************************)
(* The life of one AyameTransport (ayame_transport.h): its creation by the    *)
(* credentials of goa_client.cpp or goa_server.cpp, its reference count, the  *)
(* thread it starts, connectivity, the streams that wait for readiness, and   *)
(* the channels the other peer opens.  gRPC core (the channel, its calls, the *)
(* server's watcher and accept callback, the ConnectivityStateTracker) and    *)
(* WebRTC are modelled from how the code uses them.  What a single stream     *)
(* does with its channel is in AyameStream, how signaling gets ready in       *)
(* AyameSignaling.                                                            *)
(******************************************************************************)
EXTENDS Naturals, Sequences

CONSTANT Streams  \* the calls that may be made or accepted

VARIABLES
    is_client_,
    peer_is_client,    \* the room is hard coded: whom the peer finds there is chance
    transport,         \* "none", "live" or "dead": the object
    refs_, th_, accept_stream_cb_,
    state, watched,    \* state_tracker_: its state, is core's watcher registered?
    telling,           \* what a thread inside SetState has still to tell
    told,              \* what core's watcher was told, in order
    ioc,               \* the place of the transport's thread
    ready_, ready_waited_,
    rest,              \* the lambdas the loop of OnReady has still to call
    call, srefs,       \* each call: how far its stream is, the stream's count
    owned, coreref,    \* does core hold the channel; and the channel the transport?
    closing, consumed, \* is the channel given up; has core's on_consumed run?
    process,           \* "running", or what ended it
    added, called,     \* the streams that pushed a lambda; those whose lambda was called
    raced              \* those that pushed it beside another thread's use of the vector

coreVars == <<owned, coreref, closing, consumed>>
trackerVars == <<state, watched, telling, told>>
readyVars == <<ready_, ready_waited_, rest, added, called, raced>>
streamVars == <<call, srefs>>
objectVars == <<transport, refs_, th_, accept_stream_cb_>>
vars == <<is_client_, peer_is_client, objectVars, trackerVars, ioc, readyVars,
          streamVars, coreVars, process>>

States == {"CONNECTING", "READY", "SHUTDOWN"}

TypeOK ==
    /\ is_client_ \in BOOLEAN /\ peer_is_client \in BOOLEAN
    /\ transport \in {"none", "live", "dead"}
    /\ refs_ \in Nat /\ th_ \in BOOLEAN /\ accept_stream_cb_ \in {"wild", "set", "null"}
    /\ state \in States /\ watched \in BOOLEAN
    /\ telling \in [{"core", "ioc"} -> States \cup {"no"}] /\ told \in Seq(States)
    /\ ioc \in {"connecting", "open", "onready", "calling", "ended"}
    /\ ready_ \in BOOLEAN /\ ready_waited_ \in Seq(Streams) /\ rest \in Seq(Streams)
    /\ call \in [Streams -> {"none", "add", "built", "released", "destroyed"}]
    /\ srefs \in [Streams -> 0..2]
    /\ owned \in BOOLEAN /\ coreref \in BOOLEAN
    /\ closing \in BOOLEAN /\ consumed \in BOOLEAN
    /\ process \in {"running", "joinable", "wild", "null", "vector", "watchers"}
    /\ added \in SUBSET Streams /\ called \in SUBSET Streams /\ raced \in SUBSET Streams

Init ==
    /\ is_client_ \in BOOLEAN /\ peer_is_client \in BOOLEAN
    /\ transport = "none" /\ refs_ = 0 /\ th_ = FALSE /\ accept_stream_cb_ = "wild"
    /\ state = "CONNECTING" /\ watched = FALSE /\ told = <<>>
    /\ telling = [t \in {"core", "ioc"} |-> "no"]
    /\ ioc = "connecting"
    /\ ready_ = FALSE /\ ready_waited_ = <<>> /\ rest = <<>>
    /\ call = [s \in Streams |-> "none"] /\ srefs = [s \in Streams |-> 0]
    /\ owned = FALSE /\ coreref = FALSE /\ closing = FALSE /\ consumed = FALSE
    /\ process = "running"
    /\ added = {} /\ called = {} /\ raced = {}

--------------------------------------------------------------------------------
Runs == process = "running"
Thread == Runs /\ th_ /\ telling["ioc"] = "no"

(******************************************************************************)
(* ConnectivityStateTracker::SetState: the state is stored, then the watchers *)
(* are told.  Nothing keeps two threads from being inside it.                 *)
(******************************************************************************)
SetState(t, new) ==
    IF state = new THEN UNCHANGED <<state, telling>>
    ELSE state' = new /\ telling' = [telling EXCEPT ![t] = new]

\* At SHUTDOWN the watchers are dropped.  A map that is cleared under another
\* thread's loop may end the process.
Notify(t) ==
    /\ Runs /\ telling[t] # "no"
    /\ told' = IF watched THEN Append(told, telling[t]) ELSE told
    /\ watched' = (watched /\ telling[t] # "SHUTDOWN")
    /\ telling' = [telling EXCEPT ![t] = "no"]
    /\ \/ UNCHANGED process
       \/ (\A u \in {"core", "ioc"} : telling[u] # "no") /\ process' = "watchers"
    /\ UNCHANGED <<is_client_, peer_is_client, objectVars, state, ioc, readyVars,
                   streamVars, coreVars>>

(******************************************************************************)
(* PerformOp and the ops of core.                                             *)
(******************************************************************************)
NoOp == [start_watch |-> FALSE, stop_watch |-> FALSE, set_accept_stream |-> "no",
         on_consumed |-> FALSE, goaway |-> FALSE, disconnect |-> FALSE]

\* What core asks for: when a server gets its transport, when a client's channel or
\* a server is given up, and, once a server's watcher was told SHUTDOWN, a last op
\* that also takes the accept callback back.
SetupOp == [NoOp EXCEPT !.start_watch = TRUE, !.set_accept_stream = "set"]
CloseOp(client) ==
    IF client THEN [NoOp EXCEPT !.disconnect = TRUE] ELSE [NoOp EXCEPT !.goaway = TRUE]
LastOp == [NoOp EXCEPT !.on_consumed = TRUE, !.set_accept_stream = "null"]

\* Mutant: on_consumed is forgotten.
MutNotConsumed(op) == FALSE

RunsOnConsumed(op) == op.on_consumed

\* The watcher of a server starts from IDLE, so it is told the state at once.
PerformOp(op) ==
    /\ watched' = ((watched \/ op.start_watch) /\ ~op.stop_watch)
    /\ told' = IF op.start_watch THEN Append(told, state) ELSE told
    /\ accept_stream_cb_' = IF op.set_accept_stream = "no" THEN accept_stream_cb_
                            ELSE op.set_accept_stream
    /\ consumed' = (consumed \/ RunsOnConsumed(op))
    /\ IF op.goaway \/ op.disconnect THEN SetState("core", "SHUTDOWN")
       ELSE UNCHANGED <<state, telling>>

\* Mutant: the count starts at 0.
MutNoRef == 0

\* gpr_ref_init.
InitialRefs == 1

Create ==
    /\ transport = "none"
    /\ transport' = "live" /\ refs_' = InitialRefs
    /\ owned' = TRUE /\ coreref' = TRUE

\* The client's CreateChannelWithInterceptors: goa_create_ayame_channel makes the
\* transport and the channel and starts the thread.
CreateChannel ==
    /\ is_client_ /\ Create
    /\ th_' = TRUE
    /\ UNCHANGED <<is_client_, peer_is_client, accept_stream_cb_, trackerVars, ioc,
                   readyVars, streamVars, closing, consumed, process>>

\* The server's AddPortToServer: grpc_server_setup_transport makes the channel and
\* performs the op with the watcher and the accept callback.
AddPortToServer ==
    /\ ~is_client_ /\ Create
    /\ PerformOp(SetupOp)
    /\ UNCHANGED <<is_client_, peer_is_client, th_, ioc, readyVars, streamVars,
                   closing, process>>

StartListener ==
    /\ ~is_client_ /\ transport = "live" /\ ~th_ /\ ~closing
    /\ th_' = TRUE
    /\ UNCHANGED <<is_client_, peer_is_client, transport, refs_, accept_stream_cb_,
                   trackerVars, ioc, readyVars, streamVars, coreVars, process>>

\* The application gives up its channel, or the server is shut down.  The
\* server's DestroyListener does nothing.
CloseChannel ==
    /\ Runs /\ owned /\ ~closing
    /\ closing' = TRUE
    /\ PerformOp(CloseOp(is_client_))
    /\ UNCHANGED <<is_client_, peer_is_client, transport, refs_, th_, ioc, readyVars,
                   streamVars, owned, coreref, process>>

\* The server's watcher was told SHUTDOWN ...
DestroyServerChannel ==
    /\ Runs /\ ~is_client_ /\ owned
    /\ \E i \in DOMAIN told : told[i] = "SHUTDOWN"
    /\ ~consumed
    /\ PerformOp(LastOp)
    /\ UNCHANGED <<is_client_, peer_is_client, transport, refs_, th_, ioc, readyVars,
                   streamVars, owned, coreref, closing, process>>

\* ... and when that op is consumed the channel is given up; a client's is at once.
ReleaseChannel ==
    /\ Runs /\ owned /\ closing /\ telling["core"] = "no"
    /\ is_client_ \/ consumed
    /\ owned' = FALSE
    /\ UNCHANGED <<is_client_, peer_is_client, objectVars, trackerVars, ioc, readyVars,
                   streamVars, coreref, closing, consumed, process>>

\* A call holds the channel until its stream is destroyed.
ChannelUsed == owned \/ \E s \in Streams : call[s] \notin {"none", "destroyed"}

\* Unref: the last one destroys the transport.  Nobody joins th_ or stops ioc_, and
\* destroying a joinable std::thread ends the process.
Unref ==
    /\ refs_' = refs_ - 1
    /\ transport' = IF refs_' = 0 THEN "dead" ELSE transport
    /\ process' = IF refs_' = 0 /\ th_ THEN "joinable" ELSE process

DestroyTransport ==
    /\ Runs /\ coreref /\ ~ChannelUsed
    /\ coreref' = FALSE
    /\ Unref
    /\ UNCHANGED <<is_client_, peer_is_client, th_, accept_stream_cb_, trackerVars, ioc,
                   readyVars, streamVars, owned, closing, consumed>>

(******************************************************************************)
(* Streams: each holds the transport, and two references hold each.           *)
(******************************************************************************)

\* Mutant: the reference "AyameStream::ctor" is not taken.
MutNoCtorRef == 1

StreamRefs == 2

Construct(s, place) ==
    /\ call[s] = "none"
    /\ call' = [call EXCEPT ![s] = place]
    /\ srefs' = [srefs EXCEPT ![s] = StreamRefs]
    /\ refs_' = refs_ + 1

\* A client's constructor, to the test of ready_ in CreateDataChannel.
InitStream(s) ==
    /\ Runs /\ is_client_ /\ owned /\ ~closing
    /\ Construct(s, IF ready_ THEN "built" ELSE "add")
    /\ UNCHANGED <<is_client_, peer_is_client, transport, th_, accept_stream_cb_,
                   trackerVars, ioc, readyVars, coreVars, process>>

\* Nothing guards ready_waited_: push_back beside the loop of OnReady may end the
\* process, and of two beside each other one may be lost.
AddOnReady(s) ==
    /\ Runs /\ call[s] = "add"
    /\ call' = [call EXCEPT ![s] = "built"]
    /\ added' = added \cup {s}
    /\ LET others == {t \in Streams \ {s} : call[t] = "add"}
       IN  /\ \/ ready_waited_' = Append(ready_waited_, s) /\ UNCHANGED process
              \/ others # {} /\ UNCHANGED <<ready_waited_, process>>
              \/ /\ others # {} \/ ioc = "calling"
                 /\ process' = "vector" /\ UNCHANGED ready_waited_
           /\ raced' = raced \cup others
                   \cup (IF others # {} \/ (ready_ /\ ioc # "onready") THEN {s} ELSE {})
    /\ UNCHANGED <<is_client_, peer_is_client, objectVars, trackerVars, ioc, ready_,
                   rest, called, srefs, coreVars>>

\* The call is over.  Its reference was not the last one.
ReleaseCall(s) ==
    /\ Runs /\ call[s] = "built"
    /\ srefs' = [srefs EXCEPT ![s] = @ - 1]
    /\ IF srefs'[s] = 0 THEN call' = [call EXCEPT ![s] = "destroyed"] /\ Unref
       ELSE /\ call' = [call EXCEPT ![s] = "released"]
            /\ UNCHANGED <<refs_, transport, process>>
    /\ UNCHANGED <<is_client_, peer_is_client, th_, accept_stream_cb_, trackerVars, ioc,
                   readyVars, coreVars>>

(******************************************************************************)
(* The listener's callbacks.                                                  *)
(******************************************************************************)
OnConnect ==
    /\ Thread /\ ioc = "connecting"
    /\ ioc' = "open"
    /\ SetState("ioc", "READY")
    /\ UNCHANGED <<is_client_, peer_is_client, objectVars, watched, told, readyVars,
                   streamVars, coreVars, process>>

\* Mutant: READY once signaling is complete, as the comment in Start says.
MutReadyAtReady == "READY"

\* OnReady leaves state_tracker_ alone.
StateAtReady == state

\* AyameSignaling sets ready_ and calls OnReady.
BecomeReady ==
    /\ Thread /\ ioc = "open" /\ ~ready_
    /\ ready_' = TRUE /\ ioc' = "onready"
    /\ state' = StateAtReady
    /\ UNCHANGED <<is_client_, peer_is_client, objectVars, watched, telling, told,
                   ready_waited_, rest, added, called, raced, streamVars, coreVars, process>>

\* Mutant: the loop begins at the second lambda.
MutSkipFirst == IF ready_waited_ = <<>> THEN <<>> ELSE Tail(ready_waited_)

\* The range of the loop is taken when it begins.
LoopRange == ready_waited_

OnReady ==
    /\ Thread /\ ioc = "onready"
    /\ rest' = LoopRange
    /\ ioc' = "calling"
    /\ UNCHANGED <<is_client_, peer_is_client, objectVars, trackerVars, ready_,
                   ready_waited_, added, called, raced, streamVars, coreVars, process>>

CallWaiter ==
    /\ Thread /\ ioc = "calling" /\ rest # <<>>
    /\ called' = called \cup {Head(rest)}
    /\ rest' = Tail(rest)
    /\ UNCHANGED <<is_client_, peer_is_client, objectVars, trackerVars, ioc, ready_,
                   ready_waited_, added, raced, streamVars, coreVars, process>>

ClearWaited ==
    /\ Thread /\ ioc = "calling" /\ rest = <<>>
    /\ ready_waited_' = <<>> /\ ioc' = "open"
    /\ UNCHANGED <<is_client_, peer_is_client, objectVars, trackerVars, ready_, rest,
                   added, called, raced, streamVars, coreVars, process>>

\* Connect failed, or the websocket is gone: ioc_.run() returns.
IocEnds ==
    /\ Thread /\ ioc \in {"connecting", "open"}
    /\ ioc' = "ended"
    /\ UNCHANGED <<is_client_, peer_is_client, objectVars, trackerVars, readyVars,
                   streamVars, coreVars, process>>

\* Mutant: the label is not looked at.
MutAnyLabel(label) == FALSE

IsInit(label) == label = "init"

\* AyameSignaling::OnDataChannel, on WebRTC's signaling thread: the channel of the
\* offer is kept, any other goes to AyameTransport::OnDataChannel.  A peer that
\* offers opens "init"; a client opens channels for its calls.
OnDataChannel(label) ==
    /\ Runs /\ th_ /\ ioc # "connecting"
    /\ label = "ayame_transport" => peer_is_client
    /\ IF IsInit(label) THEN UNCHANGED <<refs_, streamVars, process>>
       ELSE \/ accept_stream_cb_ = "set" /\ \E s \in Streams : Construct(s, "built")
                                         /\ UNCHANGED process
            \/ /\ accept_stream_cb_ # "set" /\ process' = accept_stream_cb_
               /\ UNCHANGED <<refs_, streamVars>>
    /\ UNCHANGED <<is_client_, peer_is_client, transport, th_, accept_stream_cb_,
                   trackerVars, ioc, readyVars, coreVars>>

--------------------------------------------------------------------------------
IocStep ==
    OnConnect \/ BecomeReady \/ OnReady \/ CallWaiter \/ ClearWaited \/ Notify("ioc")
CoreStep ==
    Notify("core") \/ DestroyServerChannel \/ ReleaseChannel \/ DestroyTransport

Next ==
    \/ CreateChannel \/ AddPortToServer \/ StartListener \/ CloseChannel
    \/ CoreStep \/ IocStep \/ IocEnds
    \/ \E s \in Streams : InitStream(s) \/ AddOnReady(s) \/ ReleaseCall(s)
    \/ \E label \in {"init", "ayame_transport"} : OnDataChannel(label)

Spec == Init /\ [][Next]_vars

\* Core finishes what it has begun, and the thread goes on.
Fairness == WF_vars(CoreStep) /\ WF_vars(IocStep)

FairSpec == Spec /\ Fairness

--------------------------------------------------------------------------------
(******************************************************************************)
(* Properties.                                                                *)
(******************************************************************************)

\* The transport is destroyed, and with it its joinable thread (Unref), only if no
\* call was ever made or accepted on it: the reference that init_stream takes for
\* "AyameStream::ctor" is never given back, so every stream keeps its transport.
UsedTransportStays == transport = "dead" => \A s \in Streams : call[s] = "none"

\* AyameTransport::OnDataChannel calls a function pointer nobody set only where two
\* clients met in the hard-coded room, and a null one only on a server that is shut
\* down: the "init" channel of an offer never gets there.
AcceptIsSafe ==
    /\ process = "wild" => is_client_ /\ peer_is_client
    /\ process = "null" => ~is_client_ /\ closing

\* A channel that was shut down once its transport was connected is never READY
\* again: only OnConnect sets a state, so a SHUTDOWN is undone only when PerformOp
\* overtook the handshake.
ConnectedShutdownIsFinal ==
    [][state = "SHUTDOWN" /\ state' # "SHUTDOWN" => ioc = "connecting"]_vars

\* When the loop of OnReady is over, it has called the lambda of every stream that
\* had waited, but of those that pushed theirs beside the loop or beside each other:
\* clear() has dropped these.
WaitersCalled == ready_ /\ ioc \in {"open", "ended"} => added \ raced \subseteq called

\* A channel without a call that is given up goes: on a server through SHUTDOWN, its
\* watcher and on_consumed of PerformOp, on a client at once.  What is then reached is
\* the end of the transport, which on a started one is the end of the process.
CloseEnds ==
    closing ~> (transport = "dead" \/ process # "running"
                \/ \E s \in Streams : call[s] # "none")
================================================================================
