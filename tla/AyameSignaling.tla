----------------------------- MODULE AyameSignaling -----------------------------
(******************************************************************************)
(* AyameSignaling (ayame_signaling.cpp) on every peer of a room, with the     *)
(* Ayame server between them.  On each peer                                   *)
(*   the io_context thread connects, reads and handles one message at a time; *)
(*   WebRTC's signaling thread runs the lambdas and OnIceCandidate;           *)
(*   the threads of boost.asio's system pool run what SendText posted.        *)
(* The write_buffer_ is taken as the FIFO queue SignalingWriter shows it to   *)
(* be.  The Ayame server and WebRTC are modelled from how the code uses them. *)
(******************************************************************************)
EXTENDS Naturals, Sequences, FiniteSets

CONSTANTS
    Peers,
    Workers,      \* how many tasks the pool runs at the same time
    Candidates,   \* ICE candidates a peer gathers
    Pings,        \* pings the Ayame server sends in all
    Faults        \* may connections, parsers and WebRTC's operations fail?

ASSUME SignalingAssumption ==
    /\ Workers \in Nat \ {0}
    /\ Candidates \in Nat
    /\ Pings \in Nat
    /\ Faults \in BOOLEAN

Types == {"register", "pong", "accept", "reject", "offer", "answer", "candidate",
          "ping", "bye"}
Messages == [type : Types, isExistUser : BOOLEAN]

Msg(type) == [type |-> type, isExistUser |-> FALSE]

Stages == {"new", "resolving", "connecting", "sslhandshake", "handshaking", "open",
           "failed"}

\* connection_: nullptr, or where the peer connection is in the exchange of offer
\* and answer.
Connections == {"null", "fresh", "have_local_offer", "have_remote_offer", "stable"}

VARIABLES
    stage,        \* how far Connect has come
    reads,        \* async_reads outstanding
    closes,       \* calls of Close
    connection_, ready_,
    tasks,        \* lambdas waiting on the signaling thread, in order
    gather,       \* candidates WebRTC has still to report
    posted,       \* texts posted to the pool by SendText
    up, down,     \* texts on the websocket, to and from the Ayame server
    room,         \* the peers in the Ayame server's room
    pings,        \* pings still to come
    connectivity, \* what OnConnect told AyameTransport::state_tracker_
    crashed,      \* "no", or why the process is gone
    stopped,      \* why OnRead returned without DoRead and without Close
    overtook,     \* did the pool run a task before an older one?
    left          \* the peers that got a bye

ioVars == <<stage, reads, closes>>
rtcVars == <<connection_, ready_, tasks, gather>>
netVars == <<posted, up, down, room, pings>>
ghostVars == <<crashed, stopped, overtook, left>>
vars == <<ioVars, rtcVars, netVars, connectivity, ghostVars>>

TypeOK ==
    /\ stage \in [Peers -> Stages]
    /\ reads \in [Peers -> 0..1] /\ closes \in [Peers -> 0..1]
    /\ connection_ \in [Peers -> Connections]
    /\ ready_ \in [Peers -> BOOLEAN]
    /\ tasks \in [Peers -> Seq({"create_offer", "set_offer", "create_answer"})]
    /\ gather \in [Peers -> Nat]
    /\ posted \in [Peers -> Seq(Messages)]
    /\ up \in [Peers -> Seq(Messages)] /\ down \in [Peers -> Seq(Messages)]
    /\ room \in SUBSET Peers
    /\ pings \in Nat
    /\ connectivity \in [Peers -> {"CONNECTING", "READY"}]
    /\ crashed \in [Peers -> {"no", "null", "json"}]
    /\ stopped \in [Peers -> {"no", "parse", "candidate", "unknown"}]
    /\ overtook \in [Peers -> BOOLEAN]
    /\ left \in SUBSET Peers

Init ==
    /\ stage = [p \in Peers |-> "new"]
    /\ reads = [p \in Peers |-> 0] /\ closes = [p \in Peers |-> 0]
    /\ connection_ = [p \in Peers |-> "null"]
    /\ ready_ = [p \in Peers |-> FALSE]
    /\ tasks = [p \in Peers |-> <<>>]
    /\ gather = [p \in Peers |-> 0]
    /\ posted = [p \in Peers |-> <<>>]
    /\ up = [p \in Peers |-> <<>>] /\ down = [p \in Peers |-> <<>>]
    /\ room = {}
    /\ pings = Pings
    /\ connectivity = [p \in Peers |-> "CONNECTING"]
    /\ crashed = [p \in Peers |-> "no"]
    /\ stopped = [p \in Peers |-> "no"]
    /\ overtook = [p \in Peers |-> FALSE]
    /\ left = {}

--------------------------------------------------------------------------------
Runs(p) == crashed[p] = "no"

SendText(p, type) == posted' = [posted EXCEPT ![p] = Append(@, Msg(type))]

DoRead(p) == reads' = [reads EXCEPT ![p] = @ + 1]

Close(p) == closes' = [closes EXCEPT ![p] = @ + 1]

(******************************************************************************)
(* Connecting: a chain of asynchronous operations, each of which stops at an  *)
(* error and tells nobody.                                                    *)
(******************************************************************************)
Advance(p, from, to) ==
    /\ Runs(p) /\ stage[p] = from
    /\ \/ stage' = [stage EXCEPT ![p] = to]
       \/ Faults /\ stage' = [stage EXCEPT ![p] = "failed"]
    /\ UNCHANGED <<reads, closes, rtcVars, netVars, connectivity, ghostVars>>

\* Start: Connect runs on the io_context thread and its result is not looked at.
Connect(p) == Advance(p, "new", "resolving")
OnResolve(p) == Advance(p, "resolving", "connecting")
OnSSLConnect(p) == Advance(p, "connecting", "sslhandshake")
OnSSLHandshake(p) == Advance(p, "sslhandshake", "handshaking")

\* The websocket is open: read, register and tell the transport.
OnHandshake(p) ==
    /\ Runs(p) /\ stage[p] = "handshaking"
    /\ \/ /\ stage' = [stage EXCEPT ![p] = "open"]
          /\ DoRead(p)
          /\ SendText(p, "register")
          /\ connectivity' = [connectivity EXCEPT ![p] = "READY"]
       \/ /\ Faults
          /\ stage' = [stage EXCEPT ![p] = "failed"]
          /\ UNCHANGED <<reads, posted, connectivity>>
    /\ UNCHANGED <<closes, rtcVars, up, down, room, pings, ghostVars>>

(******************************************************************************)
(* OnRead: the message is taken, handled by its type, and unless DoRead is    *)
(* called again the peer hears nothing more.                                  *)
(******************************************************************************)
Receives(p, type) ==
    /\ Runs(p) /\ reads[p] > 0 /\ down[p] # <<>> /\ Head(down[p]).type = type
    /\ down' = [down EXCEPT ![p] = Tail(@)]

\* Mutants: no DoRead after a ping; a DoRead after a bye.
MutNotAfterPing == {"accept", "offer", "answer", "candidate"}
MutAfterBye == {"accept", "offer", "answer", "candidate", "ping", "bye"}

\* The messages whose branch ends with DoRead.
ReadAgain == {"accept", "offer", "answer", "candidate", "ping"}

\* The end of a branch that went well: the next read, or none.
EndBranch(p, type) ==
    reads' = IF type \in ReadAgain THEN reads ELSE [reads EXCEPT ![p] = @ - 1]

\* Return in the middle of a branch, without DoRead.
Stops(p, why) ==
    /\ reads' = [reads EXCEPT ![p] = @ - 1]
    /\ stopped' = [stopped EXCEPT ![p] = why]

\* Mutant: isExistUser is not looked at.
MutAlwaysOffer(p) == TRUE

IsExistUser(p) == Head(down[p]).isExistUser

OnAccept(p) ==
    /\ Receives(p, "accept")
    /\ connection_' = [connection_ EXCEPT ![p] = "fresh"]
    /\ tasks' = IF IsExistUser(p)
                THEN [tasks EXCEPT ![p] = Append(@, "create_offer")] ELSE tasks
    /\ EndBranch(p, "accept")
    /\ UNCHANGED <<stage, closes, ready_, gather, posted, up, room, pings, connectivity,
                   ghostVars>>

\* A call through connection_ when it is nullptr ends the process.
Dereference(p) ==
    crashed' = IF connection_[p] = "null" THEN [crashed EXCEPT ![p] = "null"]
               ELSE crashed

\* SetRemoteDescription fails in the wrong state; nobody is told.
OnOffer(p) ==
    /\ Receives(p, "offer")
    /\ \/ /\ Dereference(p)
          /\ IF connection_[p] \in {"fresh", "stable"}
             THEN /\ connection_' = [connection_ EXCEPT ![p] = "have_remote_offer"]
                  /\ tasks' = [tasks EXCEPT ![p] = Append(@, "set_offer")]
             ELSE UNCHANGED <<connection_, tasks>>
          /\ EndBranch(p, "offer")
          /\ UNCHANGED stopped
       \/ Faults /\ Stops(p, "parse") /\ UNCHANGED <<connection_, tasks, crashed>>
    /\ UNCHANGED <<stage, closes, ready_, gather, posted, up, room, pings,
                   connectivity, overtook, left>>

\* Mutant: the answer is parsed and not applied.
MutAnswerUnused(p) == connection_

\* SetRemoteDescription with an answer.
WithAnswer(p) ==
    IF connection_[p] = "have_local_offer"
    THEN [connection_ EXCEPT ![p] = "stable"] ELSE connection_

OnAnswer(p) ==
    /\ Receives(p, "answer")
    /\ \/ /\ Dereference(p)
          /\ connection_' = WithAnswer(p)
          /\ EndBranch(p, "answer")
          /\ UNCHANGED stopped
       \/ Faults /\ Stops(p, "parse") /\ UNCHANGED <<connection_, crashed>>
    /\ UNCHANGED <<stage, closes, ready_, tasks, gather, posted, up, room,
                   pings, connectivity, overtook, left>>

HasRemote(p) == connection_[p] \in {"have_remote_offer", "stable"}

\* Mutant: the result of AddIceCandidate is not looked at.
MutAnyCandidate(p) == TRUE

\* AddIceCandidate needs the remote description.
AddIceCandidate(p) == HasRemote(p)

\* At a candidate that cannot be applied, or does not parse, OnRead returns and
\* there is no DoRead.
OnCandidate(p) ==
    /\ Receives(p, "candidate")
    /\ \/ /\ AddIceCandidate(p)
          /\ ready_' = [ready_ EXCEPT ![p] = TRUE]
          /\ EndBranch(p, "candidate")
          /\ UNCHANGED <<stopped, crashed>>
       \/ /\ ~AddIceCandidate(p)
          /\ Dereference(p)
          /\ Stops(p, "candidate")
          /\ UNCHANGED ready_
       \/ Faults /\ Stops(p, "parse") /\ UNCHANGED <<ready_, crashed>>
    /\ UNCHANGED <<stage, closes, connection_, tasks, gather, posted, up,
                   room, pings, connectivity, overtook, left>>

OnPing(p) ==
    /\ Receives(p, "ping")
    /\ SendText(p, "pong")
    /\ EndBranch(p, "ping")
    /\ UNCHANGED <<stage, closes, rtcVars, up, room, pings, connectivity, ghostVars>>

\* bye: the peer connection is destroyed.  Its lambdas that still wait on the
\* signaling thread are dropped by WebRTC, or still run.
OnBye(p) ==
    /\ Receives(p, "bye")
    /\ connection_' = [connection_ EXCEPT ![p] = "null"]
    /\ gather' = [gather EXCEPT ![p] = 0]
    /\ tasks' \in {tasks, [tasks EXCEPT ![p] = <<>>]}
    /\ EndBranch(p, "bye")
    /\ Close(p)
    /\ left' = left \cup {p}
    /\ UNCHANGED <<stage, ready_, posted, up, room, pings, connectivity,
                   crashed, stopped, overtook>>

\* A type the code does not know, such as the reject of a full room.
OnUnknown(p) ==
    /\ Receives(p, "reject")
    /\ Stops(p, "unknown")
    /\ UNCHANGED <<stage, closes, rtcVars, posted, up, room, pings, connectivity,
                   crashed, overtook, left>>

\* Text that json::parse or a field access throws at: nothing catches it.
OnMalformed(p) ==
    /\ Faults /\ Runs(p) /\ reads[p] > 0
    /\ crashed' = [crashed EXCEPT ![p] = "json"]
    /\ UNCHANGED <<ioVars, rtcVars, netVars, connectivity, stopped, overtook, left>>

\* The read ends with an error: the Ayame server has lost this peer.
OnReadError(p) ==
    /\ Faults /\ Runs(p) /\ reads[p] > 0
    /\ reads' = [reads EXCEPT ![p] = @ - 1]
    /\ Close(p)
    /\ UNCHANGED <<stage, rtcVars, netVars, connectivity, ghostVars>>

(******************************************************************************)
(* The signaling thread.                                                      *)
(******************************************************************************)
RunsTask(p, task) ==
    /\ Runs(p) /\ tasks[p] # <<>> /\ Head(tasks[p]) = task

\* The lambda on_create_offer: SetLocalDescription starts the gathering of
\* candidates, which this thread reports after the lambda.  The offer is sent
\* whether or not it could be set.
OnCreateOffer(p) ==
    /\ RunsTask(p, "create_offer")
    /\ Dereference(p)
    /\ tasks' = [tasks EXCEPT ![p] = Tail(@)]
    /\ IF connection_[p] = "fresh"
       THEN /\ connection_' = [connection_ EXCEPT ![p] = "have_local_offer"]
            /\ gather' = [gather EXCEPT ![p] = Candidates]
       ELSE UNCHANGED <<connection_, gather>>
    /\ IF connection_[p] = "null" THEN UNCHANGED posted ELSE SendText(p, "offer")
    /\ UNCHANGED <<ioVars, ready_, up, down, room, pings, connectivity,
                   stopped, overtook, left>>

\* The lambda on_set_offer asks for an answer, which comes after it.
OnSetOffer(p) ==
    /\ RunsTask(p, "set_offer")
    /\ Dereference(p)
    /\ tasks' = [tasks EXCEPT ![p] = Append(Tail(@), "create_answer")]
    /\ UNCHANGED <<ioVars, connection_, ready_, gather, netVars, connectivity,
                   stopped, overtook, left>>

\* The lambda on_create_answer.
OnCreateAnswer(p) ==
    /\ RunsTask(p, "create_answer")
    /\ Dereference(p)
    /\ tasks' = [tasks EXCEPT ![p] = Tail(@)]
    /\ IF connection_[p] = "have_remote_offer"
       THEN /\ connection_' = [connection_ EXCEPT ![p] = "stable"]
            /\ gather' = [gather EXCEPT ![p] = Candidates]
       ELSE UNCHANGED <<connection_, gather>>
    /\ IF connection_[p] = "null" THEN UNCHANGED posted ELSE SendText(p, "answer")
    /\ UNCHANGED <<ioVars, ready_, up, down, room, pings, connectivity,
                   stopped, overtook, left>>

\* OnFailure of a thunk: a log line.  The lambda does not run.
TaskFails(p) ==
    /\ Faults /\ Runs(p) /\ tasks[p] # <<>>
    /\ tasks' = [tasks EXCEPT ![p] = Tail(@)]
    /\ UNCHANGED <<ioVars, connection_, ready_, gather, netVars, connectivity,
                   ghostVars>>

OnIceCandidate(p) ==
    /\ Runs(p) /\ gather[p] > 0
    /\ gather' = [gather EXCEPT ![p] = @ - 1]
    /\ SendText(p, "candidate")
    /\ UNCHANGED <<ioVars, connection_, ready_, tasks, up, down, room, pings,
                   connectivity, ghostVars>>

(******************************************************************************)
(* The pool, and the application's threads.                                   *)
(******************************************************************************)

\* DoSendText: one of the tasks the pool is running puts its text in the buffer.
DoSendText(p) ==
    /\ Runs(p)
    /\ \E i \in 1..Len(posted[p]) :
          /\ i <= Workers
          /\ up' = [up EXCEPT ![p] = Append(@, posted[p][i])]
          /\ posted' = [posted EXCEPT
                 ![p] = SubSeq(@, 1, i - 1) \o SubSeq(@, i + 1, Len(@))]
          /\ overtook' = [overtook EXCEPT ![p] = @ \/ i # 1]
    /\ UNCHANGED <<ioVars, rtcVars, down, room, pings, connectivity, crashed, stopped,
                   left>>

\* Mutant: a channel is created without a look at ready_.
MutNeverNullptr(p) == TRUE

\* CreateDataChannel does not return nullptr.
MayCreate(p) == ready_[p]

\* CreateDataChannel for a stream of the application.
CreateDataChannel(p) ==
    /\ Runs(p) /\ MayCreate(p)
    /\ Dereference(p)
    /\ UNCHANGED <<ioVars, rtcVars, netVars, connectivity, stopped, overtook, left>>

(******************************************************************************)
(* The Ayame server: a room takes two peers, tells the second that the first  *)
(* exists, and passes on what one of them sends to the other.                 *)
(******************************************************************************)
Send(ps, m) == down' = [q \in Peers |-> IF q \in ps THEN Append(down[q], m) ELSE down[q]]

ServerHandles(p) ==
    /\ up[p] # <<>>
    /\ up' = [up EXCEPT ![p] = Tail(@)]
    /\ LET m == Head(up[p])
       IN  \/ /\ m.type = "register" /\ Cardinality(room) < 2
              /\ room' = room \cup {p}
              /\ Send({p}, [type |-> "accept", isExistUser |-> room # {}])
           \/ /\ m.type = "register" /\ Cardinality(room) >= 2
              /\ Send({p}, Msg("reject"))
              /\ UNCHANGED room
           \/ /\ m.type \in {"offer", "answer", "candidate"}
              /\ Send(IF p \in room THEN room \ {p} ELSE {}, m)
              /\ UNCHANGED room
           \/ /\ m.type = "pong"
              /\ UNCHANGED <<room, down>>
    /\ UNCHANGED <<ioVars, rtcVars, posted, pings, connectivity, ghostVars>>

ServerPings(p) ==
    /\ p \in room /\ pings > 0
    /\ pings' = pings - 1
    /\ Send({p}, Msg("ping"))
    /\ UNCHANGED <<ioVars, rtcVars, posted, up, room, connectivity, ghostVars>>

\* The server loses a peer that has closed or is gone: it says bye to the other
\* one and gives up the room.
ServerLoses(p) ==
    /\ p \in room /\ (closes[p] > 0 \/ ~Runs(p))
    /\ room' = {}
    /\ Send(room \ {p}, Msg("bye"))
    /\ UNCHANGED <<ioVars, rtcVars, posted, up, pings, connectivity, ghostVars>>

--------------------------------------------------------------------------------
IocStep(p) ==
    \/ Connect(p) \/ OnResolve(p) \/ OnSSLConnect(p) \/ OnSSLHandshake(p)
    \/ OnHandshake(p) \/ OnAccept(p) \/ OnOffer(p) \/ OnAnswer(p) \/ OnCandidate(p)
    \/ OnPing(p) \/ OnBye(p) \/ OnUnknown(p) \/ OnMalformed(p) \/ OnReadError(p)

SigStep(p) ==
    \/ OnCreateOffer(p) \/ OnSetOffer(p) \/ OnCreateAnswer(p) \/ TaskFails(p)
    \/ OnIceCandidate(p)

Next ==
    \E p \in Peers :
        \/ IocStep(p) \/ SigStep(p) \/ DoSendText(p)
        \/ CreateDataChannel(p)
        \/ ServerHandles(p) \/ ServerPings(p) \/ ServerLoses(p)

Spec == Init /\ [][Next]_vars

\* Every thread of a peer goes on, and the server handles what it gets.
Fairness ==
    \A p \in Peers :
        /\ WF_vars(IocStep(p)) /\ WF_vars(SigStep(p)) /\ WF_vars(DoSendText(p))
        /\ WF_vars(ServerHandles(p))

FairSpec == Spec /\ Fairness

--------------------------------------------------------------------------------
(******************************************************************************)
(* Properties.                                                                *)
(******************************************************************************)

\* The read loop of an open peer is in exactly one of three states: one read is
\* outstanding, or Close was called once, or OnRead returned for a known reason
\* and the peer is deaf.
ReadLoopFate ==
    \A p \in Peers :
        reads[p] + closes[p] + (IF stopped[p] = "no" THEN 0 ELSE 1)
            = IF stage[p] = "open" THEN 1 ELSE 0

\* A description about to be handled fits the state of the peer connection, so
\* SetRemoteDescription, whose failure nobody would hear of, does not fail: the
\* two peers never offer to each other.
DescriptionsFit ==
    \A p \in Peers :
        Runs(p) /\ reads[p] > 0 /\ down[p] # <<>> =>
            /\ Head(down[p]).type = "offer" => connection_[p] = "fresh"
            /\ Head(down[p]).type = "answer" => connection_[p] = "have_local_offer"

\* ready_, which lets the transport create data channels, is set only after the
\* remote description is, and the other peer of the room has left "fresh" by then.
ReadyAfterExchange ==
    \A p \in Peers :
        ready_[p] /\ p \notin left =>
            /\ HasRemote(p)
            /\ p \in room => \A q \in room : connection_[q] \notin {"null", "fresh"}

\* A candidate is refused, and the peer that refuses it becomes deaf, only if the
\* pool of the other peer has sent it before the description posted earlier.
DeafOnlyIfOvertaken ==
    \A p \in Peers :
        stopped[p] = "candidate" => \E q \in Peers \ {p} : overtook[q]

\* connection_ is dereferenced as nullptr only after a bye: by CreateDataChannel,
\* as ready_ stays set, or by a lambda that was still waiting.
NullOnlyAfterBye == \A p \in Peers : crashed[p] = "null" => p \in left

\* Two peers that meet in a room get ready to create data channels, unless a pool
\* has reordered what it was given.
SessionEstablishes ==
    \A p \in Peers :
        (p \in room /\ Cardinality(room) = 2)
            ~> (ready_[p] \/ \E q \in Peers : overtook[q])

\* The comment in AyameTransport::Start: READY means that signaling is complete.
ReadyWhenSignaled ==
    \A p \in Peers : connectivity[p] = "READY" => connection_[p] = "stable"
================================================================================
