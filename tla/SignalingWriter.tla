---------------------------- MODULE SignalingWriter ----------------------------
(******************************************************************************)
(* The outgoing half of AyameSignaling: SendText, DoSendText, DoWrite and     *)
(* OnWrite, with the write_buffer_ they share.  SendText posts DoSendText     *)
(* with no executor, so it runs on a thread of boost.asio's system pool (a    *)
(* Worker); OnWrite runs on the io_context thread.  Nothing orders their      *)
(* accesses to write_buffer_.  An access that begins while another thread is  *)
(* between its first and its last one is a data race; the model goes on with  *)
(* the outcomes of the interleaved steps, a lost push_back included, and      *)
(* `raced' remembers it.                                                      *)
(******************************************************************************)
EXTENDS Naturals, Sequences

CONSTANTS
    Workers,  \* the threads of the pool
    Texts,    \* the texts given to SendText, each once
    Faults,   \* may a write fail?
    Null

ASSUME WriterAssumption ==
    /\ Faults \in BOOLEAN
    /\ "ioc" \notin Workers
    /\ Null \notin Texts

VARIABLES
    unsent,        \* the texts SendText was not called with yet
    posted,        \* the tasks in the pool's queue, each with its text
    wpc, text, empty, \* each worker: its place in DoSendText and its locals
    write_buffer_,
    ipc,           \* the place of the io_context thread in OnWrite
    writing,       \* the async_writes that have not completed
    wire,          \* the texts written to the websocket
    failed,        \* did a write complete with an error?
    pushed,        \* the texts in the order of their push_back
    raced

workerVars == <<wpc, text, empty>>
vars == <<unsent, posted, workerVars, write_buffer_, ipc, writing, wire, failed,
          pushed, raced>>

TypeOK ==
    /\ unsent \in SUBSET Texts /\ posted \in Seq(Texts)
    /\ wpc \in [Workers -> {"idle", "test", "push", "write"}]
    /\ text \in [Workers -> Texts \cup {Null}]
    /\ empty \in [Workers -> BOOLEAN]
    /\ write_buffer_ \in Seq(Texts)
    /\ ipc \in {"idle", "erase", "more"}
    /\ writing \in SUBSET Texts
    /\ wire \in Seq(Texts) /\ pushed \in Seq(Texts)
    /\ failed \in BOOLEAN /\ raced \in BOOLEAN

Init ==
    /\ unsent = Texts /\ posted = <<>>
    /\ wpc = [w \in Workers |-> "idle"]
    /\ text = [w \in Workers |-> Null]
    /\ empty = [w \in Workers |-> FALSE]
    /\ write_buffer_ = <<>>
    /\ ipc = "idle"
    /\ writing = {} /\ wire = <<>> /\ pushed = <<>>
    /\ failed = FALSE /\ raced = FALSE

--------------------------------------------------------------------------------
\* A thread is inside when it has accessed write_buffer_ and is not done with it.
WorkerInside(w) == wpc[w] \in {"push", "write"}
IocInside == ipc = "more"

\* SendText, called on the io_context thread or on WebRTC's signaling thread.
SendText(m) ==
    /\ m \in unsent
    /\ unsent' = unsent \ {m}
    /\ posted' = Append(posted, m)
    /\ UNCHANGED <<workerVars, write_buffer_, ipc, writing, wire, failed, pushed, raced>>

\* Mutant: the bound text was moved away.
MutNoText == Null

\* The text bound to the oldest task.
BoundText == Head(posted)

\* A thread of the pool takes the oldest task.
TakeTask(w) ==
    /\ wpc[w] = "idle" /\ posted # <<>>
    /\ posted' = Tail(posted)
    /\ text' = [text EXCEPT ![w] = BoundText]
    /\ wpc' = [wpc EXCEPT ![w] = "test"]
    /\ UNCHANGED <<unsent, empty, write_buffer_, ipc, writing, wire, failed, pushed, raced>>

\* DoSendText: the test write_buffer_.empty(), the thread's first access.
TestEmpty(w) ==
    /\ wpc[w] = "test"
    /\ empty' = [empty EXCEPT ![w] = (write_buffer_ = <<>>)]
    /\ wpc' = [wpc EXCEPT ![w] = "push"]
    /\ raced' = (raced \/ IocInside \/ \E v \in Workers \ {w} : WorkerInside(v))
    /\ UNCHANGED <<unsent, posted, text, write_buffer_, ipc, writing, wire, failed, pushed>>

\* Mutant: every DoSendText calls DoWrite.
MutAlwaysWrite(w) == TRUE

WritesAfterPush(w) == empty[w]

\* DoSendText: push_back.  Two of them at the same time may use the same slot of
\* the vector, and then one of the texts is lost.
PushBack(w) ==
    /\ wpc[w] = "push"
    /\ \/ write_buffer_' = Append(write_buffer_, text[w])
       \/ /\ \E v \in Workers \ {w} : wpc[v] = "push"
          /\ UNCHANGED write_buffer_
    /\ pushed' = Append(pushed, text[w])
    /\ wpc' = [wpc EXCEPT ![w] = IF WritesAfterPush(w) THEN "write" ELSE "idle"]
    /\ UNCHANGED <<unsent, posted, text, empty, ipc, writing, wire, failed, raced>>

\* The async_write of DoWrite: the first text of the buffer.  (After a data race
\* there may be none; front() then has no meaning and nothing is written.)
StartWrite ==
    writing' = IF write_buffer_ = <<>> THEN writing
               ELSE writing \cup {Head(write_buffer_)}

DoWrite(w) ==
    /\ wpc[w] = "write"
    /\ StartWrite
    /\ wpc' = [wpc EXCEPT ![w] = "idle"]
    /\ UNCHANGED <<unsent, posted, text, empty, write_buffer_, ipc, wire, failed,
                   pushed, raced>>

\* An async_write completes: OnWrite is called without an error ...
WriteCompletes(m) ==
    /\ ipc = "idle" /\ m \in writing
    /\ writing' = writing \ {m}
    /\ wire' = Append(wire, m)
    /\ ipc' = "erase"
    /\ UNCHANGED <<unsent, posted, workerVars, write_buffer_, failed, pushed, raced>>

\* Mutant: a text that could not be written is erased too.
MutEraseFailed(q) == Tail(q)

\* What an error leaves in the buffer: OnWrite returns at once.
AfterError(q) == q

\* ... or with one, the abort by a Close included: it returns, and the text stays
\* in the buffer.
WriteFails(m) ==
    /\ Faults /\ ipc = "idle" /\ m \in writing
    /\ writing' = writing \ {m}
    /\ failed' = TRUE
    /\ write_buffer_' = AfterError(write_buffer_)
    /\ UNCHANGED <<unsent, posted, workerVars, ipc, wire, pushed, raced>>

\* Mutant: the last text is erased.
MutEraseLast(q) == SubSeq(q, 1, Len(q) - 1)

\* erase(begin()).
Erase(q) == IF q = <<>> THEN <<>> ELSE Tail(q)

\* OnWrite: erase the first text, the thread's first access.
EraseFirst ==
    /\ ipc = "erase"
    /\ write_buffer_' = Erase(write_buffer_)
    /\ ipc' = "more"
    /\ raced' = (raced \/ \E w \in Workers : WorkerInside(w))
    /\ UNCHANGED <<unsent, posted, workerVars, writing, wire, failed, pushed>>

\* Mutant: OnWrite ends with the erase.
MutNoMore == FALSE

MoreToWrite == write_buffer_ # <<>>

\* OnWrite: go on with the next text, if there is one.
WriteMore ==
    /\ ipc = "more"
    /\ IF MoreToWrite THEN StartWrite ELSE UNCHANGED writing
    /\ ipc' = "idle"
    /\ UNCHANGED <<unsent, posted, workerVars, write_buffer_, wire, failed, pushed, raced>>

--------------------------------------------------------------------------------
WorkerStep(w) == TakeTask(w) \/ TestEmpty(w) \/ PushBack(w) \/ DoWrite(w)
IocStep == EraseFirst \/ WriteMore

Next ==
    \/ \E m \in Texts : SendText(m) \/ WriteCompletes(m) \/ WriteFails(m)
    \/ \E w \in Workers : WorkerStep(w)
    \/ IocStep

Spec == Init /\ [][Next]_vars

\* The pool and the io_context run what they are given, and a write ends.
Fairness ==
    /\ \A w \in Workers : WF_vars(WorkerStep(w))
    /\ WF_vars(IocStep)
    /\ WF_vars(\E m \in Texts : WriteCompletes(m) \/ WriteFails(m))

FairSpec == Spec /\ Fairness

--------------------------------------------------------------------------------
(******************************************************************************)
(* Properties.                                                                *)
(******************************************************************************)

\* Some thread is going to write the first text of the buffer.
WillWrite == ipc # "idle" \/ \E w \in Workers : wpc[w] = "write"

\* A websocket stream takes one async_write at a time.  Without a data race
\* there is never a second one, neither outstanding nor about to be started, and
\* the one there is has the first text of the buffer.
OneWriteAtATime ==
    ~raced =>
        /\ \A m \in writing : write_buffer_ # <<>> /\ m = Head(write_buffer_)
        /\ writing # {} => ~WillWrite
        /\ \A v, w \in Workers : wpc[v] = "write" /\ wpc[w] = "write" => v = w

\* Without a data race the websocket carries the texts in the order of their
\* push_back, none lost and none twice: it has those that are not in the buffer.
WireInPushOrder ==
    ~raced =>
        LET left == Len(pushed) - Len(wire)
        IN  /\ left >= 0
            /\ \A i \in 1..Len(wire) : wire[i] = pushed[i]
            /\ Len(write_buffer_) = (IF ipc = "erase" THEN left + 1 ELSE left)
            /\ \A i \in 1..Len(write_buffer_) :
                   write_buffer_[i] = pushed[Len(pushed) - Len(write_buffer_) + i]

\* Without a data race the buffer, its threads and the websocket are the FIFO
\* that AyameSignaling uses: a push_back puts a text in, a completed async_write
\* takes the oldest one out.
Fifo == INSTANCE TextFifo WITH in <- pushed, out <- wire, broken <- raced
ImplementsTextFifo == Fifo!Spec

\* Without a data race a buffer that is not empty is being written, unless a
\* write has failed: no text waits for a DoWrite that nobody will call.
BufferIsServed ==
    ~raced /\ ~failed /\ write_buffer_ # <<>> => WillWrite \/ writing # {}

\* A failed write is the end: OnWrite leaves the text in the buffer, so no later
\* DoSendText finds the buffer empty and nothing is written again.
SilentAfterError == [][failed /\ ~raced' => wire' = wire]_vars

\* Every text given to SendText is written, unless a data race or a failed write
\* came in between.
EveryTextIsWritten ==
    \A m \in Texts :
        (m \notin unsent) ~> (raced \/ failed \/ \E i \in 1..Len(wire) : wire[i] = m)
================================================================================
