--------------------------- MODULE AyameStreamProofs ---------------------------
(******************************************************************************)
(* Theorems about AyameStream, for any batches, any replies of the peer and   *)
(* any faults.                                                                *)
(******************************************************************************)
EXTENDS AyameStream, TLAPS

\* The conditions and values that the actions name are expanded everywhere.
USE DEF StreamRefs, AfterPend, SchedulesOnComplete, Enqueue, Popped, Served, RerunsOnReady,
        RerunsOnOpen, SomeoneWaits

\* The labels at which a thread is inside PerformOp with a batch.
InPerformOp == {"perform", "create", "init", "check", "pend", "run", "send", "recv"}

\* What the types rest on.  A thread inside PerformOp has a batch; the call's
\* reference is one of the two the constructor left; and before the stream is
\* constructed nothing of it is reachable.
LifeInv ==
    /\ \A t \in Threads : pc[t] \in InPerformOp => op[t] \in Ops
    /\ life # "dead"
    /\ held => life = "live" /\ refs = 2
    /\ life = "live" => refs # 0
    /\ life = "none" =>
          /\ ~waited /\ ~cb /\ dc = "none" /\ pending_op_ = Null /\ issued = {}
          /\ pc["app"] = "idle" /\ pc["sig"] = "idle"
          /\ pc["ioc"] \in {"idle", "onready", "ret", "ended"}
          /\ \A t \in Threads : op[t] = Null

TypeInv == TypeOK /\ LifeInv

LEMMA EmptySeqFunction ==
  ASSUME NEW S, NEW T
  PROVE  [x \in S |-> <<>>] \in [S -> Seq(T)]
<1>1. <<>> \in Seq(T)
  OBVIOUS
<1> QED
  BY <1>1

LEMMA TypeInvInit == Init => TypeInv
<1> SUFFICES ASSUME Init PROVE TypeInv
  OBVIOUS
<1> USE ConstantsAssumption DEF Init
<1>1. ThreadsOK
  BY EmptySeqFunction DEF ThreadsOK, Labels
<1>2. ChannelOK
  BY DEF ChannelOK
<1>3. QueuesOK /\ ClosuresOK /\ PeerOK
  BY DEF QueuesOK, ClosuresOK, PeerOK
<1>4. LifeOK
  <2>1. refs \in 0..2
    OBVIOUS
  <2> QED
    BY <2>1, Zenon DEF LifeOK
<1>5. BatchesOK
  BY EmptySeqFunction, Zenon DEF BatchesOK
<1>6. LifeInv
  BY DEF LifeInv, InPerformOp, Threads
<1> QED
  BY <1>1, <1>2, <1>3, <1>4, <1>5, <1>6 DEF TypeInv, TypeOK

LEMMA TypeInvNext == TypeInv /\ [Next]_vars => TypeInv'
<1> SUFFICES ASSUME TypeInv, [Next]_vars PROVE TypeInv'
  OBVIOUS
<1> USE ConstantsAssumption DEF TypeInv, Threads, ThreadsOK, ChannelOK, QueuesOK,
       ClosuresOK, LifeOK, PeerOK, BatchesOK
<1> USE DEF threadVars, channelVars, queueVars, closureVars, lifeVars, peerVars, batchVars
<1>1. CASE InitStream
  BY <1>1 DEF InitStream, Goto, TypeOK, LifeInv, Labels, InPerformOp
<1>2. CASE AddOnReady
  BY <1>2 DEF AddOnReady, Goto, TypeOK, LifeInv, Labels, InPerformOp
<1>3. CASE ReleaseCall
  <2>1. held /\ refs = 2 /\ life = "live"
    BY <1>3 DEF ReleaseCall, LifeInv
  <2>2. refs' = 1 /\ life' = "live" /\ held' = FALSE
    BY <1>3, <2>1 DEF ReleaseCall
  <2>3. refs' \in 0..2
    BY <2>2
  <2>4. LifeOK'
    BY <2>2, <2>3, Zenon DEF LifeOK
  <2>5. LifeInv'
    BY <1>3, <2>2 DEF ReleaseCall, LifeInv
  <2> QED
    BY <1>3, <2>4, <2>5 DEF ReleaseCall, TypeOK
<1>4. ASSUME NEW o \in Ops, OnDataChannel(o) PROVE TypeInv'
  BY <1>4 DEF OnDataChannel, Goto, TypeOK, LifeInv, Labels, InPerformOp
<1>5. ASSUME NEW o \in Ops, PerformStreamOp(o) PROVE TypeInv'
  BY <1>5 DEF PerformStreamOp, Goto, TypeOK, LifeInv, Labels, InPerformOp
<1>6. ASSUME NEW t \in Threads, PerformOpStep(t) PROVE TypeInv'
  <2>1. CASE PerformOp(t)
    BY <1>6, <2>1 DEF PerformOp, Goto, TypeOK, LifeInv, Labels, InPerformOp
  <2>2. CASE CreateDataChannel(t)
    <3>1. ThreadsOK'
      BY <1>6, <2>2 DEF CreateDataChannel, Goto, TypeOK, Labels
    <3>2. ChannelOK' /\ PeerOK'
      <4>1. ChannelOK'
        BY <2>2 DEF CreateDataChannel, TypeOK
      <4>2. reply' = reply /\ (UNCHANGED peerVars \/ (sent' = <<>> /\ arrived' = 0))
        BY <2>2 DEF CreateDataChannel
      <4>3. sent' \in Seq(Frames) /\ arrived' \in Nat
        <5>1. <<>> \in Seq(Frames) /\ 0 \in Nat
          OBVIOUS
        <5> QED
          BY <4>2, <5>1, Zenon DEF TypeOK
      <4> QED
        BY <4>1, <4>2, <4>3 DEF TypeOK
    <3>3. (QueuesOK /\ ClosuresOK /\ LifeOK /\ BatchesOK)'
      BY <1>6, <2>2 DEF CreateDataChannel, TypeOK
    <3>4. LifeInv'
      BY <1>6, <2>2 DEF CreateDataChannel, Goto, TypeOK, LifeInv, Labels, InPerformOp
    <3> QED
      BY <3>1, <3>2, <3>3, <3>4 DEF TypeOK
  <2>3. CASE InitDataChannel(t)
    BY <1>6, <2>3 DEF InitDataChannel, Goto, TypeOK, LifeInv, Labels, InPerformOp
  <2>4. CASE CheckOpen(t)
    BY <1>6, <2>4 DEF CheckOpen, Goto, TypeOK, LifeInv, Labels, InPerformOp
  <2>5. CASE PendOp(t)
    BY <1>6, <2>5 DEF PendOp, Goto, TypeOK, LifeInv, Labels, InPerformOp
  <2>6. CASE RunOp(t)
    <3>1. op[t] \in Ops
      BY <1>6, <2>6 DEF RunOp, LifeInv, InPerformOp
    <3>2. ThreadsOK'
      BY <1>6, <2>6, <3>1 DEF RunOp, Goto, TypeOK, Labels, Batches
    <3>3. ran' \in [Ops -> Seq(Threads)]
      BY <1>6, <2>6, <3>1 DEF RunOp, TypeOK
    <3>4. BatchesOK'
      BY <2>6, <3>3 DEF RunOp, TypeOK
    <3>5. (ChannelOK /\ QueuesOK /\ ClosuresOK /\ LifeOK /\ PeerOK)'
      BY <1>6, <2>6 DEF RunOp, TypeOK
    <3>6. LifeInv'
      BY <1>6, <2>6 DEF RunOp, Goto, TypeOK, LifeInv, Labels, InPerformOp
    <3> QED
      BY <3>2, <3>4, <3>5, <3>6 DEF TypeOK
  <2>7. CASE SendFrame(t)
    <3>1. todo[t] \in Seq(Frames) /\ todo[t] # <<>>
      BY <1>6, <2>7 DEF SendFrame, TypeOK
    <3>2. Head(todo[t]) \in Frames /\ Tail(todo[t]) \in Seq(Frames)
      BY <3>1
    <3>3. ThreadsOK' /\ PeerOK'
      BY <1>6, <2>7, <3>2 DEF SendFrame, TypeOK
    <3>4. (ChannelOK /\ QueuesOK /\ ClosuresOK /\ LifeOK /\ BatchesOK)'
      BY <2>7 DEF SendFrame, TypeOK
    <3>5. LifeInv'
      BY <2>7 DEF SendFrame, LifeInv
    <3> QED
      BY <3>3, <3>4, <3>5 DEF TypeOK
  <2>8. CASE PullFails(t)
    <3>1. PICK k \in 1..Len(todo[t]) :
              todo' = [todo EXCEPT ![t] = SubSeq(@, k + 1, Len(@))]
      BY <2>8 DEF PullFails
    <3>2. todo[t] \in Seq(Frames)
      BY <1>6 DEF TypeOK
    <3>3. SubSeq(todo[t], k + 1, Len(todo[t])) \in Seq(Frames)
      BY <3>2
    <3>4. ThreadsOK'
      BY <1>6, <2>8, <3>1, <3>3 DEF PullFails, TypeOK
    <3>5. (ChannelOK /\ QueuesOK /\ ClosuresOK /\ LifeOK /\ PeerOK /\ BatchesOK)'
      BY <2>8 DEF PullFails, TypeOK
    <3>6. LifeInv'
      BY <2>8 DEF PullFails, LifeInv
    <3> QED
      BY <3>4, <3>5, <3>6 DEF TypeOK
  <2>9. CASE SendsDone(t)
    <3>1. op[t] \in Ops
      BY <1>6, <2>9 DEF SendsDone, LifeInv, InPerformOp
    <3>2. ThreadsOK'
      BY <1>6, <2>9, <3>1 DEF SendsDone, Goto, TypeOK, Labels, Batches
    <3>3. <<op[t], "on_complete">> \in Closures
      BY <3>1 DEF Closures
    <3>4. ClosuresOK'
      BY <1>6, <2>9, <3>3 DEF SendsDone, TypeOK
    <3>5. (ChannelOK /\ QueuesOK /\ LifeOK /\ PeerOK /\ BatchesOK)'
      BY <2>9 DEF SendsDone, TypeOK
    <3>6. LifeInv'
      BY <1>6, <2>9 DEF SendsDone, Goto, TypeOK, LifeInv, Labels, InPerformOp
    <3> QED
      BY <3>2, <3>4, <3>5, <3>6 DEF TypeOK
  <2>10. CASE WaitForRecv(t)
    <3> DEFINE r == <<op[t], Head(todo[t])>>
    <3>1. op[t] \in Ops /\ todo[t] \in Seq(Frames) /\ todo[t] # <<>>
      BY <1>6, <2>10 DEF WaitForRecv, LifeInv, InPerformOp, TypeOK
    <3>2. r \in Recvs /\ r \in Closures /\ Tail(todo[t]) \in Seq(Frames)
      BY <3>1 DEF Recvs, Closures
    <3>3. pc' \in [Threads -> Labels] /\ execq' \in [Threads -> SUBSET Closures]
      <4>1. CASE UNCHANGED <<pc, execq>>
        BY <4>1 DEF TypeOK
      <4>2. CASE Receive(t, r, Head(data_queue_), "recv")
        <5>1. CASE execq' = [execq EXCEPT ![t] = @ \cup {r}] /\ Goto(t, "recv")
          BY <1>6, <3>2, <5>1 DEF Goto, TypeOK, Labels
        <5>2. CASE pc' = [u \in Threads |-> "terminated"] /\ UNCHANGED execq
          BY <5>2 DEF TypeOK, Labels
        <5> QED
          BY <4>2, <5>1, <5>2 DEF Receive
      <4> QED
        BY <2>10, <4>1, <4>2 DEF WaitForRecv
    <3>4. (ThreadsOK /\ ClosuresOK)'
      BY <1>6, <2>10, <3>2, <3>3 DEF WaitForRecv, TypeOK
    <3>5. QueuesOK'
      <4>1. reg' \in Seq(Recvs) /\ rcvd' \in Seq(Frames)
        BY <2>10, <3>2 DEF WaitForRecv, TypeOK
      <4>2. CASE data_queue_ = <<>>
        <5>1. func_queue_' = Append(func_queue_, r) /\ UNCHANGED <<data_queue_, got>>
          BY <2>10, <4>2 DEF WaitForRecv
        <5> QED
          BY <3>2, <4>1, <5>1 DEF TypeOK
      <4>3. CASE data_queue_ # <<>>
        <5>1. Head(data_queue_) \in Frames /\ Tail(data_queue_) \in Seq(Frames)
          BY <4>3 DEF TypeOK
        <5>2. <<r, Head(data_queue_)>> \in Recvs \X Frames
          BY <3>2, <5>1
        <5>3. /\ got' = Append(got, <<r, Head(data_queue_)>>)
              /\ data_queue_' = Tail(data_queue_) /\ UNCHANGED func_queue_
          BY <2>10, <4>3 DEF WaitForRecv, Receive
        <5> QED
          BY <4>1, <5>1, <5>2, <5>3 DEF TypeOK
      <4> QED
        BY <4>2, <4>3
    <3>6. (ChannelOK /\ LifeOK /\ PeerOK /\ BatchesOK)'
      BY <2>10 DEF WaitForRecv, TypeOK
    <3>7. LifeInv'
      <4>1. \A u \in Threads : pc'[u] \in InPerformOp => pc[u] \in InPerformOp
        BY <1>6, <2>10 DEF WaitForRecv, Receive, Goto, TypeOK, InPerformOp
      <4>2. life # "none"
        BY <1>6, <2>10 DEF WaitForRecv, LifeInv
      <4> QED
        BY <2>10, <4>1, <4>2 DEF WaitForRecv, LifeInv
    <3> QED
      BY <3>4, <3>5, <3>6, <3>7 DEF TypeOK
  <2>11. CASE RecvsDone(t)
    BY <1>6, <2>11 DEF RecvsDone, Goto, TypeOK, LifeInv, Labels, InPerformOp
  <2>12. CASE FlushExecCtx(t)
    BY <1>6, <2>12 DEF FlushExecCtx, Goto, TypeOK, LifeInv, Labels, InPerformOp
  <2> QED
    BY <1>6, <2>1, <2>2, <2>3, <2>4, <2>5, <2>6, <2>7, <2>8, <2>9, <2>10, <2>11,
       <2>12 DEF PerformOpStep
<1>7. CASE BecomeReady
  BY <1>7 DEF BecomeReady, Goto, TypeOK, LifeInv, Labels, InPerformOp
<1>8. CASE OnReady
  BY <1>8 DEF OnReady, Goto, TypeOK, LifeInv, Labels, InPerformOp
<1>9. CASE ClearReadyWaited
  BY <1>9 DEF ClearReadyWaited, Goto, TypeOK, LifeInv, Labels, InPerformOp
<1>10. CASE ChannelOpens
  BY <1>10 DEF ChannelOpens, Goto, TypeOK, LifeInv, Labels, InPerformOp
<1>11. CASE ChannelCloses
  BY <1>11 DEF ChannelCloses, Goto, TypeOK, LifeInv, Labels, InPerformOp
<1>12. CASE OnStateChange
  <2>1. ThreadsOK'
    BY <1>12 DEF OnStateChange, Goto, TypeOK, Labels
  <2>2. (ChannelOK /\ QueuesOK /\ ClosuresOK /\ LifeOK /\ PeerOK /\ BatchesOK)'
    BY <1>12 DEF OnStateChange, TypeOK
  <2>3. life # "none" /\ op'["sig"] \in {op["sig"], pending_op_}
    BY <1>12 DEF OnStateChange, LifeInv, TypeOK
  <2>4. LifeInv'
    BY <1>12, <2>3 DEF OnStateChange, Goto, TypeOK, LifeInv, InPerformOp
  <2> QED
    BY <2>1, <2>2, <2>4 DEF TypeOK
<1>13. CASE OnMessage
  <2> DEFINE f == reply[arrived + 1]
  <2>1. f \in Frames
    <3>1. reply \in Seq(Frames) /\ arrived \in Nat /\ arrived < Len(reply)
      BY <1>13 DEF OnMessage, TypeOK
    <3> QED
      BY <3>1
  <2>2. CASE ~cb
    BY <1>13, <2>2 DEF OnMessage, TypeOK, LifeInv
  <2>3. CASE cb /\ func_queue_ = <<>>
    <3>1. UNCHANGED <<func_queue_, reg, got, execq>> /\ Goto("sig", "idle")
      BY <1>13, <2>3 DEF OnMessage
    <3>2. rcvd' = Append(rcvd, f) /\ data_queue_' = Append(data_queue_, f)
      BY <1>13, <2>3 DEF OnMessage
    <3>3. (QueuesOK /\ PeerOK)'
      BY <1>13, <2>1, <3>1, <3>2 DEF OnMessage, TypeOK
    <3> QED
      BY <1>13, <3>1, <3>3 DEF OnMessage, Goto, TypeOK, LifeInv, Labels, InPerformOp
  <2>4. CASE cb /\ func_queue_ # <<>>
    <3> DEFINE r == Head(func_queue_)
    <3>1. r \in Recvs /\ Tail(func_queue_) \in Seq(Recvs)
      BY <2>4 DEF TypeOK
    <3>2. r \in Closures /\ <<r, f>> \in Recvs \X Frames
      BY <2>1, <3>1 DEF Recvs, Closures
    <3>3. Receive("sig", r, f, "ret") /\ UNCHANGED <<reg, data_queue_>>
      BY <1>13, <2>4 DEF OnMessage
    <3>4. rcvd' = Append(rcvd, f) /\ func_queue_' = Tail(func_queue_)
      BY <1>13, <2>4 DEF OnMessage
    <3>5. pc' \in [Threads -> Labels] /\ execq' \in [Threads -> SUBSET Closures]
      BY <3>2, <3>3 DEF Receive, Goto, TypeOK, Labels
    <3>6. (ThreadsOK /\ ClosuresOK)'
      BY <1>13, <3>5 DEF OnMessage, TypeOK
    <3>7. QueuesOK'
      BY <2>1, <3>1, <3>2, <3>3, <3>4 DEF Receive, TypeOK
    <3>8. ChannelOK' /\ LifeOK' /\ PeerOK' /\ BatchesOK'
      <4>1. (ChannelOK /\ LifeOK /\ BatchesOK)'
        BY <1>13 DEF OnMessage, TypeOK
      <4>2. PeerOK'
        BY <1>13 DEF OnMessage, TypeOK
      <4> QED
        BY <4>1, <4>2
    <3>9. \A u \in Threads : pc'[u] \in InPerformOp => pc[u] \in InPerformOp
      BY <3>3 DEF Receive, Goto, TypeOK, InPerformOp
    <3>10. LifeInv'
      BY <1>13, <3>9 DEF OnMessage, LifeInv
    <3> QED
      BY <3>6, <3>7, <3>8, <3>10 DEF TypeOK
  <2> QED
    BY <2>2, <2>3, <2>4
<1>14. CASE IocEnds
  BY <1>14 DEF IocEnds, Goto, TypeOK, LifeInv, Labels, InPerformOp
<1>15. CASE UNCHANGED vars
  BY <1>15 DEF vars, TypeOK, LifeInv
<1> QED
  BY <1>1, <1>2, <1>3, <1>4, <1>5, <1>6, <1>7, <1>8, <1>9, <1>10, <1>11, <1>12,
     <1>13, <1>14, <1>15 DEF Next

\* Every variable keeps its type, the reference count stays within what the
\* constructor left, and no thread performs a batch of a stream that is not there.
THEOREM TypeCorrect == Spec => []TypeOK
<1>1. Init => TypeInv
  BY TypeInvInit
<1>2. TypeInv /\ [Next]_vars => TypeInv'
  BY TypeInvNext
<1>3. TypeInv => TypeOK
  BY DEF TypeInv
<1> QED
  BY <1>1, <1>2, <1>3, PTL DEF Spec

\* The lambdas of AddOnReady, OnStateChange and OnMessage never run on a
\* destroyed stream, for any interleaving of the three threads.
THEOREM CallbacksSafe == Spec => []CallbackTargetLives
<1>1. Init => TypeInv
  BY TypeInvInit
<1>2. TypeInv /\ [Next]_vars => TypeInv'
  BY TypeInvNext
<1>3. TypeInv => CallbackTargetLives
  BY DEF TypeInv, TypeOK, LifeOK, ChannelOK, LifeInv, CallbackTargetLives
<1> QED
  BY <1>1, <1>2, <1>3, PTL DEF Spec

--------------------------------------------------------------------------------
(******************************************************************************)
(* The order in which receives and frames are paired.                         *)
(******************************************************************************)

\* An element put at the end of a sequence and of what is left of it.
LEMMA PushRest ==
  ASSUME NEW S, NEW s \in Seq(S), NEW q \in Seq(S), NEW x \in S,
         NEW n \in Nat, n <= Len(s), IsRest(q, s, n)
  PROVE  IsRest(Append(q, x), Append(s, x), n)
<1>1. /\ Len(Append(q, x)) = Len(q) + 1 /\ Append(q, x)[Len(q) + 1] = x
      /\ \A i \in 1..Len(q) : Append(q, x)[i] = q[i]
  OBVIOUS
<1>2. /\ Len(Append(s, x)) = Len(s) + 1 /\ Append(s, x)[Len(s) + 1] = x
      /\ \A i \in 1..Len(s) : Append(s, x)[i] = s[i]
  OBVIOUS
<1>3. Len(q) \in Nat /\ Len(s) \in Nat /\ Len(q) = Len(s) - n
  BY DEF IsRest
<1>4. ASSUME NEW i \in 1..Len(Append(q, x))
      PROVE  Append(q, x)[i] = Append(s, x)[n + i]
  <2>1. CASE i = Len(q) + 1
    BY <1>1, <1>2, <1>3, <2>1
  <2>2. CASE i \in 1..Len(q)
    <3>1. n + i \in 1..Len(s) /\ q[i] = s[n + i]
      BY <1>3, <2>2 DEF IsRest
    <3> QED
      BY <1>1, <1>2, <2>2, <3>1
  <2> QED
    BY <1>1, <1>3, <2>1, <2>2
<1>5. Len(Append(q, x)) = Len(Append(s, x)) - n
  BY <1>1, <1>2, <1>3
<1> QED
  BY <1>4, <1>5 DEF IsRest

\* The element taken from the front of what is left is the next one.
LEMMA PopRest ==
  ASSUME NEW S, NEW s \in Seq(S), NEW q \in Seq(S), q # <<>>,
         NEW n \in Nat, n <= Len(s), IsRest(q, s, n)
  PROVE  /\ n + 1 <= Len(s)
         /\ Head(q) = s[n + 1]
         /\ IsRest(Tail(q), s, n + 1)
<1>1. Len(q) >= 1 /\ Head(q) = q[1]
  OBVIOUS
<1>2. Len(Tail(q)) = Len(q) - 1 /\ \A i \in 1..Len(Tail(q)) : Tail(q)[i] = q[i + 1]
  BY <1>1
<1>3. n + 1 <= Len(s) /\ Head(q) = s[n + 1]
  BY <1>1 DEF IsRest
<1>4. ASSUME NEW i \in 1..Len(Tail(q)) PROVE Tail(q)[i] = s[(n + 1) + i]
  <2>1. i + 1 \in 1..Len(q)
    BY <1>2
  <2>2. q[i + 1] = s[n + (i + 1)]
    BY <2>1 DEF IsRest
  <2> QED
    BY <1>2, <2>2
<1>5. Len(Tail(q)) = Len(s) - (n + 1)
  BY <1>2 DEF IsRest
<1> QED
  BY <1>3, <1>4, <1>5 DEF IsRest

\* When nothing is left, nothing is left after one more element that is used.
LEMMA EmptyRest ==
  ASSUME NEW S, NEW s \in Seq(S), NEW x \in S, NEW q \in Seq(S),
         NEW n \in Nat, n <= Len(s), IsRest(q, s, n), q = <<>>
  PROVE  /\ n = Len(s)
         /\ IsRest(q, Append(s, x), n + 1)
  BY DEF IsRest

\* The pairs stay pairs when a receive and a frame grow the two sequences, and
\* the next pair is added.
LEMMA NextPair ==
  ASSUME NEW R, NEW F, NEW r \in Seq(R), NEW f \in Seq(F), NEW g \in Seq(R \X F),
         Len(g) + 1 <= Len(r), Len(g) + 1 <= Len(f),
         \A i \in 1..Len(g) : g[i] = <<r[i], f[i]>>
  PROVE  LET h == Append(g, <<r[Len(g) + 1], f[Len(g) + 1]>>)
         IN  Len(h) = Len(g) + 1 /\ \A i \in 1..Len(h) : h[i] = <<r[i], f[i]>>
<1> DEFINE p == <<r[Len(g) + 1], f[Len(g) + 1]>>
<1>1. p \in R \X F
  OBVIOUS
<1> HIDE DEF p
<1>2. Len(Append(g, p)) = Len(g) + 1 /\ Append(g, p)[Len(g) + 1] = p
  BY <1>1
<1>3. \A i \in 1..Len(g) : Append(g, p)[i] = g[i]
  BY <1>1
<1>4. ASSUME NEW i \in 1..Len(Append(g, p)) PROVE Append(g, p)[i] = <<r[i], f[i]>>
  <2>1. CASE i = Len(g) + 1
    BY <1>2, <2>1 DEF p
  <2>2. CASE i \in 1..Len(g)
    BY <1>3, <2>2
  <2> QED
    BY <1>2, <2>1, <2>2
<1> QED
  BY <1>2, <1>4 DEF p

\* The queues and their history change in WaitForRecv and OnMessage only.
LEMMA OnlyTwoTouchQueues ==
  [Next]_vars => UNCHANGED queueVars \/ OnMessage \/ \E t \in Threads : WaitForRecv(t)
<1> SUFFICES ASSUME [Next]_vars, ~OnMessage, \A t \in Threads : ~WaitForRecv(t)
             PROVE  UNCHANGED queueVars
  OBVIOUS
<1>1. ASSUME NEW t \in Threads, PerformOpStep(t) PROVE UNCHANGED queueVars
  BY <1>1 DEF PerformOpStep, PerformOp, CreateDataChannel, InitDataChannel, CheckOpen,
     PendOp, RunOp, SendFrame, PullFails, SendsDone, RecvsDone, FlushExecCtx
<1>2. ASSUME NEW o \in Ops, OnDataChannel(o) \/ PerformStreamOp(o)
      PROVE  UNCHANGED queueVars
  BY <1>2 DEF OnDataChannel, PerformStreamOp
<1>3. CASE InitStream \/ AddOnReady \/ ReleaseCall
  BY <1>3 DEF InitStream, AddOnReady, ReleaseCall
<1>4. CASE BecomeReady \/ OnReady \/ ClearReadyWaited \/ IocEnds
  BY <1>4 DEF BecomeReady, OnReady, ClearReadyWaited, IocEnds
<1>5. CASE ChannelOpens \/ ChannelCloses \/ OnStateChange
  BY <1>5 DEF ChannelOpens, ChannelCloses, OnStateChange
<1>6. CASE UNCHANGED vars
  BY <1>6 DEF vars
<1> QED
  BY <1>1, <1>2, <1>3, <1>4, <1>5, <1>6 DEF Next

LEMMA PairedNext == TypeInv /\ PairedInOrder /\ [Next]_vars => PairedInOrder'
<1> SUFFICES ASSUME TypeInv, PairedInOrder, [Next]_vars PROVE PairedInOrder'
  OBVIOUS
<1>0. /\ data_queue_ \in Seq(Frames) /\ func_queue_ \in Seq(Recvs)
      /\ reg \in Seq(Recvs) /\ rcvd \in Seq(Frames) /\ got \in Seq(Recvs \X Frames)
      /\ Len(got) \in Nat
  BY DEF TypeInv, TypeOK, QueuesOK
<1>1. CASE UNCHANGED queueVars
  BY <1>1 DEF queueVars, PairedInOrder, IsRest
\* A receive is registered.
<1>2. ASSUME NEW t \in Threads, WaitForRecv(t) PROVE PairedInOrder'
  <2> DEFINE r == <<op[t], Head(todo[t])>>
  <2>1. r \in Recvs
    BY <1>2 DEF TypeInv, TypeOK, ThreadsOK, LifeInv, InPerformOp, WaitForRecv, Recvs
  <2>2. reg' = Append(reg, r) /\ rcvd' = rcvd
    BY <1>2 DEF WaitForRecv
  <2> HIDE DEF r
  <2>3. /\ reg' \in Seq(Recvs) /\ Len(reg') = Len(reg) + 1 /\ reg'[Len(reg) + 1] = r
        /\ \A i \in 1..Len(reg) : reg'[i] = reg[i]
    BY <1>0, <2>1, <2>2
  <2>4. CASE data_queue_ = <<>>
    <3>1. func_queue_' = Append(func_queue_, r) /\ UNCHANGED <<data_queue_, got>>
      BY <1>2, <2>4 DEF WaitForRecv, r
    <3>2. IsRest(func_queue_', reg', Len(got))
      BY <1>0, <2>1, <2>2, <3>1, PushRest DEF PairedInOrder
    <3>3. IsRest(data_queue_', rcvd', Len(got'))
      BY <2>2, <3>1 DEF PairedInOrder
    <3>4. \A i \in 1..Len(got) : got[i] = <<reg'[i], rcvd[i]>>
      BY <1>0, <2>3 DEF PairedInOrder
    <3> QED
      BY <1>0, <2>2, <2>3, <2>4, <3>1, <3>2, <3>3, <3>4 DEF PairedInOrder
  <2>5. CASE data_queue_ # <<>>
    <3>1. /\ got' = Append(got, <<r, Head(data_queue_)>>)
          /\ data_queue_' = Tail(data_queue_) /\ func_queue_' = func_queue_
      BY <1>2, <2>5 DEF WaitForRecv, Receive, r
    <3>2. func_queue_ = <<>> /\ Len(got) = Len(reg)
      BY <1>0, <2>5 DEF PairedInOrder, IsRest
    <3>3. /\ Len(got) + 1 <= Len(rcvd) /\ Head(data_queue_) = rcvd[Len(got) + 1]
          /\ IsRest(data_queue_', rcvd, Len(got) + 1)
      BY <1>0, <2>5, <3>1, PopRest DEF PairedInOrder
    <3>4. IsRest(func_queue_', reg', Len(got) + 1)
      BY <1>0, <2>1, <2>2, <3>1, <3>2, EmptyRest DEF PairedInOrder
    <3>5. Len(got') = Len(got) + 1 /\ \A i \in 1..Len(got') : got'[i] = <<reg'[i], rcvd[i]>>
      <4>1. \A i \in 1..Len(got) : got[i] = <<reg'[i], rcvd[i]>>
        BY <1>0, <2>3, <3>2 DEF PairedInOrder
      <4>2. got' = Append(got, <<reg'[Len(got) + 1], rcvd[Len(got) + 1]>>)
        BY <2>3, <3>1, <3>2, <3>3
      <4> QED
        BY <1>0, <2>3, <3>2, <3>3, <4>1, <4>2, NextPair
    <3> QED
      BY <1>0, <2>2, <2>3, <3>1, <3>2, <3>3, <3>4, <3>5 DEF PairedInOrder
  <2> QED
    BY <2>4, <2>5
\* A frame arrives.
<1>3. ASSUME OnMessage, cb PROVE PairedInOrder'
  <2> DEFINE f == reply[arrived + 1]
  <2>1. f \in Frames
    <3>1. reply \in Seq(Frames) /\ arrived \in Nat /\ arrived < Len(reply)
      BY <1>3, ConstantsAssumption DEF OnMessage, TypeInv, TypeOK, PeerOK
    <3> QED
      BY <3>1
  <2>2. rcvd' = Append(rcvd, f) /\ reg' = reg
    BY <1>3 DEF OnMessage
  <2> HIDE DEF f
  <2>3. /\ rcvd' \in Seq(Frames) /\ Len(rcvd') = Len(rcvd) + 1
        /\ rcvd'[Len(rcvd) + 1] = f /\ \A i \in 1..Len(rcvd) : rcvd'[i] = rcvd[i]
    BY <1>0, <2>1, <2>2
  <2>4. CASE func_queue_ = <<>>
    <3>1. data_queue_' = Append(data_queue_, f) /\ UNCHANGED <<func_queue_, got>>
      BY <1>3, <2>4 DEF OnMessage, f
    <3>2. IsRest(data_queue_', rcvd', Len(got))
      BY <1>0, <2>1, <2>2, <3>1, PushRest DEF PairedInOrder
    <3>3. IsRest(func_queue_', reg', Len(got'))
      BY <2>2, <3>1 DEF PairedInOrder
    <3>4. \A i \in 1..Len(got) : got[i] = <<reg[i], rcvd'[i]>>
      BY <1>0, <2>3 DEF PairedInOrder
    <3> QED
      BY <1>0, <2>2, <2>3, <2>4, <3>1, <3>2, <3>3, <3>4 DEF PairedInOrder
  <2>5. CASE func_queue_ # <<>>
    <3>1. /\ got' = Append(got, <<Head(func_queue_), f>>)
          /\ func_queue_' = Tail(func_queue_) /\ data_queue_' = data_queue_
      BY <1>3, <2>5 DEF OnMessage, Receive, f
    <3>2. data_queue_ = <<>> /\ Len(got) = Len(rcvd)
      BY <1>0, <2>5 DEF PairedInOrder, IsRest
    <3>3. /\ Len(got) + 1 <= Len(reg) /\ Head(func_queue_) = reg[Len(got) + 1]
          /\ IsRest(func_queue_', reg, Len(got) + 1)
      BY <1>0, <2>5, <3>1, PopRest DEF PairedInOrder
    <3>4. IsRest(data_queue_', rcvd', Len(got) + 1)
      BY <1>0, <2>1, <2>2, <3>1, <3>2, EmptyRest DEF PairedInOrder
    <3>5. Len(got') = Len(got) + 1 /\ \A i \in 1..Len(got') : got'[i] = <<reg[i], rcvd'[i]>>
      <4>1. \A i \in 1..Len(got) : got[i] = <<reg[i], rcvd'[i]>>
        BY <1>0, <2>3, <3>2 DEF PairedInOrder
      <4>2. got' = Append(got, <<reg[Len(got) + 1], rcvd'[Len(got) + 1]>>)
        BY <2>3, <3>1, <3>2, <3>3
      <4> QED
        BY <1>0, <2>3, <3>2, <3>3, <4>1, <4>2, NextPair
    <3> QED
      BY <1>0, <2>2, <2>3, <3>1, <3>2, <3>3, <3>4, <3>5 DEF PairedInOrder
  <2> QED
    BY <2>4, <2>5
<1>4. CASE OnMessage /\ ~cb
  <2> QED
    BY <1>1, <1>4 DEF OnMessage
<1> QED
  BY <1>1, <1>2, <1>3, <1>4, OnlyTwoTouchQueues

\* Frames and receives meet first in, first out: receive i gets frame i.  The
\* two queues of the code are the part of it that is not inductive by itself;
\* with the types it is.
THEOREM PairingInOrder == Spec => []PairedInOrder
<1>1. Init => TypeInv /\ PairedInOrder
  <2>1. Init => PairedInOrder
    BY DEF Init, PairedInOrder, IsRest
  <2> QED
    BY <2>1, TypeInvInit
<1>2. TypeInv /\ PairedInOrder /\ [Next]_vars => (TypeInv /\ PairedInOrder)'
  BY TypeInvNext, PairedNext
<1> QED
  BY <1>1, <1>2, PTL DEF Spec

LEMMA GotIsPairs == TypeInv /\ PairedInOrder => got = Pairing!Pairs(reg, rcvd)
<1> SUFFICES ASSUME TypeInv, PairedInOrder PROVE got = Pairing!Pairs(reg, rcvd)
  OBVIOUS
<1>1. got \in Seq(Recvs \X Frames) /\ reg \in Seq(Recvs) /\ rcvd \in Seq(Frames)
  BY DEF TypeInv, TypeOK, QueuesOK
<1>2. Len(got) = IF Len(reg) <= Len(rcvd) THEN Len(reg) ELSE Len(rcvd)
  <2>1. CASE data_queue_ = <<>>
    BY <1>1, <2>1 DEF PairedInOrder, IsRest
  <2>2. CASE func_queue_ = <<>>
    BY <1>1, <2>2 DEF PairedInOrder, IsRest
  <2> QED
    BY <2>1, <2>2 DEF PairedInOrder
<1>3. got = [i \in 1..Len(got) |-> got[i]]
  BY <1>1
<1>4. \A i \in 1..Len(got) : got[i] = <<reg[i], rcvd[i]>>
  BY DEF PairedInOrder
<1>5. got = [i \in 1..Len(got) |-> <<reg[i], rcvd[i]>>]
  BY <1>3, <1>4, Zenon
<1> QED
  BY <1>2, <1>5 DEF Pairing!Pairs

\* A receive and a frame are paired at the step in which the second of the two comes,
\* and in no other step.
LEMMA PairingStep ==
  ASSUME TypeInv, PairedInOrder, [Next]_vars, (TypeInv /\ PairedInOrder)'
  PROVE  [Pairing!Next]_<<reg, rcvd, got>>
<1>1. got' = Pairing!Pairs(reg', rcvd')
  <2>1. (TypeInv /\ PairedInOrder)' => (got = Pairing!Pairs(reg, rcvd))'
    BY GotIsPairs, PTL
  <2> QED
    BY <2>1 DEF Pairing!Pairs
<1>2. CASE UNCHANGED queueVars
  BY <1>2 DEF queueVars
<1>3. ASSUME NEW t \in Threads, WaitForRecv(t) PROVE Pairing!Next
  <2>1. <<op[t], Head(todo[t])>> \in Recvs
    BY <1>3 DEF TypeInv, TypeOK, ThreadsOK, LifeInv, InPerformOp, WaitForRecv, Recvs
  <2>2. reg' = Append(reg, <<op[t], Head(todo[t])>>) /\ rcvd' = rcvd
    BY <1>3 DEF WaitForRecv
  <2> QED
    BY <1>1, <2>1, <2>2 DEF Pairing!Next, Pairing!Register
<1>4. CASE OnMessage /\ cb
  <2>1. reply \in Seq(Frames) /\ arrived \in Nat /\ arrived < Len(reply)
    BY <1>4, ConstantsAssumption DEF OnMessage, TypeInv, TypeOK, PeerOK
  <2>2. reply[arrived + 1] \in Frames
    BY <2>1
  <2>3. rcvd' = Append(rcvd, reply[arrived + 1]) /\ reg' = reg
    BY <1>4 DEF OnMessage
  <2> QED
    BY <1>1, <2>2, <2>3 DEF Pairing!Next, Pairing!Arrive
<1>5. CASE OnMessage /\ ~cb
  BY <1>5 DEF OnMessage, queueVars
<1> QED
  BY <1>2, <1>3, <1>4, <1>5, OnlyTwoTouchQueues

\* The stream implements RecvPairing.
THEOREM RefinesRecvPairing == Spec => ImplementsRecvPairing
<1> DEFINE Inv == TypeInv /\ PairedInOrder
<1>1. Init => Inv /\ Pairing!Init
  <2>1. Init => PairedInOrder /\ Pairing!Init
    BY DEF Init, PairedInOrder, IsRest, Pairing!Init
  <2> QED
    BY <2>1, TypeInvInit
<1>2. Inv /\ [Next]_vars => Inv'
  BY TypeInvNext, PairedNext
<1>3. Inv /\ Inv' /\ [Next]_vars => [Pairing!Next]_<<reg, rcvd, got>>
  BY PairingStep
<1> QED
  BY <1>1, <1>2, <1>3, PTL DEF Spec, ImplementsRecvPairing, Pairing!Spec

--------------------------------------------------------------------------------
(******************************************************************************)
(* How often a batch is performed.                                            *)
(******************************************************************************)

\* The labels of PerformOp at which the batch may still be kept or performed.
Undecided == {"perform", "create", "init", "check", "pend", "run"}

AppRan(o) == \E i \in DOMAIN ran[o] : ran[o][i] = "app"

\* Batch o is out of the callbacks' reach.
OnlyApp(o) == pending_op_ # o /\ op["ioc"] # o /\ op["sig"] # o

\* A batch that was not issued, or that the issuing thread has not decided on, or
\* that the issuing thread performed, is out of the callbacks' reach; and the
\* first two were not performed.
OnceInv ==
    \A o \in Ops :
        /\ o \notin issued => OnlyApp(o) /\ op["app"] # o /\ ran[o] = <<>>
        /\ op["app"] = o /\ pc["app"] \in Undecided => OnlyApp(o) /\ ran[o] = <<>>
        /\ AppRan(o) => OnlyApp(o) /\ Len(ran[o]) = 1

LEMMA OnceInit == Init => OnceInv
<1> SUFFICES ASSUME Init, NEW o \in Ops
             PROVE  OnlyApp(o) /\ op["app"] # o /\ ran[o] = <<>> /\ ~AppRan(o)
  BY DEF OnceInv
<1>1. ran[o] = <<>>
  BY DEF Init
<1>2. ~AppRan(o)
  BY <1>1 DEF AppRan
<1>3. OnlyApp(o) /\ op["app"] # o
  BY ConstantsAssumption DEF Init, OnlyApp, Threads
<1> QED
  BY <1>1, <1>2, <1>3

\* Steps that perform no batch, take none from pending_op_ and issue none.
LEMMA OnceQuiet ==
  ASSUME TypeInv, OnceInv, UNCHANGED <<op, pending_op_, issued, ran>>,
         pc'["app"] \in Undecided => pc["app"] \in Undecided
  PROVE  OnceInv'
  BY DEF OnceInv, OnlyApp, AppRan

LEMMA OnceNext == TypeInv /\ OnceInv /\ [Next]_vars => OnceInv'
<1> SUFFICES ASSUME TypeInv, OnceInv, [Next]_vars PROVE OnceInv'
  OBVIOUS
<1> USE DEF threadVars, channelVars, queueVars, closureVars, lifeVars, peerVars, batchVars
<1>0. /\ pc \in [Threads -> Labels] /\ op \in [Threads -> Ops \cup {Null}]
      /\ ran \in [Ops -> Seq(Threads)] /\ Null \notin Ops
      /\ "app" \in Threads /\ "ioc" \in Threads /\ "sig" \in Threads
  BY ConstantsAssumption DEF TypeInv, TypeOK, ThreadsOK, BatchesOK, Threads
<1>1. CASE InitStream
  BY <1>0, <1>1, OnceQuiet DEF InitStream, Goto, Undecided
<1>2. CASE AddOnReady
  BY <1>0, <1>2, OnceQuiet DEF AddOnReady, Goto, Undecided
<1>3. CASE ReleaseCall
  BY <1>0, <1>3, OnceQuiet DEF ReleaseCall
<1>4. ASSUME NEW o \in Ops, OnDataChannel(o) PROVE OnceInv'
  <2>1. issued = {} /\ op["app"] = Null /\ pc["app"] = "idle"
    BY <1>0, <1>4 DEF OnDataChannel, TypeInv, LifeInv
  <2> QED
    BY <1>0, <1>4, <2>1 DEF OnDataChannel, Goto, OnceInv, OnlyApp, AppRan, Undecided
<1>5. ASSUME NEW o \in Ops, PerformStreamOp(o) PROVE OnceInv'
  BY <1>0, <1>5 DEF PerformStreamOp, Goto, OnceInv, OnlyApp, AppRan, Undecided
<1>6. ASSUME NEW t \in Threads, PerformOpStep(t) PROVE OnceInv'
  <2>1. CASE PerformOp(t)
    BY <1>0, <1>6, <2>1, OnceQuiet DEF PerformOp, Goto, Undecided
  <2>2. CASE CreateDataChannel(t)
    BY <1>0, <1>6, <2>2, OnceQuiet DEF CreateDataChannel, Goto, Undecided
  <2>3. CASE InitDataChannel(t)
    BY <1>0, <1>6, <2>3, OnceQuiet DEF InitDataChannel, Goto, Undecided
  <2>4. CASE CheckOpen(t)
    BY <1>0, <1>6, <2>4, OnceQuiet DEF CheckOpen, Goto, Undecided
  <2>5. CASE PendOp(t)
    <3>1. pc[t] = "pend" /\ pc' = [pc EXCEPT ![t] = "ret"] /\ UNCHANGED <<op, issued, ran>>
      BY <2>5 DEF PendOp, Goto
    <3>2. op[t] \in Ops
      BY <1>6, <3>1 DEF TypeInv, LifeInv, InPerformOp
    <3>3. pending_op_' = pending_op_ \/ pending_op_' = op[t]
      BY <2>5 DEF PendOp
    <3>4. pc'["app"] \in Undecided => pc["app"] \in Undecided /\ t # "app"
      BY <1>0, <1>6, <3>1 DEF Undecided
    <3>5. t \in {"app", "ioc", "sig"}
      BY <1>6 DEF Threads
    <3>6. \A o \in Ops : OnlyApp(o) /\ op["app"] # o => OnlyApp(o)'
      BY <3>1, <3>3, <3>5 DEF OnlyApp
    <3>7. \A o \in Ops : OnlyApp(o) /\ t # "app" => OnlyApp(o)'
      BY <3>1, <3>3, <3>5 DEF OnlyApp
    <3>8. t = "app" => \A o \in Ops : AppRan(o) => op["app"] # o
      BY <1>0, <3>1, <3>2 DEF OnceInv, AppRan, Undecided
    <3> QED
      BY <3>1, <3>4, <3>6, <3>7, <3>8 DEF OnceInv, AppRan
  <2>6. CASE RunOp(t)
    <3>1. /\ pc[t] = "run" /\ pc' = [pc EXCEPT ![t] = "send"]
          /\ UNCHANGED <<op, issued>> /\ pending_op_' = Null
          /\ ran' = [ran EXCEPT ![op[t]] = Append(@, t)]
      BY <2>6 DEF RunOp, Goto
    <3>2. op[t] \in Ops
      BY <1>6, <3>1 DEF TypeInv, LifeInv, InPerformOp
    <3>3. t \in {"app", "ioc", "sig"}
      BY <1>6 DEF Threads
    <3>4. \A o \in Ops : OnlyApp(o) => OnlyApp(o)'
      BY <1>0, <3>1 DEF OnlyApp
    <3>5. \A o \in Ops : o # op[t] => ran'[o] = ran[o]
      BY <1>0, <3>1
    <3>6. pc'["app"] \in Undecided => pc["app"] \in Undecided /\ t # "app"
      BY <1>0, <1>6, <3>1 DEF Undecided
    <3>7. t = "app" => ran[op[t]] = <<>> /\ OnlyApp(op[t])
      BY <3>1, <3>2 DEF OnceInv, Undecided
    <3>8. t = "app" => Len(ran'[op[t]]) = 1
      <4>1. ran'[op[t]] = Append(ran[op[t]], t)
        BY <1>0, <3>1, <3>2
      <4>2. Len(Append(<<>>, t)) = 1
        OBVIOUS
      <4> QED
        BY <3>7, <4>1, <4>2
    <3>9. t # "app" => ~OnlyApp(op[t])
      BY <3>3 DEF OnlyApp
    <3>10. t # "app" => ~AppRan(op[t])'
      <4> SUFFICES ASSUME t # "app" PROVE ~AppRan(op[t])'
        OBVIOUS
      <4>1. ~AppRan(op[t]) /\ ran[op[t]] \in Seq(Threads)
        BY <1>0, <3>2, <3>9 DEF OnceInv
      <4>2. ran'[op[t]] = Append(ran[op[t]], t)
        BY <1>0, <3>1, <3>2
      <4>3. \A i \in DOMAIN ran'[op[t]] : ran'[op[t]][i] # "app"
        BY <1>6, <4>1, <4>2 DEF AppRan
      <4> QED
        BY <3>1, <4>3 DEF AppRan
    <3>11. ASSUME NEW o \in Ops
           PROVE  /\ o \notin issued' => OnlyApp(o)' /\ op'["app"] # o /\ ran'[o] = <<>>
                  /\ op'["app"] = o /\ pc'["app"] \in Undecided => OnlyApp(o)' /\ ran'[o] = <<>>
                  /\ AppRan(o)' => OnlyApp(o)' /\ Len(ran'[o]) = 1
      <4>1. CASE o # op[t]
        BY <3>1, <3>4, <3>5, <3>6, <4>1 DEF OnceInv, AppRan
      <4>2. CASE o = op[t] /\ t = "app"
        BY <3>1, <3>4, <3>6, <3>7, <3>8, <4>2 DEF OnceInv
      <4>3. CASE o = op[t] /\ t # "app"
        BY <3>1, <3>6, <3>9, <3>10, <4>3 DEF OnceInv
      <4> QED
        BY <4>1, <4>2, <4>3
    <3> QED
      BY <3>11 DEF OnceInv
  <2>7. CASE SendFrame(t) \/ PullFails(t)
    BY <1>0, <2>7, OnceQuiet DEF SendFrame, PullFails
  <2>8. CASE SendsDone(t)
    BY <1>0, <1>6, <2>8, OnceQuiet DEF SendsDone, Goto, Undecided
  <2>9. CASE WaitForRecv(t)
    BY <1>0, <1>6, <2>9, OnceQuiet DEF WaitForRecv, Receive, Goto, Undecided
  <2>10. CASE RecvsDone(t)
    BY <1>0, <1>6, <2>10, OnceQuiet DEF RecvsDone, Goto, Undecided
  <2>11. CASE FlushExecCtx(t)
    BY <1>0, <1>6, <2>11 DEF FlushExecCtx, Goto, OnceInv, OnlyApp, AppRan, Undecided
  <2> QED
    BY <1>6, <2>1, <2>2, <2>3, <2>4, <2>5, <2>6, <2>7, <2>8, <2>9, <2>10, <2>11
    DEF PerformOpStep
<1>7. CASE BecomeReady
  BY <1>0, <1>7, OnceQuiet DEF BecomeReady, Goto
<1>8. CASE OnReady
  BY <1>0, <1>8 DEF OnReady, Goto, OnceInv, OnlyApp, AppRan
<1>9. CASE ClearReadyWaited
  BY <1>0, <1>9 DEF ClearReadyWaited, Goto, OnceInv, OnlyApp, AppRan
<1>10. CASE ChannelOpens \/ ChannelCloses
  BY <1>0, <1>10, OnceQuiet DEF ChannelOpens, ChannelCloses, Goto
<1>11. CASE OnStateChange
  BY <1>0, <1>11 DEF OnStateChange, Goto, OnceInv, OnlyApp, AppRan
<1>12. CASE OnMessage
  BY <1>0, <1>12, OnceQuiet DEF OnMessage, Receive, Goto, Undecided
<1>13. CASE UNCHANGED vars
  BY <1>13, OnceQuiet DEF vars
<1>14. CASE IocEnds
  BY <1>0, <1>14, OnceQuiet DEF IocEnds, Goto, Undecided
<1> QED
  BY <1>1, <1>2, <1>3, <1>4, <1>5, <1>6, <1>7, <1>8, <1>9, <1>10, <1>11, <1>12,
     <1>13, <1>14 DEF Next

\* Whatever the callbacks do meanwhile, a batch performed by the thread that
\* issued it is performed once.
THEOREM IssuedOnce == Spec => []IssuerRunsOnce
<1>1. Init => TypeInv /\ OnceInv
  BY TypeInvInit, OnceInit
<1>2. TypeInv /\ OnceInv /\ [Next]_vars => (TypeInv /\ OnceInv)'
  BY TypeInvNext, OnceNext
<1>3. OnceInv => IssuerRunsOnce
  BY DEF OnceInv, AppRan, IssuerRunsOnce
<1> QED
  BY <1>1, <1>2, <1>3, PTL DEF Spec

--------------------------------------------------------------------------------
(******************************************************************************)
(* Cancelled calls.                                                           *)
(******************************************************************************)

\* Nobody schedules the on_complete of a cancel, so core does not see it complete.
CancelInv ==
    \A o \in Ops : Batch[o].cancel =>
        /\ <<o, "on_complete">> \notin done
        /\ \A t \in Threads : <<o, "on_complete">> \notin execq[t]
        /\ o \in issued => held

LEMMA CancelInit == Init => CancelInv
  BY DEF Init, CancelInv

\* What a step may do without completing a cancel or releasing its call.
LEMMA CancelQuiet ==
  ASSUME TypeInv, CancelInv, UNCHANGED <<issued, held>>,
         \A t \in Threads : \A c \in execq'[t] :
            c \in execq[t] \/ c[2] # "on_complete" \/ ~Batch[c[1]].cancel,
         \A c \in done' : c \in done \/ \E t \in Threads : c \in execq[t]
  PROVE  CancelInv'
  BY DEF CancelInv

LEMMA CancelNext == TypeInv /\ CancelInv /\ [Next]_vars => CancelInv'
<1> SUFFICES ASSUME TypeInv, CancelInv, [Next]_vars PROVE CancelInv'
  OBVIOUS
<1> USE DEF threadVars, channelVars, queueVars, closureVars, lifeVars, peerVars, batchVars
<1>0. /\ execq \in [Threads -> SUBSET Closures] /\ "sig" \in Threads /\ "ioc" \in Threads
      /\ \A o \in Ops : Batch[o].cancel => <<o, "on_complete">> \in Pieces(o)
  BY DEF TypeInv, TypeOK, ClosuresOK, Threads, Pieces
<1>1. ASSUME UNCHANGED <<execq, done, issued, held>> PROVE CancelInv'
  BY <1>1 DEF CancelInv
<1>2. CASE InitStream
  <2>1. issued = {}
    BY <1>2 DEF InitStream, TypeInv, LifeInv
  <2> QED
    BY <1>2, <2>1 DEF InitStream, CancelInv
<1>3. CASE ReleaseCall
  BY <1>0, <1>3 DEF ReleaseCall, Complete, CancelInv
<1>4. ASSUME NEW o \in Ops, OnDataChannel(o) \/ PerformStreamOp(o) PROVE CancelInv'
  <2>1. UNCHANGED <<execq, done>> /\ held'
    BY <1>4 DEF OnDataChannel, PerformStreamOp
  <2> QED
    BY <2>1 DEF CancelInv
<1>5. ASSUME NEW t \in Threads, SendsDone(t) PROVE CancelInv'
  <2>1. op[t] \in Ops
    BY <1>5 DEF SendsDone, TypeInv, LifeInv, InPerformOp
  <2>2. execq' = execq \/
        (~Batch[op[t]].cancel /\ execq' = [execq EXCEPT ![t] = @ \cup {<<op[t], "on_complete">>}])
    BY <1>5, <2>1, CancelAssumption DEF SendsDone
  <2> QED
    BY <1>0, <1>5, <2>1, <2>2, CancelQuiet DEF SendsDone
\* A receive schedules its own closure.
<1>6. ASSUME NEW t \in Threads, NEW r \in Recvs,
             execq' = execq \/ execq' = [execq EXCEPT ![t] = @ \cup {r}],
             UNCHANGED <<done, issued, held>>
      PROVE  CancelInv'
  <2>1. r[2] # "on_complete"
    BY DEF Recvs, Frames
  <2> QED
    BY <1>0, <1>6, <2>1, CancelQuiet
<1>7. ASSUME NEW t \in Threads, WaitForRecv(t) PROVE CancelInv'
  <2>1. <<op[t], Head(todo[t])>> \in Recvs
    BY <1>7 DEF TypeInv, TypeOK, ThreadsOK, LifeInv, InPerformOp, WaitForRecv, Recvs
  <2> QED
    BY <1>6, <1>7, <2>1 DEF WaitForRecv, Receive
<1>8. CASE OnMessage
  <2>1. func_queue_ # <<>> => Head(func_queue_) \in Recvs
    BY DEF TypeInv, TypeOK, QueuesOK
  <2>2. UNCHANGED <<done, issued, held>>
    BY <1>8 DEF OnMessage
  <2>3. execq' = execq \/ (func_queue_ # <<>> /\
             execq' = [execq EXCEPT !["sig"] = @ \cup {Head(func_queue_)}])
    BY <1>8 DEF OnMessage, Receive
  <2> QED
    BY <1>0, <1>1, <1>6, <2>1, <2>2, <2>3
<1>9. ASSUME NEW t \in Threads, FlushExecCtx(t) PROVE CancelInv'
  BY <1>0, <1>9, CancelQuiet DEF FlushExecCtx
<1>10. CASE IocEnds
  BY <1>0, <1>10, CancelQuiet DEF IocEnds
<1>11. ASSUME NEW t \in Threads, PerformOpStep(t), ~SendsDone(t), ~WaitForRecv(t), ~FlushExecCtx(t)
       PROVE  CancelInv'
  BY <1>1, <1>11 DEF PerformOpStep, PerformOp, CreateDataChannel, InitDataChannel, CheckOpen,
     PendOp, RunOp, SendFrame, PullFails, RecvsDone
<1>12. CASE AddOnReady \/ BecomeReady \/ OnReady \/ ClearReadyWaited \/ ChannelOpens
            \/ ChannelCloses \/ OnStateChange
  BY <1>1, <1>12 DEF AddOnReady, BecomeReady, OnReady, ClearReadyWaited, ChannelOpens,
     ChannelCloses, OnStateChange
<1>13. CASE UNCHANGED vars
  BY <1>1, <1>13 DEF vars
<1> QED
  BY <1>2, <1>3, <1>4, <1>5, <1>7, <1>8, <1>9, <1>10, <1>11, <1>12, <1>13 DEF Next

\* Once core has cancelled a call it never gets the reference of the call back.
THEOREM CancelHangs == Spec => []CancelIsNeverReleased
<1>1. Init => TypeInv /\ CancelInv
  BY TypeInvInit, CancelInit
<1>2. TypeInv /\ CancelInv /\ [Next]_vars => (TypeInv /\ CancelInv)'
  BY TypeInvNext, CancelNext
<1>3. TypeInv /\ CancelInv => CancelIsNeverReleased
  BY DEF CancelInv, CancelIsNeverReleased, TypeInv, TypeOK, BatchesOK
<1> QED
  BY <1>1, <1>2, <1>3, PTL DEF Spec

--------------------------------------------------------------------------------
(******************************************************************************)
(* Batches on a server.                                                       *)
(******************************************************************************)

\* Thread t has taken batch o and may still perform it.
About(t, o) == op[t] = o /\ pc[t] \in Undecided

\* The stream of a server waits for no readiness, so the io_context thread performs
\* nothing: only the signaling thread takes batches from pending_op_.
OnlySigTakes ==
    /\ ~waited /\ pc["app"] \notin {"ctor", "addready"}
    /\ pc["ioc"] \notin Undecided \cup {"ctor"}

\* A batch that was kept, or that a thread may still perform, was not performed; and
\* no two threads are about to perform the same one.
ServerBatchInv(o) ==
    /\ o \notin issued =>
         ran[o] = <<>> /\ pending_op_ # o /\ op["app"] # o /\ op["sig"] # o
    /\ pending_op_ = o => ran[o] = <<>> /\ ~About("app", o)
    /\ About("app", o) \/ About("sig", o) => ran[o] = <<>>
    /\ ~About("app", o) \/ ~About("sig", o)
    /\ Len(ran[o]) <= 1

ServerInv == ~IsClient => OnlySigTakes /\ \A o \in Ops : ServerBatchInv(o)

LEMMA ServerInit == Init => ServerInv
<1> SUFFICES ASSUME Init PROVE ServerInv
  OBVIOUS
<1>1. OnlySigTakes
  BY DEF Init, OnlySigTakes, Threads, Undecided
<1>2. ASSUME NEW o \in Ops PROVE ServerBatchInv(o)
  <2>1. ran[o] = <<>> /\ Len(ran[o]) <= 1
    BY DEF Init
  <2>2. pending_op_ # o /\ op["app"] # o /\ op["sig"] # o
    BY ConstantsAssumption DEF Init, Threads
  <2> QED
    BY <2>1, <2>2 DEF ServerBatchInv, About
<1> QED
  BY <1>1, <1>2 DEF ServerInv

\* Steps that perform no batch, take none from pending_op_ and issue none.
LEMMA ServerQuiet ==
  ASSUME ServerInv, UNCHANGED <<op, pending_op_, issued, ran>>,
         ~IsClient /\ OnlySigTakes => OnlySigTakes',
         \A t \in {"app", "sig"} : pc'[t] \in Undecided => pc[t] \in Undecided
  PROVE  ServerInv'
  BY DEF ServerInv, ServerBatchInv, About

LEMMA ServerNext == TypeInv /\ ServerInv /\ [Next]_vars => ServerInv'
<1> SUFFICES ASSUME TypeInv, ServerInv, [Next]_vars, ~IsClient PROVE ServerInv'
  BY DEF ServerInv
<1> USE DEF threadVars, channelVars, queueVars, closureVars, lifeVars, peerVars, batchVars
<1>0. /\ pc \in [Threads -> Labels] /\ op \in [Threads -> Ops \cup {Null}]
      /\ ran \in [Ops -> Seq(Threads)] /\ Null \notin Ops
      /\ "app" \in Threads /\ "ioc" \in Threads /\ "sig" \in Threads
      /\ OnlySigTakes /\ \A o \in Ops : ServerBatchInv(o)
  BY ConstantsAssumption DEF TypeInv, TypeOK, ThreadsOK, BatchesOK, Threads, ServerInv
<1>1. CASE InitStream \/ AddOnReady \/ ReleaseCall
  BY <1>0, <1>1, ServerQuiet DEF InitStream, AddOnReady, ReleaseCall, Goto, OnlySigTakes
<1>2. ASSUME NEW o \in Ops, OnDataChannel(o) \/ PerformStreamOp(o) PROVE ServerInv'
  <2>1. PICK t \in {"app", "sig"} :
           /\ pc' = [pc EXCEPT ![t] = "perform"] /\ op' = [op EXCEPT ![t] = o]
           /\ issued' = issued \cup {o} /\ o \notin issued
           /\ UNCHANGED <<waited, pending_op_, ran>>
    BY <1>2 DEF OnDataChannel, PerformStreamOp, Goto, TypeInv, LifeInv
  <2>2. OnlySigTakes'
    BY <1>0, <2>1 DEF OnlySigTakes
  <2>3. ASSUME NEW b \in Ops PROVE ServerBatchInv(b)'
    BY <1>0, <2>1 DEF ServerBatchInv, About, Undecided
  <2> QED
    BY <2>2, <2>3 DEF ServerInv
<1>3. ASSUME NEW t \in Threads, PerformOpStep(t) PROVE ServerInv'
  <2>0. t \in {"app", "ioc", "sig"}
    BY <1>3 DEF Threads
  <2>1. CASE PerformOp(t)
    BY <1>0, <2>0, <2>1, ServerQuiet DEF PerformOp, Goto, Undecided, OnlySigTakes
  <2>2. CASE CreateDataChannel(t)
    BY <1>0, <2>0, <2>2, ServerQuiet DEF CreateDataChannel, Goto, Undecided, OnlySigTakes
  <2>3. CASE InitDataChannel(t)
    BY <1>0, <2>0, <2>3, ServerQuiet DEF InitDataChannel, Goto, Undecided, OnlySigTakes
  <2>4. CASE CheckOpen(t)
    BY <1>0, <2>0, <2>4, ServerQuiet DEF CheckOpen, Goto, Undecided, OnlySigTakes
  <2>5. CASE PendOp(t)
    <3>1. pc[t] = "pend" /\ pc' = [pc EXCEPT ![t] = "ret"] /\ UNCHANGED <<op, issued, ran, waited>>
      BY <2>5 DEF PendOp, Goto
    <3>2. pending_op_' = pending_op_ \/ pending_op_' = op[t]
      BY <2>5 DEF PendOp
    <3>3. t \in {"app", "sig"} /\ About(t, op[t])
      BY <1>0, <2>0, <3>1 DEF OnlySigTakes, Undecided, About
    <3>4. OnlySigTakes'
      BY <1>0, <3>1, <3>3 DEF OnlySigTakes
    <3>5. ASSUME NEW o \in Ops PROVE ServerBatchInv(o)'
      BY <1>0, <3>1, <3>2, <3>3 DEF ServerBatchInv, About, Undecided
    <3> QED
      BY <3>4, <3>5 DEF ServerInv
  <2>6. CASE RunOp(t)
    <3>1. /\ pc[t] = "run" /\ pc' = [pc EXCEPT ![t] = "send"]
          /\ UNCHANGED <<op, issued, waited>> /\ pending_op_' = Null
          /\ ran' = [ran EXCEPT ![op[t]] = Append(@, t)]
      BY <2>6 DEF RunOp, Goto
    <3>2. op[t] \in Ops
      BY <1>3, <3>1 DEF TypeInv, LifeInv, InPerformOp
    <3>3. t \in {"app", "sig"} /\ About(t, op[t])
      BY <1>0, <2>0, <3>1 DEF OnlySigTakes, Undecided, About
    <3>4. OnlySigTakes'
      BY <1>0, <3>1, <3>3 DEF OnlySigTakes
    <3>5. ASSUME NEW o \in Ops, o # op[t] PROVE ServerBatchInv(o)'
      <4>1. ran'[o] = ran[o]
        BY <1>0, <3>1, <3>5
      <4> QED
        BY <1>0, <3>1, <3>3, <3>5, <4>1 DEF ServerBatchInv, About, Undecided
    <3>6. ServerBatchInv(op[t])'
      <4>1. ran[op[t]] = <<>> /\ op[t] \in issued
        BY <1>0, <3>2, <3>3 DEF ServerBatchInv
      <4>2. Len(ran'[op[t]]) = 1
        <5>1. ran'[op[t]] = Append(<<>>, t)
          BY <1>0, <3>1, <3>2, <4>1
        <5>2. Len(Append(<<>>, t)) = 1
          OBVIOUS
        <5> QED
          BY <5>1, <5>2
      <4>3. Len(ran'[op[t]]) <= 1
        BY <4>2
      <4>4. ~About("app", op[t])' /\ ~About("sig", op[t])'
        BY <1>0, <3>1, <3>2, <3>3 DEF ServerBatchInv, About, Undecided
      <4> QED
        BY <1>0, <3>1, <3>2, <4>1, <4>3, <4>4 DEF ServerBatchInv
    <3> QED
      BY <3>1, <3>4, <3>5, <3>6 DEF ServerInv, ServerBatchInv, About
  <2>7. CASE SendFrame(t) \/ PullFails(t)
    BY <1>0, <2>7, ServerQuiet DEF SendFrame, PullFails, OnlySigTakes
  <2>8. CASE SendsDone(t) \/ RecvsDone(t)
    BY <1>0, <2>0, <2>8, ServerQuiet DEF SendsDone, RecvsDone, Goto, Undecided, OnlySigTakes
  <2>9. CASE WaitForRecv(t)
    BY <1>0, <2>0, <2>9, ServerQuiet DEF WaitForRecv, Receive, Goto, Undecided, OnlySigTakes
  <2>10. CASE FlushExecCtx(t)
    <3>1. /\ pc' = [pc EXCEPT ![t] = "idle"] /\ op' = [op EXCEPT ![t] = Null]
          /\ UNCHANGED <<issued, ran, waited, pending_op_>>
      BY <2>10 DEF FlushExecCtx, Goto
    <3>2. OnlySigTakes'
      BY <1>0, <2>0, <3>1 DEF OnlySigTakes, Undecided
    <3>3. ASSUME NEW o \in Ops PROVE ServerBatchInv(o)'
      BY <1>0, <2>0, <3>1 DEF ServerBatchInv, About, Undecided
    <3> QED
      BY <3>2, <3>3 DEF ServerInv
  <2> QED
    BY <1>3, <2>1, <2>2, <2>3, <2>4, <2>5, <2>6, <2>7, <2>8, <2>9, <2>10
    DEF PerformOpStep
<1>4. CASE BecomeReady \/ IocEnds
  BY <1>0, <1>4, ServerQuiet DEF BecomeReady, IocEnds, Goto, Undecided, OnlySigTakes
<1>5. CASE OnReady
  BY <1>0, <1>5, ServerQuiet DEF OnReady, Goto, Undecided, OnlySigTakes
<1>6. CASE ClearReadyWaited
  <2>1. /\ pc' = [pc EXCEPT !["ioc"] = "idle"] /\ op' = [op EXCEPT !["ioc"] = Null]
        /\ UNCHANGED <<issued, ran, pending_op_>> /\ ~waited'
    BY <1>6 DEF ClearReadyWaited, Goto
  <2> QED
    BY <1>0, <2>1 DEF ServerInv, ServerBatchInv, About, OnlySigTakes, Undecided
<1>7. CASE ChannelOpens \/ ChannelCloses
  BY <1>0, <1>7, ServerQuiet DEF ChannelOpens, ChannelCloses, Goto, Undecided, OnlySigTakes
<1>8. CASE OnStateChange
  <2>1. /\ pc["sig"] = "changed" /\ UNCHANGED <<issued, ran, pending_op_, waited>>
        /\ \/ /\ pending_op_ # Null /\ op' = [op EXCEPT !["sig"] = pending_op_]
              /\ pc' = [pc EXCEPT !["sig"] = "perform"]
           \/ pc' = [pc EXCEPT !["sig"] = "idle"] /\ op' = op
    BY <1>8 DEF OnStateChange, Goto
  <2>2. OnlySigTakes'
    BY <1>0, <2>1 DEF OnlySigTakes
  <2>3. ASSUME NEW o \in Ops PROVE ServerBatchInv(o)'
    BY <1>0, <2>1 DEF ServerBatchInv, About, Undecided
  <2> QED
    BY <2>2, <2>3 DEF ServerInv
<1>9. CASE OnMessage
  BY <1>0, <1>9, ServerQuiet DEF OnMessage, Receive, Goto, Undecided, OnlySigTakes
<1>10. CASE UNCHANGED vars
  BY <1>10, ServerQuiet DEF vars, OnlySigTakes
<1> QED
  BY <1>1, <1>2, <1>3, <1>4, <1>5, <1>6, <1>7, <1>8, <1>9, <1>10 DEF Next

\* A server performs each batch once, whichever thread issues or reruns it.
THEOREM ServerRunsOnce == Spec => []ServerPerformsOnce
<1>1. Init => TypeInv /\ ServerInv
  BY TypeInvInit, ServerInit
<1>2. TypeInv /\ ServerInv /\ [Next]_vars => (TypeInv /\ ServerInv)'
  BY TypeInvNext, ServerNext
<1>3. ServerInv => ServerPerformsOnce
  BY DEF ServerInv, ServerBatchInv, ServerPerformsOnce
<1> QED
  BY <1>1, <1>2, <1>3, PTL DEF Spec
================================================================================
