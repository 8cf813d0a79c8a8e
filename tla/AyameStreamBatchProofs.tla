------------------------ MODULE AyameStreamBatchProofs -------------------------
(******************************************************************************)
(* Theorems about what becomes of the batches of an AyameStream: which ones   *)
(* are left behind in pending_op_, which calls never end, and which frame     *)
(* each receive gets.                                                         *)
(******************************************************************************)
EXTENDS AyameStreamProofs

USE DEF StreamRefs, AfterPend, SchedulesOnComplete, Enqueue, Popped, Served, RerunsOnReady,
        RerunsOnOpen, SomeoneWaits

--------------------------------------------------------------------------------
(******************************************************************************)
(* A batch that is kept although the channel could be used.                   *)
(******************************************************************************)
At(labels) == pc["app"] \in labels \/ pc["ioc"] \in labels \/ pc["sig"] \in labels

\* A batch is kept and was not performed yet.
Kept == pending_op_ # Null /\ ran[pending_op_] = <<>>

\* The io_context thread enters the stream once ready_ is set.
IocInv == pc["ioc"] \notin {"idle", "ended", "terminated"} => ready_

\* The constructor of a client's stream, which the thread that makes the call runs
\* before core issues anything.
Ctor == {"ctor", "addready", "ctorinit"}
CtorInv ==
    /\ pc["app"] \in Ctor => issued = {}
    /\ pc["ioc"] \notin Ctor /\ pc["sig"] \notin Ctor

\* Without a channel only the first half of PerformOp is reached by the callbacks,
\* and the stream is a client's.
NoneInv ==
    dc = "none" =>
      /\ pc["sig"] \notin InPerformOp
      /\ pc["ioc"] \in InPerformOp => pc["ioc"] \in {"perform", "create"}
      /\ ~At({"init", "ctorinit"})
      /\ life # "none" => IsClient

\* Until OnReady has run, a stream without a channel is in ready_waited_.
LambdaInv ==
    life # "none" /\ dc = "none" /\ pc["app"] \notin {"ctor", "addready", "terminated"}
    /\ (~ready_ \/ pc["ioc"] = "onready")
      => waited

\* A channel that may open has its callbacks, or its creator is about to set them.
CallbackInv == dc = "connecting" => cb \/ At({"init", "ctorinit", "terminated"})

\* A thread that is about to keep its batch does so before the callback looks.
WindowInv ==
    ~raced =>
      /\ At({"pend"}) => dc # "open"
      /\ dc = "none" /\ ready_ /\ InWindow("app") => pc["ioc"] = "onready"

\* Somebody will look at the batch that is kept.
RerunInv ==
    ~raced /\ Kept =>
      /\ dc = "open" =>
            pc["sig"] = "changed" \/ At({"perform", "create", "init", "check", "run", "terminated"})
      /\ dc = "none" /\ ready_ =>
            (pc["ioc"] = "onready" /\ waited) \/ At({"perform", "create", "terminated"})

PlaceInv == IocInv /\ CtorInv /\ NoneInv /\ LambdaInv /\ CallbackInv
StrandInv == PlaceInv /\ WindowInv /\ RerunInv

LEMMA StrandInit == Init => StrandInv
<1> SUFFICES ASSUME Init PROVE StrandInv
  OBVIOUS
<1>1. pc["app"] = "idle" /\ pc["ioc"] = "idle" /\ pc["sig"] = "idle"
  BY DEF Init, Threads
<1>2. PlaceInv
  BY <1>1 DEF Init, PlaceInv, IocInv, CtorInv, Ctor, NoneInv, LambdaInv, CallbackInv, At,
            InPerformOp
<1>3. WindowInv /\ RerunInv
  BY <1>1 DEF Init, WindowInv, RerunInv, Kept, InWindow, At
<1> QED
  BY <1>2, <1>3 DEF StrandInv

LEMMA StrandNext == TypeInv /\ OnceInv /\ StrandInv /\ [Next]_vars => StrandInv'
<1> SUFFICES ASSUME TypeInv, OnceInv, StrandInv, [Next]_vars PROVE StrandInv'
  OBVIOUS
<1> USE DEF threadVars, channelVars, queueVars, closureVars, lifeVars, peerVars, batchVars
<1>0. /\ pc \in [Threads -> Labels] /\ op \in [Threads -> Ops \cup {Null}]
      /\ ran \in [Ops -> Seq(Threads)] /\ Null \notin Ops
      /\ Threads = {"app", "ioc", "sig"}
      /\ dc \in {"none", "connecting", "open", "closed"} /\ pending_op_ \in Ops \cup {Null}
      /\ IocInv /\ CtorInv /\ NoneInv /\ LambdaInv /\ CallbackInv /\ WindowInv /\ RerunInv
  BY ConstantsAssumption
  DEF TypeInv, TypeOK, ThreadsOK, ChannelOK, BatchesOK, Threads, StrandInv, PlaceInv
\* Before a batch is issued none is performed or kept.
<1>1. issued = {} => pending_op_ = Null /\ ~At(InPerformOp)
  BY <1>0 DEF OnceInv, OnlyApp, TypeInv, LifeInv, At
<1>2. Kept => life # "none" /\ pc["app"] \notin Ctor
  BY <1>0, <1>1 DEF Kept, TypeInv, LifeInv, CtorInv
<1>3. CASE InitStream
  <2>1. PlaceInv'
    BY <1>0, <1>1, <1>3 DEF InitStream, Goto, TypeInv, LifeInv, PlaceInv, IocInv,
       CtorInv, Ctor, NoneInv, LambdaInv, CallbackInv, At, InPerformOp
  <2>2. WindowInv'
    BY <1>0, <1>1, <1>3 DEF InitStream, Goto, TypeInv, LifeInv, WindowInv, InWindow, At,
       NoneInv, InPerformOp
  <2>3. RerunInv'
    BY <1>0, <1>1, <1>2, <1>3 DEF InitStream, Goto, TypeInv, LifeInv, RerunInv, Kept,
       At, WindowInv, CallbackInv, LambdaInv, CtorInv, Ctor
  <2> QED
    BY <2>1, <2>2, <2>3 DEF StrandInv
<1>4. CASE AddOnReady \/ ReleaseCall
  <2>1. PlaceInv'
    BY <1>0, <1>1, <1>4 DEF AddOnReady, ReleaseCall, Goto, TypeInv, LifeInv, PlaceInv,
       IocInv, CtorInv, Ctor, NoneInv, LambdaInv, CallbackInv, At, InPerformOp
  <2>2. WindowInv'
    BY <1>0, <1>1, <1>4 DEF AddOnReady, ReleaseCall, Goto, TypeInv, LifeInv, WindowInv,
       InWindow, At, NoneInv, InPerformOp
  <2>3. RerunInv'
    BY <1>0, <1>1, <1>2, <1>4 DEF AddOnReady, ReleaseCall, Goto, TypeInv, LifeInv,
       RerunInv, Kept, At, WindowInv, CallbackInv, LambdaInv, CtorInv, Ctor
  <2> QED
    BY <2>1, <2>2, <2>3 DEF StrandInv
<1>5. ASSUME NEW o \in Ops, OnDataChannel(o) PROVE StrandInv'
  <2>1. PlaceInv'
    BY <1>0, <1>1, <1>5 DEF OnDataChannel, Goto, TypeInv, LifeInv, PlaceInv, IocInv,
       CtorInv, Ctor, NoneInv, LambdaInv, CallbackInv, At, InPerformOp
  <2>2. WindowInv'
    BY <1>0, <1>1, <1>5 DEF OnDataChannel, Goto, TypeInv, LifeInv, WindowInv, InWindow,
       At, NoneInv, InPerformOp
  <2>3. RerunInv'
    BY <1>0, <1>1, <1>2, <1>5 DEF OnDataChannel, Goto, TypeInv, LifeInv, RerunInv, Kept,
       At, WindowInv, CallbackInv, LambdaInv, CtorInv, Ctor
  <2> QED
    BY <2>1, <2>2, <2>3 DEF StrandInv
<1>6. ASSUME NEW o \in Ops, PerformStreamOp(o) PROVE StrandInv'
  <2>1. PlaceInv'
    BY <1>0, <1>1, <1>6 DEF PerformStreamOp, Goto, TypeInv, LifeInv, PlaceInv, IocInv,
       CtorInv, Ctor, NoneInv, LambdaInv, CallbackInv, At, InPerformOp
  <2>2. WindowInv'
    BY <1>0, <1>1, <1>6 DEF PerformStreamOp, Goto, TypeInv, LifeInv, WindowInv,
       InWindow, At, NoneInv, InPerformOp
  <2>3. RerunInv'
    BY <1>0, <1>1, <1>2, <1>6 DEF PerformStreamOp, Goto, TypeInv, LifeInv, RerunInv,
       Kept, At, WindowInv, CallbackInv, LambdaInv, CtorInv, Ctor
  <2> QED
    BY <2>1, <2>2, <2>3 DEF StrandInv
<1>7. ASSUME NEW t \in Threads, PerformOp(t) PROVE StrandInv'
  <2>1. PlaceInv'
    BY <1>0, <1>1, <1>7 DEF PerformOp, Goto, PlaceInv, IocInv, CtorInv, Ctor, NoneInv,
       LambdaInv, CallbackInv, At, InPerformOp
  <2>2. WindowInv'
    BY <1>0, <1>1, <1>7 DEF PerformOp, Goto, WindowInv, InWindow, At, NoneInv,
       InPerformOp
  <2>3. RerunInv'
    BY <1>0, <1>1, <1>2, <1>7 DEF PerformOp, Goto, RerunInv, Kept, At, WindowInv,
       CallbackInv, LambdaInv, CtorInv, Ctor
  <2> QED
    BY <2>1, <2>2, <2>3 DEF StrandInv
<1>8. ASSUME NEW t \in Threads, CreateDataChannel(t) PROVE StrandInv'
  <2>1. PlaceInv'
    BY <1>0, <1>1, <1>8 DEF CreateDataChannel, Goto, SigFree, PlaceInv, IocInv, CtorInv,
       Ctor, NoneInv, LambdaInv, CallbackInv, At, InPerformOp
  <2>2. WindowInv'
    BY <1>0, <1>1, <1>8 DEF CreateDataChannel, Goto, SigFree, WindowInv, InWindow, At,
       NoneInv, InPerformOp
  <2>3. RerunInv'
    BY <1>0, <1>1, <1>2, <1>8 DEF CreateDataChannel, Goto, SigFree, RerunInv, Kept, At,
       WindowInv, CallbackInv, LambdaInv, CtorInv, Ctor
  <2> QED
    BY <2>1, <2>2, <2>3 DEF StrandInv
<1>9. ASSUME NEW t \in Threads, InitDataChannel(t) PROVE StrandInv'
  <2>1. PlaceInv'
    BY <1>0, <1>1, <1>9 DEF InitDataChannel, Goto, PlaceInv, IocInv, CtorInv, Ctor,
       NoneInv, LambdaInv, CallbackInv, At, InPerformOp
  <2>2. WindowInv'
    BY <1>0, <1>1, <1>9 DEF InitDataChannel, Goto, WindowInv, InWindow, At, NoneInv,
       InPerformOp
  <2>3. RerunInv'
    BY <1>0, <1>1, <1>2, <1>9 DEF InitDataChannel, Goto, RerunInv, Kept, At, WindowInv,
       CallbackInv, LambdaInv, CtorInv, Ctor
  <2> QED
    BY <2>1, <2>2, <2>3 DEF StrandInv
<1>10. ASSUME NEW t \in Threads, CheckOpen(t) PROVE StrandInv'
  <2>1. PlaceInv'
    BY <1>0, <1>1, <1>10 DEF CheckOpen, Goto, SigFree, PlaceInv, IocInv, CtorInv, Ctor,
       NoneInv, LambdaInv, CallbackInv, At, InPerformOp
  <2>2. WindowInv'
    BY <1>0, <1>1, <1>10 DEF CheckOpen, Goto, SigFree, WindowInv, InWindow, At, NoneInv,
       InPerformOp
  <2>3. RerunInv'
    BY <1>0, <1>1, <1>2, <1>10 DEF CheckOpen, Goto, SigFree, RerunInv, Kept, At,
       WindowInv, CallbackInv, LambdaInv, CtorInv, Ctor
  <2> QED
    BY <2>1, <2>2, <2>3 DEF StrandInv
<1>11. ASSUME NEW t \in Threads, PendOp(t) PROVE StrandInv'
  <2>1. PlaceInv'
    BY <1>0, <1>1, <1>11 DEF PendOp, Goto, PlaceInv, IocInv, CtorInv, Ctor, NoneInv,
       LambdaInv, CallbackInv, At, InPerformOp
  <2>2. WindowInv'
    BY <1>0, <1>1, <1>11 DEF PendOp, Goto, WindowInv, InWindow, At, NoneInv, InPerformOp
  <2>3. RerunInv'
    BY <1>0, <1>1, <1>2, <1>11 DEF PendOp, Goto, RerunInv, Kept, At, WindowInv,
       CallbackInv, LambdaInv, CtorInv, Ctor, TypeInv, LifeInv, NoneInv, InPerformOp,
       InWindow
  <2> QED
    BY <2>1, <2>2, <2>3 DEF StrandInv
<1>12. ASSUME NEW t \in Threads, RunOp(t) PROVE StrandInv'
  <2>1. PlaceInv'
    BY <1>0, <1>1, <1>12 DEF RunOp, Goto, PlaceInv, IocInv, CtorInv, Ctor, NoneInv,
       LambdaInv, CallbackInv, At, InPerformOp
  <2>2. WindowInv'
    BY <1>0, <1>1, <1>12 DEF RunOp, Goto, WindowInv, InWindow, At, NoneInv, InPerformOp
  <2>3. RerunInv'
    BY <1>0, <1>1, <1>2, <1>12 DEF RunOp, Goto, RerunInv, Kept, At, WindowInv,
       CallbackInv, LambdaInv, CtorInv, Ctor
  <2> QED
    BY <2>1, <2>2, <2>3 DEF StrandInv
<1>13. ASSUME NEW t \in Threads, SendFrame(t) \/ PullFails(t) \/ SendsDone(t) PROVE StrandInv'
  <2>1. PlaceInv'
    BY <1>0, <1>1, <1>13 DEF SendFrame, PullFails, SendsDone, Goto, PlaceInv, IocInv,
       CtorInv, Ctor, NoneInv, LambdaInv, CallbackInv, At, InPerformOp
  <2>2. WindowInv'
    BY <1>0, <1>1, <1>13 DEF SendFrame, PullFails, SendsDone, Goto, WindowInv, InWindow,
       At, NoneInv, InPerformOp
  <2>3. RerunInv'
    BY <1>0, <1>1, <1>2, <1>13 DEF SendFrame, PullFails, SendsDone, Goto, RerunInv,
       Kept, At, WindowInv, CallbackInv, LambdaInv, CtorInv, Ctor
  <2> QED
    BY <2>1, <2>2, <2>3 DEF StrandInv
<1>14. ASSUME NEW t \in Threads, WaitForRecv(t) PROVE StrandInv'
  <2>1. PlaceInv'
    BY <1>0, <1>1, <1>14 DEF WaitForRecv, Receive, Goto, PlaceInv, IocInv, CtorInv,
       Ctor, NoneInv, LambdaInv, CallbackInv, At, InPerformOp
  <2>2. WindowInv'
    BY <1>0, <1>1, <1>14 DEF WaitForRecv, Receive, Goto, WindowInv, InWindow, At,
       NoneInv, InPerformOp
  <2>3. RerunInv'
    BY <1>0, <1>1, <1>2, <1>14 DEF WaitForRecv, Receive, Goto, RerunInv, Kept, At,
       WindowInv, CallbackInv, LambdaInv, CtorInv, Ctor
  <2> QED
    BY <2>1, <2>2, <2>3 DEF StrandInv
<1>15. ASSUME NEW t \in Threads, RecvsDone(t) \/ FlushExecCtx(t) PROVE StrandInv'
  <2>1. PlaceInv'
    BY <1>0, <1>1, <1>15 DEF RecvsDone, FlushExecCtx, Goto, PlaceInv, IocInv, CtorInv,
       Ctor, NoneInv, LambdaInv, CallbackInv, At, InPerformOp
  <2>2. WindowInv'
    BY <1>0, <1>1, <1>15 DEF RecvsDone, FlushExecCtx, Goto, WindowInv, InWindow, At,
       NoneInv, InPerformOp
  <2>3. RerunInv'
    BY <1>0, <1>1, <1>2, <1>15 DEF RecvsDone, FlushExecCtx, Goto, RerunInv, Kept, At,
       WindowInv, CallbackInv, LambdaInv, CtorInv, Ctor
  <2> QED
    BY <2>1, <2>2, <2>3 DEF StrandInv
<1>16. CASE BecomeReady
  <2>1. PlaceInv'
    BY <1>0, <1>1, <1>16 DEF BecomeReady, Goto, PlaceInv, IocInv, CtorInv, Ctor,
       NoneInv, LambdaInv, CallbackInv, At, InPerformOp
  <2>2. WindowInv'
    BY <1>0, <1>1, <1>16 DEF BecomeReady, Goto, WindowInv, InWindow, At, NoneInv,
       InPerformOp
  <2>3. RerunInv'
    BY <1>0, <1>1, <1>2, <1>16 DEF BecomeReady, Goto, RerunInv, Kept, At, WindowInv,
       CallbackInv, LambdaInv, CtorInv, Ctor
  <2> QED
    BY <2>1, <2>2, <2>3 DEF StrandInv
<1>17. CASE OnReady
  <2>1. PlaceInv'
    BY <1>0, <1>1, <1>17 DEF OnReady, Goto, PlaceInv, IocInv, CtorInv, Ctor, NoneInv,
       LambdaInv, CallbackInv, At, InPerformOp
  <2>2. WindowInv'
    BY <1>0, <1>1, <1>17 DEF OnReady, Goto, WindowInv, InWindow, At, NoneInv,
       InPerformOp
  <2>3. RerunInv'
    BY <1>0, <1>1, <1>2, <1>17 DEF OnReady, Goto, RerunInv, Kept, At, WindowInv,
       CallbackInv, LambdaInv, CtorInv, Ctor
  <2> QED
    BY <2>1, <2>2, <2>3 DEF StrandInv
<1>18. CASE ClearReadyWaited \/ IocEnds
  <2>1. PlaceInv'
    BY <1>0, <1>1, <1>18 DEF ClearReadyWaited, IocEnds, Goto, PlaceInv, IocInv, CtorInv,
       Ctor, NoneInv, LambdaInv, CallbackInv, At, InPerformOp
  <2>2. WindowInv'
    BY <1>0, <1>1, <1>18 DEF ClearReadyWaited, IocEnds, Goto, WindowInv, InWindow, At,
       NoneInv, InPerformOp
  <2>3. RerunInv'
    BY <1>0, <1>1, <1>2, <1>18 DEF ClearReadyWaited, IocEnds, Goto, RerunInv, Kept, At,
       WindowInv, CallbackInv, LambdaInv, CtorInv, Ctor
  <2> QED
    BY <2>1, <2>2, <2>3 DEF StrandInv
<1>19. CASE ChannelOpens
  <2>1. PlaceInv'
    BY <1>0, <1>1, <1>19 DEF ChannelOpens, Goto, PlaceInv, IocInv, CtorInv, Ctor,
       NoneInv, LambdaInv, CallbackInv, At, InPerformOp
  <2>2. WindowInv'
    BY <1>0, <1>1, <1>19 DEF ChannelOpens, Goto, WindowInv, InWindow, At, NoneInv,
       InPerformOp
  <2>3. RerunInv'
    BY <1>0, <1>1, <1>2, <1>19 DEF ChannelOpens, Goto, RerunInv, Kept, At, WindowInv,
       CallbackInv, LambdaInv, CtorInv, Ctor
  <2> QED
    BY <2>1, <2>2, <2>3 DEF StrandInv
<1>20. CASE ChannelCloses
  <2>1. PlaceInv'
    BY <1>0, <1>1, <1>20 DEF ChannelCloses, Goto, PlaceInv, IocInv, CtorInv, Ctor,
       NoneInv, LambdaInv, CallbackInv, At, InPerformOp
  <2>2. WindowInv'
    BY <1>0, <1>1, <1>20 DEF ChannelCloses, Goto, WindowInv, InWindow, At, NoneInv,
       InPerformOp
  <2>3. RerunInv'
    BY <1>0, <1>1, <1>2, <1>20 DEF ChannelCloses, Goto, RerunInv, Kept, At, WindowInv,
       CallbackInv, LambdaInv, CtorInv, Ctor
  <2> QED
    BY <2>1, <2>2, <2>3 DEF StrandInv
<1>21. CASE OnStateChange
  <2>1. PlaceInv'
    BY <1>0, <1>1, <1>21 DEF OnStateChange, Goto, PlaceInv, IocInv, CtorInv, Ctor,
       NoneInv, LambdaInv, CallbackInv, At, InPerformOp
  <2>2. WindowInv'
    BY <1>0, <1>1, <1>21 DEF OnStateChange, Goto, WindowInv, InWindow, At, NoneInv,
       InPerformOp
  <2>3. RerunInv'
    BY <1>0, <1>1, <1>2, <1>21 DEF OnStateChange, Goto, RerunInv, Kept, At, WindowInv,
       CallbackInv, LambdaInv, CtorInv, Ctor
  <2> QED
    BY <2>1, <2>2, <2>3 DEF StrandInv
<1>22. CASE OnMessage
  <2>1. PlaceInv'
    BY <1>0, <1>1, <1>22 DEF OnMessage, Receive, Goto, PlaceInv, IocInv, CtorInv, Ctor,
       NoneInv, LambdaInv, CallbackInv, At, InPerformOp
  <2>2. WindowInv'
    BY <1>0, <1>1, <1>22 DEF OnMessage, Receive, Goto, WindowInv, InWindow, At, NoneInv,
       InPerformOp
  <2>3. RerunInv'
    BY <1>0, <1>1, <1>2, <1>22 DEF OnMessage, Receive, Goto, RerunInv, Kept, At,
       WindowInv, CallbackInv, LambdaInv, CtorInv, Ctor
  <2> QED
    BY <2>1, <2>2, <2>3 DEF StrandInv
<1>23. CASE UNCHANGED vars
  <2>1. PlaceInv'
    BY <1>0, <1>1, <1>23 DEF vars, PlaceInv, IocInv, CtorInv, Ctor, NoneInv, LambdaInv,
       CallbackInv, At, InPerformOp
  <2>2. WindowInv'
    BY <1>0, <1>1, <1>23 DEF vars, WindowInv, InWindow, At, NoneInv, InPerformOp
  <2>3. RerunInv'
    BY <1>0, <1>1, <1>2, <1>23 DEF vars, RerunInv, Kept, At, WindowInv, CallbackInv,
       LambdaInv, CtorInv, Ctor
  <2> QED
    BY <2>1, <2>2, <2>3 DEF StrandInv
<1> QED
  BY <1>3, <1>4, <1>5, <1>6, <1>7, <1>8, <1>9, <1>10, <1>11, <1>12, <1>13, <1>14, <1>15,
     <1>16, <1>17, <1>18, <1>19, <1>20, <1>21, <1>22, <1>23 DEF Next, PerformOpStep

\* A batch is left behind in pending_op_, with a channel that could carry it, only if the
\* channel opened or OnReady looked between the test and the assignment in PerformOp.
THEOREM StrandedNeedsRace == Spec => []StrandedOnlyIfRaced
<1>1. Init => TypeInv /\ OnceInv /\ StrandInv
  BY TypeInvInit, OnceInit, StrandInit
<1>2. TypeInv /\ OnceInv /\ StrandInv /\ [Next]_vars => (TypeInv /\ OnceInv /\ StrandInv)'
  BY TypeInvNext, OnceNext, StrandNext
<1>3. StrandInv => StrandedOnlyIfRaced
  BY DEF StrandInv, RerunInv, StrandedOnlyIfRaced, Stranded, Kept, At, Threads
<1> QED
  BY <1>1, <1>2, <1>3, PTL DEF Spec

--------------------------------------------------------------------------------
(******************************************************************************)
(* A server call whose channel is lost.                                       *)
(******************************************************************************)

\* Receive r was given a frame.
Paired(r) == \E i \in 1..Len(got) : got[i][1] = r

\* The closure of a receive is scheduled when the receive is given its frame.
ClosureInv ==
    \A r \in Recvs :
        r \in done \/ r \in execq["app"] \/ r \in execq["ioc"] \/ r \in execq["sig"] => Paired(r)

\* Core keeps the call until all it has issued is complete.
HeldInv == ~held => \A o \in issued : Complete(o)

Sending(t) == pc[t] \in {"send", "recv"}

\* The receives that thread t has still to register are receives of its batch, each of
\* another kind, and none of them is registered.
TodoInv(t) ==
    \A k \in 1..Len(todo[t]) :
        /\ <<op[t], todo[t][k]>> \in Pieces(op[t])
        /\ \A j \in 1..Len(todo[t]) : todo[t][k] = todo[t][j] => k = j
        /\ \A i \in 1..Len(reg) : reg[i] # <<op[t], todo[t][k]>>

\* A thread that performs a batch has counted it in ran and, up to here, has registered
\* none of the receives it has still to register.
RegThread(t) ==
    /\ Sending(t) => op[t] \in issued /\ ran[op[t]] # <<>>
    /\ pc[t] = "send" => \A i \in 1..Len(reg) : reg[i][1] # op[t]
    /\ pc[t] = "recv" => TodoInv(t)

\* What is registered are receives of batches that were performed, each once.
RegOnce ==
    \A i \in 1..Len(reg) :
        /\ reg[i][1] \in issued /\ ran[reg[i][1]] # <<>> /\ reg[i] \in Pieces(reg[i][1])
        /\ \A j \in 1..Len(reg) : reg[i] = reg[j] => i = j

\* On a server no two threads perform the same batch, and each batch registers its
\* receives once.
RegInv ==
    /\ pc["ioc"] \notin {"send", "recv"}
    /\ Sending("app") /\ Sending("sig") => op["app"] # op["sig"]
    /\ RegThread("app") /\ RegThread("sig") /\ RegOnce

\* A server's stream has its channel from the start.
CreateInv == \A t \in Threads : pc[t] \notin {"ctor", "create"}

LostInv == ~IsClient => RegInv /\ CreateInv

\* Receives that were paired stay so, and the one of the new pair is paired.
LEMMA PairedAppend ==
  ASSUME NEW r \in Recvs, NEW f \in Frames, got \in Seq(Recvs \X Frames),
         got' = Append(got, <<r, f>>)
  PROVE  Paired(r)' /\ \A x \in Recvs : Paired(x) => Paired(x)'
<1>1. <<r, f>> \in Recvs \X Frames /\ <<r, f>>[1] = r
  OBVIOUS
<1>2. /\ Len(got') = Len(got) + 1 /\ Len(got) \in Nat /\ got'[Len(got) + 1] = <<r, f>>
      /\ \A i \in 1..Len(got) : got'[i] = got[i]
  BY <1>1
<1>3. Len(got) + 1 \in 1..Len(got') /\ \A i \in 1..Len(got) : i \in 1..Len(got')
  BY <1>2
<1> QED
  BY <1>1, <1>2, <1>3 DEF Paired

LEMMA ClosureInit == Init => ClosureInv
  BY DEF Init, ClosureInv, Threads

\* What the step of a receive does to the pairs and the closures.
LEMMA ReceiveCloses ==
  ASSUME TypeInv, ClosureInv, NEW t \in Threads, NEW r \in Recvs, NEW f \in Frames,
         NEW next, Receive(t, r, f, next), done' = done
  PROVE  ClosureInv'
<1>1. Paired(r)' /\ \A x \in Recvs : Paired(x) => Paired(x)'
  BY PairedAppend DEF Receive, TypeInv, TypeOK, QueuesOK
<1>2. \A u \in Threads : \A x \in execq'[u] : x \in execq[u] \/ x = r
  BY DEF Receive, TypeInv, TypeOK, ClosuresOK
<1> QED
  BY <1>1, <1>2 DEF ClosureInv, Threads

LEMMA ClosureNext == TypeInv /\ ClosureInv /\ [Next]_vars => ClosureInv'
<1> SUFFICES ASSUME TypeInv, ClosureInv, [Next]_vars PROVE ClosureInv'
  OBVIOUS
<1> USE DEF threadVars, channelVars, queueVars, closureVars, lifeVars, peerVars, batchVars
<1>0. execq \in [Threads -> SUBSET Closures] /\ Threads = {"app", "ioc", "sig"}
  BY DEF TypeInv, TypeOK, ClosuresOK, Threads
<1>1. ASSUME UNCHANGED <<execq, done, got>> PROVE ClosureInv'
  BY <1>1 DEF ClosureInv, Paired
<1>2. ASSUME NEW t \in Threads, SendsDone(t) PROVE ClosureInv'
  <2>1. \A r \in Recvs : r # <<op[t], "on_complete">>
    BY DEF Recvs, Frames
  <2>2. \A u \in Threads : \A r \in Recvs : r \in execq'[u] => r \in execq[u]
    BY <1>0, <1>2, <2>1 DEF SendsDone
  <2>3. UNCHANGED <<done, got>>
    BY <1>2 DEF SendsDone
  <2> QED
    BY <1>0, <2>2, <2>3 DEF ClosureInv, Paired
<1>3. ASSUME NEW t \in Threads, WaitForRecv(t) PROVE ClosureInv'
  <2> DEFINE r == <<op[t], Head(todo[t])>>
  <2>1. r \in Recvs /\ done' = done
    BY <1>3 DEF TypeInv, TypeOK, ThreadsOK, LifeInv, InPerformOp, WaitForRecv, Recvs
  <2>2. CASE data_queue_ = <<>>
    BY <1>1, <1>3, <2>2 DEF WaitForRecv
  <2>3. CASE data_queue_ # <<>>
    <3>1. Head(data_queue_) \in Frames /\ Receive(t, r, Head(data_queue_), "recv")
      BY <1>3, <2>3 DEF WaitForRecv, TypeInv, TypeOK, QueuesOK
    <3> QED
      BY <2>1, <3>1, ReceiveCloses
  <2> QED
    BY <2>2, <2>3
<1>4. CASE OnMessage
  <2> DEFINE f == reply[arrived + 1]
  <2>1. f \in Frames
    <3>1. reply \in Seq(Frames) /\ arrived \in Nat /\ arrived < Len(reply)
      BY <1>4, ConstantsAssumption DEF OnMessage, TypeInv, TypeOK, PeerOK
    <3> QED
      BY <3>1
  <2>2. CASE ~cb \/ func_queue_ = <<>>
    BY <1>1, <1>4, <2>2 DEF OnMessage
  <2>3. CASE cb /\ func_queue_ # <<>>
    <3>1. Head(func_queue_) \in Recvs /\ "sig" \in Threads /\ done' = done
      BY <1>0, <1>4, <2>3 DEF OnMessage, TypeInv, TypeOK, QueuesOK
    <3>2. Receive("sig", Head(func_queue_), f, "ret")
      BY <1>4, <2>3 DEF OnMessage
    <3> QED
      BY <2>1, <3>1, <3>2, ReceiveCloses
  <2> QED
    BY <2>2, <2>3
<1>5. ASSUME NEW t \in Threads, FlushExecCtx(t) PROVE ClosureInv'
  BY <1>0, <1>5 DEF FlushExecCtx, ClosureInv, Paired
<1>6. CASE IocEnds
  BY <1>0, <1>6 DEF IocEnds, ClosureInv, Paired
<1>7. ASSUME NEW t \in Threads, PerformOpStep(t), ~SendsDone(t), ~WaitForRecv(t), ~FlushExecCtx(t)
      PROVE  ClosureInv'
  BY <1>1, <1>7 DEF PerformOpStep, PerformOp, CreateDataChannel, InitDataChannel, CheckOpen,
     PendOp, RunOp, SendFrame, PullFails, RecvsDone
<1>8. CASE InitStream \/ AddOnReady \/ ReleaseCall \/ BecomeReady \/ OnReady \/ ClearReadyWaited
           \/ ChannelOpens \/ ChannelCloses \/ OnStateChange
  BY <1>1, <1>8 DEF InitStream, AddOnReady, ReleaseCall, BecomeReady, OnReady,
     ClearReadyWaited, ChannelOpens, ChannelCloses, OnStateChange
<1>9. ASSUME NEW o \in Ops, OnDataChannel(o) \/ PerformStreamOp(o) PROVE ClosureInv'
  BY <1>1, <1>9 DEF OnDataChannel, PerformStreamOp
<1>10. CASE UNCHANGED vars
  BY <1>1, <1>10 DEF vars
<1> QED
  BY <1>2, <1>3, <1>4, <1>5, <1>6, <1>7, <1>8, <1>9, <1>10 DEF Next

LEMMA HeldInit == Init => HeldInv
  BY DEF Init, HeldInv

\* Closures that have run stay so, and a call that core has given up issues nothing.
LEMMA HeldNext == TypeInv /\ HeldInv /\ [Next]_vars => HeldInv'
<1> SUFFICES ASSUME TypeInv, HeldInv, [Next]_vars, ~held' PROVE \A o \in issued' : Complete(o)'
  BY DEF HeldInv
<1> USE DEF threadVars, channelVars, queueVars, closureVars, lifeVars, peerVars, batchVars
<1>1. ASSUME issued' = issued, done \subseteq done', ~held PROVE \A o \in issued' : Complete(o)'
  BY <1>1 DEF HeldInv, Complete
<1>2. CASE ReleaseCall
  BY <1>2 DEF ReleaseCall, Complete
<1>3. CASE InitStream
  BY <1>3 DEF InitStream
<1>4. ASSUME NEW o \in Ops, OnDataChannel(o) \/ PerformStreamOp(o) PROVE FALSE
  BY <1>4 DEF OnDataChannel, PerformStreamOp
<1>5. ASSUME NEW t \in Threads, PerformOpStep(t) PROVE \A o \in issued' : Complete(o)'
  BY <1>1, <1>5 DEF PerformOpStep, PerformOp, CreateDataChannel, InitDataChannel, CheckOpen,
     PendOp, RunOp, SendFrame, PullFails, SendsDone, WaitForRecv, RecvsDone, FlushExecCtx
<1>6. CASE AddOnReady \/ BecomeReady \/ OnReady \/ ClearReadyWaited \/ IocEnds
           \/ ChannelOpens \/ ChannelCloses \/ OnStateChange \/ OnMessage
  BY <1>1, <1>6 DEF AddOnReady, BecomeReady, OnReady, ClearReadyWaited, IocEnds, ChannelOpens,
     ChannelCloses, OnStateChange, OnMessage
<1>7. CASE UNCHANGED vars
  BY <1>1, <1>7 DEF vars
<1> QED
  BY <1>2, <1>3, <1>4, <1>5, <1>6, <1>7 DEF Next

LEMMA LostInit == Init => LostInv
<1> SUFFICES ASSUME Init PROVE RegInv /\ CreateInv
  BY DEF LostInv
<1>1. \A t \in Threads : pc[t] = "idle"
  BY DEF Init
<1>2. "app" \in Threads /\ "ioc" \in Threads /\ "sig" \in Threads /\ 1..Len(reg) = {}
  BY DEF Init, Threads
<1> QED
  BY <1>1, <1>2 DEF RegInv, RegThread, RegOnce, CreateInv, Sending

\* Steps that register no receive and perform no batch.
LEMMA RegQuiet ==
  ASSUME RegInv, UNCHANGED <<reg, ran>>, issued \subseteq issued',
         \A t \in {"app", "ioc", "sig"} : pc'[t] \in {"send", "recv"} =>
            pc'[t] = pc[t] /\ op'[t] = op[t] /\ (pc'[t] = "recv" => todo'[t] = todo[t])
  PROVE  RegInv'
<1>1. ASSUME NEW t \in {"app", "sig"}, RegThread(t) PROVE RegThread(t)'
  <2>1. CASE pc'[t] \notin {"send", "recv"}
    BY <2>1 DEF RegThread, Sending
  <2>2. CASE pc'[t] = "send"
    BY <1>1, <2>2 DEF RegThread, Sending
  <2>3. CASE pc'[t] = "recv"
    <3>1. pc[t] = "recv" /\ op'[t] = op[t] /\ todo'[t] = todo[t]
      BY <2>3
    <3>2. TodoInv(t) /\ op[t] \in issued /\ ran[op[t]] # <<>>
      BY <1>1, <3>1 DEF RegThread, Sending
    <3>3. TodoInv(t)'
      BY <3>1, <3>2 DEF TodoInv
    <3> QED
      BY <2>3, <3>1, <3>2, <3>3 DEF RegThread, Sending
  <2> QED
    BY <2>1, <2>2, <2>3
<1>2. RegOnce'
  BY DEF RegInv, RegOnce
<1> QED
  BY <1>1, <1>2 DEF RegInv, Sending

LEMMA LostNext == TypeInv /\ ServerInv /\ NoneInv /\ LostInv /\ [Next]_vars => LostInv'
<1> SUFFICES ASSUME TypeInv, ServerInv, NoneInv, LostInv, [Next]_vars, ~IsClient
             PROVE  RegInv' /\ CreateInv'
  BY DEF LostInv
<1> USE DEF threadVars, channelVars, queueVars, closureVars, lifeVars, peerVars, batchVars
<1>0. /\ pc \in [Threads -> Labels] /\ op \in [Threads -> Ops \cup {Null}]
      /\ todo \in [Threads -> Seq(Frames)] /\ reg \in Seq(Recvs) /\ Len(reg) \in Nat
      /\ ran \in [Ops -> Seq(Threads)] /\ Null \notin Ops
      /\ Threads = {"app", "ioc", "sig"}
      /\ OnlySigTakes /\ (\A o \in Ops : ServerBatchInv(o)) /\ RegInv /\ CreateInv
  BY ConstantsAssumption
  DEF TypeInv, TypeOK, ThreadsOK, QueuesOK, BatchesOK, Threads, ServerInv, LostInv
<1>1. CASE InitStream \/ AddOnReady \/ ReleaseCall \/ BecomeReady \/ IocEnds
  BY <1>0, <1>1, RegQuiet DEF InitStream, AddOnReady, ReleaseCall, BecomeReady, IocEnds, Goto,
     CreateInv
<1>2. ASSUME NEW o \in Ops, OnDataChannel(o) \/ PerformStreamOp(o) PROVE RegInv' /\ CreateInv'
  BY <1>0, <1>2, RegQuiet DEF OnDataChannel, PerformStreamOp, Goto, CreateInv
<1>3. CASE OnReady \/ ClearReadyWaited \/ ChannelOpens \/ ChannelCloses \/ OnStateChange
  BY <1>0, <1>3, RegQuiet DEF OnReady, ClearReadyWaited, ChannelOpens, ChannelCloses,
     OnStateChange, Goto, CreateInv
<1>4. CASE OnMessage
  BY <1>0, <1>4, RegQuiet DEF OnMessage, Receive, Goto, CreateInv
<1>5. ASSUME NEW t \in Threads, PerformOp(t) PROVE RegInv' /\ CreateInv'
  <2>1. dc # "none"
    BY <1>0, <1>5 DEF PerformOp, TypeInv, LifeInv, NoneInv, OnlySigTakes, Undecided
  <2> QED
    BY <1>0, <1>5, <2>1, RegQuiet DEF PerformOp, Goto, CreateInv
<1>6. ASSUME NEW t \in Threads,
             CreateDataChannel(t) \/ InitDataChannel(t) \/ CheckOpen(t) \/ PendOp(t)
      PROVE  RegInv' /\ CreateInv'
  BY <1>0, <1>6, RegQuiet DEF CreateDataChannel, InitDataChannel, CheckOpen, PendOp, Goto,
     CreateInv
<1>7. ASSUME NEW t \in Threads,
             SendFrame(t) \/ PullFails(t) \/ RecvsDone(t) \/ FlushExecCtx(t)
      PROVE  RegInv' /\ CreateInv'
  BY <1>0, <1>7, RegQuiet DEF SendFrame, PullFails, RecvsDone, FlushExecCtx, Goto, CreateInv
\* The batch was not performed before, so it has registered nothing.
<1>8. ASSUME NEW t \in Threads, RunOp(t) PROVE RegInv' /\ CreateInv'
  <2>1. /\ pc[t] = "run" /\ pc' = [pc EXCEPT ![t] = "send"] /\ UNCHANGED <<op, issued, reg>>
        /\ ran' = [ran EXCEPT ![op[t]] = Append(@, t)]
        /\ \A u \in Threads \ {t} : todo'[u] = todo[u]
    BY <1>0, <1>8 DEF RunOp, Goto
  <2>2. op[t] \in Ops /\ t \in {"app", "sig"} /\ About(t, op[t])
    BY <1>0, <1>8, <2>1 DEF TypeInv, LifeInv, InPerformOp, OnlySigTakes, Undecided, About
  <2>3. ran[op[t]] = <<>> /\ op[t] \in issued
    BY <1>0, <2>2 DEF ServerBatchInv
  <2>4. ran'[op[t]] # <<>> /\ \A o \in Ops : ran[o] # <<>> => ran'[o] # <<>>
    <3>1. ran'[op[t]] = Append(<<>>, t) /\ \A o \in Ops \ {op[t]} : ran'[o] = ran[o]
      BY <1>0, <2>1, <2>2, <2>3
    <3> QED
      BY <2>3, <3>1
  <2>5. \A i \in 1..Len(reg) : reg[i] \in Recvs /\ reg[i][1] \in Ops /\ reg[i][1] # op[t]
    BY <1>0, <2>3 DEF RegInv, RegOnce, Recvs
  <2>6. ASSUME NEW u \in {"app", "sig"} \ {t}
        PROVE  RegThread(u)' /\ (Sending(u)' => op[u] # op[t])
    <3>1. RegThread(u) /\ u \in Threads /\ pc'[u] = pc[u] /\ todo'[u] = todo[u]
      BY <1>0, <2>1, <2>6 DEF RegInv
    <3>2. Sending(u) => op[u] \in Ops /\ op[u] # op[t] /\ ran'[op[u]] # <<>>
      BY <2>3, <2>4, <3>1 DEF RegThread, Sending, TypeInv, LifeInv, InPerformOp
    <3>3. TodoInv(u) => TodoInv(u)'
      BY <2>1, <3>1 DEF TodoInv
    <3> QED
      BY <2>1, <3>1, <3>2, <3>3 DEF RegThread, Sending
  <2>7. RegThread(t)'
    BY <1>0, <2>1, <2>2, <2>3, <2>4, <2>5 DEF RegThread, Sending
  <2>8. RegOnce'
    BY <1>0, <2>1, <2>4, <2>5 DEF RegInv, RegOnce
  <2>9. RegInv'
    <3>1. pc'["ioc"] \notin {"send", "recv"}
      BY <1>0, <2>1, <2>2 DEF RegInv
    <3>2. (Sending("app") /\ Sending("sig") => op["app"] # op["sig"])'
      BY <2>1, <2>2, <2>6
    <3> QED
      BY <2>2, <2>6, <2>7, <2>8, <3>1, <3>2 DEF RegInv
  <2> QED
    BY <1>0, <2>1, <2>9 DEF CreateInv
\* The receives to register are those of the batch.
<1>9. ASSUME NEW t \in Threads, SendsDone(t) PROVE RegInv' /\ CreateInv'
  <2>1. /\ pc[t] = "send" /\ pc' = [pc EXCEPT ![t] = "recv"] /\ UNCHANGED <<op, issued, reg, ran>>
        /\ todo' = [todo EXCEPT ![t] = Batch[op[t]].recvs]
    BY <1>9 DEF SendsDone, Goto
  <2>2. op[t] \in Ops /\ t \in {"app", "sig"}
    BY <1>0, <1>9, <2>1 DEF TypeInv, LifeInv, InPerformOp, RegInv
  <2>3. todo'[t] = Batch[op[t]].recvs /\ \A u \in Threads \ {t} : todo'[u] = todo[u]
    BY <1>0, <2>1, <1>9
  <2>4. Batch[op[t]].recvs \in Seq(Frames)
    BY <2>2, ConstantsAssumption DEF Batches
  <2>5. TodoInv(t)'
    <3>1. ASSUME NEW k \in 1..Len(todo'[t])
          PROVE  /\ <<op[t], todo'[t][k]>> \in Pieces(op[t])
                 /\ \A j \in 1..Len(todo'[t]) : todo'[t][k] = todo'[t][j] => k = j
      BY <2>2, <2>3, <2>4, RecvsAssumption DEF Pieces
    <3>2. RegThread(t)
      BY <1>0, <2>2 DEF RegInv
    <3>3. \A f, i : i \in 1..Len(reg) => reg[i] # <<op[t], f>>
      BY <2>1, <3>2 DEF RegThread
    <3> QED
      BY <2>1, <3>1, <3>3 DEF TodoInv
  <2>6. ASSUME NEW u \in {"app", "sig"} \ {t} PROVE RegThread(u)'
    <3>1. RegThread(u) /\ u \in Threads /\ pc'[u] = pc[u] /\ todo'[u] = todo[u]
      BY <1>0, <2>1, <2>3, <2>6 DEF RegInv
    <3>2. TodoInv(u) => TodoInv(u)'
      BY <2>1, <3>1 DEF TodoInv
    <3> QED
      BY <2>1, <3>1, <3>2 DEF RegThread, Sending
  <2>7. RegThread(t)'
    <3>1. RegThread(t) /\ pc'[t] = "recv"
      BY <1>0, <2>1, <2>2 DEF RegInv
    <3> QED
      BY <2>1, <2>5, <3>1 DEF RegThread, Sending
  <2>8. RegOnce'
    BY <1>0, <2>1 DEF RegInv, RegOnce
  <2>9. RegInv'
    <3>1. pc'["ioc"] \notin {"send", "recv"} /\ \A u \in Threads : Sending(u)' => Sending(u)
      BY <1>0, <2>1, <2>2 DEF RegInv, Sending
    <3>2. (Sending("app") /\ Sending("sig") => op["app"] # op["sig"])'
      BY <1>0, <2>1, <3>1 DEF RegInv
    <3> QED
      BY <2>2, <2>6, <2>7, <2>8, <3>1, <3>2 DEF RegInv
  <2> QED
    BY <1>0, <2>1, <2>9 DEF CreateInv
<1>10. ASSUME NEW t \in Threads, WaitForRecv(t) PROVE RegInv' /\ CreateInv'
  <2> DEFINE r == <<op[t], Head(todo[t])>>
  <2>1. /\ pc[t] = "recv" /\ todo[t] # <<>> /\ UNCHANGED <<op, issued, ran>>
        /\ reg' = Append(reg, r) /\ todo' = [todo EXCEPT ![t] = Tail(@)]
    BY <1>10 DEF WaitForRecv
  <2>2. pc' = pc \/ pc' = [u \in Threads |-> "terminated"]
    <3>1. [pc EXCEPT ![t] = "recv"] = pc
      BY <1>0, <2>1
    <3> QED
      BY <1>10, <3>1 DEF WaitForRecv, Receive, Goto
  <2>3. op[t] \in Ops /\ t \in {"app", "sig"} /\ TodoInv(t)
    BY <1>0, <1>10, <2>1 DEF TypeInv, LifeInv, InPerformOp, RegInv, RegThread
  <2>4. /\ Head(todo[t]) = todo[t][1] /\ 1 \in 1..Len(todo[t]) /\ r \in Recvs
        /\ Tail(todo[t]) \in Seq(Frames) /\ Len(Tail(todo[t])) = Len(todo[t]) - 1
        /\ \A k \in 1..Len(Tail(todo[t])) :
              k + 1 \in 1..Len(todo[t]) /\ k + 1 # 1 /\ Tail(todo[t])[k] = todo[t][k + 1]
    <3>1. todo[t] \in Seq(Frames) /\ todo[t] # <<>>
      BY <1>0, <2>1
    <3> QED
      BY <2>3, <3>1 DEF Recvs
  <2> HIDE DEF r
  <2>5. /\ Len(reg') = Len(reg) + 1 /\ reg'[Len(reg) + 1] = r
        /\ \A i \in 1..Len(reg) : reg'[i] = reg[i]
        /\ \A i \in 1..Len(reg') : i \in 1..Len(reg) \/ i = Len(reg) + 1
        /\ Len(reg) + 1 \notin 1..Len(reg)
    BY <1>0, <2>1, <2>4
  <2>6. todo'[t] = Tail(todo[t]) /\ \A u \in Threads \ {t} : todo'[u] = todo[u]
    BY <1>0, <2>1, <1>10
  <2>7. /\ r \in Pieces(op[t]) /\ r[1] = op[t]
        /\ \A i \in 1..Len(reg) : reg[i] # r
    BY <2>3, <2>4 DEF TodoInv, r
  <2>8. TodoInv(t)'
    <3>1. ASSUME NEW k \in 1..Len(Tail(todo[t]))
          PROVE  /\ <<op[t], Tail(todo[t])[k]>> \in Pieces(op[t])
                 /\ \A i \in 1..Len(reg') : reg'[i] # <<op[t], Tail(todo[t])[k]>>
                 /\ Tail(todo[t])[k] # Head(todo[t])
      BY <2>3, <2>4, <2>5, SMTT(30) DEF TodoInv, r
    <3>2. ASSUME NEW k \in 1..Len(Tail(todo[t])), NEW j \in 1..Len(Tail(todo[t])),
                 Tail(todo[t])[k] = Tail(todo[t])[j]
          PROVE  k = j
      <4>1. k + 1 = j + 1
        BY <2>3, <2>4, <3>2, ZenonT(60) DEF TodoInv
      <4> QED
        BY <4>1
    <3> QED
      BY <2>1, <2>6, <3>1, <3>2, ZenonT(60) DEF TodoInv
  <2>9. op[t] \in issued /\ ran[op[t]] # <<>>
    BY <1>0, <2>1, <2>3 DEF RegInv, RegThread, Sending
  <2>10. ASSUME NEW u \in {"app", "sig"} \ {t} PROVE RegThread(u)'
    <3>1. /\ RegThread(u) /\ u \in Threads /\ todo'[u] = todo[u]
          /\ Sending(u)' => pc'[u] = pc[u] /\ op[u] # op[t]
      BY <1>0, <2>1, <2>2, <2>3, <2>6, <2>10 DEF RegInv, Sending
    <3>2. CASE ~Sending(u)'
      BY <3>2 DEF RegThread, Sending
    <3>3. CASE Sending(u)'
      <4>1. pc'[u] = pc[u] /\ op[u] # op[t]
        BY <3>1, <3>3
      <4>2. \A i \in 1..Len(reg') :
               reg'[i][1] = op[u] => i \in 1..Len(reg) /\ reg[i] = reg'[i]
        BY <2>5, <2>7, <4>1
      <4>3. ASSUME TodoInv(u) PROVE TodoInv(u)'
        <5>1. ASSUME NEW k \in 1..Len(todo[u]), NEW i \in 1..Len(reg')
              PROVE  reg'[i] # <<op[u], todo[u][k]>>
          <6>1. \A j \in 1..Len(reg) : reg[j] # <<op[u], todo[u][k]>>
            BY <4>3, <5>1 DEF TodoInv
          <6>2. ASSUME reg'[i] = <<op[u], todo[u][k]>> PROVE FALSE
            <7>1. reg'[i][1] = op[u]
              BY <6>2
            <7> QED
              BY <4>2, <6>1, <6>2, <7>1
          <6> QED
            BY <6>2
        <5> QED
          BY <2>1, <3>1, <4>3, <5>1 DEF TodoInv
      <4> QED
        BY <2>1, <3>1, <4>1, <4>2, <4>3 DEF RegThread, Sending
    <3> QED
      BY <3>2, <3>3
  <2>11. RegThread(t)'
    <3>1. pc'[t] \in {"recv", "terminated"}
      BY <1>0, <2>1, <2>2
    <3> QED
      BY <2>1, <2>8, <2>9, <3>1 DEF RegThread, Sending
  <2>12. RegOnce'
    <3>1. ASSUME NEW i \in 1..Len(reg')
          PROVE  reg'[i][1] \in issued /\ ran[reg'[i][1]] # <<>> /\ reg'[i] \in Pieces(reg'[i][1])
      <4>1. CASE i \in 1..Len(reg)
        BY <1>0, <2>5, <4>1 DEF RegInv, RegOnce
      <4>2. CASE i = Len(reg) + 1
        BY <2>5, <2>7, <2>9, <4>2
      <4> QED
        BY <2>5, <4>1, <4>2
    <3>2. ASSUME NEW i \in 1..Len(reg'), NEW j \in 1..Len(reg'), reg'[i] = reg'[j]
          PROVE  i = j
      <4>1. CASE i \in 1..Len(reg) /\ j \in 1..Len(reg)
        BY <1>0, <2>5, <3>2, <4>1 DEF RegInv, RegOnce
      <4> QED
        BY <2>5, <2>7, <3>2, <4>1
    <3> QED
      BY <2>1, <3>1, <3>2 DEF RegOnce
  <2>13. RegInv'
    <3>1. pc'["ioc"] \notin {"send", "recv"} /\ \A u \in Threads : Sending(u)' => Sending(u)
      BY <1>0, <2>1, <2>2, <2>3 DEF RegInv, Sending
    <3>2. (Sending("app") /\ Sending("sig") => op["app"] # op["sig"])'
      BY <1>0, <2>1, <3>1 DEF RegInv
    <3> QED
      BY <2>3, <2>10, <2>11, <2>12, <3>1, <3>2 DEF RegInv
  <2> QED
    BY <1>0, <2>2, <2>13 DEF CreateInv
<1>11. CASE UNCHANGED vars
  BY <1>0, <1>11, RegQuiet DEF vars, CreateInv
<1> QED
  BY <1>1, <1>2, <1>3, <1>4, <1>5, <1>6, <1>7, <1>8, <1>9, <1>10, <1>11
  DEF Next, PerformOpStep

\* A receive that waits is no closure that has run: its batch is not complete.
LEMMA WaitingKeepsCall ==
  ASSUME TypeInv, PairedInOrder, ClosureInv, RegInv, func_queue_ # <<>>
  PROVE  \E o \in issued : ~Complete(o)
<1> DEFINE n == Len(got) + 1
<1>1. /\ func_queue_ \in Seq(Recvs) /\ reg \in Seq(Recvs) /\ Len(got) \in Nat /\ Len(reg) \in Nat
      /\ got \in Seq(Recvs \X Frames)
  BY DEF TypeInv, TypeOK, QueuesOK
<1>2. n \in 1..Len(reg) /\ reg[n] \in Recvs
  BY <1>1 DEF PairedInOrder, IsRest
<1>3. ~Paired(reg[n])
  <2>1. ASSUME NEW i \in 1..Len(got) PROVE got[i][1] # reg[n]
    <3>1. got[i][1] = reg[i] /\ i \in 1..Len(reg) /\ i # n
      BY <1>1 DEF PairedInOrder
    <3> QED
      BY <1>2, <3>1 DEF RegInv, RegOnce
  <2> QED
    BY <2>1 DEF Paired
<1> HIDE DEF n
<1>4. reg[n] \notin done /\ reg[n] \in Pieces(reg[n][1]) /\ reg[n][1] \in issued
  BY <1>2, <1>3 DEF ClosureInv, RegInv, RegOnce
<1> QED
  BY <1>4 DEF Complete

\* Once the channel of a server call is closed under a receive that waits, no step of
\* any thread reopens it, serves the receive or lets core release the call.
THEOREM LostCallStays == Spec => LostCallHangs
<1> DEFINE Inv == /\ TypeInv /\ OnceInv /\ StrandInv /\ PairedInOrder /\ ServerInv
                  /\ ClosureInv /\ HeldInv /\ LostInv
<1>1. Init => Inv
  <2>1. Init => PairedInOrder
    BY DEF Init, PairedInOrder, IsRest
  <2> QED
    BY <2>1, TypeInvInit, OnceInit, StrandInit, ServerInit, ClosureInit, HeldInit, LostInit
<1>2. Inv /\ [Next]_vars => Inv'
  <2>1. StrandInv => NoneInv
    BY DEF StrandInv, PlaceInv
  <2> QED
    BY <2>1, TypeInvNext, OnceNext, StrandNext, PairedNext, ServerNext, ClosureNext, HeldNext,
       LostNext
<1>3. ASSUME Inv, [Next]_vars, ~IsClient, dc = "closed", func_queue_ # <<>>
      PROVE  dc' = "closed" /\ func_queue_' # <<>> /\ held'
  <2> USE DEF threadVars, channelVars, queueVars, closureVars, lifeVars, peerVars, batchVars
  <2>1. RegInv /\ CreateInv /\ held /\ ~\A o \in issued : Complete(o)
    BY <1>3, WaitingKeepsCall DEF LostInv, HeldInv, TypeInv, TypeOK, LifeOK
  <2>2. func_queue_' # <<>> /\ dc' = "closed"
    <3>1. ~OnMessage
      BY <1>3 DEF OnMessage
    <3>2. ASSUME NEW t \in Threads, WaitForRecv(t) PROVE func_queue_' # <<>>
      BY <1>3, <3>2 DEF WaitForRecv, TypeInv, TypeOK, QueuesOK
    <3>3. func_queue_' # <<>>
      BY <1>3, <3>1, <3>2, OnlyTwoTouchQueues
    <3>4. ASSUME NEW t \in Threads, PerformOpStep(t) PROVE dc' = dc
      BY <2>1, <3>4 DEF PerformOpStep, PerformOp, CreateDataChannel, InitDataChannel, CheckOpen,
         PendOp, RunOp, SendFrame, PullFails, SendsDone, WaitForRecv, RecvsDone,
         FlushExecCtx, CreateInv
    <3>5. ASSUME NEW o \in Ops, OnDataChannel(o) \/ PerformStreamOp(o) PROVE dc' = dc
      BY <1>3, <3>5 DEF OnDataChannel, PerformStreamOp, TypeInv, LifeInv
    <3> QED
      BY <1>3, <3>1, <3>3, <3>4, <3>5 DEF Next, vars, InitStream, AddOnReady, ReleaseCall,
         BecomeReady, OnReady, ClearReadyWaited, IocEnds, ChannelOpens, ChannelCloses,
         OnStateChange
  <2>3. held'
    <3>1. ~ReleaseCall
      BY <2>1 DEF ReleaseCall
    <3>2. ASSUME NEW t \in Threads, PerformOpStep(t) PROVE held' = held
      BY <3>2 DEF PerformOpStep, PerformOp, CreateDataChannel, InitDataChannel, CheckOpen,
         PendOp, RunOp, SendFrame, PullFails, SendsDone, WaitForRecv, RecvsDone,
         FlushExecCtx
    <3> QED
      BY <1>3, <2>1, <3>1, <3>2 DEF Next, vars, InitStream, OnDataChannel, PerformStreamOp,
         AddOnReady, BecomeReady, OnReady, ClearReadyWaited, IocEnds, ChannelOpens,
         ChannelCloses, OnStateChange, OnMessage
  <2> QED
    BY <2>2, <2>3
<1>4. Inv /\ [Next]_vars =>
        [~IsClient /\ dc = "closed" /\ func_queue_ # <<>> =>
           dc' = "closed" /\ func_queue_' # <<>> /\ held']_vars
  BY <1>3
<1> QED
  BY <1>1, <1>2, <1>4, PTL DEF Spec, LostCallHangs

--------------------------------------------------------------------------------
(******************************************************************************)
(* The frames of a unary call.                                                *)
(******************************************************************************)

\* A client stub's unary call: one batch that receives one frame of each kind.
UnaryCall == IsClient /\ \E c : Ops = {c} /\ Batch[c].recvs = UnaryReply

\* The labels from which a batch is performed, and what they lead through.
Performing == {"run", "send", "recv"}

\* An exception ends all threads.
EndInv ==
    At({"terminated"}) =>
        pc["app"] = "terminated" /\ pc["ioc"] = "terminated" /\ pc["sig"] = "terminated"

\* While the stub's thread has the batch the callbacks cannot get it.
AloneInv ==
    pc["app"] \in InPerformOp =>
        pending_op_ = Null /\ pc["ioc"] \notin InPerformOp /\ pc["sig"] \notin InPerformOp

\* A call has one channel, whose callbacks are set before a batch is performed.
OneChannelInv ==
    /\ dc = "none" => rcvd = <<>> /\ sent = <<>> /\ arrived = 0 /\ ~At(Performing)
    /\ At({"ctor", "create"}) => dc = "none"
    /\ dc = "connecting" => ~At(Performing)
    /\ dc # "none" => cb \/ At({"init", "ctorinit", "terminated"})
    /\ dc # "none" /\ At({"perform", "check", "pend", "run", "send", "recv"}) => cb
    /\ pc["sig"] = "changed" => cb
    /\ pc["sig"] # "init"
    /\ sent # <<>> => cb

\* The rerun on the signaling thread comes before the one on the io_context thread.
RerunOrderInv ==
    pc["sig"] \in InPerformOp \/ (pc["sig"] = "changed" /\ dc = "open") =>
        pc["ioc"] \notin Performing

\* The first three receives are one of each kind, in order: a rerun registers its own
\* only when the first run has registered all of its three.
FirstThree ==
    \A i \in 1..Len(reg) : i <= 3 => reg[i][2] = UnaryReply[i]
OrderInv ==
    /\ FirstThree
    /\ reg = <<>> \/ Len(reg) >= 3 \/ At({"recv", "terminated"})
    /\ \A t \in {"app", "ioc", "sig"} :
          pc[t] = "recv" => Len(reg) >= 3 \/ IsRest(todo[t], UnaryReply, Len(reg))

CallInv == EndInv /\ AloneInv /\ OneChannelInv /\ RerunOrderInv /\ OrderInv

\* Every frame of the peer reaches OnMessage once its callback is set.
HeardInv ==
    /\ arrived = Len(rcvd) /\ arrived <= Len(reply)
    /\ \A i \in 1..Len(rcvd) : rcvd[i] = reply[i]

LEMMA CallInit == Init => CallInv
<1> SUFFICES ASSUME Init PROVE CallInv
  OBVIOUS
<1>1. pc["app"] = "idle" /\ pc["ioc"] = "idle" /\ pc["sig"] = "idle"
  BY DEF Init, Threads
<1>2. EndInv /\ AloneInv /\ OneChannelInv /\ RerunOrderInv
  BY <1>1 DEF Init, EndInv, AloneInv, OneChannelInv, RerunOrderInv, At, InPerformOp,
     Performing
<1>3. OrderInv
  BY <1>1 DEF Init, OrderInv, FirstThree, At
<1> QED
  BY <1>2, <1>3 DEF CallInv

\* Steps that register nothing and end no thread.
LEMMA OrderQuiet ==
  ASSUME OrderInv, reg' = reg,
         \A t \in {"app", "ioc", "sig"} :
            /\ pc'[t] = "recv" => pc[t] = "recv" /\ todo'[t] = todo[t]
            /\ pc[t] = "recv" =>
                 \/ pc'[t] \in {"recv", "terminated"}
                 \/ Len(reg) >= 3
            /\ pc[t] = "terminated" => pc'[t] = "terminated"
  PROVE  OrderInv'
<1>1. ASSUME NEW t \in {"app", "ioc", "sig"}, pc'[t] = "recv"
      PROVE  Len(reg') >= 3 \/ IsRest(todo[t], UnaryReply, Len(reg))'
  BY <1>1 DEF OrderInv, IsRest, UnaryReply
<1>2. FirstThree'
  BY DEF OrderInv, FirstThree, UnaryReply
<1>3. (reg = <<>> \/ Len(reg) >= 3 \/ At({"recv", "terminated"}))'
  BY DEF OrderInv, At
<1> QED
  BY <1>1, <1>2, <1>3 DEF OrderInv

LEMMA CallNext ==
  ASSUME UnaryCall, TypeInv, OnceInv, PlaceInv, CallInv, [Next]_vars
  PROVE  CallInv'
<1> USE DEF threadVars, channelVars, queueVars, closureVars, lifeVars, peerVars, batchVars
<1>0. /\ pc \in [Threads -> Labels] /\ op \in [Threads -> Ops \cup {Null}]
      /\ todo \in [Threads -> Seq(Frames)] /\ reg \in Seq(Recvs) /\ Len(reg) \in Nat
      /\ Threads = {"app", "ioc", "sig"} /\ Null \notin Ops
      /\ dc \in {"none", "connecting", "open", "closed"} /\ pending_op_ \in Ops \cup {Null}
      /\ EndInv /\ AloneInv /\ OneChannelInv /\ RerunOrderInv /\ OrderInv
      /\ IocInv /\ CtorInv /\ NoneInv
  BY ConstantsAssumption
  DEF TypeInv, TypeOK, ThreadsOK, ChannelOK, QueuesOK, BatchesOK, Threads, PlaceInv, CallInv
<1>1. PICK c : Ops = {c} /\ Batch[c].recvs = UnaryReply
  BY DEF UnaryCall
<1>2. c \notin issued => pending_op_ = Null /\ ~At(InPerformOp)
  BY <1>0, <1>1 DEF OnceInv, OnlyApp, TypeInv, LifeInv, At
<1>3. CASE InitStream
  <2>1. EndInv' /\ AloneInv' /\ OneChannelInv' /\ RerunOrderInv'
    BY <1>0, <1>1, <1>2, <1>3 DEF InitStream, Goto, EndInv, AloneInv, OneChannelInv,
       RerunOrderInv, At, InPerformOp, Performing, TypeInv, LifeInv
  <2>2. OrderInv'
    BY <1>0, <1>3, OrderQuiet DEF InitStream, Goto
  <2> QED
    BY <2>1, <2>2 DEF CallInv
<1>4. CASE AddOnReady \/ ReleaseCall
  <2>1. EndInv' /\ AloneInv' /\ OneChannelInv' /\ RerunOrderInv'
    BY <1>0, <1>1, <1>2, <1>4 DEF AddOnReady, ReleaseCall, Goto, EndInv, AloneInv,
       OneChannelInv, RerunOrderInv, At, InPerformOp, Performing
  <2>2. OrderInv'
    BY <1>0, <1>4, OrderQuiet DEF AddOnReady, ReleaseCall, Goto
  <2> QED
    BY <2>1, <2>2 DEF CallInv
<1>5. ASSUME NEW o \in Ops, OnDataChannel(o) PROVE CallInv'
  <2>1. EndInv' /\ AloneInv' /\ OneChannelInv' /\ RerunOrderInv'
    BY <1>0, <1>1, <1>2, <1>5 DEF OnDataChannel, UnaryCall, EndInv, AloneInv,
       OneChannelInv, RerunOrderInv, At, InPerformOp, Performing
  <2>2. OrderInv'
    BY <1>0, <1>5, OrderQuiet DEF OnDataChannel, UnaryCall
  <2> QED
    BY <2>1, <2>2 DEF CallInv
<1>6. ASSUME NEW o \in Ops, PerformStreamOp(o) PROVE CallInv'
  <2>1. EndInv' /\ AloneInv' /\ OneChannelInv' /\ RerunOrderInv'
    BY <1>0, <1>1, <1>2, <1>6 DEF PerformStreamOp, Goto, EndInv, AloneInv,
       OneChannelInv, RerunOrderInv, At, InPerformOp, Performing, CtorInv, Ctor
  <2>2. OrderInv'
    BY <1>0, <1>6, OrderQuiet DEF PerformStreamOp, Goto
  <2> QED
    BY <2>1, <2>2 DEF CallInv
<1>7. ASSUME NEW t \in Threads, PerformOp(t) PROVE CallInv'
  <2>1. EndInv' /\ AloneInv' /\ OneChannelInv' /\ RerunOrderInv'
    BY <1>0, <1>1, <1>2, <1>7 DEF PerformOp, Goto, EndInv, AloneInv, OneChannelInv,
       RerunOrderInv, At, InPerformOp, Performing, NoneInv
  <2>2. OrderInv'
    BY <1>0, <1>7, OrderQuiet DEF PerformOp, Goto
  <2> QED
    BY <2>1, <2>2 DEF CallInv
<1>8. ASSUME NEW t \in Threads, CreateDataChannel(t) PROVE CallInv'
  <2>1. EndInv' /\ AloneInv' /\ OneChannelInv' /\ RerunOrderInv'
    BY <1>0, <1>1, <1>2, <1>8 DEF CreateDataChannel, Goto, SigFree, EndInv, AloneInv,
       OneChannelInv, RerunOrderInv, At, InPerformOp, Performing, NoneInv, CtorInv,
       Ctor, IocInv
  <2>2. OrderInv'
    BY <1>0, <1>8, OrderQuiet DEF CreateDataChannel, Goto, SigFree
  <2> QED
    BY <2>1, <2>2 DEF CallInv
<1>9. ASSUME NEW t \in Threads, InitDataChannel(t) PROVE CallInv'
  <2>1. EndInv' /\ AloneInv' /\ OneChannelInv' /\ RerunOrderInv'
    BY <1>0, <1>1, <1>2, <1>9 DEF InitDataChannel, Goto, EndInv, AloneInv,
       OneChannelInv, RerunOrderInv, At, InPerformOp, Performing, NoneInv, CtorInv, Ctor
  <2>2. OrderInv'
    BY <1>0, <1>9, OrderQuiet DEF InitDataChannel, Goto
  <2> QED
    BY <2>1, <2>2 DEF CallInv
<1>10. ASSUME NEW t \in Threads, CheckOpen(t) PROVE CallInv'
  <2>1. EndInv' /\ AloneInv' /\ OneChannelInv' /\ RerunOrderInv'
    BY <1>0, <1>1, <1>2, <1>10 DEF CheckOpen, Goto, SigFree, EndInv, AloneInv,
       OneChannelInv, RerunOrderInv, At, InPerformOp, Performing, NoneInv
  <2>2. OrderInv'
    BY <1>0, <1>10, OrderQuiet DEF CheckOpen, Goto, SigFree
  <2> QED
    BY <2>1, <2>2 DEF CallInv
<1>11. ASSUME NEW t \in Threads, PendOp(t) PROVE CallInv'
  <2>1. EndInv' /\ AloneInv' /\ OneChannelInv' /\ RerunOrderInv'
    BY <1>0, <1>1, <1>2, <1>11 DEF PendOp, Goto, EndInv, AloneInv, OneChannelInv,
       RerunOrderInv, At, InPerformOp, Performing
  <2>2. OrderInv'
    BY <1>0, <1>11, OrderQuiet DEF PendOp, Goto
  <2> QED
    BY <2>1, <2>2 DEF CallInv
<1>12. ASSUME NEW t \in Threads, RunOp(t) PROVE CallInv'
  <2>1. EndInv' /\ AloneInv' /\ OneChannelInv' /\ RerunOrderInv'
    BY <1>0, <1>1, <1>2, <1>12 DEF RunOp, Goto, EndInv, AloneInv, OneChannelInv,
       RerunOrderInv, At, InPerformOp, Performing
  <2>2. OrderInv'
    BY <1>0, <1>12, OrderQuiet DEF RunOp, Goto
  <2> QED
    BY <2>1, <2>2 DEF CallInv
<1>13. ASSUME NEW t \in Threads, SendFrame(t) \/ PullFails(t) PROVE CallInv'
  <2>1. EndInv' /\ AloneInv' /\ OneChannelInv' /\ RerunOrderInv'
    BY <1>0, <1>1, <1>2, <1>13 DEF SendFrame, PullFails, EndInv, AloneInv,
       OneChannelInv, RerunOrderInv, At, InPerformOp, Performing
  <2>2. OrderInv'
    BY <1>0, <1>13, OrderQuiet DEF SendFrame, PullFails
  <2> QED
    BY <2>1, <2>2 DEF CallInv
<1>14. ASSUME NEW t \in Threads, SendsDone(t) PROVE CallInv'
  <2>1. EndInv' /\ AloneInv' /\ OneChannelInv' /\ RerunOrderInv'
    BY <1>0, <1>1, <1>2, <1>14 DEF SendsDone, Goto, EndInv, AloneInv, OneChannelInv,
       RerunOrderInv, At, InPerformOp, Performing
  <2>2. OrderInv'
    <3>1. /\ pc[t] = "send" /\ pc' = [pc EXCEPT ![t] = "recv"] /\ reg' = reg
          /\ todo' = [todo EXCEPT ![t] = Batch[op[t]].recvs]
      BY <1>14 DEF SendsDone, Goto
    <3>2. todo'[t] = UnaryReply /\ \A u \in Threads \ {t} : todo'[u] = todo[u]
      <4>1. op[t] = c
        BY <1>0, <1>1, <1>14, <3>1 DEF TypeInv, LifeInv, InPerformOp
      <4> QED
        BY <1>0, <1>1, <1>14, <3>1, <4>1
    <3>3. ~At({"recv", "terminated"})
      BY <1>0, <1>14, <3>1 DEF EndInv, AloneInv, RerunOrderInv, At, InPerformOp, Performing
    <3>4. reg = <<>> \/ Len(reg) >= 3
      BY <1>0, <3>3 DEF OrderInv
    <3>5. reg = <<>> => IsRest(todo'[t], UnaryReply, Len(reg))
      BY <3>2 DEF IsRest, UnaryReply
    <3>6. ASSUME NEW u \in {"app", "ioc", "sig"}, pc'[u] = "recv"
          PROVE  Len(reg') >= 3 \/ IsRest(todo[u], UnaryReply, Len(reg))'
      <4>1. u = t
        BY <1>0, <1>14, <3>1, <3>3, <3>6 DEF At
      <4> QED
        BY <3>1, <3>4, <3>5, <4>1 DEF IsRest, UnaryReply
    <3>7. FirstThree'
      BY <1>0, <3>1 DEF OrderInv, FirstThree, UnaryReply
    <3> QED
      BY <3>1, <3>4, <3>6, <3>7 DEF OrderInv
  <2> QED
    BY <2>1, <2>2 DEF CallInv
<1>15. ASSUME NEW t \in Threads, WaitForRecv(t) PROVE CallInv'
  <2>1. EndInv' /\ AloneInv' /\ OneChannelInv' /\ RerunOrderInv'
    BY <1>0, <1>1, <1>2, <1>15 DEF WaitForRecv, Receive, Goto, EndInv, AloneInv,
       OneChannelInv, RerunOrderInv, At, InPerformOp, Performing
  <2>2. OrderInv'
    <3> DEFINE r == <<op[t], Head(todo[t])>>
    <3>1. /\ pc[t] = "recv" /\ todo[t] # <<>> /\ reg' = Append(reg, r)
          /\ todo' = [todo EXCEPT ![t] = Tail(todo[t])]
      BY <1>15 DEF WaitForRecv
    <3>2. pc' = pc \/ pc' = [u \in Threads |-> "terminated"]
      BY <1>0, <1>15 DEF WaitForRecv, Receive, Goto
    <3>3. op[t] \in Ops /\ r \in Recvs /\ r[2] = Head(todo[t])
      BY <1>0, <1>15, <3>1 DEF TypeInv, LifeInv, InPerformOp, Recvs
    <3> HIDE DEF r
    <3>4. /\ Len(reg') = Len(reg) + 1 /\ reg'[Len(reg) + 1] = r
          /\ \A i \in 1..Len(reg) : reg'[i] = reg[i]
          /\ \A i \in 1..Len(reg') : i \in 1..Len(reg) \/ i = Len(reg) + 1
      BY <1>0, <3>1, <3>3
    <3>5. todo'[t] = Tail(todo[t]) /\ todo[t] \in Seq(Frames)
      BY <1>0, <1>15, <3>1
    <3>6. Len(reg) < 3 =>
            /\ Head(todo[t]) = UnaryReply[Len(reg) + 1]
            /\ IsRest(Tail(todo[t]), UnaryReply, Len(reg) + 1)
      <4> SUFFICES ASSUME Len(reg) < 3
                   PROVE  /\ Head(todo[t]) = UnaryReply[Len(reg) + 1]
                          /\ IsRest(Tail(todo[t]), UnaryReply, Len(reg) + 1)
        OBVIOUS
      <4>1. IsRest(todo[t], UnaryReply, Len(reg))
        BY <1>0, <1>15, <3>1 DEF OrderInv
      <4>2. UnaryReply \in Seq(Frames) /\ Len(reg) <= Len(UnaryReply)
        BY <1>0 DEF UnaryReply, Frames
      <4> QED
        BY <1>0, <3>1, <3>5, <4>1, <4>2, PopRest
    <3>7. FirstThree'
      <4>1. ASSUME NEW i \in 1..Len(reg'), i <= 3 PROVE reg'[i][2] = UnaryReply[i]
        <5>1. CASE i \in 1..Len(reg)
          BY <1>0, <3>4, <4>1, <5>1 DEF OrderInv, FirstThree
        <5>2. CASE i = Len(reg) + 1
          <6>1. Len(reg) < 3
            BY <1>0, <4>1, <5>2
          <6> QED
            BY <3>3, <3>4, <3>6, <5>2, <6>1
        <5> QED
          BY <3>4, <5>1, <5>2
      <4> QED
        BY <4>1 DEF FirstThree, UnaryReply
    <3>8. ASSUME NEW u \in {"app", "ioc", "sig"}, pc'[u] = "recv"
          PROVE  Len(reg') >= 3 \/ IsRest(todo[u], UnaryReply, Len(reg))'
      <4>1. u = t
        BY <1>0, <1>15, <3>1, <3>2, <3>8 DEF AloneInv, RerunOrderInv, InPerformOp, Performing
      <4>2. Len(reg) < 3 => IsRest(todo'[t], UnaryReply, Len(reg'))
        BY <3>4, <3>5, <3>6
      <4>3. Len(reg) >= 3 => Len(reg') >= 3
        BY <1>0, <3>4
      <4> QED
        BY <1>0, <4>1, <4>2, <4>3 DEF IsRest, UnaryReply
    <3>9. At({"recv", "terminated"})'
      BY <1>0, <1>15, <3>1, <3>2 DEF At
    <3> QED
      BY <3>7, <3>8, <3>9 DEF OrderInv
  <2> QED
    BY <2>1, <2>2 DEF CallInv
<1>16. ASSUME NEW t \in Threads, RecvsDone(t) PROVE CallInv'
  <2>1. EndInv' /\ AloneInv' /\ OneChannelInv' /\ RerunOrderInv'
    BY <1>0, <1>1, <1>2, <1>16 DEF RecvsDone, Goto, EndInv, AloneInv, OneChannelInv,
       RerunOrderInv, At, InPerformOp, Performing
  <2>2. OrderInv'
    <3>1. Len(reg) >= 3
      BY <1>0, <1>16 DEF RecvsDone, OrderInv, IsRest, UnaryReply
    <3> QED
      BY <1>0, <1>16, <3>1, OrderQuiet DEF RecvsDone, Goto
  <2> QED
    BY <2>1, <2>2 DEF CallInv
<1>17. ASSUME NEW t \in Threads, FlushExecCtx(t) PROVE CallInv'
  <2>1. EndInv' /\ AloneInv' /\ OneChannelInv' /\ RerunOrderInv'
    BY <1>0, <1>1, <1>2, <1>17 DEF FlushExecCtx, Goto, EndInv, AloneInv, OneChannelInv,
       RerunOrderInv, At, InPerformOp, Performing
  <2>2. OrderInv'
    BY <1>0, <1>17, OrderQuiet DEF FlushExecCtx, Goto
  <2> QED
    BY <2>1, <2>2 DEF CallInv
<1>18. CASE BecomeReady
  <2>1. EndInv' /\ AloneInv' /\ OneChannelInv' /\ RerunOrderInv'
    BY <1>0, <1>1, <1>2, <1>18 DEF BecomeReady, Goto, EndInv, AloneInv, OneChannelInv,
       RerunOrderInv, At, InPerformOp, Performing
  <2>2. OrderInv'
    BY <1>0, <1>18, OrderQuiet DEF BecomeReady, Goto
  <2> QED
    BY <2>1, <2>2 DEF CallInv
<1>19. CASE OnReady
  <2>1. EndInv' /\ AloneInv' /\ OneChannelInv' /\ RerunOrderInv'
    BY <1>0, <1>1, <1>2, <1>19 DEF OnReady, Goto, EndInv, AloneInv, OneChannelInv,
       RerunOrderInv, At, InPerformOp, Performing, CtorInv, Ctor
  <2>2. OrderInv'
    BY <1>0, <1>19, OrderQuiet DEF OnReady, Goto
  <2> QED
    BY <2>1, <2>2 DEF CallInv
<1>20. CASE ClearReadyWaited
  <2>1. EndInv' /\ AloneInv' /\ OneChannelInv' /\ RerunOrderInv'
    BY <1>0, <1>1, <1>2, <1>20 DEF ClearReadyWaited, Goto, EndInv, AloneInv,
       OneChannelInv, RerunOrderInv, At, InPerformOp, Performing
  <2>2. OrderInv'
    BY <1>0, <1>20, OrderQuiet DEF ClearReadyWaited, Goto
  <2> QED
    BY <2>1, <2>2 DEF CallInv
<1>21. CASE IocEnds
  <2>1. EndInv' /\ AloneInv' /\ OneChannelInv' /\ RerunOrderInv'
    BY <1>0, <1>1, <1>2, <1>21 DEF IocEnds, Goto, EndInv, AloneInv, OneChannelInv,
       RerunOrderInv, At, InPerformOp, Performing
  <2>2. OrderInv'
    BY <1>0, <1>21, OrderQuiet DEF IocEnds, Goto
  <2> QED
    BY <2>1, <2>2 DEF CallInv
<1>22. CASE ChannelOpens
  <2>1. EndInv' /\ AloneInv' /\ OneChannelInv' /\ RerunOrderInv'
    BY <1>0, <1>1, <1>2, <1>22 DEF ChannelOpens, Goto, EndInv, AloneInv, OneChannelInv,
       RerunOrderInv, At, InPerformOp, Performing
  <2>2. OrderInv'
    BY <1>0, <1>22, OrderQuiet DEF ChannelOpens, Goto
  <2> QED
    BY <2>1, <2>2 DEF CallInv
<1>23. CASE ChannelCloses
  <2>1. EndInv' /\ AloneInv' /\ OneChannelInv' /\ RerunOrderInv'
    BY <1>0, <1>1, <1>2, <1>23 DEF ChannelCloses, Goto, EndInv, AloneInv, OneChannelInv,
       RerunOrderInv, At, InPerformOp, Performing
  <2>2. OrderInv'
    BY <1>0, <1>23, OrderQuiet DEF ChannelCloses, Goto
  <2> QED
    BY <2>1, <2>2 DEF CallInv
<1>24. CASE OnStateChange
  <2>1. EndInv' /\ AloneInv' /\ OneChannelInv' /\ RerunOrderInv'
    BY <1>0, <1>1, <1>2, <1>24 DEF OnStateChange, Goto, EndInv, AloneInv, OneChannelInv,
       RerunOrderInv, At, InPerformOp, Performing
  <2>2. OrderInv'
    BY <1>0, <1>24, OrderQuiet DEF OnStateChange, Goto
  <2> QED
    BY <2>1, <2>2 DEF CallInv
<1>25. CASE OnMessage
  <2>1. EndInv' /\ AloneInv' /\ OneChannelInv' /\ RerunOrderInv'
    BY <1>0, <1>1, <1>2, <1>25 DEF OnMessage, Receive, Goto, EndInv, AloneInv,
       OneChannelInv, RerunOrderInv, At, InPerformOp, Performing
  <2>2. OrderInv'
    BY <1>0, <1>25, OrderQuiet DEF OnMessage, Receive, Goto
  <2> QED
    BY <2>1, <2>2 DEF CallInv
<1>26. CASE UNCHANGED vars
  <2>1. EndInv' /\ AloneInv' /\ OneChannelInv' /\ RerunOrderInv'
    BY <1>0, <1>1, <1>2, <1>26 DEF vars, EndInv, AloneInv, OneChannelInv, RerunOrderInv,
       At, InPerformOp, Performing
  <2>2. OrderInv'
    BY <1>0, <1>26, OrderQuiet DEF vars
  <2> QED
    BY <2>1, <2>2 DEF CallInv
<1> QED
  BY <1>3, <1>4, <1>5, <1>6, <1>7, <1>8, <1>9, <1>10, <1>11, <1>12, <1>13, <1>14, <1>15,
     <1>16, <1>17, <1>18, <1>19, <1>20, <1>21, <1>22, <1>23, <1>24, <1>25, <1>26 DEF
     Next, PerformOpStep

LEMMA HeardInit == Init => HeardInv
  BY ConstantsAssumption DEF Init, HeardInv

LEMMA HeardNext ==
  ASSUME TypeInv, HeardInv, [Next]_vars,
         OnMessage => cb,
         \A t \in Threads : CreateDataChannel(t) => arrived = 0
  PROVE  HeardInv'
<1> USE DEF threadVars, channelVars, queueVars, closureVars, lifeVars, peerVars, batchVars
<1>0. reply \in Seq(Frames) /\ rcvd \in Seq(Frames) /\ arrived \in Nat
  BY ConstantsAssumption DEF TypeInv, TypeOK, PeerOK, QueuesOK
<1>1. ASSUME UNCHANGED <<reply, arrived, rcvd>> PROVE HeardInv'
  BY <1>1 DEF HeardInv
<1>2. ASSUME NEW t \in Threads, CreateDataChannel(t) PROVE HeardInv'
  <2>1. arrived = 0
    BY <1>2
  <2> QED
    BY <1>1, <1>2, <2>1 DEF CreateDataChannel
<1>3. CASE OnMessage
  <2>1. arrived < Len(reply)
    BY <1>3 DEF OnMessage
  <2>2. cb
    BY <1>3
  <2>3. /\ arrived' = arrived + 1 /\ reply' = reply
        /\ rcvd' = Append(rcvd, reply[arrived + 1])
    BY <1>3, <2>2 DEF OnMessage
  <2>4. reply[arrived + 1] \in Frames
    BY <1>0, <2>1
  <2>5. /\ Len(rcvd') = Len(rcvd) + 1 /\ rcvd'[Len(rcvd) + 1] = reply[arrived + 1]
        /\ \A i \in 1..Len(rcvd) : rcvd'[i] = rcvd[i]
        /\ \A i \in 1..Len(rcvd') : i \in 1..Len(rcvd) \/ i = Len(rcvd) + 1
    BY <1>0, <2>3, <2>4
  <2> QED
    BY <1>0, <2>1, <2>3, <2>5 DEF HeardInv
<1>4. ASSUME NEW t \in Threads, PerformOpStep(t), ~CreateDataChannel(t) PROVE HeardInv'
  BY <1>1, <1>4 DEF PerformOpStep, PerformOp, InitDataChannel, CheckOpen, PendOp, RunOp,
     SendFrame, PullFails, SendsDone, WaitForRecv, RecvsDone, FlushExecCtx
<1>5. ASSUME NEW o \in Ops, OnDataChannel(o) \/ PerformStreamOp(o) PROVE HeardInv'
  BY <1>1, <1>5 DEF OnDataChannel, PerformStreamOp
<1>6. CASE InitStream \/ AddOnReady \/ ReleaseCall \/ BecomeReady \/ OnReady \/ ClearReadyWaited
           \/ IocEnds \/ ChannelOpens \/ ChannelCloses \/ OnStateChange
  BY <1>1, <1>6 DEF InitStream, AddOnReady, ReleaseCall, BecomeReady, OnReady,
     ClearReadyWaited, IocEnds, ChannelOpens, ChannelCloses, OnStateChange
<1>7. CASE UNCHANGED vars
  BY <1>1, <1>7 DEF vars
<1> QED
  BY <1>2, <1>3, <1>4, <1>5, <1>6, <1>7 DEF Next

\* The channel of a unary call is new when it is created.
LEMMA NewChannelEmpty ==
  ASSUME OneChannelInv, NEW t \in Threads, CreateDataChannel(t)
  PROVE  arrived = 0
<1>1. dc = "none"
  BY DEF CreateDataChannel, OneChannelInv, At, Threads
<1> QED
  BY <1>1 DEF OneChannelInv

\* Receive i gets frame i, receive i is of kind i and frame i is of kind i.
LEMMA KindsAgree ==
  ASSUME TypeInv, PairedInOrder, OrderInv, HeardInv
  PROVE  KindsMatch
<1> SUFFICES ASSUME reply = UnaryReply, NEW i \in DOMAIN got PROVE got[i][1][2] = got[i][2]
  BY DEF KindsMatch
<1>1. /\ got \in Seq(Recvs \X Frames) /\ reg \in Seq(Recvs) /\ rcvd \in Seq(Frames)
      /\ i \in 1..Len(got)
  BY DEF TypeInv, TypeOK, QueuesOK
<1>2. got[i] = <<reg[i], rcvd[i]>> /\ i \in 1..Len(reg) /\ i \in 1..Len(rcvd)
  BY <1>1 DEF PairedInOrder
<1>3. rcvd[i] = UnaryReply[i] /\ i <= 3
  BY <1>1, <1>2 DEF HeardInv, UnaryReply
<1>4. reg[i][2] = UnaryReply[i]
  BY <1>2, <1>3 DEF OrderInv, FirstThree
<1> QED
  BY <1>2, <1>3, <1>4

\* A unary call whose peer answers its frames with one frame of each kind gives each of
\* its receives a frame of its kind, although its batch may be performed twice and three
\* threads register receives and deliver frames.  (A peer that could send before it got
\* anything could do so before InitDataChannel has set the callbacks.)
THEOREM UnaryKinds ==
  ASSUME UnaryCall, ReplyAfter # 0
  PROVE  Spec => []KindsMatch
<1> DEFINE Inv == /\ TypeInv /\ OnceInv /\ StrandInv /\ PairedInOrder
                  /\ CallInv /\ HeardInv
<1>1. Init => Inv
  <2>1. Init => PairedInOrder
    BY DEF Init, PairedInOrder, IsRest
  <2> QED
    BY <2>1, TypeInvInit, OnceInit, StrandInit, CallInit, HeardInit
<1>2. Inv /\ [Next]_vars => Inv'
  <2>1. StrandInv => PlaceInv
    BY DEF StrandInv
  <2>2. TypeInv /\ CallInv /\ OnMessage => cb
    BY ConstantsAssumption DEF CallInv, OneChannelInv, OnMessage, TypeInv, TypeOK, PeerOK
  <2>3. CallInv => \A t \in Threads : CreateDataChannel(t) => arrived = 0
    BY NewChannelEmpty DEF CallInv
  <2> QED
    BY <2>1, <2>2, <2>3, TypeInvNext, OnceNext, StrandNext, PairedNext, CallNext, HeardNext
<1>3. Inv => KindsMatch
  BY KindsAgree DEF CallInv
<1> QED
  BY <1>1, <1>2, <1>3, PTL DEF Spec

--------------------------------------------------------------------------------
(******************************************************************************)
(* What the other end of the channel can rely on.                             *)
(******************************************************************************)

\* Nothing passes a channel that is not there.
FreshInv == dc = "none" => rcvd = <<>> /\ sent = <<>> /\ arrived = 0

\* Frames are sent by batches that have some to send.
SentInv ==
    /\ sent # <<>> => \E o \in issued : Batch[o].sends # <<>>
    /\ \A t \in Threads : pc[t] = "send" /\ todo[t] # <<>> => Batch[op[t]].sends # <<>>

\* The exception that ends the process is that of a metadata receive given a message.
ThrownInv ==
    At({"terminated"}) =>
        \E i \in 1..Len(got) : got[i][1][2] # "message" /\ got[i][2] = "message"

\* The receives of a batch are registered behind those of the batches it requires.
RequiresInv ==
    /\ \A o \in issued : \A p \in Requires[o] : p \in issued /\ Complete(p)
    /\ \A i \in 1..Len(reg) : \A p \in Requires[reg[i][1]] : \A f \in Frames :
          <<p, f>> \in Pieces(p) => \E j \in 1..(i - 1) : reg[j] = <<p, f>>

\* A server's channel has its callbacks from the start.
AcceptedInv == ~IsClient /\ dc # "none" => cb

WireInv == FreshInv /\ SentInv /\ ThrownInv /\ RequiresInv /\ AcceptedInv

LEMMA WireInit == Init => WireInv
<1> SUFFICES ASSUME Init PROVE WireInv
  OBVIOUS
<1>1. FreshInv /\ SentInv /\ AcceptedInv
  BY DEF Init, FreshInv, SentInv, AcceptedInv
<1>2. ThrownInv
  BY DEF Init, ThrownInv, At, Threads
<1>3. RequiresInv
  <2>1. issued = {} /\ 1..Len(reg) = {}
    BY DEF Init
  <2> QED
    BY <2>1 DEF RequiresInv
<1> QED
  BY <1>1, <1>2, <1>3 DEF WireInv

\* A thread inside PerformOp has a batch that core has issued.
LEMMA PerformsIssued ==
  ASSUME TypeInv, OnceInv, NEW t \in Threads, pc[t] \in InPerformOp
  PROVE  op[t] \in Ops /\ op[t] \in issued
  BY DEF TypeInv, LifeInv, OnceInv, OnlyApp, Threads

\* The peer's frames change in OnMessage and with the channel; what is sent, in
\* SendFrame and with the channel.
LEMMA WireSteps ==
  ASSUME [Next]_vars
  PROVE  /\ reply' = reply
         /\ \/ OnMessage
            \/ \E t \in Threads : CreateDataChannel(t)
            \/ UNCHANGED <<arrived, rcvd>>
         /\ \/ \E t \in Threads : SendFrame(t) \/ CreateDataChannel(t)
            \/ UNCHANGED sent
<1> USE DEF threadVars, channelVars, queueVars, closureVars, lifeVars, peerVars, batchVars
<1>1. CASE \E t \in Threads : PerformOpStep(t)
  BY <1>1 DEF PerformOpStep, PerformOp, CreateDataChannel, InitDataChannel, CheckOpen,
     PendOp, RunOp, SendFrame, PullFails, SendsDone, WaitForRecv, RecvsDone, FlushExecCtx
<1>2. CASE \E o \in Ops : OnDataChannel(o) \/ PerformStreamOp(o)
  BY <1>2 DEF OnDataChannel, PerformStreamOp
<1>3. CASE InitStream \/ AddOnReady \/ ReleaseCall \/ BecomeReady \/ OnReady \/ ClearReadyWaited
           \/ IocEnds \/ ChannelOpens \/ ChannelCloses \/ OnStateChange \/ OnMessage
  BY <1>3 DEF InitStream, AddOnReady, ReleaseCall, BecomeReady, OnReady, ClearReadyWaited,
     IocEnds, ChannelOpens, ChannelCloses, OnStateChange, OnMessage
<1>4. CASE UNCHANGED vars
  BY <1>4 DEF vars
<1> QED
  BY <1>1, <1>2, <1>3, <1>4 DEF Next

\* What is sent grows by one frame, or starts again with a new channel.
LEMMA SentGrows ==
  ASSUME TypeInv, [Next]_vars
  PROVE  \/ sent' = sent
         \/ sent' = <<>> /\ \E t \in Threads : CreateDataChannel(t)
         \/ dc = "open" /\ \E f \in Frames : sent' = Append(sent, f)
<1>1. ASSUME NEW t \in Threads, CreateDataChannel(t) PROVE sent' = sent \/ sent' = <<>>
  BY <1>1 DEF CreateDataChannel, peerVars
<1>2. ASSUME NEW t \in Threads, SendFrame(t)
      PROVE  sent' = sent \/ (dc = "open" /\ \E f \in Frames : sent' = Append(sent, f))
  <2>1. todo[t] \in Seq(Frames) /\ todo[t] # <<>>
    BY <1>2 DEF SendFrame, TypeInv, TypeOK, ThreadsOK
  <2>2. Head(todo[t]) \in Frames
    BY <2>1
  <2> QED
    BY <1>2, <2>2 DEF SendFrame
<1> QED
  BY <1>1, <1>2, WireSteps

LEMMA FreshNext == TypeInv /\ FreshInv /\ [Next]_vars => FreshInv'
<1> SUFFICES ASSUME TypeInv, FreshInv, [Next]_vars, dc' = "none"
             PROVE  rcvd' = <<>> /\ sent' = <<>> /\ arrived' = 0
  BY DEF FreshInv
<1> USE DEF threadVars, channelVars, queueVars, closureVars, lifeVars, peerVars, batchVars
<1>1. dc = "none"
  <2>1. CASE \E t \in Threads : PerformOpStep(t)
    BY <2>1 DEF PerformOpStep, PerformOp, CreateDataChannel, InitDataChannel, CheckOpen,
       PendOp, RunOp, SendFrame, PullFails, SendsDone, WaitForRecv, RecvsDone, FlushExecCtx
  <2>2. CASE \E o \in Ops : OnDataChannel(o) \/ PerformStreamOp(o)
    BY <2>2 DEF OnDataChannel, PerformStreamOp
  <2> QED
    BY <2>1, <2>2 DEF Next, vars, InitStream, AddOnReady, ReleaseCall, BecomeReady, OnReady,
       ClearReadyWaited, IocEnds, ChannelOpens, ChannelCloses, OnStateChange, OnMessage
<1>2. ~OnMessage
  BY <1>1 DEF OnMessage
<1>3. ASSUME NEW t \in Threads, CreateDataChannel(t) PROVE UNCHANGED <<arrived, rcvd, sent>>
  BY <1>3 DEF CreateDataChannel
<1>4. UNCHANGED <<arrived, rcvd>>
  BY <1>2, <1>3, WireSteps
<1>5. UNCHANGED sent
  BY <1>1, <1>3, SentGrows
<1> QED
  BY <1>1, <1>4, <1>5 DEF FreshInv

LEMMA AcceptedNext == TypeInv /\ LostInv /\ AcceptedInv /\ [Next]_vars => AcceptedInv'
<1> SUFFICES ASSUME TypeInv, LostInv, AcceptedInv, [Next]_vars, ~IsClient, dc' # "none"
             PROVE  cb'
  BY DEF AcceptedInv
<1> USE DEF threadVars, channelVars, queueVars, closureVars, lifeVars, peerVars, batchVars
<1>1. CASE \E t \in Threads : PerformOpStep(t)
  <2>1. \A t \in Threads : ~CreateDataChannel(t)
    BY DEF LostInv, CreateInv, CreateDataChannel
  <2> QED
    BY <1>1, <2>1 DEF PerformOpStep, PerformOp, InitDataChannel, CheckOpen, PendOp, RunOp,
       SendFrame, PullFails, SendsDone, WaitForRecv, RecvsDone, FlushExecCtx, AcceptedInv
<1>2. CASE \E o \in Ops : OnDataChannel(o) \/ PerformStreamOp(o)
  BY <1>2 DEF OnDataChannel, PerformStreamOp, AcceptedInv
<1> QED
  BY <1>1, <1>2 DEF Next, vars, InitStream, AddOnReady, ReleaseCall, BecomeReady, OnReady,
     ClearReadyWaited, IocEnds, ChannelOpens, ChannelCloses, OnStateChange, OnMessage,
     AcceptedInv

LEMMA SentNext == TypeInv /\ OnceInv /\ SentInv /\ [Next]_vars => SentInv'
<1> SUFFICES ASSUME TypeInv, OnceInv, SentInv, [Next]_vars PROVE SentInv'
  OBVIOUS
<1> USE DEF threadVars, channelVars, queueVars, closureVars, lifeVars, peerVars, batchVars
<1>0. /\ pc \in [Threads -> Labels] /\ op \in [Threads -> Ops \cup {Null}]
      /\ todo \in [Threads -> Seq(Frames)] /\ Threads = {"app", "ioc", "sig"}
  BY DEF TypeInv, TypeOK, ThreadsOK, Threads
\* Steps that leave what is to be sent alone.
<1>1. ASSUME sent' = sent \/ sent' = <<>>, issued \subseteq issued',
             \A t \in Threads : pc'[t] = "send" =>
                pc[t] = "send" /\ op'[t] = op[t] /\ (todo'[t] # <<>> => todo[t] # <<>>)
      PROVE  SentInv'
  BY <1>1 DEF SentInv
<1>2. ASSUME NEW t \in Threads, SendFrame(t) PROVE SentInv'
  <2>1. /\ op[t] \in issued /\ Batch[op[t]].sends # <<>>
        /\ pc' = pc /\ op' = op /\ issued' = issued
        /\ \A u \in Threads : todo'[u] # <<>> => todo[u] # <<>>
    BY <1>0, <1>2, PerformsIssued DEF SendFrame, SentInv, InPerformOp
  <2> QED
    BY <2>1 DEF SentInv
<1>3. ASSUME NEW t \in Threads, RunOp(t) PROVE SentInv'
  <2>1. op[t] \in Ops /\ op' = op /\ sent' = sent /\ issued' = issued
    BY <1>3, PerformsIssued DEF RunOp, InPerformOp
  <2>2. \A u \in Threads : IF u = t THEN todo'[u] = Batch[op[t]].sends
                           ELSE todo'[u] = todo[u] /\ pc'[u] = pc[u]
    BY <1>0, <1>3 DEF RunOp, Goto
  <2> QED
    BY <2>1, <2>2 DEF SentInv
<1>4. ASSUME NEW t \in Threads, PerformOpStep(t), ~SendFrame(t), ~RunOp(t) PROVE SentInv'
  <2>1. CASE PullFails(t) \/ SendsDone(t) \/ RecvsDone(t) \/ FlushExecCtx(t)
    BY <1>0, <1>1, <2>1 DEF PullFails, SendsDone, RecvsDone, FlushExecCtx, Goto
  <2>2. CASE WaitForRecv(t)
    BY <1>0, <1>1, <2>2 DEF WaitForRecv, Receive, Goto
  <2>3. CASE PerformOp(t) \/ CreateDataChannel(t) \/ InitDataChannel(t) \/ CheckOpen(t) \/ PendOp(t)
    BY <1>0, <1>1, <2>3 DEF PerformOp, CreateDataChannel, InitDataChannel, CheckOpen, PendOp,
       Goto
  <2> QED
    BY <1>4, <2>1, <2>2, <2>3 DEF PerformOpStep
<1>5. ASSUME NEW o \in Ops, OnDataChannel(o) \/ PerformStreamOp(o) PROVE SentInv'
  BY <1>0, <1>1, <1>5 DEF OnDataChannel, PerformStreamOp, Goto
<1>6. CASE InitStream \/ AddOnReady \/ ReleaseCall \/ BecomeReady \/ OnReady \/ ClearReadyWaited
           \/ IocEnds \/ ChannelOpens \/ ChannelCloses \/ OnStateChange
  BY <1>0, <1>1, <1>6 DEF InitStream, AddOnReady, ReleaseCall, BecomeReady, OnReady,
     ClearReadyWaited, IocEnds, ChannelOpens, ChannelCloses, OnStateChange, Goto
<1>7. CASE OnMessage
  BY <1>0, <1>1, <1>7 DEF OnMessage, Receive, Goto
<1>8. CASE UNCHANGED vars
  BY <1>1, <1>8 DEF vars
<1> QED
  BY <1>2, <1>3, <1>4, <1>5, <1>6, <1>7, <1>8 DEF Next

\* The step of a receive, and what it may throw.
LEMMA ReceiveThrows ==
  ASSUME TypeInv, ThrownInv, NEW t \in Threads, NEW r \in Recvs, NEW f \in Frames,
         NEW next \in {"recv", "ret"}, Receive(t, r, f, next)
  PROVE  ThrownInv'
<1>1. /\ got \in Seq(Recvs \X Frames) /\ <<r, f>> \in Recvs \X Frames
      /\ got' = Append(got, <<r, f>>) /\ pc \in [Threads -> Labels]
  BY DEF TypeInv, TypeOK, QueuesOK, ThreadsOK, Receive
<1>2. /\ Len(got') = Len(got) + 1 /\ got'[Len(got) + 1] = <<r, f>> /\ Len(got) \in Nat
      /\ \A i \in 1..Len(got) : got'[i] = got[i]
  BY <1>1
<1>3. Len(got) + 1 \in 1..Len(got') /\ \A i \in 1..Len(got) : i \in 1..Len(got')
  BY <1>2
<1>4. CASE Goto(t, next)
  <2>1. At({"terminated"})' => At({"terminated"})
    BY <1>1, <1>4 DEF Goto, At, Threads
  <2> QED
    BY <1>2, <1>3, <2>1 DEF ThrownInv
<1>5. CASE r[2] # "message" /\ f = "message"
  BY <1>2, <1>3, <1>5 DEF ThrownInv
<1> QED
  BY <1>4, <1>5 DEF Receive

LEMMA ThrownNext == TypeInv /\ ThrownInv /\ [Next]_vars => ThrownInv'
<1> SUFFICES ASSUME TypeInv, ThrownInv, [Next]_vars PROVE ThrownInv'
  OBVIOUS
<1> USE DEF threadVars, channelVars, queueVars, closureVars, lifeVars, peerVars, batchVars
<1>0. pc \in [Threads -> Labels] /\ Threads = {"app", "ioc", "sig"}
  BY DEF TypeInv, TypeOK, ThreadsOK, Threads
<1>1. ASSUME got' = got,
             \A t \in Threads : pc'[t] = "terminated" => pc[t] = "terminated"
      PROVE  ThrownInv'
  BY <1>0, <1>1 DEF ThrownInv, At
<1>2. ASSUME NEW t \in Threads, WaitForRecv(t) PROVE ThrownInv'
  <2> DEFINE r == <<op[t], Head(todo[t])>>
  <2>1. CASE data_queue_ = <<>>
    BY <1>1, <1>2, <2>1 DEF WaitForRecv
  <2>2. CASE data_queue_ # <<>>
    <3>1. r \in Recvs /\ Head(data_queue_) \in Frames /\ Receive(t, r, Head(data_queue_), "recv")
      BY <1>2, <2>2 DEF TypeInv, TypeOK, ThreadsOK, QueuesOK, LifeInv, InPerformOp, WaitForRecv,
         Recvs
    <3> QED
      BY <3>1, ReceiveThrows
  <2> QED
    BY <2>1, <2>2
<1>3. CASE OnMessage
  <2> DEFINE f == reply[arrived + 1]
  <2>1. f \in Frames
    <3>1. reply \in Seq(Frames) /\ arrived \in Nat /\ arrived < Len(reply)
      BY <1>3, ConstantsAssumption DEF OnMessage, TypeInv, TypeOK, PeerOK
    <3> QED
      BY <3>1
  <2>2. CASE ~cb \/ func_queue_ = <<>>
    BY <1>0, <1>1, <1>3, <2>2 DEF OnMessage, Goto
  <2>3. CASE cb /\ func_queue_ # <<>>
    <3>1. Head(func_queue_) \in Recvs /\ "sig" \in Threads
      BY <1>0, <2>3 DEF TypeInv, TypeOK, QueuesOK
    <3>2. Receive("sig", Head(func_queue_), f, "ret")
      BY <1>3, <2>3 DEF OnMessage
    <3> QED
      BY <2>1, <3>1, <3>2, ReceiveThrows
  <2> QED
    BY <2>2, <2>3
<1>4. ASSUME NEW t \in Threads, PerformOpStep(t), ~WaitForRecv(t) PROVE ThrownInv'
  BY <1>0, <1>1, <1>4 DEF PerformOpStep, PerformOp, CreateDataChannel, InitDataChannel,
     CheckOpen, PendOp, RunOp, SendFrame, PullFails, SendsDone, RecvsDone, FlushExecCtx, Goto
<1>5. ASSUME NEW o \in Ops, OnDataChannel(o) \/ PerformStreamOp(o) PROVE ThrownInv'
  BY <1>0, <1>1, <1>5 DEF OnDataChannel, PerformStreamOp, Goto
<1>6. CASE InitStream \/ AddOnReady \/ ReleaseCall \/ BecomeReady \/ OnReady \/ ClearReadyWaited
           \/ IocEnds \/ ChannelOpens \/ ChannelCloses \/ OnStateChange
  BY <1>0, <1>1, <1>6 DEF InitStream, AddOnReady, ReleaseCall, BecomeReady, OnReady,
     ClearReadyWaited, IocEnds, ChannelOpens, ChannelCloses, OnStateChange, Goto
<1>7. CASE UNCHANGED vars
  BY <1>1, <1>7 DEF vars
<1> QED
  BY <1>2, <1>3, <1>4, <1>5, <1>6, <1>7 DEF Next

\* What core has issued and what has run only grows.
LEMMA OnlyGrows ==
  ASSUME [Next]_vars
  PROVE  /\ done \subseteq done'
         /\ \/ \E o \in Ops : OnDataChannel(o) \/ PerformStreamOp(o)
            \/ issued' = issued
         /\ (\E t \in Threads : WaitForRecv(t)) \/ reg' = reg
<1> USE DEF threadVars, channelVars, queueVars, closureVars, lifeVars, peerVars, batchVars
<1>1. CASE \E t \in Threads : PerformOpStep(t)
  BY <1>1 DEF PerformOpStep, PerformOp, CreateDataChannel, InitDataChannel, CheckOpen,
     PendOp, RunOp, SendFrame, PullFails, SendsDone, WaitForRecv, RecvsDone, FlushExecCtx
<1>2. CASE \E o \in Ops : OnDataChannel(o) \/ PerformStreamOp(o)
  BY <1>2 DEF OnDataChannel, PerformStreamOp
<1>3. CASE InitStream \/ AddOnReady \/ ReleaseCall \/ BecomeReady \/ OnReady \/ ClearReadyWaited
           \/ IocEnds \/ ChannelOpens \/ ChannelCloses \/ OnStateChange \/ OnMessage
  BY <1>3 DEF InitStream, AddOnReady, ReleaseCall, BecomeReady, OnReady, ClearReadyWaited,
     IocEnds, ChannelOpens, ChannelCloses, OnStateChange, OnMessage
<1>4. CASE UNCHANGED vars
  BY <1>4 DEF vars
<1> QED
  BY <1>1, <1>2, <1>3, <1>4 DEF Next

LEMMA RequiresNext ==
  TypeInv /\ OnceInv /\ PairedInOrder /\ ClosureInv /\ RequiresInv /\ [Next]_vars => RequiresInv'
<1> SUFFICES ASSUME TypeInv, OnceInv, PairedInOrder, ClosureInv, RequiresInv, [Next]_vars
             PROVE  RequiresInv'
  OBVIOUS
<1>1. ASSUME NEW o \in issued', NEW p \in Requires[o] PROVE p \in issued' /\ Complete(p)'
  <2>1. \A q \in issued : q \in issued' /\ (Complete(q) => Complete(q)')
    BY OnlyGrows DEF Complete, OnDataChannel, PerformStreamOp
  <2>2. p \in issued /\ Complete(p)
    <3>1. CASE o \in issued
      BY <3>1 DEF RequiresInv
    <3>2. CASE OnDataChannel(o) \/ PerformStreamOp(o)
      BY <1>1, <3>2 DEF OnDataChannel, PerformStreamOp
    <3> QED
      BY <3>1, <3>2, OnlyGrows DEF OnDataChannel, PerformStreamOp
  <2> QED
    BY <2>1, <2>2
<1>2. ASSUME NEW i \in 1..Len(reg'), NEW p \in Requires[reg'[i][1]], NEW f \in Frames,
             <<p, f>> \in Pieces(p)
      PROVE  \E j \in 1..(i - 1) : reg'[j] = <<p, f>>
  <2>0. reg \in Seq(Recvs) /\ Len(reg) \in Nat /\ got \in Seq(Recvs \X Frames)
    BY DEF TypeInv, TypeOK, QueuesOK
  <2>1. CASE reg' = reg
    BY <1>2, <2>1 DEF RequiresInv
  <2>2. ASSUME NEW t \in Threads, WaitForRecv(t)
        PROVE  \E j \in 1..(i - 1) : reg'[j] = <<p, f>>
    <3> DEFINE r == <<op[t], Head(todo[t])>>
    <3>1. reg' = Append(reg, r) /\ pc[t] \in InPerformOp /\ todo[t] # <<>>
      BY <2>2 DEF WaitForRecv, InPerformOp
    <3>2. op[t] \in Ops /\ op[t] \in issued /\ r \in Recvs /\ r[1] = op[t]
      BY <3>1, PerformsIssued DEF TypeInv, TypeOK, ThreadsOK, Recvs
    <3> HIDE DEF r
    <3>3. /\ Len(reg') = Len(reg) + 1 /\ reg'[Len(reg) + 1] = r
          /\ \A k \in 1..Len(reg) : reg'[k] = reg[k]
          /\ i \in 1..Len(reg) \/ i = Len(reg) + 1
      BY <2>0, <3>1, <3>2
    <3>4. CASE i \in 1..Len(reg)
      <4>1. PICK j \in 1..(i - 1) : reg[j] = <<p, f>>
        BY <1>2, <3>3, <3>4 DEF RequiresInv
      <4>2. j \in 1..Len(reg)
        BY <2>0, <3>4
      <4> QED
        BY <3>3, <4>1, <4>2
    <3>5. CASE i = Len(reg) + 1
      <4>1. p \in issued /\ Complete(p)
        BY <3>2, <3>3, <3>5 DEF RequiresInv
      <4>2. <<p, f>> \in done /\ <<p, f>> \in Recvs
        BY <1>2, <4>1 DEF Complete, Recvs, TypeInv, TypeOK, BatchesOK
      <4>3. PICK j \in 1..Len(got) : got[j][1] = <<p, f>>
        BY <4>2 DEF ClosureInv, Paired
      <4>4. j \in 1..(i - 1) /\ reg'[j] = <<p, f>>
        BY <2>0, <3>3, <3>5, <4>3 DEF PairedInOrder
      <4> QED
        BY <4>4
    <3> QED
      BY <3>3, <3>4, <3>5
  <2> QED
    BY <2>1, <2>2, OnlyGrows
<1> QED
  BY <1>1, <1>2 DEF RequiresInv

\* All of it, for any stream.
StreamInv ==
    /\ TypeInv /\ OnceInv /\ StrandInv /\ PairedInOrder /\ ServerInv
    /\ ClosureInv /\ HeldInv /\ LostInv /\ WireInv

LEMMA StreamInit == Init => StreamInv
<1>1. Init => PairedInOrder
  BY DEF Init, PairedInOrder, IsRest
<1> QED
  BY <1>1, TypeInvInit, OnceInit, StrandInit, ServerInit, ClosureInit, HeldInit, LostInit,
     WireInit DEF StreamInv

LEMMA StreamNext == StreamInv /\ [Next]_vars => StreamInv'
<1> SUFFICES ASSUME StreamInv, [Next]_vars PROVE StreamInv'
  OBVIOUS
<1>1. /\ TypeInv /\ OnceInv /\ StrandInv /\ PairedInOrder /\ ServerInv
      /\ ClosureInv /\ HeldInv /\ LostInv /\ FreshInv /\ SentInv /\ ThrownInv /\ RequiresInv
      /\ AcceptedInv /\ NoneInv
  BY DEF StreamInv, WireInv, StrandInv, PlaceInv
<1>2. WireInv'
  BY <1>1, FreshNext, SentNext, ThrownNext, RequiresNext, AcceptedNext DEF WireInv
<1> QED
  BY <1>1, <1>2, TypeInvNext, OnceNext, StrandNext, PairedNext, ServerNext, ClosureNext,
     HeldNext, LostNext DEF StreamInv

\* The stream does not see what the peer has ready to send.
LEMMA StreamReply ==
  ASSUME StreamInv, reply' \in Replies,
         UNCHANGED <<threadVars, channelVars, queueVars, closureVars, lifeVars, peerVars,
                     batchVars>>
  PROVE  StreamInv'
<1> USE DEF threadVars, channelVars, queueVars, closureVars, lifeVars, peerVars, batchVars
<1>1. TypeInv'
  BY DEF StreamInv, TypeInv, TypeOK, ThreadsOK, ChannelOK, QueuesOK, ClosuresOK, LifeOK, PeerOK,
     BatchesOK, LifeInv
<1>2. OnceInv'
  BY DEF StreamInv, OnceInv, OnlyApp, AppRan
<1>3. StrandInv'
  BY DEF StreamInv, StrandInv, PlaceInv, IocInv, CtorInv, NoneInv, LambdaInv, CallbackInv,
     WindowInv, RerunInv, Kept, InWindow, At
<1>4. PairedInOrder'
  BY DEF StreamInv, PairedInOrder, IsRest
<1>5. ServerInv'
  BY DEF StreamInv, ServerInv, OnlySigTakes, ServerBatchInv, About
<1>6. ClosureInv' /\ HeldInv'
  BY DEF StreamInv, ClosureInv, Paired, HeldInv, Complete
<1>7. LostInv'
  <2>1. RegInv => RegInv'
    BY RegQuiet
  <2> QED
    BY <2>1 DEF StreamInv, LostInv, CreateInv
<1>8. WireInv'
  <2>1. FreshInv' /\ SentInv' /\ ThrownInv' /\ AcceptedInv'
    BY DEF StreamInv, WireInv, FreshInv, SentInv, ThrownInv, AcceptedInv, At
  <2>2. RequiresInv /\ UNCHANGED <<reg, issued, done>>
    BY DEF StreamInv, WireInv
  <2>3. RequiresInv'
    BY <2>2, ZenonT(60) DEF RequiresInv, Complete
  <2> QED
    BY <2>1, <2>3 DEF WireInv
<1> QED
  BY <1>1, <1>2, <1>3, <1>4, <1>5, <1>6, <1>7, <1>8 DEF StreamInv

\* Nor does a unary call.
LEMMA CallReply ==
  ASSUME CallInv,
         UNCHANGED <<threadVars, channelVars, queueVars, closureVars, lifeVars, peerVars,
                     batchVars>>
  PROVE  CallInv'
<1> USE DEF threadVars, channelVars, queueVars, closureVars, lifeVars, peerVars, batchVars
<1>1. OrderInv'
  BY OrderQuiet DEF CallInv
<1> QED
  BY <1>1 DEF CallInv, EndInv, AloneInv, OneChannelInv, RerunOrderInv, At

\* What was heard stays a beginning of what the peer has sent when that grows.
LEMMA HeardReply ==
  ASSUME TypeInv, HeardInv, UNCHANGED <<arrived, rcvd>>,
         NEW f \in Frames, reply' = Append(reply, f)
  PROVE  HeardInv'
<1>1. reply \in Seq(Frames) /\ rcvd \in Seq(Frames)
  BY ConstantsAssumption DEF TypeInv, TypeOK, PeerOK, QueuesOK
<1>2. Len(reply') = Len(reply) + 1 /\ \A i \in 1..Len(reply) : reply'[i] = reply[i]
  BY <1>1
<1> QED
  BY <1>1, <1>2 DEF HeardInv

--------------------------------------------------------------------------------
(******************************************************************************)
(* A call that a server accepts.                                              *)
(******************************************************************************)

\* Core has one batch to begin with, and issues any other one only after a batch that
\* receives something has completed.
AcceptedCall ==
    /\ ~IsClient
    /\ \A o, p \in Ops : Requires[o] = {} /\ Requires[p] = {} => o = p
    /\ \A o \in Ops : \A p \in Requires[o] : Batch[p].recvs # <<>>

\* Nothing comes through a channel that is still connecting, and the batch to begin with
\* is issued on the signaling thread, which is the one that opens the channel.
FirstInv ==
    /\ ~raced
    /\ dc = "connecting" => rcvd = <<>>
    /\ life # "none" => \E o \in issued : Requires[o] = {}
    /\ \A o \in Ops : op["app"] = o => Requires[o] # {}

LEMMA FirstInit == Init => FirstInv
  BY ConstantsAssumption DEF Init, FirstInv, Threads

\* A batch that the issuing thread performs comes after a frame.
LEMMA AppFollowsFrame ==
  ASSUME AcceptedCall, StreamInv, FirstInv, pc["app"] \in InPerformOp
  PROVE  rcvd # <<>>
<1>1. op["app"] \in Ops
  BY DEF StreamInv, TypeInv, LifeInv, Threads
<1>2. op["app"] \in issued
  BY <1>1 DEF StreamInv, AcceptedCall, ServerInv, ServerBatchInv
<1>3. PICK p \in Requires[op["app"]] : TRUE
  BY <1>1 DEF FirstInv
<1>4. p \in Ops /\ Complete(p)
  BY <1>1, <1>2, <1>3, ConstantsAssumption DEF StreamInv, WireInv, RequiresInv
<1>5. Batch[p].recvs \in Seq(Frames) /\ Batch[p].recvs # <<>>
  BY <1>1, <1>3, <1>4, ConstantsAssumption DEF AcceptedCall, Batches
<1>6. 1 \in DOMAIN Batch[p].recvs /\ Batch[p].recvs[1] \in Frames
  BY <1>5
<1>7. <<p, Batch[p].recvs[1]>> \in done /\ <<p, Batch[p].recvs[1]>> \in Recvs
  BY <1>4, <1>6 DEF Complete, Pieces, Recvs
<1>8. Paired(<<p, Batch[p].recvs[1]>>)
  BY <1>7 DEF StreamInv, ClosureInv
<1>9. got \in Seq(Recvs \X Frames) /\ rcvd \in Seq(Frames) /\ Len(got) <= Len(rcvd)
  BY DEF StreamInv, TypeInv, TypeOK, QueuesOK, PairedInOrder
<1> QED
  BY <1>8, <1>9 DEF Paired

LEMMA FirstNext ==
  ASSUME AcceptedCall, StreamInv, FirstInv, [Next]_vars
  PROVE  FirstInv'
<1> USE DEF threadVars, channelVars, queueVars, closureVars, lifeVars, peerVars, batchVars
<1>0. /\ TypeInv /\ OnlySigTakes /\ CreateInv /\ FreshInv /\ NoneInv
      /\ op \in [Threads -> Ops \cup {Null}] /\ pc \in [Threads -> Labels]
      /\ LifeInv /\ ~IsClient
  BY DEF StreamInv, AcceptedCall, ServerInv, LostInv, WireInv, StrandInv, PlaceInv, TypeInv,
     TypeOK, ThreadsOK
<1>1. ASSUME NEW t \in Threads, PerformOpStep(t) PROVE FirstInv'
  <2>1. ~CreateDataChannel(t)
    BY <1>0 DEF CreateInv, CreateDataChannel
  <2>2. UNCHANGED <<raced, dc, rcvd, life, issued>>
    BY <1>1, <2>1 DEF PerformOpStep, PerformOp, InitDataChannel, CheckOpen, PendOp, RunOp,
       SendFrame, PullFails, SendsDone, WaitForRecv, RecvsDone, FlushExecCtx
  <2>3. op' = op \/ op' = [op EXCEPT ![t] = Null]
    BY <1>1, <2>1 DEF PerformOpStep, PerformOp, InitDataChannel, CheckOpen, PendOp, RunOp,
       SendFrame, PullFails, SendsDone, WaitForRecv, RecvsDone, FlushExecCtx
  <2>4. op'["app"] \in {op["app"], Null}
    BY <1>0, <2>3 DEF Threads
  <2> QED
    BY <2>2, <2>4, ConstantsAssumption DEF FirstInv
<1>2. ASSUME NEW o \in Ops, OnDataChannel(o) PROVE FirstInv'
  <2>1. rcvd' = <<>> /\ raced' = raced /\ o \in issued' /\ Requires[o] = {}
    BY <1>0, <1>2 DEF OnDataChannel, LifeInv, FreshInv
  <2>2. op'["app"] = op["app"]
    BY <1>0, <1>2 DEF OnDataChannel, Threads
  <2> QED
    BY <2>1, <2>2 DEF FirstInv
<1>3. ASSUME NEW o \in Ops, PerformStreamOp(o) PROVE FirstInv'
  <2>1. /\ UNCHANGED <<raced, dc, rcvd, life>> /\ issued' = issued \cup {o}
        /\ op' = [op EXCEPT !["app"] = o] /\ held /\ o \notin issued
    BY <1>3 DEF PerformStreamOp
  <2>2. op'["app"] = o
    BY <1>0, <2>1 DEF Threads
  <2>3. PICK r \in issued : Requires[r] = {}
    BY <1>0, <2>1 DEF LifeInv, FirstInv
  <2>4. r \in Ops
    BY <1>0 DEF TypeInv, TypeOK, BatchesOK
  <2>5. Requires[o] # {}
    BY <2>1, <2>3, <2>4 DEF AcceptedCall
  <2> QED
    BY <2>1, <2>2, <2>5 DEF FirstInv
<1>4. CASE ChannelOpens
  <2>1. ~InWindow("app")
    BY <1>4, AppFollowsFrame DEF ChannelOpens, InWindow, InPerformOp, FirstInv
  <2>2. ~InWindow("ioc")
    BY <1>0 DEF InWindow, OnlySigTakes, Undecided
  <2> QED
    BY <1>4, <2>1, <2>2 DEF ChannelOpens, FirstInv
<1>5. CASE OnReady
  <2>1. ~(dc = "none" /\ InWindow("app"))
    BY <1>0 DEF NoneInv, LifeInv, InWindow
  <2>2. op'["app"] = op["app"]
    BY <1>0, <1>5 DEF OnReady, Threads
  <2> QED
    BY <1>5, <2>1, <2>2 DEF OnReady, FirstInv
<1>6. CASE ClearReadyWaited \/ OnStateChange
  <2>1. op'["app"] = op["app"]
    BY <1>0, <1>6 DEF ClearReadyWaited, OnStateChange, Threads
  <2> QED
    BY <1>6, <2>1 DEF ClearReadyWaited, OnStateChange, FirstInv
<1>7. CASE OnMessage
  BY <1>7 DEF OnMessage, FirstInv
<1>8. CASE ReleaseCall
  <2>1. life # "none"
    BY <1>0, <1>8 DEF ReleaseCall, LifeInv
  <2> QED
    BY <1>8, <2>1 DEF ReleaseCall, FirstInv
<1>9. CASE InitStream \/ AddOnReady \/ BecomeReady \/ IocEnds \/ ChannelCloses
           \/ UNCHANGED vars
  BY <1>0, <1>9 DEF InitStream, AddOnReady, BecomeReady, IocEnds, ChannelCloses, vars,
     FirstInv
<1> QED
  BY <1>1, <1>2, <1>3, <1>4, <1>5, <1>6, <1>7, <1>8, <1>9 DEF Next

\* Without the race nothing is stranded.
LEMMA FirstSafe == StreamInv /\ FirstInv => ~Stranded
  BY DEF StreamInv, FirstInv, StrandInv, RerunInv, Stranded, Kept, At, Threads

\* A server that is not cancelled strands no batch.
THEOREM AcceptedNeverStrands ==
  ASSUME AcceptedCall
  PROVE  Spec => [](~Stranded)
<1>1. Init => StreamInv /\ FirstInv
  BY StreamInit, FirstInit
<1>2. StreamInv /\ FirstInv /\ [Next]_vars => (StreamInv /\ FirstInv)'
  BY StreamNext, FirstNext
<1> QED
  BY <1>1, <1>2, FirstSafe, PTL DEF Spec
================================================================================
