-------------------------- MODULE AyameTransportProofs --------------------------
(******************************************************************************)
(* Proofs about AyameTransport, for every set of streams.                     *)
(******************************************************************************)
EXTENDS AyameTransport, TLAPS

USE DEF Runs, Thread, States, InitialRefs, StreamRefs, RunsOnConsumed, StateAtReady,
        LoopRange, IsInit, coreVars, trackerVars, readyVars, streamVars, objectVars

(******************************************************************************)
(* Reference counts.  RefsInv is what makes TypeOK and UsedTransportStays     *)
(* inductive: the channel's reference and those of the calls are counted, no  *)
(* stream is ever destroyed, and a dead transport has no thread to go on.     *)
(******************************************************************************)
RefsInv ==
    /\ transport = "none" => ~owned /\ ~coreref /\ ~th_ /\ \A s \in Streams : call[s] = "none"
    /\ transport = "dead" => ~owned /\ ~coreref /\ \A s \in Streams : call[s] = "none"
    /\ transport = "dead" /\ th_ => process # "running"
    /\ coreref => refs_ >= 1
    /\ \A s \in Streams :
         /\ call[s] # "destroyed"
         /\ call[s] \in {"add", "built"} => srefs[s] = 2
         /\ coreref /\ call[s] # "none" => refs_ >= 2

Inv == TypeOK /\ RefsInv

\* TypeOK in two halves: the flags, and what is not a flag.
Flags ==
    /\ is_client_ \in BOOLEAN /\ peer_is_client \in BOOLEAN
    /\ th_ \in BOOLEAN /\ watched \in BOOLEAN /\ ready_ \in BOOLEAN
    /\ owned \in BOOLEAN /\ coreref \in BOOLEAN
    /\ closing \in BOOLEAN /\ consumed \in BOOLEAN

Others ==
    /\ transport \in {"none", "live", "dead"}
    /\ refs_ \in Nat /\ accept_stream_cb_ \in {"wild", "set", "null"}
    /\ state \in States
    /\ telling \in [{"core", "ioc"} -> States \cup {"no"}] /\ told \in Seq(States)
    /\ ioc \in {"connecting", "open", "onready", "calling", "ended"}
    /\ ready_waited_ \in Seq(Streams) /\ rest \in Seq(Streams)
    /\ call \in [Streams -> {"none", "add", "built", "released", "destroyed"}]
    /\ srefs \in [Streams -> 0..2]
    /\ process \in {"running", "joinable", "wild", "null", "vector", "watchers"}
    /\ added \in SUBSET Streams /\ called \in SUBSET Streams /\ raced \in SUBSET Streams

LEMMA TypeHalves == TypeOK <=> Flags /\ Others
BY Zenon DEF TypeOK, Flags, Others

LEMMA TypeHalvesNext == TypeOK' <=> Flags' /\ Others'
BY Zenon DEF TypeOK, Flags, Others

LEMMA InvInit == Init => Inv
<1> SUFFICES ASSUME Init PROVE Inv
  OBVIOUS
<1>1. /\ ready_waited_ \in Seq(Streams) /\ rest \in Seq(Streams)
      /\ told \in Seq(States) /\ refs_ \in Nat
  BY DEF Init
<1>2. /\ call \in [Streams -> {"none", "add", "built", "released", "destroyed"}]
      /\ srefs \in [Streams -> 0..2]
      /\ telling \in [{"core", "ioc"} -> States \cup {"no"}]
  BY DEF Init
<1>3. TypeOK BY <1>1, <1>2, Zenon DEF Init, TypeOK
<1>4. RefsInv BY DEF Init, RefsInv
<1> QED BY <1>3, <1>4 DEF Inv

\* A step of core or of the thread that touches no count.
LEMMA InvQuiet ==
    ASSUME Inv, TypeOK',
           UNCHANGED <<transport, refs_, th_, streamVars, owned, coreref>>,
           process # "running" => process' # "running"
    PROVE  Inv'
BY DEF Inv, RefsInv

\* The ops that core performs.
LEMMA Ops ==
    /\ SetupOp.set_accept_stream = "set" /\ LastOp.set_accept_stream = "null"
    /\ ~SetupOp.goaway /\ ~SetupOp.disconnect /\ ~LastOp.goaway /\ ~LastOp.disconnect
    /\ ~LastOp.start_watch
    /\ \A client : CloseOp(client).set_accept_stream = "no" /\ ~CloseOp(client).start_watch
BY DEF NoOp, SetupOp, CloseOp, LastOp

LEMMA PerformOpType ==
    ASSUME TypeOK,
           PerformOp(SetupOp) \/ PerformOp(CloseOp(is_client_)) \/ PerformOp(LastOp)
    PROVE  /\ watched' \in BOOLEAN /\ consumed' \in BOOLEAN
           /\ told' \in Seq(States) /\ state' \in States
           /\ accept_stream_cb_' \in {"wild", "set", "null"}
           /\ telling' \in [{"core", "ioc"} -> States \cup {"no"}]
<1>1. CASE PerformOp(SetupOp)
  <2>1. state' \in States /\ telling' \in [{"core", "ioc"} -> States \cup {"no"}]
    BY <1>1 DEF PerformOp, SetState, TypeOK
  <2>2. watched' \in BOOLEAN /\ consumed' \in BOOLEAN
    BY <1>1, Zenon DEF PerformOp
  <2>3. told' \in Seq(States) /\ accept_stream_cb_' \in {"wild", "set", "null"}
    BY <1>1, Ops DEF PerformOp, TypeOK
  <2> QED BY <2>1, <2>2, <2>3
<1>2. CASE PerformOp(CloseOp(is_client_))
  <2>1. state' \in States /\ telling' \in [{"core", "ioc"} -> States \cup {"no"}]
    BY <1>2 DEF PerformOp, SetState, TypeOK
  <2>2. watched' \in BOOLEAN /\ consumed' \in BOOLEAN
    BY <1>2, Zenon DEF PerformOp
  <2>3. told' \in Seq(States) /\ accept_stream_cb_' \in {"wild", "set", "null"}
    BY <1>2, Ops DEF PerformOp, TypeOK
  <2> QED BY <2>1, <2>2, <2>3
<1>3. CASE PerformOp(LastOp)
  <2>1. state' \in States /\ telling' \in [{"core", "ioc"} -> States \cup {"no"}]
    BY <1>3 DEF PerformOp, SetState, TypeOK
  <2>2. watched' \in BOOLEAN /\ consumed' \in BOOLEAN
    BY <1>3, Zenon DEF PerformOp
  <2>3. told' \in Seq(States) /\ accept_stream_cb_' \in {"wild", "set", "null"}
    BY <1>3, Ops DEF PerformOp, TypeOK
  <2> QED BY <2>1, <2>2, <2>3
<1> QED BY <1>1, <1>2, <1>3

LEMMA InvNext == Inv /\ [Next]_vars => Inv'
<1> SUFFICES ASSUME Inv, [Next]_vars PROVE Inv'
  OBVIOUS
<1> USE DEF Inv
<1>1. CASE CreateChannel
  BY <1>1 DEF CreateChannel, Create, TypeOK, RefsInv
<1>2. CASE AddPortToServer
  <2>1. PerformOp(SetupOp) BY <1>2 DEF AddPortToServer
  <2>2. /\ watched' \in BOOLEAN /\ consumed' \in BOOLEAN
        /\ told' \in Seq(States) /\ state' \in States
        /\ accept_stream_cb_' \in {"wild", "set", "null"}
        /\ telling' \in [{"core", "ioc"} -> States \cup {"no"}]
    BY <2>1, PerformOpType
  <2>3. TypeOK'
    <3>1. Flags' BY <1>2, <2>2, TypeHalves, Zenon DEF AddPortToServer, Flags, Create
    <3>2. Others' BY <1>2, <2>2, TypeHalves DEF AddPortToServer, Others, Create
    <3> QED BY <3>1, <3>2, TypeHalvesNext
  <2> QED BY <1>2, <2>3 DEF AddPortToServer, Create, TypeOK, RefsInv
<1>3. CASE StartListener
  BY <1>3 DEF StartListener, TypeOK, RefsInv
<1>4. CASE CloseChannel
  <2>1. PerformOp(CloseOp(is_client_)) BY <1>4 DEF CloseChannel
  <2>2. /\ watched' \in BOOLEAN /\ consumed' \in BOOLEAN
        /\ told' \in Seq(States) /\ state' \in States
        /\ accept_stream_cb_' \in {"wild", "set", "null"}
        /\ telling' \in [{"core", "ioc"} -> States \cup {"no"}]
    BY <2>1, PerformOpType
  <2>3. TypeOK'
    <3>1. Flags' BY <1>4, <2>2, TypeHalves, Zenon DEF CloseChannel, Flags
    <3>2. Others' BY <1>4, <2>2, TypeHalves DEF CloseChannel, Others
    <3> QED BY <3>1, <3>2, TypeHalvesNext
  <2> QED BY <1>4, <2>3, InvQuiet DEF CloseChannel
<1>5. CASE DestroyServerChannel
  <2>1. PerformOp(LastOp) BY <1>5 DEF DestroyServerChannel
  <2>2. /\ watched' \in BOOLEAN /\ consumed' \in BOOLEAN
        /\ told' \in Seq(States) /\ state' \in States
        /\ accept_stream_cb_' \in {"wild", "set", "null"}
        /\ telling' \in [{"core", "ioc"} -> States \cup {"no"}]
    BY <2>1, PerformOpType
  <2>3. TypeOK'
    <3>1. Flags' BY <1>5, <2>2, TypeHalves, Zenon DEF DestroyServerChannel, Flags
    <3>2. Others' BY <1>5, <2>2, TypeHalves DEF DestroyServerChannel, Others
    <3> QED BY <3>1, <3>2, TypeHalvesNext
  <2> QED BY <1>5, <2>3, InvQuiet DEF DestroyServerChannel
<1>6. CASE ReleaseChannel
  <2>1. TypeOK'
    <3>1. Flags' BY <1>6, TypeHalves, Zenon DEF ReleaseChannel, Flags
    <3>2. Others' BY <1>6, TypeHalves DEF ReleaseChannel, Others
    <3> QED BY <3>1, <3>2, TypeHalvesNext
  <2> QED BY <1>6, <2>1 DEF ReleaseChannel, RefsInv
<1>7. CASE DestroyTransport
  <2>1. \A s \in Streams : call[s] = "none"
    BY <1>7 DEF DestroyTransport, ChannelUsed, RefsInv
  <2>2. TypeOK'
    <3>1. Flags' BY <1>7, TypeHalves, Zenon DEF DestroyTransport, Flags
    <3>2. Others' BY <1>7, TypeHalves DEF DestroyTransport, Others, Unref, RefsInv
    <3> QED BY <3>1, <3>2, TypeHalvesNext
  <2> QED BY <1>7, <2>1, <2>2 DEF DestroyTransport, Unref, ChannelUsed, TypeOK, RefsInv
<1>8. ASSUME NEW t \in {"core", "ioc"}, Notify(t) PROVE Inv'
  <2>1. TypeOK' BY <1>8 DEF Notify, TypeOK
  <2> QED BY <1>8, <2>1, InvQuiet DEF Notify
<1>9. ASSUME NEW s \in Streams, InitStream(s) PROVE Inv'
  <2>1. TypeOK' BY <1>9 DEF InitStream, Construct, TypeOK
  <2> QED BY <1>9, <2>1 DEF InitStream, Construct, TypeOK, RefsInv
<1>10. ASSUME NEW s \in Streams, AddOnReady(s) PROVE Inv'
  <2>1. TypeOK'
    <3>1. Flags' BY <1>10, TypeHalves, Zenon DEF AddOnReady, Flags
    <3>2. DEFINE others == {t \in Streams \ {s} : call[t] = "add"}
    <3>3. /\ ready_waited_' = Append(ready_waited_, s) \/ UNCHANGED ready_waited_
          /\ process' = "vector" \/ UNCHANGED process
          /\ raced' = raced \cup others
                   \cup (IF others # {} \/ (ready_ /\ ioc # "onready") THEN {s} ELSE {})
      BY <1>10 DEF AddOnReady
    <3>4. others \subseteq Streams
      OBVIOUS
    <3> HIDE DEF others
    <3>5. raced' \in SUBSET Streams
      <4>1. raced \in SUBSET Streams /\ s \in Streams BY DEF TypeOK
      <4> QED BY <3>3, <3>4, <4>1
    <3>6. ready_waited_' \in Seq(Streams)
      <4>1. ready_waited_ \in Seq(Streams) BY DEF TypeOK
      <4>2. ready_waited_' = Append(ready_waited_, s) \/ ready_waited_' = ready_waited_
        BY <3>3
      <4> QED BY <4>1, <4>2
    <3>7. Others' BY <1>10, <3>3, <3>5, <3>6, TypeHalves DEF AddOnReady, Others
    <3> QED BY <3>1, <3>7, TypeHalvesNext
  <2> QED BY <1>10, <2>1 DEF AddOnReady, TypeOK, RefsInv
<1>11. ASSUME NEW s \in Streams, ReleaseCall(s) PROVE Inv'
  <2>1. srefs[s] = 2 /\ srefs' = [srefs EXCEPT ![s] = 1]
    <3>1. call[s] = "built" /\ srefs' = [srefs EXCEPT ![s] = @ - 1] BY <1>11 DEF ReleaseCall
    <3>2. srefs[s] = 2 BY <3>1 DEF RefsInv
    <3> QED BY <3>1, <3>2
  <2>2. call' = [call EXCEPT ![s] = "released"] /\ UNCHANGED <<refs_, transport, process>>
    BY <1>11, <2>1 DEF ReleaseCall, TypeOK
  <2>3. TypeOK' BY <1>11, <2>1, <2>2 DEF ReleaseCall, TypeOK
  <2> QED BY <1>11, <2>1, <2>2, <2>3 DEF ReleaseCall, TypeOK, RefsInv
<1>12. CASE OnConnect
  <2>1. TypeOK' BY <1>12 DEF OnConnect, SetState, TypeOK
  <2> QED BY <1>12, <2>1, InvQuiet DEF OnConnect
<1>13. CASE BecomeReady
  <2>1. TypeOK' BY <1>13 DEF BecomeReady, TypeOK
  <2> QED BY <1>13, <2>1, InvQuiet DEF BecomeReady
<1>14. CASE OnReady
  <2>1. TypeOK' BY <1>14 DEF OnReady, TypeOK
  <2> QED BY <1>14, <2>1, InvQuiet DEF OnReady
<1>15. CASE CallWaiter
  <2>1. TypeOK' BY <1>15 DEF CallWaiter, TypeOK
  <2> QED BY <1>15, <2>1, InvQuiet DEF CallWaiter
<1>16. CASE ClearWaited
  <2>1. TypeOK' BY <1>16 DEF ClearWaited, TypeOK
  <2> QED BY <1>16, <2>1, InvQuiet DEF ClearWaited
<1>17. CASE IocEnds
  <2>1. TypeOK' BY <1>17 DEF IocEnds, TypeOK
  <2> QED BY <1>17, <2>1, InvQuiet DEF IocEnds
<1>18. ASSUME NEW label, OnDataChannel(label) PROVE Inv'
  <2>1. CASE UNCHANGED <<refs_, streamVars>>
    <3>1. TypeOK' BY <1>18, <2>1 DEF OnDataChannel, TypeOK
    <3> QED BY <1>18, <2>1, <3>1, InvQuiet DEF OnDataChannel
  <2>2. CASE \E s \in Streams : Construct(s, "built") /\ UNCHANGED process
    <3>1. PICK s \in Streams : Construct(s, "built") /\ UNCHANGED process BY <2>2
    <3>2. TypeOK' BY <1>18, <3>1 DEF OnDataChannel, Construct, TypeOK
    <3> QED BY <1>18, <3>1, <3>2 DEF OnDataChannel, Construct, TypeOK, RefsInv
  <2> QED BY <1>18, <2>1, <2>2 DEF OnDataChannel
<1>19. CASE UNCHANGED vars
  BY <1>19 DEF vars, TypeOK, RefsInv
<1> QED
  BY <1>1, <1>2, <1>3, <1>4, <1>5, <1>6, <1>7, <1>8, <1>9, <1>10, <1>11, <1>12, <1>13,
     <1>14, <1>15, <1>16, <1>17, <1>18, <1>19 DEF Next, CoreStep, IocStep

LEMMA Invariance == Spec => []Inv
BY InvInit, InvNext, PTL DEF Spec

\* The reference counts of the transport and of its streams stay in their ranges:
\* no Unref is ever one too many.
THEOREM TypeCorrect == Spec => []TypeOK
BY Invariance, PTL DEF Inv

\* A transport on which a call was made or accepted is never destroyed.
THEOREM TransportStays == Spec => []UsedTransportStays
<1>1. Inv => UsedTransportStays BY DEF Inv, RefsInv, UsedTransportStays
<1> QED BY <1>1, Invariance, PTL


(******************************************************************************)
(* The accept callback.  SHUTDOWN is stored, being told or told only once the *)
(* channel is given up, so only then does core take the callback back.        *)
(******************************************************************************)
AcceptInv ==
    /\ ~is_client_ /\ transport # "none" => accept_stream_cb_ # "wild"
    /\ accept_stream_cb_ = "null" => ~is_client_ /\ closing
    /\ state = "SHUTDOWN" => closing
    /\ \A t \in {"core", "ioc"} : telling[t] = "SHUTDOWN" => closing
    /\ \A i \in DOMAIN told : told[i] = "SHUTDOWN" => closing
    /\ AcceptIsSafe

LEMMA AcceptInit == Init => AcceptInv
BY DEF Init, AcceptInv, AcceptIsSafe

\* A step that leaves the tracker, the callback and the roles alone.
LEMMA AcceptQuiet ==
    ASSUME AcceptInv,
           UNCHANGED <<is_client_, peer_is_client, accept_stream_cb_, trackerVars, closing>>,
           transport = "none" => transport' = "none",
           process' = process \/ process' \notin {"wild", "null"}
    PROVE  AcceptInv'
BY DEF AcceptInv, AcceptIsSafe

LEMMA AcceptNext == Inv /\ AcceptInv /\ [Next]_vars => AcceptInv'
<1> SUFFICES ASSUME Inv, AcceptInv, [Next]_vars PROVE AcceptInv'
  OBVIOUS
<1>0. TypeOK /\ RefsInv BY DEF Inv
<1>1. CASE CreateChannel
  BY <1>1 DEF CreateChannel, Create, AcceptInv, AcceptIsSafe
<1>2. CASE AddPortToServer
  <2>1. /\ accept_stream_cb_' = "set" /\ UNCHANGED <<state, telling>>
        /\ told' = told \/ told' = Append(told, state)
    BY <1>2, Ops DEF AddPortToServer, PerformOp
  <2>2. \A i \in DOMAIN told' : told'[i] = "SHUTDOWN" => closing
    <3>1. told \in Seq(States) /\ state \in States BY <1>0 DEF TypeOK
    <3>2. CASE told' = told BY <3>2 DEF AcceptInv
    <3>3. CASE told' = Append(told, state) BY <3>1, <3>3 DEF AcceptInv
    <3> QED BY <2>1, <3>2, <3>3
  <2> QED BY <1>2, <2>1, <2>2 DEF AddPortToServer, AcceptInv, AcceptIsSafe
<1>3. CASE StartListener
  BY <1>3, AcceptQuiet DEF StartListener
<1>4. CASE CloseChannel
  <2>1. UNCHANGED accept_stream_cb_
    BY <1>4, Ops DEF CloseChannel, PerformOp
  <2> QED BY <1>4, <2>1 DEF CloseChannel, AcceptInv, AcceptIsSafe
<1>5. CASE DestroyServerChannel
  <2>1. accept_stream_cb_' = "null" /\ UNCHANGED <<state, telling, told>>
    BY <1>5, Ops DEF DestroyServerChannel, PerformOp
  <2>2. closing BY <1>5 DEF DestroyServerChannel, AcceptInv
  <2> QED BY <1>5, <2>1, <2>2 DEF DestroyServerChannel, AcceptInv, AcceptIsSafe
<1>6. CASE ReleaseChannel
  BY <1>6, AcceptQuiet DEF ReleaseChannel
<1>7. CASE DestroyTransport
  <2>1. transport # "none" BY <1>7, <1>0 DEF DestroyTransport, RefsInv
  <2> QED BY <1>7, <2>1, AcceptQuiet DEF DestroyTransport, Unref
<1>8. ASSUME NEW t \in {"core", "ioc"}, Notify(t) PROVE AcceptInv'
  <2>1. \A i \in DOMAIN told' : told'[i] = "SHUTDOWN" => closing
    BY <1>0, <1>8 DEF Notify, TypeOK, AcceptInv
  <2>2. \A u \in {"core", "ioc"} : telling'[u] = "SHUTDOWN" => closing
    BY <1>0, <1>8 DEF Notify, TypeOK, AcceptInv
  <2> QED BY <1>8, <2>1, <2>2 DEF Notify, AcceptInv, AcceptIsSafe
<1>9. ASSUME NEW s \in Streams, InitStream(s) PROVE AcceptInv'
  BY <1>9, AcceptQuiet DEF InitStream
<1>10. ASSUME NEW s \in Streams, AddOnReady(s) PROVE AcceptInv'
  <2>1. process' = process \/ process' = "vector" BY <1>10 DEF AddOnReady
  <2> QED BY <1>10, <2>1, AcceptQuiet DEF AddOnReady
<1>11. ASSUME NEW s \in Streams, ReleaseCall(s) PROVE AcceptInv'
  <2>1. transport # "none" BY <1>11, <1>0 DEF ReleaseCall, RefsInv
  <2>2. process' = process \/ process' = "joinable" BY <1>11 DEF ReleaseCall, Unref
  <2> QED BY <1>11, <2>1, <2>2, AcceptQuiet DEF ReleaseCall
<1>12. CASE OnConnect
  BY <1>12, <1>0 DEF OnConnect, SetState, TypeOK, AcceptInv, AcceptIsSafe
<1>13. CASE BecomeReady
  BY <1>13, AcceptQuiet DEF BecomeReady
<1>14. CASE OnReady
  BY <1>14, AcceptQuiet DEF OnReady
<1>15. CASE CallWaiter
  BY <1>15, AcceptQuiet DEF CallWaiter
<1>16. CASE ClearWaited
  BY <1>16, AcceptQuiet DEF ClearWaited
<1>17. CASE IocEnds
  BY <1>17, AcceptQuiet DEF IocEnds
<1>18. ASSUME NEW label \in {"init", "ayame_transport"}, OnDataChannel(label)
       PROVE  AcceptInv'
  <2>1. CASE UNCHANGED process
    BY <1>18, <2>1, AcceptQuiet DEF OnDataChannel
  <2>2. CASE process' = accept_stream_cb_ /\ ~IsInit(label)
    <3>1. transport # "none" BY <1>18, <1>0 DEF OnDataChannel, RefsInv
    <3>2. process' = "wild" => is_client_ /\ peer_is_client
      BY <1>18, <2>2, <3>1, <1>0 DEF OnDataChannel, AcceptInv, TypeOK
    <3>3. process' = "null" => ~is_client_ /\ closing
      BY <2>2 DEF AcceptInv
    <3> QED BY <1>18, <3>2, <3>3 DEF OnDataChannel, AcceptInv, AcceptIsSafe
  <2> QED BY <1>18, <2>1, <2>2 DEF OnDataChannel
<1>19. CASE UNCHANGED vars
  BY <1>19, AcceptQuiet DEF vars
<1> QED
  BY <1>1, <1>2, <1>3, <1>4, <1>5, <1>6, <1>7, <1>8, <1>9, <1>10, <1>11, <1>12, <1>13,
     <1>14, <1>15, <1>16, <1>17, <1>18, <1>19 DEF Next, CoreStep, IocStep

\* An unset accept callback is called only where two clients met, a null one only on
\* a server that is shut down.
THEOREM AcceptSafe == Spec => []AcceptIsSafe
<1>1. AcceptInv => AcceptIsSafe BY DEF AcceptInv
<1> QED BY <1>1, Invariance, AcceptInit, AcceptNext, PTL DEF Spec

(******************************************************************************)
(* Connectivity.                                                              *)
(******************************************************************************)

\* Only OnConnect takes a channel out of SHUTDOWN.
THEOREM ShutdownFinal == Spec => ConnectedShutdownIsFinal
<1> DEFINE Final == state = "SHUTDOWN" /\ state' # "SHUTDOWN" => ioc = "connecting"
<1>1. ASSUME [Next]_vars PROVE [Final]_vars
  <2>1. CASE OnConnect BY <2>1 DEF OnConnect
  <2>2. CASE CloseChannel BY <2>2 DEF CloseChannel, PerformOp, SetState
  <2>3. CASE DestroyServerChannel BY <2>3 DEF DestroyServerChannel, PerformOp, SetState
  <2>4. CASE AddPortToServer BY <2>4 DEF AddPortToServer, PerformOp, SetState
  <2>5. CASE \/ CreateChannel \/ StartListener \/ Notify("core") \/ Notify("ioc")
             \/ ReleaseChannel \/ DestroyTransport
    BY <2>5 DEF CreateChannel, StartListener, Notify, ReleaseChannel, DestroyTransport
  <2>6. CASE BecomeReady \/ OnReady \/ CallWaiter \/ ClearWaited \/ IocEnds
    BY <2>6 DEF BecomeReady, OnReady, CallWaiter, ClearWaited, IocEnds
  <2>7. CASE \E s \in Streams : InitStream(s) \/ AddOnReady(s) \/ ReleaseCall(s)
    BY <2>7 DEF InitStream, AddOnReady, ReleaseCall
  <2>8. CASE \E label \in {"init", "ayame_transport"} : OnDataChannel(label)
    BY <2>8 DEF OnDataChannel
  <2> QED
    BY <1>1, <2>1, <2>2, <2>3, <2>4, <2>5, <2>6, <2>7, <2>8
    DEF Next, CoreStep, IocStep
<1> QED BY <1>1, PTL DEF Spec, ConnectedShutdownIsFinal

(******************************************************************************)
(* Waiting for readiness: where the lambda of a stream that did not race is,  *)
(* before, during and after the loop of OnReady.                              *)
(******************************************************************************)
In(s, q) == \E i \in 1..Len(q) : q[i] = s

WaitInv ==
    /\ ioc \in {"onready", "calling"} => ready_
    /\ ready_ => ioc # "connecting"
    /\ \A s \in added \ raced :
         /\ ~ready_ \/ ioc = "onready" => In(s, ready_waited_)
         /\ ioc = "calling" => s \in called \/ In(s, rest)
    /\ WaitersCalled

LEMMA InAppend ==
    ASSUME NEW q \in Seq(Streams), NEW s \in Streams, NEW t
    PROVE  (t = s \/ In(t, q)) => In(t, Append(q, s))
<1>1. /\ Len(Append(q, s)) = Len(q) + 1 /\ Append(q, s)[Len(q) + 1] = s
      /\ \A i \in 1..Len(q) : Append(q, s)[i] = q[i]
      /\ Len(q) \in Nat
  OBVIOUS
<1>2. CASE t = s
  BY <1>1, <1>2 DEF In
<1>3. CASE In(t, q)
  BY <1>1, <1>3 DEF In
<1> QED BY <1>2, <1>3

LEMMA InTail ==
    ASSUME NEW q \in Seq(Streams), q # <<>>, NEW t, In(t, q)
    PROVE  t = Head(q) \/ In(t, Tail(q))
<1>1. PICK i \in 1..Len(q) : q[i] = t BY DEF In
<1>2. CASE i = 1 BY <1>1, <1>2
<1>3. CASE i # 1
  <2>1. i - 1 \in 1..Len(Tail(q)) /\ Tail(q)[i - 1] = t BY <1>1, <1>3
  <2> QED BY <2>1 DEF In
<1> QED BY <1>2, <1>3

LEMMA WaitInit == Init => WaitInv
BY DEF Init, WaitInv, WaitersCalled

LEMMA WaitQuiet ==
    ASSUME WaitInv, UNCHANGED <<ioc, readyVars>>
    PROVE  WaitInv'
BY Zenon DEF WaitInv, WaitersCalled, In

LEMMA WaitNext == TypeOK /\ WaitInv /\ [Next]_vars => WaitInv'
<1> SUFFICES ASSUME TypeOK, WaitInv, [Next]_vars PROVE WaitInv'
  OBVIOUS
<1>2. ASSUME NEW s \in Streams, AddOnReady(s) PROVE WaitInv'
  <2>1. UNCHANGED <<ioc, ready_, rest, called>> /\ added' = added \cup {s}
    BY <1>2 DEF AddOnReady
  <2>2. raced \subseteq raced' /\ (ready_ /\ ioc # "onready" => s \in raced')
    BY <1>2 DEF AddOnReady
  <2>3. CASE ready_ /\ ioc # "onready"
    BY <2>1, <2>2, <2>3 DEF WaitInv, WaitersCalled
  <2>4. CASE ~(ready_ /\ ioc # "onready")
    <3>1. ioc # "calling" BY <2>4 DEF WaitInv
    <3>2. s \in raced' \/ ready_waited_' = Append(ready_waited_, s)
      BY <1>2, <3>1 DEF AddOnReady
    <3>3. ready_waited_' = Append(ready_waited_, s) \/ ready_waited_' = ready_waited_
      BY <1>2 DEF AddOnReady
    <3>4. ready_waited_ \in Seq(Streams) BY DEF TypeOK
    <3>5. \A t \in added' \ raced' : In(t, ready_waited_')
      <4> TAKE t \in added' \ raced'
      <4>1. t = s \/ In(t, ready_waited_) BY <2>1, <2>2, <2>4 DEF WaitInv
      <4>2. CASE ready_waited_' = Append(ready_waited_, s)
        <5>1. In(t, Append(ready_waited_, s)) BY <3>4, <4>1, InAppend
        <5> QED BY <4>2, <5>1
      <4>3. CASE ready_waited_' = ready_waited_ /\ t # s
        BY <4>1, <4>3
      <4> QED BY <3>2, <3>3, <4>2, <4>3
    <3>6. ~(ready_ /\ ioc \in {"open", "ended"}) BY <2>4
    <3> QED BY <2>1, <3>1, <3>5, <3>6 DEF WaitInv, WaitersCalled
  <2> QED BY <2>3, <2>4
<1>3. CASE OnConnect
  <2>1. ~ready_ BY <1>3 DEF OnConnect, WaitInv
  <2> QED BY <1>3, <2>1 DEF OnConnect, WaitInv, WaitersCalled
<1>4. CASE BecomeReady
  BY <1>4 DEF BecomeReady, WaitInv, WaitersCalled
<1>5. CASE OnReady
  <2>1. \A t \in added \ raced : In(t, ready_waited_) BY <1>5 DEF OnReady, WaitInv
  <2> QED BY <1>5, <2>1 DEF OnReady, WaitInv, WaitersCalled
<1>6. CASE CallWaiter
  <2>1. /\ rest \in Seq(Streams) /\ rest # <<>> /\ ready_ /\ ioc = "calling" /\ ioc' = ioc
        /\ rest' = Tail(rest) /\ called' = called \cup {Head(rest)}
        /\ UNCHANGED <<ready_, ready_waited_, added, raced>>
    BY <1>6 DEF CallWaiter, TypeOK, WaitInv
  <2>2. \A t \in added \ raced : t \in called' \/ In(t, rest')
    <3> TAKE t \in added \ raced
    <3>1. t \in called \/ In(t, rest) BY <2>1 DEF WaitInv
    <3>2. In(t, rest) => t = Head(rest) \/ In(t, Tail(rest)) BY <2>1, InTail
    <3>3. CASE t \in called \/ t = Head(rest) BY <2>1, <3>3
    <3>4. CASE In(t, Tail(rest)) BY <2>1, <3>4
    <3> QED BY <3>1, <3>2, <3>3, <3>4
  <2> QED BY <2>1, <2>2 DEF WaitInv, WaitersCalled
<1>7. CASE ClearWaited
  <2>1. \A t : ~In(t, rest) BY <1>7 DEF ClearWaited, In
  <2>2. added \ raced \subseteq called BY <1>7, <2>1 DEF ClearWaited, WaitInv
  <2> QED BY <1>7, <2>2 DEF ClearWaited, WaitInv, WaitersCalled
<1>8. CASE IocEnds
  BY <1>8 DEF IocEnds, WaitInv, WaitersCalled
<1>9. CASE CreateChannel \/ StartListener \/ ReleaseChannel \/ DestroyTransport
  BY <1>9, WaitQuiet DEF CreateChannel, StartListener, ReleaseChannel, DestroyTransport
<1>10. CASE AddPortToServer \/ CloseChannel \/ DestroyServerChannel
  BY <1>10, WaitQuiet DEF AddPortToServer, CloseChannel, DestroyServerChannel
<1>11. CASE \E s \in Streams : InitStream(s) \/ ReleaseCall(s)
  BY <1>11, WaitQuiet DEF InitStream, ReleaseCall
<1>12. CASE \/ \E t \in {"core", "ioc"} : Notify(t)
            \/ \E label \in {"init", "ayame_transport"} : OnDataChannel(label)
  BY <1>12, WaitQuiet DEF Notify, OnDataChannel
<1>13. CASE UNCHANGED vars
  BY <1>13, WaitQuiet DEF vars
<1> QED
  BY <1>2, <1>3, <1>4, <1>5, <1>6, <1>7, <1>8, <1>9, <1>10, <1>11, <1>12, <1>13
  DEF Next, CoreStep, IocStep

\* The loop of OnReady calls every stream that waited without racing with it.
THEOREM WaitersAreCalled == Spec => []WaitersCalled
<1>1. WaitInv => WaitersCalled BY DEF WaitInv
<1> QED BY <1>1, TypeCorrect, WaitInit, WaitNext, PTL DEF Spec

================================================================================
