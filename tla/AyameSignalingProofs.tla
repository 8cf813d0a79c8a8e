-------------------------- MODULE AyameSignalingProofs --------------------------
(******************************************************************************)
(* Proofs about AyameSignaling, for any number of peers, texts in the pool,   *)
(* candidates and pings, with or without failures.                            *)
(******************************************************************************)
EXTENDS AyameSignaling, FiniteSetTheorems, TLAPS

\* The conditions that the actions name are expanded everywhere.
USE DEF IsExistUser, WithAnswer, AddIceCandidate, MayCreate

--------------------------------------------------------------------------------
(******************************************************************************)
(* Texts in a queue.                                                          *)
(******************************************************************************)
Has(s, type) == \E i \in 1..Len(s) : s[i].type = type

\* At most one text of the type.
Once(s, type) ==
    \A i, j \in 1..Len(s) : s[i].type = type /\ s[j].type = type => i = j

Begins(s, type) == s # <<>> /\ Head(s).type = type

\* The answer to a register message comes first or not at all.
Welcome(s) == \A i \in 2..Len(s) : s[i].type \notin {"accept", "reject"}

Removed(s, i) == SubSeq(s, 1, i - 1) \o SubSeq(s, i + 1, Len(s))

LEMMA HasEmpty ==
  ASSUME NEW t
  PROVE  ~Has(<<>>, t) /\ Once(<<>>, t) /\ ~Begins(<<>>, t) /\ Welcome(<<>>)
  BY DEF Has, Once, Begins, Welcome

LEMMA AppendFacts ==
  ASSUME NEW S, NEW s \in Seq(S), NEW m \in S
  PROVE  /\ Append(s, m) # <<>> /\ Len(Append(s, m)) = Len(s) + 1
         /\ s # <<>> => Head(Append(s, m)) = Head(s)
         /\ s = <<>> => Head(Append(s, m)) = m /\ Len(Append(s, m)) = 1
  OBVIOUS

LEMMA SingleText ==
  ASSUME NEW S, NEW s \in Seq(S), NEW u \in Seq(S)
  PROVE  /\ Len(u) = 1 => Tail(u) = <<>>
         /\ Len(s) + Len(u) = 1 /\ u # <<>> => s = <<>> /\ Len(u) = 1
<1>1. Len(s) \in Nat /\ Len(u) \in Nat /\ (u # <<>> => Len(u) # 0) /\ (Len(s) = 0 => s = <<>>)
  OBVIOUS
<1>2. ASSUME Len(u) = 1 PROVE Tail(u) = <<>>
  <2>1. Tail(u) \in Seq(S) /\ Len(Tail(u)) = 0
    BY <1>2
  <2>2. \A v \in Seq(S) : Len(v) = 0 => v = <<>>
    OBVIOUS
  <2> QED
    BY <2>1, <2>2, Zenon
<1>3. \A a, b \in Nat : a + b = 1 /\ b # 0 => a = 0 /\ b = 1
  OBVIOUS
<1> QED
  BY <1>1, <1>2, <1>3, Zenon

LEMMA HasAppend ==
  ASSUME NEW S, NEW s \in Seq(S), NEW m \in S, NEW t
  PROVE  /\ Has(Append(s, m), t) <=> Has(s, t) \/ m.type = t
         /\ Once(s, t) /\ (m.type = t => ~Has(s, t)) => Once(Append(s, m), t)
         /\ Begins(Append(s, m), t) <=> Begins(s, t) \/ (s = <<>> /\ m.type = t)
<1>1. /\ Len(Append(s, m)) = Len(s) + 1 /\ Append(s, m)[Len(s) + 1] = m
      /\ \A i \in 1..Len(s) : Append(s, m)[i] = s[i]
  OBVIOUS
<1>2. Has(Append(s, m), t) <=> Has(s, t) \/ m.type = t
  BY <1>1 DEF Has
<1>3. Once(s, t) /\ (m.type = t => ~Has(s, t)) => Once(Append(s, m), t)
  BY <1>1 DEF Has, Once
<1>4. Begins(Append(s, m), t) <=> Begins(s, t) \/ (s = <<>> /\ m.type = t)
  BY AppendFacts DEF Begins
<1> QED
  BY <1>2, <1>3, <1>4

LEMMA WelcomeAppend ==
  ASSUME NEW S, NEW s \in Seq(S), NEW m \in S, Welcome(s),
         s = <<>> \/ m.type \notin {"accept", "reject"}
  PROVE  Welcome(Append(s, m))
  BY DEF Welcome

LEMMA HasTail ==
  ASSUME NEW S, NEW s \in Seq(S), s # <<>>, NEW t
  PROVE  /\ Has(s, t) <=> Head(s).type = t \/ Has(Tail(s), t)
         /\ Once(s, t) => Once(Tail(s), t) /\ (Head(s).type = t => ~Has(Tail(s), t))
         /\ Begins(Tail(s), t) => Has(Tail(s), t)
<1>1. /\ Len(s) \in Nat /\ Len(s) >= 1 /\ Len(Tail(s)) = Len(s) - 1 /\ Head(s) = s[1]
      /\ \A i \in 1..Len(Tail(s)) : Tail(s)[i] = s[i + 1]
  OBVIOUS
<1>2. Has(s, t) <=> Head(s).type = t \/ Has(Tail(s), t)
  <2>1. ASSUME NEW i \in 1..Len(s), s[i].type = t, i # 1 PROVE Has(Tail(s), t)
    <3>1. i - 1 \in 1..Len(Tail(s)) /\ Tail(s)[i - 1] = s[i]
      BY <1>1, <2>1
    <3> QED
      BY <2>1, <3>1 DEF Has
  <2> QED
    BY <1>1, <2>1 DEF Has
<1>3. ASSUME Once(s, t)
      PROVE  Once(Tail(s), t) /\ (Head(s).type = t => ~Has(Tail(s), t))
  BY <1>1, <1>3 DEF Has, Once
<1>4. Begins(Tail(s), t) => Has(Tail(s), t)
  <2>1. Tail(s) \in Seq(S)
    OBVIOUS
  <2>2. Tail(s) # <<>> => Head(Tail(s)) = Tail(s)[1] /\ 1 \in 1..Len(Tail(s))
    BY <2>1
  <2> QED
    BY <2>2 DEF Begins, Has
<1> QED
  BY <1>2, <1>3, <1>4

LEMMA WelcomeTail ==
  ASSUME NEW S, NEW s \in Seq(S), s # <<>>, Welcome(s)
  PROVE  Welcome(Tail(s)) /\ ~Has(Tail(s), "accept") /\ ~Has(Tail(s), "reject")
  BY DEF Welcome, Has

LEMMA HasRemoved ==
  ASSUME NEW S, NEW s \in Seq(S), NEW i \in 1..Len(s), NEW t
  PROVE  /\ Removed(s, i) \in Seq(S) /\ Len(Removed(s, i)) = Len(s) - 1
         /\ Has(s, t) <=> s[i].type = t \/ Has(Removed(s, i), t)
         /\ Once(s, t) =>
              Once(Removed(s, i), t) /\ (s[i].type = t => ~Has(Removed(s, i), t))
<1> DEFINE r == Removed(s, i)
           at(j) == IF j < i THEN j ELSE j + 1
<1>1. /\ Len(s) \in Nat /\ r \in Seq(S) /\ Len(r) = Len(s) - 1
      /\ \A j \in 1..Len(r) : r[j] = s[at(j)]
  <2> DEFINE a == SubSeq(s, 1, i - 1)
             b == SubSeq(s, i + 1, Len(s))
  <2>1. a \in Seq(S) /\ Len(a) = i - 1 /\ \A j \in 1..(i - 1) : a[j] = s[j]
    OBVIOUS
  <2>2. b \in Seq(S) /\ Len(b) = Len(s) - i /\ \A j \in 1..Len(b) : b[j] = s[j + i]
    OBVIOUS
  <2> HIDE DEF a, b
  <2>3. /\ a \o b \in Seq(S) /\ Len(a \o b) = Len(a) + Len(b)
        /\ \A j \in 1..(Len(a) + Len(b)) :
              (a \o b)[j] = IF j <= Len(a) THEN a[j] ELSE b[j - Len(a)]
    <3>1. a \in Seq(S) /\ b \in Seq(S)
      BY <2>1, <2>2
    <3> QED
      BY <3>1
  <2>4. ASSUME NEW j \in 1..Len(a \o b) PROVE (a \o b)[j] = s[at(j)]
    <3>1. CASE j < i
      BY <2>1, <2>2, <2>3, <3>1
    <3>2. CASE ~(j < i)
      <4>1. j - Len(a) \in 1..Len(b) /\ (a \o b)[j] = b[j - Len(a)]
        BY <2>1, <2>2, <2>3, <3>2
      <4>2. b[j - Len(a)] = s[(j - Len(a)) + i] /\ (j - Len(a)) + i = j + 1
        BY <2>1, <2>2, <4>1
      <4> QED
        BY <3>2, <4>1, <4>2
    <3> QED
      BY <3>1, <3>2
  <2>5. r = a \o b
    BY DEF a, b, Removed
  <2> QED
    <3>1. Len(s) \in Nat /\ Len(a) + Len(b) = Len(s) - 1
      BY <2>1, <2>2
    <3> HIDE DEF at
    <3> QED
      BY <2>3, <2>4, <2>5, <3>1
<1>2. /\ \A j \in 1..Len(r) : at(j) \in 1..Len(s) /\ at(j) # i
      /\ \A j, k \in 1..Len(r) : at(j) = at(k) => j = k
  BY <1>1
<1> HIDE DEF r
<1>3. Has(s, t) <=> s[i].type = t \/ Has(r, t)
  <2>1. ASSUME NEW j \in 1..Len(s), s[j].type = t, j # i PROVE Has(r, t)
    <3>1. CASE j < i
      BY <1>1, <2>1, <3>1 DEF Has
    <3>2. CASE j > i
      <4>1. j - 1 \in 1..Len(r) /\ r[j - 1] = s[j]
        BY <1>1, <3>2
      <4> QED
        BY <2>1, <4>1 DEF Has
    <3> QED
      BY <2>1, <3>1, <3>2
  <2> HIDE DEF at
  <2>2. ASSUME NEW j \in 1..Len(r), r[j].type = t PROVE Has(s, t)
    BY <1>1, <1>2, <2>2 DEF Has
  <2> QED
    BY <2>1, <2>2 DEF Has
<1> HIDE DEF at
<1>4. ASSUME Once(s, t) PROVE Once(r, t) /\ (s[i].type = t => ~Has(r, t))
  BY <1>1, <1>2, <1>4 DEF Has, Once
<1> QED
  BY <1>1, <1>3, <1>4 DEF r

--------------------------------------------------------------------------------
(******************************************************************************)
(* Types and the read loop.                                                   *)
(******************************************************************************)
TypeInv == TypeOK /\ ReadLoopFate

LEMMA EmptySeqs ==
  ASSUME NEW S, NEW T
  PROVE  [x \in S |-> <<>>] \in [S -> Seq(T)]
<1>1. <<>> \in Seq(T)
  OBVIOUS
<1> QED
  BY <1>1

LEMMA TypeInvInit == Init => TypeInv
<1> SUFFICES ASSUME Init PROVE TypeInv
  OBVIOUS
<1> USE SignalingAssumption DEF Init
<1>1. TypeOK
  <2>1. /\ tasks \in [Peers -> Seq({"create_offer", "set_offer", "create_answer"})]
        /\ posted \in [Peers -> Seq(Messages)]
        /\ up \in [Peers -> Seq(Messages)] /\ down \in [Peers -> Seq(Messages)]
    BY EmptySeqs, Zenon
  <2>2. /\ reads \in [Peers -> 0..1] /\ closes \in [Peers -> 0..1]
        /\ gather \in [Peers -> Nat] /\ pings \in Nat
    OBVIOUS
  <2>3. /\ stage \in [Peers -> Stages] /\ connection_ \in [Peers -> Connections]
        /\ ready_ \in [Peers -> BOOLEAN] /\ room \in SUBSET Peers
        /\ connectivity \in [Peers -> {"CONNECTING", "READY"}]
        /\ crashed \in [Peers -> {"no", "null", "json"}]
        /\ stopped \in [Peers -> {"no", "parse", "candidate", "unknown"}]
        /\ overtook \in [Peers -> BOOLEAN] /\ left \in SUBSET Peers
    BY DEF Stages, Connections
  <2> QED
    BY <2>1, <2>2, <2>3, Zenon DEF TypeOK
<1>2. ReadLoopFate
  BY DEF ReadLoopFate
<1> QED
  BY <1>1, <1>2 DEF TypeInv

\* The io_context thread's part.
IoOK ==
    /\ stage \in [Peers -> Stages]
    /\ reads \in [Peers -> 0..1] /\ closes \in [Peers -> 0..1]
    /\ stopped \in [Peers -> {"no", "parse", "candidate", "unknown"}]
    /\ ReadLoopFate

Lambdas == {"create_offer", "set_offer", "create_answer"}

\* WebRTC's part and the ghost variables.
RtcOK ==
    /\ connection_ \in [Peers -> Connections]
    /\ ready_ \in [Peers -> BOOLEAN]
    /\ tasks \in [Peers -> Seq(Lambdas)]
    /\ gather \in [Peers -> Nat]
    /\ connectivity \in [Peers -> {"CONNECTING", "READY"}]
    /\ crashed \in [Peers -> {"no", "null", "json"}]
    /\ overtook \in [Peers -> BOOLEAN]
    /\ left \in SUBSET Peers

\* The texts and the Ayame server.
NetOK ==
    /\ posted \in [Peers -> Seq(Messages)]
    /\ up \in [Peers -> Seq(Messages)] /\ down \in [Peers -> Seq(Messages)]
    /\ room \in SUBSET Peers
    /\ pings \in Nat

LEMMA IoNext == IoOK /\ [Next]_vars => IoOK'
<1> SUFFICES ASSUME IoOK, [Next]_vars PROVE IoOK'
  OBVIOUS
<1> USE DEF IoOK, ReadLoopFate, Stages, ioVars, ghostVars
<1>1. ASSUME NEW p \in Peers, OnHandshake(p) PROVE IoOK'
  <2>1. reads[p] = 0 /\ closes[p] = 0 /\ stopped[p] = "no"
    BY <1>1 DEF OnHandshake
  <2>2. \/ stage' = [stage EXCEPT ![p] = "failed"] /\ reads' = reads
        \/ stage' = [stage EXCEPT ![p] = "open"] /\ reads' = [reads EXCEPT ![p] = 1]
    BY <1>1, <2>1 DEF OnHandshake, DoRead
  <2> QED
    BY <1>1, <2>1, <2>2 DEF OnHandshake
<1>2. ASSUME NEW p \in Peers, OnOffer(p) PROVE IoOK'
  <2>1. reads[p] = 1 /\ closes[p] = 0 /\ stopped[p] = "no" /\ stage[p] = "open"
    BY <1>2 DEF OnOffer, Receives
  <2>2. \/ UNCHANGED <<reads, stopped>>
        \/ \E why \in {"parse", "candidate", "unknown"} :
              /\ reads' = [reads EXCEPT ![p] = 0]
              /\ stopped' = [stopped EXCEPT ![p] = why]
    BY <1>2, <2>1 DEF OnOffer, EndBranch, ReadAgain, Stops
  <2> QED
    BY <1>2, <2>1, <2>2 DEF OnOffer
<1>3. ASSUME NEW p \in Peers, OnAnswer(p) PROVE IoOK'
  <2>1. reads[p] = 1 /\ closes[p] = 0 /\ stopped[p] = "no" /\ stage[p] = "open"
    BY <1>3 DEF OnAnswer, Receives
  <2>2. \/ UNCHANGED <<reads, stopped>>
        \/ \E why \in {"parse", "candidate", "unknown"} :
              /\ reads' = [reads EXCEPT ![p] = 0]
              /\ stopped' = [stopped EXCEPT ![p] = why]
    BY <1>3, <2>1 DEF OnAnswer, EndBranch, ReadAgain, Stops
  <2> QED
    BY <1>3, <2>1, <2>2 DEF OnAnswer
<1>4. ASSUME NEW p \in Peers, OnCandidate(p) PROVE IoOK'
  <2>1. reads[p] = 1 /\ closes[p] = 0 /\ stopped[p] = "no" /\ stage[p] = "open"
    BY <1>4 DEF OnCandidate, Receives
  <2>2. \/ UNCHANGED <<reads, stopped>>
        \/ \E why \in {"parse", "candidate", "unknown"} :
              /\ reads' = [reads EXCEPT ![p] = 0]
              /\ stopped' = [stopped EXCEPT ![p] = why]
    BY <1>4, <2>1 DEF OnCandidate, EndBranch, ReadAgain, Stops
  <2> QED
    BY <1>4, <2>1, <2>2 DEF OnCandidate
<1>5. ASSUME NEW p \in Peers, OnBye(p) PROVE IoOK'
  <2>1. reads[p] = 1 /\ closes[p] = 0 /\ stopped[p] = "no" /\ stage[p] = "open"
    BY <1>5 DEF OnBye, Receives
  <2>2. reads' = [reads EXCEPT ![p] = 0] /\ closes' = [closes EXCEPT ![p] = 1]
    BY <1>5, <2>1 DEF OnBye, EndBranch, ReadAgain, Close
  <2> QED
    BY <1>5, <2>1, <2>2 DEF OnBye
<1>6. ASSUME NEW p \in Peers, OnUnknown(p) PROVE IoOK'
  <2>1. reads[p] = 1 /\ closes[p] = 0 /\ stopped[p] = "no" /\ stage[p] = "open"
    BY <1>6 DEF OnUnknown, Receives
  <2>2. \/ UNCHANGED <<reads, stopped>>
        \/ \E why \in {"parse", "candidate", "unknown"} :
              /\ reads' = [reads EXCEPT ![p] = 0]
              /\ stopped' = [stopped EXCEPT ![p] = why]
    BY <1>6, <2>1 DEF OnUnknown, Stops
  <2> QED
    BY <1>6, <2>1, <2>2 DEF OnUnknown
<1>7. ASSUME NEW p \in Peers, OnReadError(p) PROVE IoOK'
  <2>1. reads[p] = 1 /\ closes[p] = 0 /\ stopped[p] = "no" /\ stage[p] = "open"
    BY <1>7 DEF OnReadError
  <2>2. reads' = [reads EXCEPT ![p] = 0] /\ closes' = [closes EXCEPT ![p] = 1]
    BY <1>7, <2>1 DEF OnReadError, Close
  <2> QED
    BY <1>7, <2>1, <2>2 DEF OnReadError
<1>8. ASSUME NEW p \in Peers,
        Connect(p) \/ OnResolve(p) \/ OnSSLConnect(p) \/ OnSSLHandshake(p) \/
        OnAccept(p) \/ OnPing(p) \/ OnMalformed(p) \/ OnCreateOffer(p) \/
        OnSetOffer(p) \/ OnCreateAnswer(p) \/ TaskFails(p) \/ OnIceCandidate(p)
        \/ DoSendText(p) \/ CreateDataChannel(p) \/ ServerHandles(p) \/
        ServerPings(p) \/ ServerLoses(p)
      PROVE  IoOK'
  BY <1>8 DEF Connect, OnResolve, OnSSLConnect, OnSSLHandshake, OnAccept, OnPing,
              OnMalformed, OnCreateOffer, OnSetOffer, OnCreateAnswer, TaskFails,
              OnIceCandidate, DoSendText, CreateDataChannel, ServerHandles, ServerPings,
              ServerLoses, Advance, EndBranch, ReadAgain
<1>9. CASE UNCHANGED vars
  BY <1>9 DEF vars
<1> QED
  BY <1>1, <1>2, <1>3, <1>4, <1>5, <1>6, <1>7, <1>8, <1>9 DEF Next, IocStep, SigStep

LEMMA RtcNext == RtcOK /\ [Next]_vars => RtcOK'
<1> SUFFICES ASSUME RtcOK, [Next]_vars PROVE RtcOK'
  OBVIOUS
<1> USE SignalingAssumption
<1> USE DEF RtcOK, Connections, rtcVars, ghostVars
<1>1. ASSUME NEW p \in Peers, OnHandshake(p) PROVE RtcOK'
  BY <1>1 DEF OnHandshake
<1>2. ASSUME NEW p \in Peers, OnAccept(p) PROVE RtcOK'
  BY <1>2 DEF OnAccept, Lambdas
<1>3. ASSUME NEW p \in Peers, OnOffer(p) PROVE RtcOK'
  <2>1. connection_' \in [Peers -> Connections]
    BY <1>3 DEF OnOffer
  <2>2. tasks' \in [Peers -> Seq(Lambdas)]
    <3>1. "set_offer" \in Lambdas
      BY DEF Lambdas
    <3>2. [tasks EXCEPT ![p] = Append(@, "set_offer")] \in [Peers -> Seq(Lambdas)]
      BY <3>1
    <3> QED
      BY <1>3, <3>2, Zenon DEF OnOffer
  <2>3. crashed' \in [Peers -> {"no", "null", "json"}]
    BY <1>3 DEF OnOffer, Dereference
  <2> QED
    BY <1>3, <2>1, <2>2, <2>3 DEF OnOffer
<1>4. ASSUME NEW p \in Peers, OnAnswer(p) PROVE RtcOK'
  BY <1>4 DEF OnAnswer, Dereference
<1>5. ASSUME NEW p \in Peers, OnCandidate(p) PROVE RtcOK'
  BY <1>5 DEF OnCandidate, Dereference
<1>6. ASSUME NEW p \in Peers, OnBye(p) PROVE RtcOK'
  <2>1. connection_' \in [Peers -> Connections] /\ gather' \in [Peers -> Nat]
    BY <1>6 DEF OnBye
  <2>2. tasks' \in [Peers -> Seq(Lambdas)]
    <3>1. [tasks EXCEPT ![p] = <<>>] \in [Peers -> Seq(Lambdas)]
      OBVIOUS
    <3> QED
      BY <1>6, <3>1, Zenon DEF OnBye
  <2> QED
    BY <1>6, <2>1, <2>2 DEF OnBye
<1>7. ASSUME NEW p \in Peers, OnCreateOffer(p) PROVE RtcOK'
  <2>1. Tail(tasks[p]) \in Seq(Lambdas)
    BY <1>7 DEF OnCreateOffer, RunsTask
  <2>2. tasks' \in [Peers -> Seq(Lambdas)]
    BY <1>7, <2>1 DEF OnCreateOffer
  <2>3. connection_' \in [Peers -> Connections] /\ gather' \in [Peers -> Nat]
    BY <1>7 DEF OnCreateOffer
  <2>4. crashed' \in [Peers -> {"no", "null", "json"}]
    BY <1>7 DEF OnCreateOffer, Dereference
  <2> QED
    BY <1>7, <2>2, <2>3, <2>4 DEF OnCreateOffer
<1>8. ASSUME NEW p \in Peers, OnSetOffer(p) PROVE RtcOK'
  BY <1>8 DEF OnSetOffer, RunsTask, Dereference, Lambdas
<1>9. ASSUME NEW p \in Peers, OnCreateAnswer(p) PROVE RtcOK'
  <2>1. Tail(tasks[p]) \in Seq(Lambdas)
    BY <1>9 DEF OnCreateAnswer, RunsTask
  <2>2. tasks' \in [Peers -> Seq(Lambdas)]
    BY <1>9, <2>1 DEF OnCreateAnswer
  <2>3. connection_' \in [Peers -> Connections] /\ gather' \in [Peers -> Nat]
    BY <1>9 DEF OnCreateAnswer
  <2>4. crashed' \in [Peers -> {"no", "null", "json"}]
    BY <1>9 DEF OnCreateAnswer, Dereference
  <2> QED
    BY <1>9, <2>2, <2>3, <2>4 DEF OnCreateAnswer
<1>10. ASSUME NEW p \in Peers, TaskFails(p) PROVE RtcOK'
  BY <1>10 DEF TaskFails
<1>11. ASSUME NEW p \in Peers, OnIceCandidate(p) PROVE RtcOK'
  BY <1>11 DEF OnIceCandidate
<1>12. ASSUME NEW p \in Peers, DoSendText(p) PROVE RtcOK'
  BY <1>12 DEF DoSendText
<1>13. ASSUME NEW p \in Peers, CreateDataChannel(p) PROVE RtcOK'
  BY <1>13 DEF CreateDataChannel, Dereference
<1>14. ASSUME NEW p \in Peers,
        Connect(p) \/ OnResolve(p) \/ OnSSLConnect(p) \/ OnSSLHandshake(p) \/
        OnPing(p) \/ OnUnknown(p) \/ OnMalformed(p) \/ OnReadError(p) \/
        ServerHandles(p) \/ ServerPings(p) \/ ServerLoses(p)
      PROVE  RtcOK'
  BY <1>14 DEF Connect, OnResolve, OnSSLConnect, OnSSLHandshake, OnPing, OnUnknown,
               OnMalformed, OnReadError, ServerHandles, ServerPings, ServerLoses,
               Advance
<1>15. CASE UNCHANGED vars
  BY <1>15 DEF vars
<1> QED
  BY <1>1, <1>2, <1>3, <1>4, <1>5, <1>6, <1>7, <1>8, <1>9, <1>10, <1>11, <1>12, <1>13,
     <1>14, <1>15 DEF Next, IocStep, SigStep

LEMMA MsgType == \A type \in Types : Msg(type) \in Messages
  BY DEF Msg, Messages

LEMMA SendTextType ==
  ASSUME posted \in [Peers -> Seq(Messages)], NEW p \in Peers, NEW type \in Types,
         SendText(p, type)
  PROVE  posted' \in [Peers -> Seq(Messages)]
  BY MsgType DEF SendText

LEMMA NetNext == NetOK /\ [Next]_vars => NetOK'
<1> SUFFICES ASSUME NetOK, [Next]_vars PROVE NetOK'
  OBVIOUS
<1> USE DEF NetOK, Types, netVars
<1>1. ASSUME NEW p \in Peers, OnHandshake(p) PROVE NetOK'
  <2>1. posted' \in [Peers -> Seq(Messages)]
    BY <1>1, SendTextType DEF OnHandshake
  <2> QED
    BY <1>1, <2>1 DEF OnHandshake
<1>2. ASSUME NEW p \in Peers, OnAccept(p) PROVE NetOK'
  BY <1>2 DEF OnAccept, Receives
<1>3. ASSUME NEW p \in Peers, OnOffer(p) PROVE NetOK'
  BY <1>3 DEF OnOffer, Receives
<1>4. ASSUME NEW p \in Peers, OnAnswer(p) PROVE NetOK'
  BY <1>4 DEF OnAnswer, Receives
<1>5. ASSUME NEW p \in Peers, OnCandidate(p) PROVE NetOK'
  BY <1>5 DEF OnCandidate, Receives
<1>6. ASSUME NEW p \in Peers, OnPing(p) PROVE NetOK'
  BY <1>6, SendTextType DEF OnPing, Receives
<1>7. ASSUME NEW p \in Peers, OnBye(p) PROVE NetOK'
  BY <1>7 DEF OnBye, Receives
<1>8. ASSUME NEW p \in Peers, OnUnknown(p) PROVE NetOK'
  BY <1>8 DEF OnUnknown, Receives
<1>9. ASSUME NEW p \in Peers, OnCreateOffer(p) PROVE NetOK'
  <2>1. posted' \in [Peers -> Seq(Messages)]
    BY <1>9, SendTextType DEF OnCreateOffer
  <2> QED
    BY <1>9, <2>1 DEF OnCreateOffer
<1>10. ASSUME NEW p \in Peers, OnCreateAnswer(p) PROVE NetOK'
  <2>1. posted' \in [Peers -> Seq(Messages)]
    BY <1>10, SendTextType DEF OnCreateAnswer
  <2> QED
    BY <1>10, <2>1 DEF OnCreateAnswer
<1>11. ASSUME NEW p \in Peers, OnIceCandidate(p) PROVE NetOK'
  <2>1. posted' \in [Peers -> Seq(Messages)]
    BY <1>11, SendTextType DEF OnIceCandidate
  <2> QED
    BY <1>11, <2>1 DEF OnIceCandidate
<1>12. ASSUME NEW p \in Peers, DoSendText(p) PROVE NetOK'
  <2>1. PICK i \in 1..Len(posted[p]) : DoSendText(p)!2!(i)
    BY <1>12 DEF DoSendText
  <2> QED
    BY <1>12, <2>1 DEF DoSendText
<1>13. ASSUME NEW p \in Peers, ServerHandles(p) PROVE NetOK'
  <2>1. Head(up[p]) \in Messages /\ up' \in [Peers -> Seq(Messages)]
    BY <1>13 DEF ServerHandles
  <2>2. down' \in [Peers -> Seq(Messages)]
    <3>1. \A ps : \A m \in Messages : Send(ps, m) => down' \in [Peers -> Seq(Messages)]
      BY DEF Send
    <3>2. [type |-> "accept", isExistUser |-> room # {}] \in Messages
      BY DEF Messages
    <3> QED
      BY <1>13, <2>1, <3>1, <3>2, MsgType, Zenon DEF ServerHandles, Types
  <2>3. room' \in SUBSET Peers
    BY <1>13 DEF ServerHandles
  <2> QED
    BY <1>13, <2>1, <2>2, <2>3 DEF ServerHandles
<1>14. ASSUME NEW p \in Peers, ServerPings(p) PROVE NetOK'
  BY <1>14, MsgType DEF ServerPings, Send
<1>15. ASSUME NEW p \in Peers, ServerLoses(p) PROVE NetOK'
  BY <1>15, MsgType DEF ServerLoses, Send
<1>16. ASSUME NEW p \in Peers,
        Connect(p) \/ OnResolve(p) \/ OnSSLConnect(p) \/ OnSSLHandshake(p) \/
        OnMalformed(p) \/ OnReadError(p) \/ OnSetOffer(p) \/ TaskFails(p) \/
        CreateDataChannel(p)
      PROVE  NetOK'
  BY <1>16 DEF Connect, OnResolve, OnSSLConnect, OnSSLHandshake, OnMalformed,
               OnReadError, OnSetOffer, TaskFails, CreateDataChannel, Advance
<1>17. CASE UNCHANGED vars
  BY <1>17 DEF vars
<1> QED
  BY <1>1, <1>2, <1>3, <1>4, <1>5, <1>6, <1>7, <1>8, <1>9, <1>10, <1>11, <1>12, <1>13,
     <1>14, <1>15, <1>16, <1>17 DEF Next, IocStep, SigStep

LEMMA TypeInvNext == TypeInv /\ [Next]_vars => TypeInv'
<1>1. TypeInv <=> IoOK /\ RtcOK /\ NetOK
  BY Zenon DEF TypeInv, TypeOK, IoOK, RtcOK, NetOK, Lambdas
<1>2. TypeInv' <=> IoOK' /\ RtcOK' /\ NetOK'
  BY Zenon DEF TypeInv, TypeOK, IoOK, RtcOK, NetOK, Lambdas
<1> QED
  BY <1>1, <1>2, IoNext, RtcNext, NetNext

\* The types and the account of the read loop they rest on: the inductive invariant of
\* OnRead, DoRead and Close.
THEOREM TypeInvariance == Spec => []TypeInv
BY TypeInvInit, TypeInvNext, PTL DEF Spec

\* Every counter of the read loop stays in its range, and every text, lambda and
\* state of a peer connection is one the code knows.
THEOREM TypeCorrect == Spec => []TypeOK
BY TypeInvariance, PTL DEF TypeInv

\* OnRead never leaves two reads outstanding, never closes twice, and an open peer
\* without a read has closed or has stopped for a known reason.
THEOREM ReadLoop == Spec => []ReadLoopFate
BY TypeInvariance, PTL DEF TypeInv

--------------------------------------------------------------------------------
(******************************************************************************)
(* What a step does to the texts under way and to the other peers.            *)
(******************************************************************************)

\* On their way from p to the Ayame server.
OutHas(p, type) == Has(posted[p], type) \/ Has(up[p], type)
OutOnce(p, type) ==
    /\ Once(posted[p], type) /\ Once(up[p], type)
    /\ ~Has(posted[p], type) \/ ~Has(up[p], type)

\* The step leaves r as it is.
Same(r) ==
    /\ stage'[r] = stage[r] /\ reads'[r] = reads[r] /\ closes'[r] = closes[r]
    /\ connection_'[r] = connection_[r] /\ ready_'[r] = ready_[r]
    /\ tasks'[r] = tasks[r] /\ gather'[r] = gather[r]
    /\ posted'[r] = posted[r] /\ up'[r] = up[r] /\ down'[r] = down[r]
    /\ crashed'[r] = crashed[r] /\ stopped'[r] = stopped[r]
    /\ overtook'[r] = overtook[r] /\ (r \in left' <=> r \in left)

\* A step of one of p's own threads.
Local(p) == IocStep(p) \/ SigStep(p) \/ DoSendText(p) \/ CreateDataChannel(p)

LEMMA LocalStep ==
  ASSUME TypeOK, NEW p \in Peers, Local(p)
  PROVE  room' = room /\ \A r \in Peers \ {p} : Same(r)
<1> USE DEF TypeOK, Same, ioVars, rtcVars, netVars, ghostVars
<1>1. CASE Connect(p) \/ OnResolve(p) \/ OnSSLConnect(p) \/ OnSSLHandshake(p)
  BY <1>1 DEF Connect, OnResolve, OnSSLConnect, OnSSLHandshake, Advance
<1>2. CASE OnHandshake(p)
  BY <1>2 DEF OnHandshake, DoRead, SendText
<1>3. CASE OnAccept(p)
  BY <1>3 DEF OnAccept, Receives, EndBranch
<1>4. CASE OnOffer(p)
  BY <1>4 DEF OnOffer, Receives, Dereference, EndBranch, Stops
<1>5. CASE OnAnswer(p)
  BY <1>5 DEF OnAnswer, Receives, Dereference, EndBranch, Stops
<1>6. CASE OnCandidate(p)
  BY <1>6 DEF OnCandidate, Receives, Dereference, EndBranch, Stops
<1>7. CASE OnPing(p)
  BY <1>7 DEF OnPing, Receives, SendText, EndBranch
<1>8. CASE OnBye(p)
  BY <1>8 DEF OnBye, Receives, EndBranch, Close
<1>9. CASE OnUnknown(p)
  BY <1>9 DEF OnUnknown, Receives, Stops
<1>10. CASE OnMalformed(p) \/ OnReadError(p)
  BY <1>10 DEF OnMalformed, OnReadError, Close
<1>11. CASE OnCreateOffer(p)
  BY <1>11 DEF OnCreateOffer, Dereference, SendText
<1>12. CASE OnSetOffer(p) \/ TaskFails(p)
  BY <1>12 DEF OnSetOffer, TaskFails, Dereference
<1>13. CASE OnCreateAnswer(p)
  BY <1>13 DEF OnCreateAnswer, Dereference, SendText
<1>14. CASE OnIceCandidate(p)
  BY <1>14 DEF OnIceCandidate, SendText
<1>15. CASE DoSendText(p)
  BY <1>15 DEF DoSendText
<1>16. CASE CreateDataChannel(p)
  BY <1>16 DEF CreateDataChannel, Dereference
<1> QED
  BY <1>1, <1>2, <1>3, <1>4, <1>5, <1>6, <1>7, <1>8, <1>9, <1>10, <1>11, <1>12, <1>13,
     <1>14, <1>15, <1>16 DEF Local, IocStep, SigStep

\* SendText appends to the pool's queue and touches no other text.
LEMMA SendTextEffect ==
  ASSUME TypeOK, NEW p \in Peers, NEW type \in Types, SendText(p, type), up' = up
  PROVE  /\ posted'[p] = Append(posted[p], Msg(type)) /\ up'[p] = up[p]
         /\ \A t : OutHas(p, t)' <=> OutHas(p, t) \/ t = type
         /\ \A t : OutOnce(p, t) /\ (t = type => ~OutHas(p, t)) => OutOnce(p, t)'
<1>1. posted'[p] = Append(posted[p], Msg(type)) /\ posted[p] \in Seq(Messages)
  BY DEF SendText, TypeOK
<1>2. Msg(type) \in Messages /\ Msg(type).type = type
  BY DEF Msg, Messages
<1> QED
  BY <1>1, <1>2, HasAppend DEF OutHas, OutOnce

\* DoSendText moves a text from the pool to the websocket.
LEMMA DoSendTextEffect ==
  ASSUME TypeOK, NEW p \in Peers, DoSendText(p)
  PROVE  /\ Len(posted'[p]) + Len(up'[p]) = Len(posted[p]) + Len(up[p])
         /\ posted[p] # <<>>
         /\ \A t : OutHas(p, t)' <=> OutHas(p, t)
         /\ \A t : OutOnce(p, t) => OutOnce(p, t)'
<1>1. PICK i \in 1..Len(posted[p]) :
          /\ up' = [up EXCEPT ![p] = Append(@, posted[p][i])]
          /\ posted' = [posted EXCEPT ![p] = Removed(posted[p], i)]
  BY DEF DoSendText, Removed
<1>2. /\ posted[p] \in Seq(Messages) /\ up[p] \in Seq(Messages)
      /\ posted[p][i] \in Messages
  BY DEF TypeOK
<1>3. /\ up'[p] = Append(up[p], posted[p][i]) /\ posted'[p] = Removed(posted[p], i)
  BY <1>1 DEF TypeOK
<1>4. Len(posted'[p]) = Len(posted[p]) - 1 /\ Len(up'[p]) = Len(up[p]) + 1
  <2>1. Len(Removed(posted[p], i)) = Len(posted[p]) - 1
    BY <1>2, HasRemoved
  <2> QED
    BY <1>2, <1>3, <2>1
<1>5. Len(posted[p]) \in Nat /\ Len(up[p]) \in Nat /\ posted[p] # <<>>
  BY <1>2
<1>6. ASSUME NEW t
      PROVE  (OutHas(p, t)' <=> OutHas(p, t)) /\ (OutOnce(p, t) => OutOnce(p, t)')
  <2>1. /\ Has(posted[p], t) <=> posted[p][i].type = t \/ Has(posted'[p], t)
        /\ Once(posted[p], t) =>
             Once(posted'[p], t) /\ (posted[p][i].type = t => ~Has(posted'[p], t))
    BY <1>2, <1>3, HasRemoved
  <2>2. /\ Has(up'[p], t) <=> Has(up[p], t) \/ posted[p][i].type = t
        /\ Once(up[p], t) /\ (posted[p][i].type = t => ~Has(up[p], t)) => Once(up'[p], t)
    BY <1>2, <1>3, HasAppend
  <2> QED
    BY <2>1, <2>2 DEF OutHas, OutOnce
<1>7. Len(posted'[p]) + Len(up'[p]) = Len(posted[p]) + Len(up[p])
  <2>1. Len(posted'[p]) + Len(up'[p]) = (Len(posted[p]) - 1) + (Len(up[p]) + 1)
    BY <1>4, Zenon
  <2>2. \A a, b \in Nat : (a - 1) + (b + 1) = a + b
    OBVIOUS
  <2> QED
    BY <1>5, <2>1, <2>2, Zenon
<1> QED
  BY <1>5, <1>6, <1>7

\* The Ayame server takes the first text of p from the websocket.
LEMMA TakeEffect ==
  ASSUME TypeOK, NEW p \in Peers, up[p] # <<>>, up' = [up EXCEPT ![p] = Tail(up[p])],
         posted' = posted
  PROVE  /\ Head(up[p]) \in Messages /\ up'[p] = Tail(up[p]) /\ posted'[p] = posted[p]
         /\ Len(up'[p]) = Len(up[p]) - 1 /\ Len(up[p]) \in Nat
         /\ \A t : OutHas(p, t) <=> OutHas(p, t)' \/ t = Head(up[p]).type
         /\ \A t : OutOnce(p, t) =>
              OutOnce(p, t)' /\ (t = Head(up[p]).type => ~OutHas(p, t)')
         /\ \A r \in Peers \ {p} : up'[r] = up[r] /\ posted'[r] = posted[r]
<1>1. up[p] \in Seq(Messages)
  BY DEF TypeOK
<1>2. /\ Head(up[p]) \in Messages /\ up'[p] = Tail(up[p]) /\ posted'[p] = posted[p]
      /\ Len(up'[p]) = Len(up[p]) - 1 /\ Len(up[p]) \in Nat
      /\ \A r \in Peers \ {p} : up'[r] = up[r] /\ posted'[r] = posted[r]
  BY <1>1 DEF TypeOK
<1>3. ASSUME NEW t
      PROVE  /\ OutHas(p, t) <=> OutHas(p, t)' \/ t = Head(up[p]).type
             /\ OutOnce(p, t) =>
                  OutOnce(p, t)' /\ (t = Head(up[p]).type => ~OutHas(p, t)')
  <2>1. /\ Has(up[p], t) <=> Head(up[p]).type = t \/ Has(up'[p], t)
        /\ Once(up[p], t) =>
             Once(up'[p], t) /\ (Head(up[p]).type = t => ~Has(up'[p], t))
    BY <1>1, <1>2, HasTail
  <2> QED
    BY <1>2, <2>1 DEF OutHas, OutOnce
<1> QED
  BY <1>2, <1>3

\* A message of the Ayame server comes behind the ones a peer has still to read.
LEMMA SendEffect ==
  ASSUME TypeOK, NEW ps, NEW m \in Messages, Send(ps, m), NEW r \in Peers
  PROVE  /\ r \notin ps => down'[r] = down[r]
         /\ r \in ps =>
              /\ down'[r] = Append(down[r], m) /\ down'[r] # <<>>
              /\ Len(down'[r]) = Len(down[r]) + 1
              /\ \A t : Has(down'[r], t) <=> Has(down[r], t) \/ m.type = t
              /\ \A t : Once(down[r], t) /\ (m.type = t => ~Has(down[r], t))
                          => Once(down'[r], t)
              /\ \A t : Begins(down'[r], t)
                          <=> Begins(down[r], t) \/ (down[r] = <<>> /\ m.type = t)
              /\ down[r] # <<>> => Head(down'[r]) = Head(down[r])
              /\ down[r] = <<>> => Head(down'[r]) = m /\ Len(down'[r]) = 1
              /\ Welcome(down[r]) /\ (down[r] = <<>> \/ m.type \notin {"accept", "reject"})
                   => Welcome(down'[r])
<1>1. down[r] \in Seq(Messages)
  BY DEF TypeOK
<1>2. r \notin ps => down'[r] = down[r]
  BY DEF Send
<1>3. ASSUME r \in ps PROVE down'[r] = Append(down[r], m)
  BY <1>3 DEF Send
<1>4. /\ Append(down[r], m) # <<>> /\ Len(Append(down[r], m)) = Len(down[r]) + 1
      /\ down[r] # <<>> => Head(Append(down[r], m)) = Head(down[r])
      /\ down[r] = <<>> => Head(Append(down[r], m)) = m /\ Len(Append(down[r], m)) = 1
  BY <1>1, AppendFacts, Zenon
<1>5. Welcome(down[r]) /\ (down[r] = <<>> \/ m.type \notin {"accept", "reject"})
        => Welcome(Append(down[r], m))
  BY <1>1, WelcomeAppend, Zenon
<1>6. ASSUME NEW t
      PROVE  /\ Has(Append(down[r], m), t) <=> Has(down[r], t) \/ m.type = t
             /\ Once(down[r], t) /\ (m.type = t => ~Has(down[r], t))
                  => Once(Append(down[r], m), t)
             /\ Begins(Append(down[r], m), t)
                  <=> Begins(down[r], t) \/ (down[r] = <<>> /\ m.type = t)
  BY <1>1, HasAppend, Zenon
<1> QED
  BY <1>2, <1>3, <1>4, <1>5, <1>6, Zenon

LEMMA SendOther ==
  ASSUME TypeOK, NEW ps, NEW m \in Messages, Send(ps, m), NEW r \in Peers, r \in ps,
         NEW t, t # m.type
  PROVE  /\ Has(down'[r], t) <=> Has(down[r], t)
         /\ Once(down[r], t) => Once(down'[r], t)
         /\ Begins(down'[r], t) <=> Begins(down[r], t)
         /\ Begins(down[r], t) => Head(down'[r]) = Head(down[r])
<1>1. Begins(down[r], t) => down[r] # <<>>
  BY DEF Begins
<1> QED
  BY <1>1, SendEffect

LEMMA Reading ==
  ASSUME TypeInv, NEW p \in Peers, reads[p] > 0
  PROVE  reads[p] = 1 /\ closes[p] = 0 /\ stopped[p] = "no" /\ stage[p] = "open"
  BY DEF TypeInv, TypeOK, ReadLoopFate

\* OnRead takes the first message.
LEMMA ReceivesEffect ==
  ASSUME TypeInv, NEW p \in Peers, NEW type, Receives(p, type)
  PROVE  /\ reads[p] = 1 /\ closes[p] = 0 /\ stopped[p] = "no" /\ stage[p] = "open"
         /\ Begins(down[p], type) /\ down[p] # <<>> /\ down'[p] = Tail(down[p])
         /\ Len(down'[p]) = Len(down[p]) - 1 /\ Len(down[p]) \in Nat
         /\ \A t : Has(down[p], t) <=> t = type \/ Has(down'[p], t)
         /\ \A t : Once(down[p], t)
                     => Once(down'[p], t) /\ (t = type => ~Has(down'[p], t))
         /\ \A t : Begins(down'[p], t) => Has(down'[p], t)
         /\ Welcome(down[p]) =>
              /\ Welcome(down'[p])
              /\ ~Has(down'[p], "accept") /\ ~Has(down'[p], "reject")
<1>1. /\ down[p] \in Seq(Messages) /\ down[p] # <<>> /\ Head(down[p]).type = type
      /\ down'[p] = Tail(down[p])
  BY DEF Receives, TypeInv, TypeOK
<1>2. reads[p] = 1 /\ closes[p] = 0 /\ stopped[p] = "no" /\ stage[p] = "open"
  BY Reading DEF Receives
<1>3. Len(Tail(down[p])) = Len(down[p]) - 1 /\ Len(down[p]) \in Nat
  BY <1>1
<1> QED
  BY <1>1, <1>2, <1>3, HasTail, WelcomeTail DEF Begins

--------------------------------------------------------------------------------
(******************************************************************************)
(* Joining.  Until its register message is handled a peer has nothing else    *)
(* under way; the answer to it is the first thing the peer reads, and it      *)
(* comes once; and a peer is not in the room any more when it reads a bye.    *)
(******************************************************************************)

\* Nothing of a session.
Outside(p) ==
    /\ connection_[p] = "null" /\ tasks[p] = <<>> /\ gather[p] = 0 /\ ~ready_[p]

\* The server has handled the register message.
Registered(p) == stage[p] = "open" /\ ~OutHas(p, "register")

JoinInv(p) ==
    /\ ~Registered(p) => Outside(p) /\ down[p] = <<>> /\ p \notin room /\ p \notin left
    /\ stage[p] # "open" => posted[p] = <<>> /\ up[p] = <<>>
    /\ OutHas(p, "register") => Len(posted[p]) + Len(up[p]) = 1
    /\ Welcome(down[p])
    /\ Begins(down[p], "accept") \/ Begins(down[p], "reject") =>
          connection_[p] = "null" /\ p \notin left
    /\ Begins(down[p], "reject") => Len(down[p]) = 1 /\ p \notin room
    /\ connection_[p] = "null" /\ p \notin left =>
          /\ Outside(p)
          /\ down[p] = <<>> => p \notin room
          /\ down[p] # <<>> => Begins(down[p], "accept") \/ Begins(down[p], "reject")
    /\ p \in left => closes[p] = 1
    /\ p \in left \/ Has(down[p], "bye") => p \notin room
    /\ crashed[p] = "null" => p \in left
    /\ ready_[p] /\ p \notin left => HasRemote(p)

JoinAll == \A p \in Peers : JoinInv(p)

LEMMA JoinInit == Init => JoinAll
<1>1. ASSUME Init, NEW p \in Peers PROVE JoinInv(p)
  <2>1. /\ stage[p] = "new" /\ posted[p] = <<>> /\ up[p] = <<>> /\ down[p] = <<>>
        /\ connection_[p] = "null" /\ tasks[p] = <<>> /\ gather[p] = 0 /\ ~ready_[p]
        /\ room = {} /\ left = {} /\ crashed[p] = "no"
    BY <1>1 DEF Init
  <2>2. /\ ~Has(down[p], "bye") /\ ~OutHas(p, "register") /\ Welcome(down[p])
        /\ ~Begins(down[p], "accept") /\ ~Begins(down[p], "reject")
    BY <2>1, HasEmpty DEF OutHas
  <2> QED
    BY <2>1, <2>2 DEF JoinInv, Outside, Registered
<1> QED
  BY <1>1 DEF JoinAll

\* A step that only takes a text from r, or nothing.
LEMMA JoinSame ==
  ASSUME NEW r \in Peers, JoinInv(r), r \in room' <=> r \in room, r \in left' <=> r \in left,
         stage'[r] = stage[r], closes'[r] = closes[r], connection_'[r] = connection_[r],
         ready_'[r] = ready_[r], tasks'[r] = tasks[r], gather'[r] = gather[r],
         down'[r] = down[r], crashed'[r] = crashed[r],
         OutHas(r, "register")' => OutHas(r, "register"),
         OutHas(r, "register") => Len(posted'[r]) + Len(up'[r]) = Len(posted[r]) + Len(up[r])
                                    \/ ~OutHas(r, "register")',
         stage[r] # "open" => posted'[r] = posted[r] /\ up'[r] = up[r]
  PROVE  JoinInv(r)'
<1>1. Outside(r)' <=> Outside(r)
  BY DEF Outside
<1>2. HasRemote(r)' <=> HasRemote(r)
  BY DEF HasRemote
<1>3. Registered(r) => Registered(r)'
  BY DEF Registered
<1> QED
  BY <1>1, <1>2, <1>3 DEF JoinInv

LEMMA JoinLocal ==
  ASSUME TypeInv, JoinAll, NEW p \in Peers, Local(p), JoinInv(p)'
  PROVE  JoinAll'
<1>1. room' = room /\ \A r \in Peers \ {p} : Same(r)
  BY LocalStep DEF TypeInv
<1>2. ASSUME NEW r \in Peers \ {p} PROVE JoinInv(r)'
  <2>1. Same(r) /\ JoinInv(r)
    BY <1>1 DEF JoinAll
  <2>2. OutHas(r, "register")' <=> OutHas(r, "register")
    BY <2>1 DEF Same, OutHas
  <2> QED
    BY <1>1, <2>1, <2>2, JoinSame DEF Same
<1> QED
  BY <1>2 DEF JoinAll

\* When the register message is not the only text, it is not there.
LEMMA RegisterAlone ==
  ASSUME TypeOK, NEW p \in Peers, JoinInv(p), up[p] # <<>>, OutHas(p, "register")
  PROVE  posted[p] = <<>> /\ Tail(up[p]) = <<>> /\ Head(up[p]).type = "register"
<1>1. posted[p] \in Seq(Messages) /\ up[p] \in Seq(Messages)
  BY DEF TypeOK
<1>2. Len(posted[p]) + Len(up[p]) = 1
  BY DEF JoinInv
<1>3. posted[p] = <<>> /\ Len(up[p]) = 1 /\ Tail(up[p]) = <<>>
  BY <1>1, <1>2, SingleText, Zenon
<1>4. Has(up[p], "register")
  BY <1>3, HasEmpty DEF OutHas
<1> QED
  BY <1>1, <1>3, <1>4 DEF Has

\* A peer in the room is told something that is not the answer to its register message.
LEMMA JoinTold ==
  ASSUME TypeOK, NEW r \in room, JoinInv(r), NEW m \in Messages, NEW ps, Send(ps, m),
         r \in ps, m.type \notin {"accept", "reject"}, m.type = "bye" => r \notin room',
         r \in room' => r \in room, r \in left' <=> r \in left,
         stage'[r] = stage[r], closes'[r] = closes[r], connection_'[r] = connection_[r],
         ready_'[r] = ready_[r], tasks'[r] = tasks[r], gather'[r] = gather[r],
         crashed'[r] = crashed[r], posted'[r] = posted[r], up'[r] = up[r]
  PROVE  JoinInv(r)'
<1>1. r \in Peers
  BY DEF TypeOK
<1>2. /\ Registered(r) /\ r \notin left /\ ~Has(down[r], "bye") /\ ~Begins(down[r], "reject")
      /\ connection_[r] = "null" => down[r] # <<>> /\ Outside(r)
    BY <1>1 DEF JoinInv
<1>3. Registered(r)' /\ (Outside(r)' <=> Outside(r)) /\ (HasRemote(r)' <=> HasRemote(r))
  BY <1>2 DEF Registered, OutHas, Outside, HasRemote
<1>4. /\ \A t : Has(down'[r], t) <=> Has(down[r], t) \/ m.type = t
      /\ \A t : t # m.type => (Begins(down'[r], t) <=> Begins(down[r], t))
      /\ down'[r] # <<>> /\ Welcome(down'[r])
  <2>1. Welcome(down[r])
    BY DEF JoinInv
  <2>2. down'[r] # <<>> /\ Welcome(down'[r])
    BY <1>1, <2>1, SendEffect
  <2>3. ASSUME NEW t
        PROVE  /\ Has(down'[r], t) <=> Has(down[r], t) \/ m.type = t
               /\ t # m.type => (Begins(down'[r], t) <=> Begins(down[r], t))
    BY <1>1, SendEffect, ZenonT(60)
  <2> QED
    BY <2>2, <2>3
<1> QED
  BY <1>2, <1>3, <1>4 DEF JoinInv, Registered

\* A peer that is told nothing and is not in the room any more.
LEMMA JoinGone ==
  ASSUME NEW r \in Peers, JoinInv(r), r \notin room', r \in left' <=> r \in left,
         stage'[r] = stage[r], closes'[r] = closes[r], connection_'[r] = connection_[r],
         ready_'[r] = ready_[r], tasks'[r] = tasks[r], gather'[r] = gather[r],
         down'[r] = down[r], crashed'[r] = crashed[r], posted'[r] = posted[r], up'[r] = up[r]
  PROVE  JoinInv(r)'
<1>1. /\ Outside(r)' <=> Outside(r)
      /\ HasRemote(r)' <=> HasRemote(r)
      /\ Registered(r) <=> Registered(r)'
      /\ OutHas(r, "register")' <=> OutHas(r, "register")
  BY DEF Outside, HasRemote, Registered, OutHas
<1> QED
  BY <1>1 DEF JoinInv

LEMMA JoinNext == TypeInv /\ JoinAll /\ [Next]_vars => JoinAll'
<1> SUFFICES ASSUME TypeInv, JoinAll, [Next]_vars PROVE JoinAll'
  OBVIOUS
<1> USE DEF ioVars, rtcVars, netVars, ghostVars
<1>0. TypeOK /\ \A p \in Peers : JoinInv(p)
  BY DEF TypeInv, JoinAll
<1>1. ASSUME NEW p \in Peers,
             Connect(p) \/ OnResolve(p) \/ OnSSLConnect(p) \/ OnSSLHandshake(p)
      PROVE  JoinAll'
  <2>0. Local(p) /\ TypeOK /\ JoinInv(p)
    BY <1>1, <1>0 DEF Local, IocStep, SigStep
  <2>1. /\ stage[p] # "open" /\ stage'[p] # "open"
        /\ UNCHANGED <<closes, connection_, ready_, tasks, gather, posted, up, down, room,
                       crashed, left>>
    BY <1>1, <2>0 DEF TypeOK, Connect, OnResolve, OnSSLConnect, OnSSLHandshake, Advance
  <2>9. JoinInv(p)'
    BY <2>0, <2>1 DEF JoinInv, Outside, Registered, OutHas, HasRemote
  <2> QED
    BY <2>0, <2>9, JoinLocal
<1>2. ASSUME NEW p \in Peers, OnHandshake(p) PROVE JoinAll'
  <2>0. Local(p) /\ TypeOK /\ JoinInv(p)
    BY <1>2, <1>0 DEF Local, IocStep, SigStep
  <2>1. /\ stage[p] # "open"
        /\ UNCHANGED <<closes, connection_, ready_, tasks, gather, up, down, room, crashed,
                       left>>
    BY <1>2 DEF OnHandshake
  <2>2. /\ posted[p] = <<>> /\ up[p] = <<>> /\ down[p] = <<>> /\ Outside(p)
        /\ p \notin room /\ p \notin left
        /\ ~ready_[p] /\ crashed[p] # "null"
    BY <2>0, <2>1 DEF JoinInv, Registered, Outside
  <2>3. /\ down'[p] = <<>> /\ Outside(p)' /\ p \notin room' /\ p \notin left'
        /\ ~ready_'[p] /\ crashed'[p] # "null"
    BY <2>1, <2>2 DEF Outside
  <2>4. /\ Welcome(down'[p]) /\ ~Has(down'[p], "bye")
        /\ ~Begins(down'[p], "accept") /\ ~Begins(down'[p], "reject")
    BY <2>3, HasEmpty
  <2>9. JoinInv(p)'
    <3>1. CASE stage' = [stage EXCEPT ![p] = "failed"] /\ UNCHANGED <<reads, posted, connectivity>>
      <4>1. stage'[p] # "open" /\ posted'[p] = <<>> /\ up'[p] = <<>>
        BY <2>0, <2>1, <2>2, <3>1 DEF TypeOK
      <4>2. ~OutHas(p, "register")'
        BY <4>1, HasEmpty DEF OutHas
      <4> QED
        BY <2>3, <2>4, <4>1, <4>2 DEF JoinInv
    <3>2. CASE stage' = [stage EXCEPT ![p] = "open"] /\ SendText(p, "register")
      <4>1. OutHas(p, "register")'
        BY <2>0, <2>1, <3>2, SendTextEffect DEF Types
      <4>2. Len(posted'[p]) + Len(up'[p]) = 1
        <5>1. posted'[p] = <<Msg("register")>> /\ up'[p] = <<>>
          BY <2>0, <2>1, <2>2, <3>2 DEF SendText, TypeOK
        <5> QED
          BY <5>1
      <4>3. stage'[p] = "open"
        BY <2>0, <3>2 DEF TypeOK
      <4> QED
        BY <2>3, <2>4, <4>1, <4>2, <4>3 DEF JoinInv
    <3>3. \/ stage' = [stage EXCEPT ![p] = "open"] /\ SendText(p, "register")
          \/ /\ stage' = [stage EXCEPT ![p] = "failed"]
             /\ UNCHANGED <<reads, posted, connectivity>>
      BY <1>2 DEF OnHandshake
    <3> QED
      BY <3>1, <3>2, <3>3
  <2> QED
    BY <2>0, <2>9, JoinLocal
<1>3. ASSUME NEW p \in Peers, OnAccept(p) PROVE JoinAll'
  <2>0. Local(p) /\ TypeOK /\ JoinInv(p)
    BY <1>3, <1>0 DEF Local, IocStep, SigStep
  <2>1. Receives(p, "accept")
    BY <1>3 DEF OnAccept
  <2>2. /\ stage[p] = "open" /\ Begins(down[p], "accept") /\ down[p] # <<>> /\ Welcome(down'[p])
        /\ ~Begins(down'[p], "accept") /\ ~Begins(down'[p], "reject")
        /\ Has(down'[p], "bye") => Has(down[p], "bye")
        /\ closes[p] = 0 /\ Has(down[p], "accept")
    BY <2>0, <2>1, ReceivesEffect DEF JoinInv
  <2>3. /\ connection_'[p] = "fresh" /\ connection_[p] = "null" /\ ~ready_[p]
        /\ UNCHANGED <<stage, posted, up, room, ready_, closes, crashed, left>>
    BY <1>3, <2>0, <2>2 DEF OnAccept, JoinInv, Outside, TypeOK
  <2>4. (OutHas(p, "register")' <=> OutHas(p, "register")) /\ Registered(p)
    BY <2>0, <2>2, <2>3 DEF OutHas, JoinInv, Registered
  <2>9. JoinInv(p)'
    BY <2>0, <2>2, <2>3, <2>4 DEF JoinInv, Registered
  <2> QED
    BY <2>0, <2>9, JoinLocal
<1>4. ASSUME NEW p \in Peers, OnOffer(p) PROVE JoinAll'
  <2>0. Local(p) /\ TypeOK /\ JoinInv(p)
    BY <1>4, <1>0 DEF Local, IocStep, SigStep
  <2>1. Receives(p, "offer")
    BY <1>4 DEF OnOffer
  <2>2. /\ stage[p] = "open" /\ Begins(down[p], "offer") /\ down[p] # <<>> /\ Welcome(down'[p])
        /\ ~Begins(down'[p], "accept") /\ ~Begins(down'[p], "reject")
        /\ Has(down'[p], "bye") => Has(down[p], "bye")
        /\ closes[p] = 0 /\ Has(down[p], "offer")
    BY <2>0, <2>1, ReceivesEffect DEF JoinInv
  <2>3. connection_[p] # "null" /\ p \notin left /\ Registered(p)
    <3>1. ~Begins(down[p], "accept") /\ ~Begins(down[p], "reject")
      BY <2>2 DEF Begins
    <3> QED
      BY <2>0, <2>2, <3>1 DEF JoinInv, Registered
  <2>4. /\ connection_'[p] \in {connection_[p], "have_remote_offer"}
        /\ UNCHANGED <<stage, posted, up, room, ready_, closes, crashed, left>>
    BY <1>4, <2>0, <2>3 DEF OnOffer, Dereference, TypeOK
  <2>5. Registered(p)' /\ (HasRemote(p) => HasRemote(p)')
    BY <2>3, <2>4 DEF Registered, OutHas, HasRemote
  <2>9. JoinInv(p)'
    BY <2>0, <2>2, <2>3, <2>4, <2>5 DEF JoinInv, Registered
  <2> QED
    BY <2>0, <2>9, JoinLocal
<1>5. ASSUME NEW p \in Peers, OnAnswer(p) PROVE JoinAll'
  <2>0. Local(p) /\ TypeOK /\ JoinInv(p)
    BY <1>5, <1>0 DEF Local, IocStep, SigStep
  <2>1. Receives(p, "answer")
    BY <1>5 DEF OnAnswer
  <2>2. /\ stage[p] = "open" /\ Begins(down[p], "answer") /\ down[p] # <<>> /\ Welcome(down'[p])
        /\ ~Begins(down'[p], "accept") /\ ~Begins(down'[p], "reject")
        /\ Has(down'[p], "bye") => Has(down[p], "bye")
        /\ closes[p] = 0 /\ Has(down[p], "answer")
    BY <2>0, <2>1, ReceivesEffect DEF JoinInv
  <2>3. connection_[p] # "null" /\ p \notin left /\ Registered(p)
    <3>1. ~Begins(down[p], "accept") /\ ~Begins(down[p], "reject")
      BY <2>2 DEF Begins
    <3> QED
      BY <2>0, <2>2, <3>1 DEF JoinInv, Registered
  <2>4. /\ connection_'[p] \in {connection_[p], "stable"}
        /\ UNCHANGED <<stage, posted, up, room, ready_, closes, crashed, left>>
    BY <1>5, <2>0, <2>3 DEF OnAnswer, Dereference, TypeOK
  <2>5. Registered(p)' /\ (HasRemote(p) => HasRemote(p)')
    BY <2>3, <2>4 DEF Registered, OutHas, HasRemote
  <2>9. JoinInv(p)'
    BY <2>0, <2>2, <2>3, <2>4, <2>5 DEF JoinInv, Registered
  <2> QED
    BY <2>0, <2>9, JoinLocal
<1>6. ASSUME NEW p \in Peers, OnCandidate(p) PROVE JoinAll'
  <2>0. Local(p) /\ TypeOK /\ JoinInv(p)
    BY <1>6, <1>0 DEF Local, IocStep, SigStep
  <2>1. Receives(p, "candidate")
    BY <1>6 DEF OnCandidate
  <2>2. /\ stage[p] = "open" /\ Begins(down[p], "candidate") /\ down[p] # <<>> /\ Welcome(down'[p])
        /\ ~Begins(down'[p], "accept") /\ ~Begins(down'[p], "reject")
        /\ Has(down'[p], "bye") => Has(down[p], "bye")
        /\ closes[p] = 0 /\ Has(down[p], "candidate")
    BY <2>0, <2>1, ReceivesEffect DEF JoinInv
  <2>3. connection_[p] # "null" /\ p \notin left /\ Registered(p)
    <3>1. ~Begins(down[p], "accept") /\ ~Begins(down[p], "reject")
      BY <2>2 DEF Begins
    <3> QED
      BY <2>0, <2>2, <3>1 DEF JoinInv, Registered
  <2>4. /\ ready_'[p] => ready_[p] \/ HasRemote(p)
        /\ UNCHANGED <<stage, posted, up, room, connection_, closes, crashed, left>>
    BY <1>6, <2>0, <2>3 DEF OnCandidate, Dereference, TypeOK
  <2>5. Registered(p)' /\ (HasRemote(p)' <=> HasRemote(p))
    BY <2>3, <2>4 DEF Registered, OutHas, HasRemote
  <2>9. JoinInv(p)'
    BY <2>0, <2>2, <2>3, <2>4, <2>5 DEF JoinInv, Registered
  <2> QED
    BY <2>0, <2>9, JoinLocal
<1>7. ASSUME NEW p \in Peers, OnPing(p) PROVE JoinAll'
  <2>0. Local(p) /\ TypeOK /\ JoinInv(p)
    BY <1>7, <1>0 DEF Local, IocStep, SigStep
  <2>1. Receives(p, "ping")
    BY <1>7 DEF OnPing
  <2>2. /\ stage[p] = "open" /\ Begins(down[p], "ping") /\ down[p] # <<>> /\ Welcome(down'[p])
        /\ ~Begins(down'[p], "accept") /\ ~Begins(down'[p], "reject")
        /\ Has(down'[p], "bye") => Has(down[p], "bye")
        /\ closes[p] = 0 /\ Has(down[p], "ping")
    BY <2>0, <2>1, ReceivesEffect DEF JoinInv
  <2>3. connection_[p] # "null" /\ p \notin left /\ Registered(p)
    <3>1. ~Begins(down[p], "accept") /\ ~Begins(down[p], "reject")
      BY <2>2 DEF Begins
    <3> QED
      BY <2>0, <2>2, <3>1 DEF JoinInv, Registered
  <2>4. /\ SendText(p, "pong")
        /\ UNCHANGED <<stage, up, room, connection_, ready_, closes, crashed, left>>
    BY <1>7 DEF OnPing
  <2>5. OutHas(p, "register")' <=> OutHas(p, "register")
    BY <2>0, <2>4, SendTextEffect DEF Types
  <2>6. Registered(p)' /\ (HasRemote(p)' <=> HasRemote(p))
    BY <2>3, <2>4, <2>5 DEF Registered, HasRemote
  <2>9. JoinInv(p)'
    BY <2>0, <2>2, <2>3, <2>4, <2>6 DEF JoinInv, Registered
  <2> QED
    BY <2>0, <2>9, JoinLocal
<1>8. ASSUME NEW p \in Peers, OnBye(p) PROVE JoinAll'
  <2>0. Local(p) /\ TypeOK /\ JoinInv(p)
    BY <1>8, <1>0 DEF Local, IocStep, SigStep
  <2>1. Receives(p, "bye")
    BY <1>8 DEF OnBye
  <2>2. /\ stage[p] = "open" /\ Begins(down[p], "bye") /\ down[p] # <<>> /\ Welcome(down'[p])
        /\ ~Begins(down'[p], "accept") /\ ~Begins(down'[p], "reject")
        /\ Has(down'[p], "bye") => Has(down[p], "bye")
        /\ closes[p] = 0 /\ Has(down[p], "bye")
    BY <2>0, <2>1, ReceivesEffect DEF JoinInv
  <2>3. connection_[p] # "null" /\ p \notin left /\ Registered(p)
    <3>1. ~Begins(down[p], "accept") /\ ~Begins(down[p], "reject")
      BY <2>2 DEF Begins
    <3> QED
      BY <2>0, <2>2, <3>1 DEF JoinInv, Registered
  <2>4. /\ closes'[p] = 1 /\ p \in left'
        /\ UNCHANGED <<stage, posted, up, room, ready_, crashed>>
    BY <1>8, <2>0, <2>2 DEF OnBye, Close, TypeOK
  <2>5. Registered(p)'
    BY <2>3, <2>4 DEF Registered, OutHas
  <2>9. JoinInv(p)'
    BY <2>0, <2>2, <2>3, <2>4, <2>5 DEF JoinInv, Registered
  <2> QED
    BY <2>0, <2>9, JoinLocal
<1>9. ASSUME NEW p \in Peers, OnUnknown(p) PROVE JoinAll'
  <2>0. Local(p) /\ TypeOK /\ JoinInv(p)
    BY <1>9, <1>0 DEF Local, IocStep, SigStep
  <2>1. Receives(p, "reject")
    BY <1>9 DEF OnUnknown
  <2>2. /\ stage[p] = "open" /\ Begins(down[p], "reject") /\ down[p] # <<>> /\ Welcome(down'[p])
        /\ ~Begins(down'[p], "accept") /\ ~Begins(down'[p], "reject")
        /\ Has(down'[p], "bye") => Has(down[p], "bye")
        /\ closes[p] = 0 /\ Has(down[p], "reject")
    BY <2>0, <2>1, ReceivesEffect DEF JoinInv
  <2>3. UNCHANGED <<stage, closes, connection_, ready_, tasks, gather, posted, up, room,
                    crashed, left>>
    BY <1>9 DEF OnUnknown
  <2>4. Registered(p) /\ Registered(p)' /\ (HasRemote(p)' <=> HasRemote(p))
        /\ (Outside(p)' <=> Outside(p)) /\ down'[p] = <<>>
    <3>1. Len(down[p]) = 1 /\ down[p] \in Seq(Messages) /\ down'[p] = Tail(down[p])
      BY <2>0, <2>1, <2>2, ReceivesEffect DEF JoinInv, TypeOK
    <3>2. down'[p] = <<>>
      BY <3>1, SingleText, Zenon
    <3> QED
      BY <2>0, <2>2, <2>3, <3>2 DEF JoinInv, Registered, OutHas, HasRemote, Outside
  <2>9. JoinInv(p)'
    BY <2>0, <2>2, <2>3, <2>4 DEF JoinInv, Registered
  <2> QED
    BY <2>0, <2>9, JoinLocal
<1>10. ASSUME NEW p \in Peers, OnMalformed(p) PROVE JoinAll'
  <2>0. Local(p) /\ TypeOK /\ JoinInv(p)
    BY <1>10, <1>0 DEF Local, IocStep, SigStep
  <2>1. /\ crashed'[p] = "json"
        /\ UNCHANGED <<stage, closes, connection_, ready_, tasks, gather, posted, up, down,
                       room, left>>
    BY <1>10, <2>0 DEF OnMalformed, TypeOK
  <2>9. JoinInv(p)'
    BY <2>0, <2>1 DEF JoinInv, Outside, Registered, OutHas, HasRemote
  <2> QED
    BY <2>0, <2>9, JoinLocal
<1>11. ASSUME NEW p \in Peers, OnReadError(p) PROVE JoinAll'
  <2>0. Local(p) /\ TypeOK /\ JoinInv(p)
    BY <1>11, <1>0 DEF Local, IocStep, SigStep
  <2>1. UNCHANGED <<stage, crashed, connection_, ready_, tasks, gather, posted, up, down,
                    room, left>>
    BY <1>11 DEF OnReadError
  <2>2. closes[p] = 0
    BY <1>11, Reading DEF OnReadError
  <2>3. p \notin left /\ p \notin left'
    BY <2>0, <2>1, <2>2 DEF JoinInv
  <2>4. /\ Outside(p)' <=> Outside(p)
        /\ HasRemote(p)' <=> HasRemote(p)
        /\ Registered(p)' <=> Registered(p)
        /\ OutHas(p, "register")' <=> OutHas(p, "register")
    BY <2>1 DEF Outside, HasRemote, Registered, OutHas
  <2>9. JoinInv(p)'
    BY <2>0, <2>1, <2>3, <2>4 DEF JoinInv
  <2> QED
    BY <2>0, <2>9, JoinLocal
<1>12. ASSUME NEW p \in Peers, OnCreateOffer(p) PROVE JoinAll'
  <2>0. Local(p) /\ TypeOK /\ JoinInv(p)
    BY <1>12, <1>0 DEF Local, IocStep, SigStep
  <2>1. UNCHANGED <<stage, closes, ready_, up, down, room, left>> /\ tasks[p] # <<>>
    BY <1>12 DEF OnCreateOffer, RunsTask
  <2>2. Registered(p) /\ (connection_[p] = "null" => p \in left)
    BY <2>0, <2>1 DEF JoinInv, Outside
  <2>3. /\ connection_'[p] = IF connection_[p] = "fresh" THEN "have_local_offer"
                             ELSE connection_[p]
        /\ crashed'[p] = "null" => crashed[p] = "null" \/ connection_[p] = "null"
    BY <1>12, <2>0 DEF OnCreateOffer, Dereference, TypeOK
  <2>4. OutHas(p, "register")' <=> OutHas(p, "register")
    <3>1. CASE posted' = posted
      BY <2>1, <3>1 DEF OutHas
    <3>2. CASE SendText(p, "offer")
      BY <2>0, <2>1, <3>2, SendTextEffect DEF Types
    <3> QED
      BY <1>12, <3>1, <3>2 DEF OnCreateOffer
  <2>5. Registered(p)' /\ (HasRemote(p) => HasRemote(p)')
    BY <2>1, <2>2, <2>3, <2>4 DEF Registered, HasRemote
  <2>9. JoinInv(p)'
    BY <2>0, <2>1, <2>2, <2>3, <2>5 DEF JoinInv, Registered
  <2> QED
    BY <2>0, <2>9, JoinLocal
<1>13. ASSUME NEW p \in Peers, OnCreateAnswer(p) PROVE JoinAll'
  <2>0. Local(p) /\ TypeOK /\ JoinInv(p)
    BY <1>13, <1>0 DEF Local, IocStep, SigStep
  <2>1. UNCHANGED <<stage, closes, ready_, up, down, room, left>> /\ tasks[p] # <<>>
    BY <1>13 DEF OnCreateAnswer, RunsTask
  <2>2. Registered(p) /\ (connection_[p] = "null" => p \in left)
    BY <2>0, <2>1 DEF JoinInv, Outside
  <2>3. /\ connection_'[p] = IF connection_[p] = "have_remote_offer" THEN "stable"
                             ELSE connection_[p]
        /\ crashed'[p] = "null" => crashed[p] = "null" \/ connection_[p] = "null"
    BY <1>13, <2>0 DEF OnCreateAnswer, Dereference, TypeOK
  <2>4. OutHas(p, "register")' <=> OutHas(p, "register")
    <3>1. CASE posted' = posted
      BY <2>1, <3>1 DEF OutHas
    <3>2. CASE SendText(p, "answer")
      BY <2>0, <2>1, <3>2, SendTextEffect DEF Types
    <3> QED
      BY <1>13, <3>1, <3>2 DEF OnCreateAnswer
  <2>5. Registered(p)' /\ (HasRemote(p) => HasRemote(p)')
    BY <2>1, <2>2, <2>3, <2>4 DEF Registered, HasRemote
  <2>9. JoinInv(p)'
    BY <2>0, <2>1, <2>2, <2>3, <2>5 DEF JoinInv, Registered
  <2> QED
    BY <2>0, <2>9, JoinLocal
<1>14. ASSUME NEW p \in Peers,
             OnSetOffer(p) \/ TaskFails(p)
      PROVE  JoinAll'
  <2>0. Local(p) /\ TypeOK /\ JoinInv(p)
    BY <1>14, <1>0 DEF Local, IocStep, SigStep
  <2>1. /\ UNCHANGED <<stage, closes, connection_, ready_, posted, up, down, room, left>>
        /\ tasks[p] # <<>>
        /\ crashed'[p] = "null" => crashed[p] = "null" \/ connection_[p] = "null"
    BY <1>14, <2>0 DEF OnSetOffer, TaskFails, RunsTask, Dereference, TypeOK
  <2>2. Registered(p) /\ (connection_[p] = "null" => p \in left)
    BY <2>0, <2>1 DEF JoinInv, Outside
  <2>3. Registered(p)' /\ (HasRemote(p)' <=> HasRemote(p))
    BY <2>1, <2>2 DEF Registered, OutHas, HasRemote
  <2>9. JoinInv(p)'
    BY <2>0, <2>1, <2>2, <2>3 DEF JoinInv, Registered
  <2> QED
    BY <2>0, <2>9, JoinLocal
<1>15. ASSUME NEW p \in Peers, OnIceCandidate(p) PROVE JoinAll'
  <2>0. Local(p) /\ TypeOK /\ JoinInv(p)
    BY <1>15, <1>0 DEF Local, IocStep, SigStep
  <2>1. /\ UNCHANGED <<stage, closes, connection_, ready_, up, down, room, crashed, left>>
        /\ gather[p] # 0 /\ SendText(p, "candidate")
    BY <1>15 DEF OnIceCandidate
  <2>2. Registered(p) /\ (connection_[p] = "null" => p \in left)
    BY <2>0, <2>1 DEF JoinInv, Outside
  <2>3. OutHas(p, "register")' <=> OutHas(p, "register")
    BY <2>0, <2>1, SendTextEffect DEF Types
  <2>4. Registered(p)' /\ (HasRemote(p)' <=> HasRemote(p))
    BY <2>1, <2>2, <2>3 DEF Registered, HasRemote
  <2>9. JoinInv(p)'
    BY <2>0, <2>1, <2>2, <2>4 DEF JoinInv, Registered
  <2> QED
    BY <2>0, <2>9, JoinLocal
<1>16. ASSUME NEW p \in Peers, DoSendText(p) PROVE JoinAll'
  <2>0. Local(p) /\ TypeOK /\ JoinInv(p)
    BY <1>16, <1>0 DEF Local, IocStep, SigStep
  <2>1. UNCHANGED <<stage, closes, connection_, ready_, tasks, gather, down, room, crashed,
                    left>>
    BY <1>16 DEF DoSendText
  <2>2. /\ Len(posted'[p]) + Len(up'[p]) = Len(posted[p]) + Len(up[p])
        /\ posted[p] # <<>>
        /\ OutHas(p, "register")' <=> OutHas(p, "register")
    BY <1>16, <2>0, DoSendTextEffect
  <2>3. stage[p] = "open"
    BY <2>0, <2>2 DEF JoinInv
  <2>9. JoinInv(p)'
    BY <2>0, <2>1, <2>2, <2>3, JoinSame
  <2> QED
    BY <2>0, <2>9, JoinLocal
<1>17. ASSUME NEW p \in Peers, CreateDataChannel(p) PROVE JoinAll'
  <2>0. Local(p) /\ TypeOK /\ JoinInv(p)
    BY <1>17, <1>0 DEF Local, IocStep, SigStep
  <2>1. /\ UNCHANGED <<stage, closes, connection_, ready_, tasks, gather, posted, up, down,
                       room, left>>
        /\ ready_[p]
        /\ crashed'[p] = "null" => crashed[p] = "null" \/ connection_[p] = "null"
    BY <1>17, <2>0 DEF CreateDataChannel, Dereference, TypeOK
  <2>2. connection_[p] = "null" => p \in left
    BY <2>0, <2>1 DEF JoinInv, HasRemote
  <2>9. JoinInv(p)'
    BY <2>0, <2>1, <2>2 DEF JoinInv, Outside, Registered, OutHas, HasRemote
  <2> QED
    BY <2>0, <2>9, JoinLocal
<1>18. ASSUME NEW p \in Peers, ServerHandles(p) PROVE JoinAll'
  <2> DEFINE m == Head(up[p])
  <2>1. /\ up[p] # <<>> /\ up' = [up EXCEPT ![p] = Tail(up[p])] /\ posted' = posted
        /\ UNCHANGED <<stage, closes, connection_, ready_, tasks, gather, crashed, left>>
    BY <1>18 DEF ServerHandles
  <2>2. /\ m \in Messages /\ up'[p] = Tail(up[p]) /\ posted'[p] = posted[p]
        /\ \A t : OutHas(p, t)' => OutHas(p, t)
        /\ OutHas(p, m.type)
        /\ \A r \in Peers \ {p} : up'[r] = up[r] /\ posted'[r] = posted[r]
    BY <1>0, <2>1, TakeEffect
  <2>3. \A r \in Peers \ {p} : OutHas(r, "register")' <=> OutHas(r, "register")
    BY <2>2 DEF OutHas
  <2>4. stage[p] = "open"
    BY <1>0, <2>1 DEF JoinInv
  <2>5. CASE m.type = "register"
    <3>1. /\ Outside(p) /\ down[p] = <<>> /\ p \notin room /\ p \notin left
      BY <1>0, <2>2, <2>5 DEF JoinInv, Registered
    <3>2. posted'[p] = <<>> /\ up'[p] = <<>>
      BY <1>0, <2>1, <2>2, <2>5, RegisterAlone
    <3>3. ~OutHas(p, "register")'
      BY <3>2, HasEmpty DEF OutHas
    <3>4. PICK a \in Messages :
             /\ Send({p}, a) /\ a.type \in {"accept", "reject"}
             /\ IF a.type = "accept" THEN room' = room \cup {p} ELSE room' = room
      <4>1. [type |-> "accept", isExistUser |-> room # {}] \in Messages
            /\ Msg("reject") \in Messages
        BY DEF Messages, Types, Msg
      <4> QED
        BY <1>18, <2>5, <4>1 DEF ServerHandles, Msg
    <3>5. /\ Len(down'[p]) = 1 /\ down'[p] # <<>> /\ Begins(down'[p], a.type)
          /\ \A t : Begins(down'[p], t) => t = a.type
          /\ \A t : Has(down'[p], t) => t = a.type
          /\ Welcome(down'[p])
      BY <1>0, <3>1, <3>4, SendEffect, HasEmpty, ZenonT(60)
    <3>6. Outside(p)' /\ Registered(p)'
      BY <2>1, <2>4, <3>1, <3>3 DEF Outside, Registered
    <3>7. JoinInv(p)'
      BY <1>0, <2>1, <2>4, <3>1, <3>2, <3>3, <3>4, <3>5, <3>6 DEF JoinInv, Outside
    <3>8. ASSUME NEW r \in Peers \ {p} PROVE JoinInv(r)'
      <4>1. down'[r] = down[r] /\ (r \in room' <=> r \in room)
        BY <1>0, <3>4, SendEffect
      <4> QED
        BY <1>0, <2>1, <2>2, <2>3, <4>1, JoinSame
    <3> QED
      BY <3>7, <3>8 DEF JoinAll
  <2>6. CASE m.type \in {"offer", "answer", "candidate"}
    <3>1. room' = room /\ Send(IF p \in room THEN room \ {p} ELSE {}, m)
      BY <1>18, <2>6 DEF ServerHandles
    <3>2. ~OutHas(p, "register") /\ ~OutHas(p, "register")'
      BY <1>0, <2>1, <2>2, <2>6, RegisterAlone
    <3>3. down'[p] = down[p]
      BY <1>0, <2>2, <3>1, SendEffect
    <3>4. JoinInv(p)'
      BY <1>0, <2>1, <2>4, <3>1, <3>2, <3>3, JoinSame
    <3>5. ASSUME NEW r \in Peers \ {p} PROVE JoinInv(r)'
      <4>1. CASE down'[r] = down[r]
        BY <1>0, <2>1, <2>2, <2>3, <3>1, <4>1, JoinSame
      <4>2. CASE r \in room /\ p \in room
        BY <1>0, <2>1, <2>2, <2>3, <2>6, <3>1, <4>2, JoinTold
      <4> QED
        BY <1>0, <2>2, <3>1, <4>1, <4>2, SendEffect
    <3> QED
      BY <3>4, <3>5 DEF JoinAll
  <2>7. CASE m.type = "pong"
    <3>1. ~OutHas(p, "register") /\ ~OutHas(p, "register")'
      BY <1>0, <2>1, <2>2, <2>7, RegisterAlone
    <3>2. room' = room /\ down' = down
      BY <1>18, <2>7 DEF ServerHandles
    <3>3. ASSUME NEW r \in Peers PROVE JoinInv(r)'
      BY <1>0, <2>1, <2>2, <2>3, <2>4, <3>1, <3>2, JoinSame
    <3> QED
      BY <3>3 DEF JoinAll
  <2> QED
    BY <1>18, <2>5, <2>6, <2>7 DEF ServerHandles
<1>19. ASSUME NEW p \in Peers, ServerPings(p) PROVE JoinAll'
  <2>1. /\ p \in room /\ Send({p}, Msg("ping"))
        /\ UNCHANGED <<stage, closes, connection_, ready_, tasks, gather, posted, up, room,
                       crashed, left>>
    BY <1>19 DEF ServerPings
  <2>2. Msg("ping") \in Messages /\ Msg("ping").type = "ping"
    BY DEF Msg, Messages, Types
  <2>3. ASSUME NEW r \in Peers PROVE JoinInv(r)'
    <3>1. OutHas(r, "register")' <=> OutHas(r, "register")
      BY <2>1 DEF OutHas
    <3>2. CASE r = p
      BY <1>0, <2>1, <2>2, <3>1, <3>2, JoinTold
    <3>3. CASE r # p
      <4>1. down'[r] = down[r]
        BY <1>0, <2>1, <2>2, <3>3, SendEffect
      <4> QED
        BY <1>0, <2>1, <3>1, <4>1, JoinSame
    <3> QED
      BY <3>2, <3>3
  <2> QED
    BY <2>3 DEF JoinAll
<1>20. ASSUME NEW p \in Peers, ServerLoses(p) PROVE JoinAll'
  <2>1. /\ p \in room /\ Send(room \ {p}, Msg("bye")) /\ room' = {}
        /\ UNCHANGED <<stage, closes, connection_, ready_, tasks, gather, posted, up,
                       crashed, left>>
    BY <1>20 DEF ServerLoses
  <2>2. Msg("bye") \in Messages /\ Msg("bye").type = "bye"
    BY DEF Msg, Messages, Types
  <2>3. ASSUME NEW r \in Peers PROVE JoinInv(r)'
    <3>1. OutHas(r, "register")' <=> OutHas(r, "register")
      BY <2>1 DEF OutHas
    <3>2. CASE r \in room \ {p}
      BY <1>0, <2>1, <2>2, <3>1, <3>2, JoinTold
    <3>3. CASE r \notin room \ {p}
      <4>1. down'[r] = down[r] /\ r \notin room'
        BY <1>0, <2>1, <2>2, <3>3, SendEffect
      <4> QED
        BY <1>0, <2>1, <3>1, <4>1, JoinGone
    <3> QED
      BY <3>2, <3>3
  <2> QED
    BY <2>3 DEF JoinAll
<1>21. CASE UNCHANGED vars
  <2>1. ASSUME NEW r \in Peers PROVE JoinInv(r)'
    <3>1. OutHas(r, "register")' <=> OutHas(r, "register")
      BY <1>21 DEF vars, OutHas
    <3> QED
      BY <1>21, <1>0, <3>1, JoinSame DEF vars
  <2> QED
    BY <2>1 DEF JoinAll
<1> QED
  BY <1>1, <1>2, <1>3, <1>4, <1>5, <1>6, <1>7, <1>8, <1>9, <1>10, <1>11, <1>12, <1>13,
     <1>14, <1>15, <1>16, <1>17, <1>18, <1>19, <1>20, <1>21
  DEF Next, IocStep, SigStep

\* How far each peer has come from its register to the bye: what the server, the queues
\* between the two and OnRead know of it is inductive.
THEOREM JoinInvariance == Spec => [](TypeInv /\ JoinAll)
BY TypeInvariance, JoinInit, JoinNext, PTL DEF Spec

\* Only CreateDataChannel and the lambdas that wait when a bye destroys the peer
\* connection can dereference nullptr: no message of the other peer can, in any order
\* the pools and the Ayame server can produce.
THEOREM NullSafe == Spec => []NullOnlyAfterBye
<1>1. JoinAll => NullOnlyAfterBye
  BY DEF JoinAll, JoinInv, NullOnlyAfterBye
<1> QED
  BY <1>1, JoinInvariance, PTL

--------------------------------------------------------------------------------
(******************************************************************************)
(* The exchange of descriptions.  The second peer of a room is told to offer, *)
(* and while it does the first one has nothing to say; while the first one    *)
(* answers, the second one waits with its offer.                              *)
(******************************************************************************)
Idle(p) == connection_[p] \in {"null", "fresh"}

\* p is told to offer.
Will(p) ==
    \/ tasks[p] = <<"create_offer">>
    \/ Begins(down[p], "accept") /\ Head(down[p]).isExistUser

Replies(p) == tasks[p] \in {<<"set_offer">>, <<"create_answer">>}

Offering(p) == Will(p) \/ OutHas(p, "offer")
Answering(p) == Replies(p) \/ OutHas(p, "answer")

\* The lambda that waits fits the state of the connection.
TasksFit(p) ==
    \/ tasks[p] = <<>>
    \/ tasks[p] = <<"create_offer">> /\ connection_[p] = "fresh"
    \/ Replies(p) /\ connection_[p] = "have_remote_offer"

\* No candidate is gathered before a description is set.
GatherFits(p) == Idle(p) => ~OutHas(p, "candidate") /\ gather[p] = 0

\* What a peer has sent, will do and is about to be told fits its own connection.
PeerInv(p) ==
    p \notin left =>
        /\ TasksFit(p) /\ GatherFits(p)
        /\ Idle(p) => ~OutHas(p, "offer") /\ ~OutHas(p, "answer")
        /\ OutHas(p, "answer") => connection_[p] = "stable"
        /\ OutOnce(p, "offer") /\ OutOnce(p, "answer")
        /\ Has(down[p], "offer") => Idle(p) /\ ~Will(p)
        /\ Has(down[p], "answer") => connection_[p] = "have_local_offer"
        /\ Once(down[p], "offer") /\ Once(down[p], "answer")

\* What p does fits the connection of the peer q it shares the room with.
PairInv(p, q) ==
    /\ Offering(p) => Idle(q) /\ ~Offering(q) /\ ~Has(down[q], "offer")
    /\ Has(down[q], "offer") \/ Answering(q) =>
          connection_[p] = "have_local_offer" /\ ~Has(down[p], "answer")
    /\ Has(down[p], "answer") => connection_[q] = "stable"
    /\ HasRemote(p) => ~Idle(q)

\* A peer that waits for another one.
AloneInv(p) == Idle(p) /\ ~Will(p) /\ ~Has(down[p], "offer")

RoomInv ==
    /\ IsFiniteSet(room)
    /\ \A p, q, r \in room : p = q \/ q = r \/ p = r
    /\ \A p, q \in room : p # q => PairInv(p, q)
    /\ \A p \in room : room = {p} => AloneInv(p)

PeerAll == \A p \in Peers : PeerInv(p)

LEMMA ExchangeInit == Init => PeerAll /\ RoomInv
<1>1. ASSUME Init PROVE RoomInv
  BY <1>1, FS_EmptySet DEF Init, RoomInv
<1>2. ASSUME Init, NEW p \in Peers PROVE PeerInv(p)
  <2>1. /\ posted[p] = <<>> /\ up[p] = <<>> /\ down[p] = <<>> /\ tasks[p] = <<>>
        /\ gather[p] = 0
    BY <1>2 DEF Init
  <2>2. \A t : ~Has(down[p], t) /\ Once(down[p], t) /\ ~OutHas(p, t) /\ OutOnce(p, t)
    BY <2>1, HasEmpty DEF OutHas, OutOnce
  <2> QED
    BY <2>1, <2>2 DEF PeerInv, TasksFit, GatherFits
<1> QED
  BY <1>1, <1>2 DEF PeerAll

\* The step changes nothing of r that another peer's correctness rests on, other than
\* to take something back.
Calm(r) ==
    /\ connection_'[r] = connection_[r] \/ (Idle(r) /\ Idle(r)')
    /\ Will(r)' => Will(r)
    /\ Replies(r)' => Replies(r)
    /\ OutHas(r, "offer")' => OutHas(r, "offer")
    /\ OutHas(r, "answer")' => OutHas(r, "answer")
    /\ OutOnce(r, "offer") => OutOnce(r, "offer")'
    /\ OutOnce(r, "answer") => OutOnce(r, "answer")'
    /\ Has(down'[r], "offer") => Has(down[r], "offer")
    /\ Has(down'[r], "answer") => Has(down[r], "answer")
    /\ Once(down[r], "offer") => Once(down'[r], "offer")
    /\ Once(down[r], "answer") => Once(down'[r], "answer")

LEMMA UntouchedIsCalm ==
  ASSUME NEW r, connection_'[r] = connection_[r], tasks'[r] = tasks[r],
         gather'[r] = gather[r], posted'[r] = posted[r], up'[r] = up[r],
         down'[r] = down[r], r \in left' <=> r \in left
  PROVE  Calm(r) /\ (PeerInv(r) => PeerInv(r)')
<1>1. /\ Idle(r)' <=> Idle(r)
      /\ Will(r)' <=> Will(r)
      /\ Replies(r)' <=> Replies(r)
      /\ \A t : OutHas(r, t)' <=> OutHas(r, t)
      /\ \A t : OutOnce(r, t)' <=> OutOnce(r, t)
      /\ TasksFit(r)' <=> TasksFit(r)
      /\ GatherFits(r)' <=> GatherFits(r)
  BY DEF Idle, Will, Replies, OutHas, OutOnce, TasksFit, GatherFits
<1>2. Calm(r)
  BY <1>1 DEF Calm
<1>3. PeerInv(r) => PeerInv(r)'
  BY <1>1 DEF PeerInv
<1> QED
  BY <1>2, <1>3

LEMMA CalmIdle ==
  ASSUME NEW r, Calm(r)
  PROVE  /\ Idle(r)' <=> Idle(r)
         /\ HasRemote(r)' <=> HasRemote(r)
         /\ Offering(r)' => Offering(r)
         /\ Answering(r)' => Answering(r)
         /\ connection_'[r] = "have_local_offer" <=> connection_[r] = "have_local_offer"
         /\ connection_'[r] = "stable" <=> connection_[r] = "stable"
  BY DEF Calm, Idle, HasRemote, Offering, Answering

LEMMA PeerCalm ==
  ASSUME NEW r, PeerInv(r), Calm(r), TasksFit(r)', GatherFits(r)', r \in left' <=> r \in left
  PROVE  PeerInv(r)'
<1>1. /\ Idle(r)' <=> Idle(r)
      /\ connection_'[r] = "have_local_offer" <=> connection_[r] = "have_local_offer"
      /\ connection_'[r] = "stable" <=> connection_[r] = "stable"
  BY CalmIdle
<1> QED
  BY <1>1 DEF PeerInv, Calm

LEMMA PairCalm ==
  ASSUME NEW p, NEW q, Calm(p), Calm(q), PairInv(p, q)
  PROVE  PairInv(p, q)'
<1>1. \A r \in {p, q} :
        /\ Idle(r)' <=> Idle(r)
        /\ HasRemote(r)' <=> HasRemote(r)
        /\ Offering(r)' => Offering(r)
        /\ Answering(r)' => Answering(r)
        /\ connection_'[r] = "have_local_offer" <=> connection_[r] = "have_local_offer"
        /\ connection_'[r] = "stable" <=> connection_[r] = "stable"
  BY CalmIdle
<1>2. \A r \in {p, q} :
        /\ Has(down'[r], "offer") => Has(down[r], "offer")
        /\ Has(down'[r], "answer") => Has(down[r], "answer")
  BY DEF Calm
<1> QED
  BY <1>1, <1>2 DEF PairInv

LEMMA RoomCalm ==
  ASSUME RoomInv, room' = room, \A r \in room : Calm(r)
  PROVE  RoomInv'
<1>1. ASSUME NEW p \in room, NEW q \in room, p # q PROVE PairInv(p, q)'
  BY <1>1, PairCalm DEF RoomInv
<1>2. ASSUME NEW p \in room, room = {p} PROVE AloneInv(p)'
  <2>1. AloneInv(p) /\ Calm(p)
    BY <1>2 DEF RoomInv
  <2> QED
    BY <2>1, CalmIdle DEF AloneInv, Calm
<1> QED
  BY <1>1, <1>2 DEF RoomInv

\* A step of p's own threads that is calm.
LEMMA LocalCalm ==
  ASSUME TypeOK, PeerAll, RoomInv, NEW p \in Peers, Local(p), PeerInv(p)',
         p \in room => Calm(p)
  PROVE  PeerAll' /\ RoomInv'
<1>1. room' = room /\ \A r \in Peers \ {p} : Same(r)
  BY LocalStep
<1>2. \A r \in Peers \ {p} : Calm(r) /\ PeerInv(r)'
  BY <1>1, UntouchedIsCalm DEF PeerAll, Same
<1>3. room \subseteq Peers
  BY DEF TypeOK
<1> QED
  BY <1>1, <1>2, <1>3, RoomCalm DEF PeerAll

\* A step of p's own threads that needs a look at the other peer of the room.
LEMMA LocalMove ==
  ASSUME TypeOK, PeerAll, RoomInv, NEW p \in Peers, Local(p), PeerInv(p)',
         p \in room => room # {p},
         \A q \in room \ {p} : p \in room /\ Calm(q) => PairInv(p, q)' /\ PairInv(q, p)'
  PROVE  PeerAll' /\ RoomInv'
<1>1. room' = room /\ \A r \in Peers \ {p} : Same(r)
  BY LocalStep
<1>2. \A r \in Peers \ {p} : Calm(r) /\ PeerInv(r)'
  BY <1>1, UntouchedIsCalm DEF PeerAll, Same
<1>3. room \subseteq Peers
  BY DEF TypeOK
<1>4. ASSUME NEW q \in room, NEW r \in room, q # r PROVE PairInv(q, r)'
  <2>1. CASE q = p \/ r = p
    BY <1>2, <1>3, <1>4, <2>1
  <2>2. CASE q # p /\ r # p
    BY <1>2, <1>3, <1>4, <2>2, PairCalm DEF RoomInv
  <2> QED
    BY <2>1, <2>2
<1>5. ASSUME NEW q \in room, room = {q} PROVE AloneInv(q)'
  <2>1. q # p /\ AloneInv(q) /\ Calm(q)
    BY <1>2, <1>3, <1>5 DEF RoomInv
  <2> QED
    BY <2>1, CalmIdle DEF AloneInv, Calm
<1> QED
  BY <1>1, <1>2, <1>4, <1>5 DEF PeerAll, RoomInv

LEMMA TasksMean ==
  ASSUME NEW p, TasksFit(p)
  PROVE  /\ Replies(p) => connection_[p] = "have_remote_offer"
         /\ tasks[p] = <<"create_offer">> => connection_[p] = "fresh"
<1>1. /\ <<>> \notin {<<"create_offer">>, <<"set_offer">>, <<"create_answer">>}
      /\ <<"create_offer">> \notin {<<"set_offer">>, <<"create_answer">>}
  OBVIOUS
<1> QED
  BY <1>1 DEF TasksFit, Replies

LEMMA SmallRoom ==
  ASSUME IsFiniteSet(room), Cardinality(room) < 2, room # {}
  PROVE  \E q \in room : room = {q}
<1>1. PICK q \in room : TRUE
  OBVIOUS
<1>2. IsFiniteSet(room \ {q}) /\ Cardinality(room \ {q}) = Cardinality(room) - 1
  BY FS_RemoveElement
<1>3. Cardinality(room) \in Nat /\ Cardinality(room \ {q}) \in Nat
  BY <1>2, FS_CardinalityType
<1>4. Cardinality(room \ {q}) = 0
  BY <1>2, <1>3
<1>5. room \ {q} = {}
  BY <1>2, <1>4, FS_EmptySet
<1> QED
  BY <1>5

\* The Ayame server says something that is no description and no answer to a register
\* message.
LEMMA NewsIsCalm ==
  ASSUME TypeOK, NEW ps, NEW m \in Messages, Send(ps, m), m.type \in {"ping", "bye"},
         NEW r \in Peers, PeerInv(r),
         UNCHANGED <<connection_, tasks, gather, posted, up, left>>
  PROVE  Calm(r) /\ PeerInv(r)'
<1>1. CASE r \notin ps
  <2>1. down'[r] = down[r]
    BY <1>1, SendEffect
  <2> QED
    BY <2>1, UntouchedIsCalm
<1>2. CASE r \in ps
  <2>1. /\ \A t \in {"offer", "answer"} : Has(down'[r], t) <=> Has(down[r], t)
        /\ \A t \in {"offer", "answer"} : Once(down[r], t) => Once(down'[r], t)
        /\ Begins(down'[r], "accept") <=> Begins(down[r], "accept")
        /\ Begins(down[r], "accept") => Head(down'[r]) = Head(down[r])
    <3>1. \A t \in {"offer", "answer", "accept"} : t # m.type
      OBVIOUS
    <3> QED
      BY <1>2, <3>1, SendOther
  <2>2. /\ \A t : OutHas(r, t)' <=> OutHas(r, t)
        /\ \A t : OutOnce(r, t)' <=> OutOnce(r, t)
        /\ Idle(r)' <=> Idle(r)
        /\ Replies(r)' <=> Replies(r)
        /\ TasksFit(r)' <=> TasksFit(r)
        /\ Will(r)' <=> Will(r)
    BY <2>1 DEF OutHas, OutOnce, Idle, Replies, TasksFit, Will
  <2>3. GatherFits(r)' <=> GatherFits(r)
    BY <2>2 DEF GatherFits
  <2>4. Calm(r)
    BY <2>1, <2>2 DEF Calm
  <2>5. PeerInv(r)'
    BY <2>1, <2>2, <2>3 DEF PeerInv
  <2> QED
    BY <2>4, <2>5
<1> QED
  BY <1>1, <1>2

LEMMA ExchangeNext ==
  TypeInv /\ JoinAll /\ PeerAll /\ RoomInv /\ [Next]_vars => PeerAll' /\ RoomInv'
<1> SUFFICES ASSUME TypeInv, JoinAll, PeerAll, RoomInv, [Next]_vars
             PROVE  PeerAll' /\ RoomInv'
  OBVIOUS
<1> USE DEF ioVars, rtcVars, netVars, ghostVars
<1>0. TypeOK /\ \A p \in Peers : JoinInv(p) /\ PeerInv(p)
  BY DEF TypeInv, JoinAll, PeerAll
<1>1. ASSUME NEW p \in Peers,
             Connect(p) \/ OnResolve(p) \/ OnSSLConnect(p) \/ OnSSLHandshake(p) \/
             OnMalformed(p) \/ OnReadError(p) \/ CreateDataChannel(p)
      PROVE  PeerAll' /\ RoomInv'
  <2>0. Local(p) /\ TypeOK /\ JoinInv(p) /\ PeerInv(p)
    BY <1>1, <1>0 DEF Local, IocStep, SigStep
  <2>1. UNCHANGED <<connection_, tasks, gather, posted, up, down, left>>
    BY <1>1 DEF Connect, OnResolve, OnSSLConnect, OnSSLHandshake, Advance, OnMalformed,
             OnReadError, CreateDataChannel
  <2>2. Calm(p) /\ PeerInv(p)'
    BY <2>0, <2>1, UntouchedIsCalm
  <2> QED
    BY <2>0, <2>2, LocalCalm
<1>2. ASSUME NEW p \in Peers, OnHandshake(p) PROVE PeerAll' /\ RoomInv'
  <2>0. Local(p) /\ TypeOK /\ JoinInv(p) /\ PeerInv(p)
    BY <1>2, <1>0 DEF Local, IocStep, SigStep
  <2>1. UNCHANGED <<connection_, tasks, gather, up, down, left>>
    BY <1>2 DEF OnHandshake
  <2>2. /\ \A t \in {"offer", "answer", "candidate"} : OutHas(p, t)' <=> OutHas(p, t)
        /\ \A t \in {"offer", "answer"} : OutOnce(p, t) => OutOnce(p, t)'
    <3>1. CASE posted' = posted
      BY <2>1, <3>1 DEF OutHas, OutOnce
    <3>2. CASE SendText(p, "register")
      BY <2>0, <2>1, <3>2, SendTextEffect DEF Types
    <3> QED
      BY <1>2, <3>1, <3>2 DEF OnHandshake
  <2>3. /\ TasksFit(p)' <=> TasksFit(p)
        /\ GatherFits(p)' <=> GatherFits(p)
        /\ Will(p)' <=> Will(p)
        /\ Replies(p)' <=> Replies(p)
    BY <2>1, <2>2 DEF TasksFit, GatherFits, Will, Replies, Idle
  <2>8. Calm(p)
    BY <2>1, <2>2, <2>3 DEF Calm
  <2>9. PeerInv(p)'
    BY <2>0, <2>1, <2>3, <2>8, PeerCalm DEF PeerInv
  <2> QED
    BY <2>0, <2>8, <2>9, LocalCalm
<1>3. ASSUME NEW p \in Peers, OnAccept(p) PROVE PeerAll' /\ RoomInv'
  <2>0. Local(p) /\ TypeOK /\ JoinInv(p) /\ PeerInv(p)
    BY <1>3, <1>0 DEF Local, IocStep, SigStep
  <2>1. /\ Begins(down[p], "accept") /\ down[p] # <<>> /\ p \notin left
        /\ \A t : Has(down[p], t) <=> t = "accept" \/ Has(down'[p], t)
        /\ \A t : Once(down[p], t) =>
              Once(down'[p], t) /\ (t = "accept" => ~Has(down'[p], t))
        /\ ~Begins(down'[p], "accept")
    <3>1. Receives(p, "accept")
      BY <1>3 DEF OnAccept
    <3>2. Welcome(down[p]) /\ (closes[p] = 0 => p \notin left)
      BY <2>0 DEF JoinInv
    <3> QED
      BY <3>1, <3>2, ReceivesEffect
  <2>2. /\ connection_[p] = "null" /\ connection_'[p] = "fresh" /\ tasks[p] = <<>>
        /\ UNCHANGED <<gather, posted, up, left>>
        /\ tasks'[p] = IF Head(down[p]).isExistUser THEN <<"create_offer">> ELSE <<>>
    <3>1. connection_[p] = "null" /\ tasks[p] = <<>>
      BY <2>0, <2>1 DEF JoinInv, Outside
    <3> QED
      BY <1>3, <2>0, <3>1 DEF OnAccept, TypeOK
  <2>3. /\ \A t : OutHas(p, t)' <=> OutHas(p, t)
        /\ \A t : OutOnce(p, t)' <=> OutOnce(p, t)
        /\ Idle(p) /\ Idle(p)' /\ (Will(p)' => Will(p)) /\ ~Replies(p)' /\ TasksFit(p)'
    BY <2>1, <2>2 DEF OutHas, OutOnce, Idle, Will, Replies, TasksFit
  <2>4. GatherFits(p)'
    BY <2>0, <2>1, <2>2, <2>3 DEF PeerInv, GatherFits
  <2>8. Calm(p)
    BY <2>1, <2>3 DEF Calm
  <2>9. PeerInv(p)'
    BY <2>0, <2>2, <2>3, <2>4, <2>8, PeerCalm
  <2> QED
    BY <2>0, <2>8, <2>9, LocalCalm
<1>4. ASSUME NEW p \in Peers, OnOffer(p) PROVE PeerAll' /\ RoomInv'
  <2>0. Local(p) /\ TypeOK /\ JoinInv(p) /\ PeerInv(p)
    BY <1>4, <1>0 DEF Local, IocStep, SigStep
  <2>1. /\ Begins(down[p], "offer") /\ down[p] # <<>> /\ p \notin left
        /\ \A t : Has(down[p], t) <=> t = "offer" \/ Has(down'[p], t)
        /\ \A t : Once(down[p], t) =>
              Once(down'[p], t) /\ (t = "offer" => ~Has(down'[p], t))
        /\ ~Begins(down'[p], "accept")
    <3>1. Receives(p, "offer")
      BY <1>4 DEF OnOffer
    <3>2. Welcome(down[p]) /\ (closes[p] = 0 => p \notin left)
      BY <2>0 DEF JoinInv
    <3> QED
      BY <3>1, <3>2, ReceivesEffect
  <2>2. ~Begins(down[p], "accept") /\ ~Begins(down[p], "reject")
    BY <2>1 DEF Begins
  <2>3. /\ connection_[p] = "fresh" /\ tasks[p] = <<>>
        /\ ~OutHas(p, "offer") /\ ~OutHas(p, "answer") /\ ~Has(down[p], "answer")
        /\ Has(down[p], "offer") /\ ~Has(down'[p], "offer") /\ ~Has(down'[p], "answer")
    <3>1. Idle(p) /\ ~Will(p) /\ Has(down[p], "offer") /\ connection_[p] # "null"
      BY <2>0, <2>1, <2>2 DEF PeerInv, JoinInv
    <3> QED
      BY <2>0, <2>1, <3>1 DEF PeerInv, Idle, Will, TasksFit, Replies
  <2>4. UNCHANGED <<gather, posted, up, left>>
    BY <1>4 DEF OnOffer
  <2>5. /\ \A t : OutHas(p, t)' <=> OutHas(p, t)
        /\ \A t : OutOnce(p, t)' <=> OutOnce(p, t)
    BY <2>4 DEF OutHas, OutOnce
  <2>6. CASE connection_' = connection_ /\ tasks' = tasks
    <3>1. /\ TasksFit(p)' <=> TasksFit(p)
          /\ GatherFits(p)' <=> GatherFits(p)
          /\ Will(p)' => Will(p)
          /\ Replies(p)' <=> Replies(p)
      BY <2>1, <2>4, <2>5, <2>6 DEF TasksFit, GatherFits, Will, Replies, Idle
    <3>2. Calm(p)
      BY <2>1, <2>5, <2>6, <3>1 DEF Calm
    <3>3. PeerInv(p)'
      BY <2>0, <2>1, <2>4, <3>1, <3>2, PeerCalm DEF PeerInv
    <3> QED
      BY <2>0, <3>2, <3>3, LocalCalm
  <2>7. CASE connection_'[p] = "have_remote_offer" /\ tasks'[p] = <<"set_offer">>
    <3>1. ~Idle(p)' /\ ~Will(p)' /\ Replies(p)' /\ TasksFit(p)' /\ GatherFits(p)'
      BY <2>1, <2>7 DEF Idle, Will, Replies, TasksFit, GatherFits
    <3>2. PeerInv(p)'
      BY <2>0, <2>1, <2>3, <2>5, <3>1 DEF PeerInv
    <3>3. p \in room => room # {p}
      BY <2>3 DEF RoomInv, AloneInv
    <3>4. ASSUME NEW q \in room \ {p}, p \in room, Calm(q)
          PROVE  PairInv(p, q)' /\ PairInv(q, p)'
      <4>1. PairInv(p, q) /\ PairInv(q, p)
        BY <3>4 DEF RoomInv
      <4>2. connection_[q] = "have_local_offer" /\ ~Offering(q) /\ ~Has(down[q], "answer")
            /\ ~Has(down[q], "offer") /\ ~Answering(q)
        BY <2>3, <4>1 DEF PairInv
      <4>3. /\ connection_'[q] = "have_local_offer" /\ ~Offering(q)' /\ ~Has(down'[q], "answer")
            /\ ~Has(down'[q], "offer") /\ ~Answering(q)' /\ ~Idle(q)' /\ ~HasRemote(q)'
        BY <3>4, <4>2, CalmIdle DEF Calm, Idle, HasRemote
      <4>4. ~Offering(p)'
        BY <2>3, <2>5, <3>1 DEF Offering
      <4> QED
        BY <2>3, <3>1, <4>3, <4>4 DEF PairInv
    <3> QED
      BY <2>0, <3>2, <3>3, <3>4, LocalMove
  <2>8. \/ connection_' = connection_ /\ tasks' = tasks
        \/ connection_'[p] = "have_remote_offer" /\ tasks'[p] = <<"set_offer">>
    BY <1>4, <2>0, <2>3 DEF OnOffer, TypeOK
  <2> QED
    BY <2>6, <2>7, <2>8
<1>5. ASSUME NEW p \in Peers, OnAnswer(p) PROVE PeerAll' /\ RoomInv'
  <2>0. Local(p) /\ TypeOK /\ JoinInv(p) /\ PeerInv(p)
    BY <1>5, <1>0 DEF Local, IocStep, SigStep
  <2>1. /\ Begins(down[p], "answer") /\ down[p] # <<>> /\ p \notin left
        /\ \A t : Has(down[p], t) <=> t = "answer" \/ Has(down'[p], t)
        /\ \A t : Once(down[p], t) =>
              Once(down'[p], t) /\ (t = "answer" => ~Has(down'[p], t))
        /\ ~Begins(down'[p], "accept")
    <3>1. Receives(p, "answer")
      BY <1>5 DEF OnAnswer
    <3>2. Welcome(down[p]) /\ (closes[p] = 0 => p \notin left)
      BY <2>0 DEF JoinInv
    <3> QED
      BY <3>1, <3>2, ReceivesEffect
  <2>2. ~Begins(down[p], "accept") /\ ~Begins(down[p], "reject")
    BY <2>1 DEF Begins
  <2>3. /\ connection_[p] = "have_local_offer" /\ tasks[p] = <<>>
        /\ Has(down[p], "answer") /\ ~Has(down[p], "offer") /\ ~OutHas(p, "answer")
        /\ ~Has(down'[p], "offer") /\ ~Has(down'[p], "answer") /\ ~Idle(p)
    <3>1. connection_[p] = "have_local_offer" /\ Has(down[p], "answer")
      BY <2>0, <2>1 DEF PeerInv
    <3> QED
      BY <2>0, <2>1, <3>1 DEF PeerInv, Idle, TasksFit, Replies
  <2>4. UNCHANGED <<gather, posted, up, left, tasks>>
    BY <1>5 DEF OnAnswer
  <2>5. /\ \A t : OutHas(p, t)' <=> OutHas(p, t)
        /\ \A t : OutOnce(p, t)' <=> OutOnce(p, t)
        /\ Will(p)' => Will(p)
        /\ ~Replies(p) /\ ~Replies(p)'
    <3>1. <<>> \notin {<<"set_offer">>, <<"create_answer">>}
      OBVIOUS
    <3>2. ~Replies(p) /\ ~Replies(p)'
      BY <2>3, <2>4, <3>1 DEF Replies
    <3> QED
      BY <2>1, <2>4, <3>2 DEF OutHas, OutOnce, Will
  <2>6. CASE connection_' = connection_
    <3>1. /\ TasksFit(p)' <=> TasksFit(p)
          /\ GatherFits(p)' <=> GatherFits(p)
      BY <2>4, <2>5, <2>6 DEF TasksFit, GatherFits, Idle
    <3>2. Calm(p)
      BY <2>1, <2>5, <2>6 DEF Calm
    <3>3. PeerInv(p)'
      BY <2>0, <2>1, <2>4, <3>1, <3>2, PeerCalm DEF PeerInv
    <3> QED
      BY <2>0, <3>2, <3>3, LocalCalm
  <2>7. CASE connection_'[p] = "stable"
    <3>1. ~Idle(p)' /\ TasksFit(p)' /\ GatherFits(p)'
      BY <2>3, <2>4, <2>7 DEF Idle, TasksFit, GatherFits
    <3>2. PeerInv(p)'
      BY <2>0, <2>1, <2>3, <2>5, <2>7, <3>1 DEF PeerInv
    <3>3. p \in room => room # {p}
      BY <2>3 DEF RoomInv, AloneInv
    <3>4. ASSUME NEW q \in room \ {p}, p \in room, Calm(q)
          PROVE  PairInv(p, q)' /\ PairInv(q, p)'
      <4>1. PairInv(p, q) /\ PairInv(q, p)
        BY <3>4 DEF RoomInv
      <4>2. /\ connection_[q] = "stable" /\ ~Offering(q)
            /\ ~Has(down[q], "offer") /\ ~Answering(q)
        BY <2>3, <4>1 DEF PairInv
      <4>3. /\ ~Idle(q)' /\ ~Offering(q)' /\ ~Has(down'[q], "offer") /\ ~Answering(q)'
        BY <3>4, <4>2, CalmIdle DEF Calm, Idle
      <4>4. ~Offering(p)' /\ ~Answering(p)'
        <5>1. ~Offering(p)
          BY <4>1, <4>2 DEF PairInv, Idle
        <5> QED
          BY <2>3, <2>5, <5>1 DEF Offering, Answering
      <4> QED
        BY <2>3, <2>7, <3>1, <4>3, <4>4 DEF PairInv
    <3> QED
      BY <2>0, <3>2, <3>3, <3>4, LocalMove
  <2>8. connection_' = connection_ \/ connection_'[p] = "stable"
    BY <1>5, <2>0, <2>3 DEF OnAnswer, TypeOK
  <2> QED
    BY <2>6, <2>7, <2>8
<1>6. ASSUME NEW p \in Peers, OnCandidate(p) PROVE PeerAll' /\ RoomInv'
  <2>0. Local(p) /\ TypeOK /\ JoinInv(p) /\ PeerInv(p)
    BY <1>6, <1>0 DEF Local, IocStep, SigStep
  <2>1. /\ Begins(down[p], "candidate") /\ down[p] # <<>> /\ p \notin left
        /\ \A t : Has(down[p], t) <=> t = "candidate" \/ Has(down'[p], t)
        /\ \A t : Once(down[p], t) =>
              Once(down'[p], t) /\ (t = "candidate" => ~Has(down'[p], t))
        /\ ~Begins(down'[p], "accept")
    <3>1. Receives(p, "candidate")
      BY <1>6 DEF OnCandidate
    <3>2. Welcome(down[p]) /\ (closes[p] = 0 => p \notin left)
      BY <2>0 DEF JoinInv
    <3> QED
      BY <3>1, <3>2, ReceivesEffect
  <2>2. ~Begins(down[p], "accept")
    BY <2>1 DEF Begins
  <2>3. UNCHANGED <<connection_, tasks, gather, posted, up, left>>
    BY <1>6 DEF OnCandidate
  <2>4. /\ \A t \in {"offer", "answer", "candidate"} : OutHas(p, t)' <=> OutHas(p, t)
        /\ \A t \in {"offer", "answer"} : OutOnce(p, t) => OutOnce(p, t)'
    BY <2>3 DEF OutHas, OutOnce
  <2>5. /\ TasksFit(p)' <=> TasksFit(p)
        /\ GatherFits(p)' <=> GatherFits(p)
        /\ Will(p)' => Will(p)
        /\ Replies(p)' <=> Replies(p)
    BY <2>1, <2>3, <2>4 DEF TasksFit, GatherFits, Will, Replies, Idle
  <2>8. Calm(p)
    BY <2>1, <2>3, <2>4, <2>5 DEF Calm
  <2>9. PeerInv(p)'
    BY <2>0, <2>1, <2>3, <2>5, <2>8, PeerCalm DEF PeerInv
  <2> QED
    BY <2>0, <2>8, <2>9, LocalCalm
<1>7. ASSUME NEW p \in Peers, OnUnknown(p) PROVE PeerAll' /\ RoomInv'
  <2>0. Local(p) /\ TypeOK /\ JoinInv(p) /\ PeerInv(p)
    BY <1>7, <1>0 DEF Local, IocStep, SigStep
  <2>1. /\ Begins(down[p], "reject") /\ down[p] # <<>> /\ p \notin left
        /\ \A t : Has(down[p], t) <=> t = "reject" \/ Has(down'[p], t)
        /\ \A t : Once(down[p], t) =>
              Once(down'[p], t) /\ (t = "reject" => ~Has(down'[p], t))
        /\ ~Begins(down'[p], "accept")
    <3>1. Receives(p, "reject")
      BY <1>7 DEF OnUnknown
    <3>2. Welcome(down[p]) /\ (closes[p] = 0 => p \notin left)
      BY <2>0 DEF JoinInv
    <3> QED
      BY <3>1, <3>2, ReceivesEffect
  <2>2. ~Begins(down[p], "accept")
    BY <2>1 DEF Begins
  <2>3. UNCHANGED <<connection_, tasks, gather, posted, up, left>>
    BY <1>7 DEF OnUnknown
  <2>4. /\ \A t \in {"offer", "answer", "candidate"} : OutHas(p, t)' <=> OutHas(p, t)
        /\ \A t \in {"offer", "answer"} : OutOnce(p, t) => OutOnce(p, t)'
    BY <2>3 DEF OutHas, OutOnce
  <2>5. /\ TasksFit(p)' <=> TasksFit(p)
        /\ GatherFits(p)' <=> GatherFits(p)
        /\ Will(p)' => Will(p)
        /\ Replies(p)' <=> Replies(p)
    BY <2>1, <2>3, <2>4 DEF TasksFit, GatherFits, Will, Replies, Idle
  <2>8. Calm(p)
    BY <2>1, <2>3, <2>4, <2>5 DEF Calm
  <2>9. PeerInv(p)'
    BY <2>0, <2>1, <2>3, <2>5, <2>8, PeerCalm DEF PeerInv
  <2> QED
    BY <2>0, <2>8, <2>9, LocalCalm
<1>8. ASSUME NEW p \in Peers, OnPing(p) PROVE PeerAll' /\ RoomInv'
  <2>0. Local(p) /\ TypeOK /\ JoinInv(p) /\ PeerInv(p)
    BY <1>8, <1>0 DEF Local, IocStep, SigStep
  <2>1. /\ Begins(down[p], "ping") /\ down[p] # <<>> /\ p \notin left
        /\ \A t : Has(down[p], t) <=> t = "ping" \/ Has(down'[p], t)
        /\ \A t : Once(down[p], t) =>
              Once(down'[p], t) /\ (t = "ping" => ~Has(down'[p], t))
        /\ ~Begins(down'[p], "accept")
    <3>1. Receives(p, "ping")
      BY <1>8 DEF OnPing
    <3>2. Welcome(down[p]) /\ (closes[p] = 0 => p \notin left)
      BY <2>0 DEF JoinInv
    <3> QED
      BY <3>1, <3>2, ReceivesEffect
  <2>2. ~Begins(down[p], "accept")
    BY <2>1 DEF Begins
  <2>3. UNCHANGED <<connection_, tasks, gather, up, left>> /\ SendText(p, "pong")
    BY <1>8 DEF OnPing
  <2>4. /\ \A t \in {"offer", "answer", "candidate"} : OutHas(p, t)' <=> OutHas(p, t)
        /\ \A t \in {"offer", "answer"} : OutOnce(p, t) => OutOnce(p, t)'
    BY <2>0, <2>3, SendTextEffect DEF Types
  <2>5. /\ TasksFit(p)' <=> TasksFit(p)
        /\ GatherFits(p)' <=> GatherFits(p)
        /\ Will(p)' => Will(p)
        /\ Replies(p)' <=> Replies(p)
    BY <2>1, <2>3, <2>4 DEF TasksFit, GatherFits, Will, Replies, Idle
  <2>8. Calm(p)
    BY <2>1, <2>3, <2>4, <2>5 DEF Calm
  <2>9. PeerInv(p)'
    BY <2>0, <2>1, <2>3, <2>5, <2>8, PeerCalm DEF PeerInv
  <2> QED
    BY <2>0, <2>8, <2>9, LocalCalm
<1>9. ASSUME NEW p \in Peers, OnBye(p) PROVE PeerAll' /\ RoomInv'
  <2>0. Local(p) /\ TypeOK /\ JoinInv(p) /\ PeerInv(p)
    BY <1>9, <1>0 DEF Local, IocStep, SigStep
  <2>1. p \in left' /\ Receives(p, "bye") /\ UNCHANGED room
    BY <1>9 DEF OnBye
  <2>2. p \notin room
    BY <2>0, <2>1, ReceivesEffect DEF JoinInv
  <2>3. PeerInv(p)'
    BY <2>1 DEF PeerInv
  <2> QED
    BY <2>0, <2>2, <2>3, LocalCalm
<1>10. ASSUME NEW p \in Peers, OnCreateOffer(p) PROVE PeerAll' /\ RoomInv'
  <2>0. Local(p) /\ TypeOK /\ JoinInv(p) /\ PeerInv(p)
    BY <1>10, <1>0 DEF Local, IocStep, SigStep
  <2>1. UNCHANGED <<up, down, left>>
    BY <1>10 DEF OnCreateOffer
  <2>2. CASE p \in left
    <3>1. p \notin room /\ PeerInv(p)'
      BY <2>0, <2>1, <2>2 DEF JoinInv, PeerInv
    <3> QED
      BY <2>0, <3>1, LocalCalm
  <2>3. CASE p \notin left
    <3>1. connection_[p] = "fresh" /\ tasks[p] = <<"create_offer">>
      <4>1. tasks[p] # <<>> /\ Head(tasks[p]) = "create_offer"
        BY <1>10 DEF OnCreateOffer, RunsTask
      <4>2. TasksFit(p)
        BY <2>0, <2>3 DEF PeerInv
      <4> QED
        BY <4>1, <4>2 DEF TasksFit, Replies
    <3>2. ~Begins(down[p], "accept") /\ down' = down
      BY <2>0, <2>1, <3>1 DEF JoinInv
    <3>3. /\ connection_'[p] = "have_local_offer" /\ tasks'[p] = <<>>
          /\ SendText(p, "offer")
      BY <1>10, <2>0, <3>1 DEF OnCreateOffer, TypeOK
    <3>4. /\ Idle(p) /\ Will(p) /\ Offering(p) /\ ~Has(down[p], "offer") /\ ~Has(down[p], "answer")
          /\ ~OutHas(p, "offer") /\ ~OutHas(p, "answer")
      BY <2>0, <2>3, <3>1 DEF Idle, Will, Offering, PeerInv
    <3>5. /\ \A t : OutHas(p, t)' <=> OutHas(p, t) \/ t = "offer"
          /\ OutOnce(p, "offer") => OutOnce(p, "offer")'
          /\ OutOnce(p, "answer") => OutOnce(p, "answer")'
      BY <2>0, <2>1, <3>3, <3>4, SendTextEffect DEF Types
    <3>6. ~Idle(p)' /\ TasksFit(p)' /\ GatherFits(p)' /\ ~Replies(p)' /\ ~HasRemote(p)'
      BY <3>3 DEF Idle, TasksFit, GatherFits, Replies, HasRemote
    <3>7. PeerInv(p)'
      BY <2>0, <2>1, <2>3, <3>2, <3>4, <3>5, <3>6 DEF PeerInv
    <3>8. p \in room => room # {p}
      BY <3>4 DEF RoomInv, AloneInv
    <3>9. ASSUME NEW q \in room \ {p}, p \in room, Calm(q)
          PROVE  PairInv(p, q)' /\ PairInv(q, p)'
      <4>1. PairInv(p, q) /\ PairInv(q, p)
        BY <3>9 DEF RoomInv
      <4>2. /\ Idle(q) /\ ~Offering(q) /\ ~Has(down[q], "offer") /\ ~Answering(q)
            /\ ~Has(down[q], "answer")
        BY <3>1, <3>4, <4>1 DEF PairInv
      <4>3. /\ Idle(q)' /\ ~Offering(q)' /\ ~Has(down'[q], "offer") /\ ~Answering(q)'
            /\ ~Has(down'[q], "answer")
        BY <3>9, <4>2, CalmIdle DEF Calm
      <4>4. ~Answering(p)' /\ ~Has(down'[p], "offer") /\ ~Has(down'[p], "answer")
        BY <3>2, <3>4, <3>5, <3>6 DEF Answering
      <4> QED
        BY <3>3, <3>6, <4>3, <4>4 DEF PairInv
    <3> QED
      BY <2>0, <3>7, <3>8, <3>9, LocalMove
  <2> QED
    BY <2>2, <2>3
<1>11. ASSUME NEW p \in Peers, OnCreateAnswer(p) PROVE PeerAll' /\ RoomInv'
  <2>0. Local(p) /\ TypeOK /\ JoinInv(p) /\ PeerInv(p)
    BY <1>11, <1>0 DEF Local, IocStep, SigStep
  <2>1. UNCHANGED <<up, down, left>>
    BY <1>11 DEF OnCreateAnswer
  <2>2. CASE p \in left
    <3>1. p \notin room /\ PeerInv(p)'
      BY <2>0, <2>1, <2>2 DEF JoinInv, PeerInv
    <3> QED
      BY <2>0, <3>1, LocalCalm
  <2>3. CASE p \notin left
    <3>1. connection_[p] = "have_remote_offer" /\ tasks[p] = <<"create_answer">>
      <4>1. tasks[p] # <<>> /\ Head(tasks[p]) = "create_answer"
        BY <1>11 DEF OnCreateAnswer, RunsTask
      <4>2. TasksFit(p)
        BY <2>0, <2>3 DEF PeerInv
      <4> QED
        BY <4>1, <4>2 DEF TasksFit, Replies
    <3>2. ~Begins(down[p], "accept") /\ down' = down
      BY <2>0, <2>1, <3>1 DEF JoinInv
    <3>3. connection_'[p] = "stable" /\ tasks'[p] = <<>> /\ SendText(p, "answer")
      BY <1>11, <2>0, <3>1 DEF OnCreateAnswer, TypeOK
    <3>4. /\ ~Idle(p) /\ Answering(p) /\ ~Has(down[p], "offer") /\ ~Has(down[p], "answer")
          /\ ~OutHas(p, "answer") /\ HasRemote(p)
      BY <2>0, <2>3, <3>1 DEF Idle, Replies, Answering, PeerInv, HasRemote
    <3>5. /\ \A t : OutHas(p, t)' <=> OutHas(p, t) \/ t = "answer"
          /\ OutOnce(p, "offer") => OutOnce(p, "offer")'
          /\ OutOnce(p, "answer") => OutOnce(p, "answer")'
      BY <2>0, <2>1, <3>3, <3>4, SendTextEffect DEF Types
    <3>6. ~Idle(p)' /\ TasksFit(p)' /\ GatherFits(p)' /\ ~Will(p)'
      BY <3>2, <3>3 DEF Idle, TasksFit, GatherFits, Will
    <3>7. PeerInv(p)'
      BY <2>0, <2>1, <2>3, <3>2, <3>3, <3>4, <3>5, <3>6 DEF PeerInv
    <3>8. p \in room => room # {p}
      BY <3>4 DEF RoomInv, AloneInv
    <3>9. ASSUME NEW q \in room \ {p}, p \in room, Calm(q)
          PROVE  PairInv(p, q)' /\ PairInv(q, p)'
      <4>1. PairInv(p, q) /\ PairInv(q, p)
        BY <3>9 DEF RoomInv
      <4>2. /\ connection_[q] = "have_local_offer" /\ ~Has(down[q], "answer")
            /\ ~Has(down[q], "offer") /\ ~Answering(q) /\ ~Idle(q) /\ ~Offering(q)
        BY <3>1, <3>4, <4>1 DEF PairInv, Idle
      <4>3. /\ connection_'[q] = "have_local_offer" /\ ~Has(down'[q], "answer") /\ ~Idle(q)'
            /\ ~Has(down'[q], "offer") /\ ~Answering(q)' /\ ~Offering(q)' /\ ~HasRemote(q)'
        BY <3>9, <4>2, CalmIdle DEF Calm, Idle, HasRemote
      <4>4. ~Offering(p)' /\ ~Has(down'[p], "offer") /\ ~Has(down'[p], "answer")
        <5>1. ~Offering(p)
          BY <4>1, <4>2 DEF PairInv
        <5> QED
          BY <3>2, <3>4, <3>5, <3>6, <5>1 DEF Offering
      <4> QED
        BY <3>6, <4>3, <4>4 DEF PairInv
    <3> QED
      BY <2>0, <3>7, <3>8, <3>9, LocalMove
  <2> QED
    BY <2>2, <2>3
<1>12. ASSUME NEW p \in Peers,
             OnSetOffer(p) \/ TaskFails(p)
      PROVE  PeerAll' /\ RoomInv'
  <2>0. Local(p) /\ TypeOK /\ JoinInv(p) /\ PeerInv(p)
    BY <1>12, <1>0 DEF Local, IocStep, SigStep
  <2>1. UNCHANGED <<connection_, gather, posted, up, down, left>> /\ tasks[p] # <<>>
    BY <1>12 DEF OnSetOffer, TaskFails, RunsTask
  <2>2. CASE p \in left
    <3>1. p \notin room /\ PeerInv(p)'
      BY <2>0, <2>1, <2>2 DEF JoinInv, PeerInv
    <3> QED
      BY <2>0, <3>1, LocalCalm
  <2>3. CASE p \notin left
    <3>1. \/ tasks'[p] = <<>>
          \/ tasks[p] = <<"set_offer">> /\ tasks'[p] = <<"create_answer">>
      <4>1. TasksFit(p)
        BY <2>0, <2>3 DEF PeerInv
      <4>2. tasks[p] \in {<<"create_offer">>, <<"set_offer">>, <<"create_answer">>}
        BY <2>1, <4>1 DEF TasksFit, Replies
      <4>3. \A x, y : /\ Head(<<x>>) = x /\ Tail(<<x>>) = <<>>
                      /\ Append(Tail(<<x>>), y) = <<y>>
        OBVIOUS
      <4>4. CASE TaskFails(p)
        <5>1. tasks'[p] = Tail(tasks[p])
          BY <2>0, <4>4 DEF TaskFails, TypeOK
        <5> QED
          BY <4>2, <4>3, <5>1
      <4>5. CASE OnSetOffer(p)
        <5>1. /\ tasks'[p] = Append(Tail(tasks[p]), "create_answer")
              /\ Head(tasks[p]) = "set_offer"
          BY <2>0, <4>5 DEF OnSetOffer, RunsTask, TypeOK
        <5>2. tasks[p] = <<"set_offer">>
          BY <4>2, <4>3, <5>1
        <5> QED
          BY <4>3, <5>1, <5>2
      <4> QED
        BY <1>12, <4>4, <4>5
    <3>2. /\ \A t : OutHas(p, t)' <=> OutHas(p, t)
          /\ \A t : OutOnce(p, t)' <=> OutOnce(p, t)
      BY <2>1 DEF OutHas, OutOnce
    <3>3. /\ GatherFits(p)' <=> GatherFits(p)
          /\ Will(p)' => Will(p)
          /\ Replies(p)' => Replies(p)
      <4>1. GatherFits(p)' <=> GatherFits(p)
        BY <2>1, <3>2 DEF GatherFits, Idle
      <4>2. /\ <<>> \notin {<<"set_offer">>, <<"create_answer">>}
            /\ <<"create_offer">> \notin {<<>>, <<"create_answer">>}
        OBVIOUS
      <4>3. Will(p)' => Will(p)
        BY <2>1, <3>1, <4>2 DEF Will
      <4>4. Replies(p)' => Replies(p)
        BY <3>1, <4>2 DEF Replies
      <4> QED
        BY <4>1, <4>3, <4>4
    <3>4. TasksFit(p)'
      BY <2>0, <2>1, <2>3, <3>1 DEF PeerInv, TasksFit, Replies
    <3>5. Calm(p)
      BY <2>1, <3>2, <3>3 DEF Calm
    <3>6. PeerInv(p)'
      BY <2>0, <2>1, <2>3, <3>3, <3>4, <3>5, PeerCalm DEF PeerInv
    <3> QED
      BY <2>0, <3>5, <3>6, LocalCalm
  <2> QED
    BY <2>2, <2>3
<1>13. ASSUME NEW p \in Peers, OnIceCandidate(p) PROVE PeerAll' /\ RoomInv'
  <2>0. Local(p) /\ TypeOK /\ JoinInv(p) /\ PeerInv(p)
    BY <1>13, <1>0 DEF Local, IocStep, SigStep
  <2>1. /\ UNCHANGED <<connection_, tasks, up, down, left>>
        /\ gather[p] # 0 /\ SendText(p, "candidate")
    BY <1>13 DEF OnIceCandidate
  <2>2. /\ \A t \in {"offer", "answer"} : OutHas(p, t)' <=> OutHas(p, t)
        /\ \A t \in {"offer", "answer"} : OutOnce(p, t) => OutOnce(p, t)'
    BY <2>0, <2>1, SendTextEffect DEF Types
  <2>3. /\ TasksFit(p)' <=> TasksFit(p)
        /\ Will(p)' <=> Will(p)
        /\ Replies(p)' <=> Replies(p)
        /\ Idle(p)' <=> Idle(p)
    BY <2>1 DEF TasksFit, Will, Replies, Idle
  <2>4. p \notin left => GatherFits(p)'
    BY <2>0, <2>1, <2>3 DEF PeerInv, GatherFits
  <2>8. Calm(p)
    BY <2>1, <2>2, <2>3 DEF Calm
  <2>9. PeerInv(p)'
    <3>1. CASE p \in left
      BY <2>1, <3>1 DEF PeerInv
    <3>2. CASE p \notin left
      BY <2>0, <2>1, <2>3, <2>4, <2>8, <3>2, PeerCalm DEF PeerInv
    <3> QED
      BY <3>1, <3>2
  <2> QED
    BY <2>0, <2>8, <2>9, LocalCalm
<1>14. ASSUME NEW p \in Peers, DoSendText(p) PROVE PeerAll' /\ RoomInv'
  <2>0. Local(p) /\ TypeOK /\ JoinInv(p) /\ PeerInv(p)
    BY <1>14, <1>0 DEF Local, IocStep, SigStep
  <2>1. UNCHANGED <<connection_, tasks, gather, down, left>>
    BY <1>14 DEF DoSendText
  <2>2. /\ \A t : OutHas(p, t)' <=> OutHas(p, t)
        /\ \A t : OutOnce(p, t) => OutOnce(p, t)'
    BY <1>14, <2>0, DoSendTextEffect
  <2>3. /\ TasksFit(p)' <=> TasksFit(p)
        /\ GatherFits(p)' <=> GatherFits(p)
        /\ Will(p)' <=> Will(p)
        /\ Replies(p)' <=> Replies(p)
    BY <2>1, <2>2 DEF TasksFit, GatherFits, Will, Replies, Idle
  <2>8. Calm(p)
    BY <2>1, <2>2, <2>3 DEF Calm
  <2>9. PeerInv(p)'
    <3>1. CASE p \in left
      BY <2>1, <3>1 DEF PeerInv
    <3>2. CASE p \notin left
      BY <2>0, <2>1, <2>3, <2>8, <3>2, PeerCalm DEF PeerInv
    <3> QED
      BY <3>1, <3>2
  <2> QED
    BY <2>0, <2>8, <2>9, LocalCalm
<1>15. ASSUME NEW p \in Peers, ServerHandles(p) PROVE PeerAll' /\ RoomInv'
  <2> DEFINE m == Head(up[p])
  <2>0. /\ up[p] # <<>> /\ up' = [up EXCEPT ![p] = Tail(up[p])] /\ posted' = posted
        /\ UNCHANGED <<connection_, tasks, gather, left>>
    BY <1>15 DEF ServerHandles
  <2>1. /\ m \in Messages
        /\ \A t : OutHas(p, t) <=> OutHas(p, t)' \/ t = m.type
        /\ \A t : OutOnce(p, t) => OutOnce(p, t)' /\ (t = m.type => ~OutHas(p, t)')
        /\ \A r \in Peers \ {p} : up'[r] = up[r] /\ posted'[r] = posted[r]
    BY <1>0, <2>0, TakeEffect
  <2>2. ASSUME NEW r \in Peers, down'[r] = down[r] PROVE Calm(r) /\ PeerInv(r)'
    <3>1. CASE r = p
      <4>1. /\ Will(p)' <=> Will(p)
            /\ Replies(p)' <=> Replies(p)
            /\ TasksFit(p)' <=> TasksFit(p)
            /\ Idle(p)' <=> Idle(p)
        BY <2>0, <2>2, <3>1 DEF Will, Replies, TasksFit, Idle
      <4>2. GatherFits(p) => GatherFits(p)'
        BY <2>0, <2>1, <4>1 DEF GatherFits
      <4>3. Calm(p)
        BY <2>0, <2>1, <2>2, <3>1, <4>1 DEF Calm
      <4>4. PeerInv(p)'
        BY <1>0, <2>0, <2>1, <2>2, <3>1, <4>1, <4>2, <4>3, PeerCalm DEF PeerInv
      <4> QED
        BY <3>1, <4>3, <4>4
    <3>2. CASE r # p
      BY <1>0, <2>0, <2>1, <2>2, <3>2, UntouchedIsCalm
    <3> QED
      BY <3>1, <3>2
  <2>3. room \subseteq Peers
    BY <1>0 DEF TypeOK
  <2>4. CASE m.type = "register"
    <3>1. PICK a \in Messages :
             /\ Send({p}, a)
             /\ \/ a.type = "reject" /\ room' = room
                \/ /\ a.type = "accept" /\ room' = room \cup {p}
                   /\ Cardinality(room) < 2 /\ (a.isExistUser => room # {})
      <4>1. [type |-> "accept", isExistUser |-> room # {}] \in Messages
            /\ Msg("reject") \in Messages
        BY DEF Messages, Types, Msg
      <4> QED
        BY <1>15, <2>4, <4>1 DEF ServerHandles, Msg
    <3>2. /\ Outside(p) /\ down[p] = <<>> /\ p \notin room /\ p \notin left
      BY <1>0, <2>1, <2>4 DEF JoinInv, Registered
    <3>3. \A r \in Peers \ {p} : Calm(r) /\ PeerInv(r)'
      <4>1. \A r \in Peers \ {p} : down'[r] = down[r]
        BY <1>0, <3>1, SendEffect
      <4> QED
        BY <2>2, <4>1
    <3>4. /\ ~Has(down'[p], "offer") /\ ~Has(down'[p], "answer") /\ Head(down'[p]) = a
          /\ \A t : Once(down'[p], t)
          /\ Begins(down'[p], "accept") <=> a.type = "accept"
      <4>1. \A t : ~Has(down[p], t) /\ Once(down[p], t) /\ ~Begins(down[p], t)
        BY <3>2, HasEmpty
      <4> QED
        BY <1>0, <3>1, <3>2, <4>1, SendEffect
    <3>5. /\ Idle(p)' /\ TasksFit(p)' /\ ~Replies(p)' /\ connection_'[p] = "null"
          /\ Will(p)' => a.type = "accept" /\ a.isExistUser
          /\ ~HasRemote(p)'
      <4>1. connection_'[p] = "null" /\ tasks'[p] = <<>>
        BY <2>0, <3>2 DEF Outside
      <4>2. /\ <<>> \notin {<<"set_offer">>, <<"create_answer">>}
            /\ <<>> # <<"create_offer">>
        OBVIOUS
      <4> QED
        BY <3>4, <4>1, <4>2 DEF Idle, TasksFit, Replies, Will, HasRemote
    <3>6. /\ \A t \in {"offer", "answer", "candidate"} : ~OutHas(p, t)'
          /\ OutOnce(p, "offer")' /\ OutOnce(p, "answer")' /\ gather'[p] = 0
      <4>1. Idle(p)
        BY <3>2 DEF Outside, Idle
      <4> QED
        BY <1>0, <2>0, <2>1, <3>2, <4>1 DEF PeerInv, Outside, GatherFits
    <3>7. PeerInv(p)'
      BY <3>4, <3>5, <3>6 DEF PeerInv, GatherFits
    <3>8. RoomInv'
      <4>1. CASE room' = room
        BY <2>3, <3>2, <3>3, <4>1, RoomCalm
      <4>2. CASE room' = room \cup {p} /\ Cardinality(room) < 2 /\ (a.isExistUser => room # {})
        <5>1. CASE room = {}
          <6>1. room' = {p}
            BY <4>2, <5>1
          <6>2. ~Will(p)'
            BY <3>5, <4>2, <5>1
          <6>3. AloneInv(p)'
            BY <3>4, <3>5, <6>2 DEF AloneInv
          <6>4. IsFiniteSet(room')
            BY <6>1, FS_Singleton
          <6> QED
            BY <6>1, <6>3, <6>4 DEF RoomInv
        <5>2. CASE room # {}
          <6>1. PICK q \in room : room = {q}
            BY <4>2, <5>2, SmallRoom DEF RoomInv
          <6>2. q \in Peers \ {p} /\ Calm(q)
            BY <2>3, <3>2, <3>3, <6>1
          <6>3. /\ Idle(q) /\ ~Offering(q) /\ ~Answering(q) /\ ~Has(down[q], "offer")
                /\ ~Has(down[q], "answer")
            <7>1. AloneInv(q)
              BY <6>1 DEF RoomInv
            <7>2. q \notin left /\ PeerInv(q)
              BY <1>0, <6>1, <6>2 DEF JoinInv
            <7> QED
              BY <7>1, <7>2, TasksMean DEF AloneInv, PeerInv, Offering, Answering, Idle
          <6>4. /\ Idle(q)' /\ ~Offering(q)' /\ ~Answering(q)' /\ ~Has(down'[q], "offer")
                /\ ~Has(down'[q], "answer") /\ ~HasRemote(q)'
            BY <6>2, <6>3, CalmIdle DEF Calm, Idle, HasRemote
          <6>5. ~Answering(p)'
            BY <3>5, <3>6 DEF Answering
          <6>6. PairInv(p, q)' /\ PairInv(q, p)'
            BY <3>4, <3>5, <6>4, <6>5 DEF PairInv
          <6>7. room' = {p, q} /\ p # q
            BY <4>2, <6>1, <6>2
          <6>8. IsFiniteSet(room')
            BY <4>2, FS_AddElement DEF RoomInv
          <6> QED
            BY <6>6, <6>7, <6>8 DEF RoomInv
        <5> QED
          BY <5>1, <5>2
      <4> QED
        BY <3>1, <4>1, <4>2
    <3> QED
      BY <3>3, <3>7, <3>8 DEF PeerAll
  <2>5. CASE m.type \in {"offer", "answer", "candidate"}
    <3>1. room' = room /\ Send(IF p \in room THEN room \ {p} ELSE {}, m)
      BY <1>15, <2>5 DEF ServerHandles
    <3>2. down'[p] = down[p] /\ Calm(p) /\ PeerInv(p)'
      BY <1>0, <2>1, <2>2, <3>1, SendEffect
    <3>3. \A r \in Peers : r \notin room \/ p \notin room => Calm(r) /\ PeerInv(r)'
      BY <1>0, <2>1, <2>2, <3>1, SendEffect
    <3>4. CASE p \notin room
      BY <2>3, <3>1, <3>3, <3>4, RoomCalm DEF PeerAll
    <3>5. ASSUME p \in room, NEW q \in room \ {p}
          PROVE  PeerInv(q)' /\ PairInv(p, q)' /\ PairInv(q, p)'
      <4>1. /\ q \in Peers /\ PairInv(p, q) /\ PairInv(q, p)
            /\ p \notin left /\ q \notin left /\ JoinInv(p) /\ PeerInv(p) /\ PeerInv(q)
        BY <1>0, <2>3, <3>5 DEF RoomInv, JoinInv
      <4>2. /\ \A t : OutHas(q, t)' <=> OutHas(q, t)
            /\ \A t : OutOnce(q, t)' <=> OutOnce(q, t)
            /\ Replies(q)' <=> Replies(q)
            /\ TasksFit(q)' <=> TasksFit(q)
            /\ Idle(q)' <=> Idle(q)
        BY <2>0, <2>1, <4>1 DEF OutHas, OutOnce, Replies, TasksFit, Idle
      <4>3. /\ \A t : Has(down'[q], t) <=> Has(down[q], t) \/ m.type = t
            /\ \A t : Once(down[q], t) /\ (m.type = t => ~Has(down[q], t))
                         => Once(down'[q], t)
            /\ Begins(down'[q], "accept") <=> Begins(down[q], "accept")
            /\ Begins(down[q], "accept") => Head(down'[q]) = Head(down[q])
        <5>1. "accept" # m.type /\ Send(room \ {p}, m) /\ q \in room \ {p}
          BY <2>5, <3>1, <3>5
        <5>2. /\ Begins(down'[q], "accept") <=> Begins(down[q], "accept")
              /\ Begins(down[q], "accept") => Head(down'[q]) = Head(down[q])
          BY <1>0, <2>1, <4>1, <5>1, SendOther, ZenonT(60)
        <5>3. ASSUME NEW t
              PROVE  /\ Has(down'[q], t) <=> Has(down[q], t) \/ m.type = t
                     /\ Once(down[q], t) /\ (m.type = t => ~Has(down[q], t))
                          => Once(down'[q], t)
          BY <1>0, <2>1, <4>1, <5>1, SendEffect, ZenonT(60)
        <5> QED
          BY <5>2, <5>3
      <4>4. (Will(q)' <=> Will(q)) /\ (GatherFits(q)' <=> GatherFits(q))
        BY <2>0, <4>2, <4>3 DEF Will, GatherFits
      <4>5. /\ connection_'[p] = connection_[p] /\ connection_'[q] = connection_[q]
            /\ HasRemote(p)' <=> HasRemote(p)
            /\ HasRemote(q)' <=> HasRemote(q)
            /\ Idle(p)' <=> Idle(p)
            /\ Offering(q)' <=> Offering(q)
            /\ Answering(q)' <=> Answering(q)
            /\ Will(p)' <=> Will(p)
            /\ Replies(p)' <=> Replies(p)
        BY <2>0, <3>2, <4>2, <4>4 DEF HasRemote, Offering, Answering, Will, Replies, Idle
      <4>6. CASE m.type = "offer"
        <5>1. OutHas(p, "offer") /\ ~OutHas(p, "offer")' /\ Offering(p)
          BY <2>1, <4>1, <4>6 DEF PeerInv, Offering
        <5>2. /\ Idle(q) /\ ~Offering(q) /\ ~Has(down[q], "offer") /\ ~Has(down[q], "answer")
              /\ ~Will(q)
          BY <4>1, <5>1 DEF PairInv, PeerInv, Idle, Offering
        <5>3. connection_[p] = "have_local_offer" /\ ~Has(down[p], "answer") /\ ~Idle(p)
          <6>1. ~Idle(p) /\ ~HasRemote(p) /\ connection_[p] \in Connections
            BY <1>0, <4>1, <5>1, <5>2 DEF PeerInv, PairInv, TypeOK
          <6> QED
            BY <4>1, <5>2, <6>1 DEF Idle, HasRemote, Connections, PairInv
        <5>4. ~Will(p) /\ ~Answering(p) /\ ~Has(down[p], "offer")
          BY <4>1, <5>3, TasksMean DEF PeerInv, JoinInv, Will, Answering
        <5>5. PeerInv(q)'
          BY <2>0, <4>1, <4>2, <4>3, <4>4, <4>5, <4>6, <5>2 DEF PeerInv
        <5>6. ~Offering(p)' /\ ~Answering(p)'
          BY <2>1, <4>5, <5>1, <5>4 DEF Offering, Answering
        <5>7. PairInv(p, q)'
          BY <3>2, <4>1, <4>5, <5>3, <5>6 DEF PairInv, HasRemote
        <5>8. PairInv(q, p)'
          BY <3>2, <4>3, <4>5, <4>6, <5>2, <5>4, <5>6 DEF PairInv, HasRemote, Idle
        <5> QED
          BY <5>5, <5>7, <5>8
      <4>7. CASE m.type = "answer"
        <5>1. OutHas(p, "answer") /\ ~OutHas(p, "answer")' /\ Answering(p)
          BY <2>1, <4>1, <4>7 DEF PeerInv, Answering
        <5>2. connection_[q] = "have_local_offer" /\ ~Has(down[q], "answer")
          BY <4>1, <5>1 DEF PairInv
        <5>3. /\ connection_[p] = "stable" /\ ~Idle(p) /\ ~Replies(p)
              /\ ~Has(down[p], "offer")
          BY <4>1, <5>1 DEF PeerInv, Idle, TasksFit, Replies
        <5>4. /\ ~Offering(q) /\ ~Offering(p) /\ ~Has(down[q], "offer") /\ ~Answering(q)
              /\ ~Idle(q)
          BY <4>1, <5>2, <5>3 DEF PairInv, PeerInv, Idle, TasksFit, Replies, Answering
        <5>5. PeerInv(q)'
          BY <2>0, <4>1, <4>2, <4>3, <4>4, <4>5, <4>7, <5>2, <5>4 DEF PeerInv
        <5>6. ~Offering(p)' /\ ~Answering(p)'
          BY <2>1, <4>5, <5>1, <5>3, <5>4 DEF Offering, Answering
        <5>7. PairInv(p, q)'
          BY <3>2, <4>1, <4>2, <4>3, <4>5, <4>7, <5>4, <5>6 DEF PairInv
        <5>8. PairInv(q, p)'
          BY <3>2, <4>5, <5>3, <5>4, <5>6 DEF PairInv
        <5> QED
          BY <5>5, <5>7, <5>8
      <4>8. CASE m.type = "candidate"
        <5>1. Calm(q) /\ PeerInv(q)'
          <6>1. Calm(q)
            BY <4>2, <4>3, <4>4, <4>5, <4>8 DEF Calm
          <6> QED
            BY <2>0, <4>1, <4>2, <4>4, <6>1, PeerCalm DEF PeerInv
        <5> QED
          BY <3>2, <4>1, <5>1, PairCalm
      <4> QED
        BY <2>5, <4>6, <4>7, <4>8
    <3>6. CASE p \in room
      <4>1. PeerAll'
        BY <3>2, <3>3, <3>5, <3>6 DEF PeerAll
      <4>2. ASSUME NEW q \in room, NEW r \in room, q # r PROVE PairInv(q, r)'
        BY <3>5, <3>6, <4>2 DEF RoomInv
      <4>3. ASSUME NEW q \in room, room = {q} PROVE AloneInv(q)'
        <5>1. q = p /\ AloneInv(p)
          BY <3>6, <4>3 DEF RoomInv
        <5> QED
          BY <3>2, <5>1, CalmIdle DEF AloneInv, Calm
      <4> QED
        BY <3>1, <4>1, <4>2, <4>3 DEF RoomInv
    <3> QED
      BY <3>4, <3>6
  <2>6. CASE m.type = "pong"
    <3>1. room' = room /\ down' = down
      BY <1>15, <2>6 DEF ServerHandles
    <3>2. \A r \in Peers : Calm(r) /\ PeerInv(r)'
      BY <2>2, <3>1
    <3> QED
      BY <2>3, <3>1, <3>2, RoomCalm DEF PeerAll
  <2> QED
    BY <1>15, <2>4, <2>5, <2>6 DEF ServerHandles
<1>16. ASSUME NEW p \in Peers, ServerPings(p) PROVE PeerAll' /\ RoomInv'
  <2>1. /\ Send({p}, Msg("ping")) /\ room' = room
        /\ UNCHANGED <<connection_, tasks, gather, posted, up, left>>
    BY <1>16 DEF ServerPings
  <2>2. Msg("ping") \in Messages /\ Msg("ping").type = "ping"
    BY DEF Msg, Messages, Types
  <2>3. ASSUME NEW r \in Peers PROVE Calm(r) /\ PeerInv(r)'
    BY <1>0, <2>1, <2>2, NewsIsCalm
  <2> QED
    BY <1>0, <2>1, <2>3, RoomCalm DEF PeerAll, TypeOK
<1>17. ASSUME NEW p \in Peers, ServerLoses(p) PROVE PeerAll' /\ RoomInv'
  <2>1. /\ Send(room \ {p}, Msg("bye")) /\ room' = {}
        /\ UNCHANGED <<connection_, tasks, gather, posted, up, left>>
    BY <1>17 DEF ServerLoses
  <2>2. Msg("bye") \in Messages /\ Msg("bye").type = "bye"
    BY DEF Msg, Messages, Types
  <2>3. ASSUME NEW r \in Peers PROVE Calm(r) /\ PeerInv(r)'
    BY <1>0, <2>1, <2>2, NewsIsCalm
  <2>4. RoomInv'
    BY <2>1, FS_EmptySet DEF RoomInv
  <2> QED
    BY <2>3, <2>4 DEF PeerAll
<1>18. CASE UNCHANGED vars
  <2>1. room' = room /\ \A r \in Peers : Calm(r) /\ PeerInv(r)'
    BY <1>18, <1>0, UntouchedIsCalm DEF vars
  <2> QED
    BY <1>0, <2>1, RoomCalm DEF PeerAll, TypeOK
<1> QED
  BY <1>1, <1>2, <1>3, <1>4, <1>5, <1>6, <1>7, <1>8, <1>9, <1>10, <1>11, <1>12, <1>13,
     <1>14, <1>15, <1>16, <1>17, <1>18
  DEF Next, IocStep, SigStep

\* DescriptionsFit for one peer.
LEMMA FitsHere ==
  ASSUME TypeOK, NEW p \in Peers, JoinInv(p), PeerInv(p), p \notin left, down[p] # <<>>
  PROVE  /\ Head(down[p]).type = "offer" => connection_[p] = "fresh"
         /\ Head(down[p]).type = "answer" => connection_[p] = "have_local_offer"
<1>1. down[p] \in Seq(Messages) /\ 1 \in 1..Len(down[p]) /\ down[p][1] = Head(down[p])
  BY DEF TypeOK
<1>2. ASSUME NEW t, Head(down[p]).type = t PROVE Has(down[p], t)
  BY <1>1, <1>2 DEF Has
<1>3. CASE Head(down[p]).type = "offer"
  <2>1. ~Begins(down[p], "accept") /\ ~Begins(down[p], "reject")
    BY <1>3 DEF Begins
  <2>2. connection_[p] # "null"
    BY <2>1 DEF JoinInv
  <2>3. Idle(p)
    BY <1>2, <1>3 DEF PeerInv
  <2> QED
    BY <1>3, <2>2, <2>3 DEF Idle
<1>4. CASE Head(down[p]).type = "answer"
  BY <1>2, <1>4 DEF PeerInv
<1> QED
  BY <1>3, <1>4

\* How far the two peers of a room have come with offer and answer: the lambdas, the
\* texts on their way and the two peer connections agree, and that is inductive.
THEOREM ExchangeInvariance == Spec => [](TypeInv /\ JoinAll /\ PeerAll /\ RoomInv)
BY JoinInvariance, ExchangeInit, ExchangeNext, PTL DEF Spec

\* SetRemoteDescription never fails for want of order: an offer is read in a fresh
\* connection, an answer by the peer that has offered, and the two never offer to each
\* other, whatever the pools and the failures do to the messages between.
THEOREM DescriptionsInOrder == Spec => []DescriptionsFit
<1>1. ASSUME JoinAll, PeerAll, TypeInv PROVE DescriptionsFit
  <2> SUFFICES ASSUME NEW p \in Peers, reads[p] > 0, down[p] # <<>>
               PROVE  /\ Head(down[p]).type = "offer" => connection_[p] = "fresh"
                      /\ Head(down[p]).type = "answer" => connection_[p] = "have_local_offer"
    BY DEF DescriptionsFit
  <2>1. p \notin left
    <3>1. closes[p] = 0 /\ JoinInv(p)
      BY <1>1, Reading DEF JoinAll
    <3> QED
      BY <3>1 DEF JoinInv
  <2>2. JoinInv(p) /\ PeerInv(p)
    BY <1>1 DEF JoinAll, PeerAll
  <2> QED
    BY <1>1, <2>1, <2>2, FitsHere DEF TypeInv
<1> QED
  BY <1>1, ExchangeInvariance, PTL

\* Data channels are created only by a peer that has the other one's description, and
\* while both are in the room the other one has set a description of its own.
THEOREM ReadyMeansExchanged == Spec => []ReadyAfterExchange
<1>1. ASSUME TypeInv, JoinAll, RoomInv PROVE ReadyAfterExchange
  <2> SUFFICES ASSUME NEW p \in Peers, ready_[p], p \notin left
               PROVE  /\ HasRemote(p)
                      /\ p \in room => \A q \in room : connection_[q] \notin {"null", "fresh"}
    BY DEF ReadyAfterExchange
  <2>1. HasRemote(p)
    BY <1>1 DEF JoinAll, JoinInv
  <2>2. ASSUME p \in room, NEW q \in room PROVE ~Idle(q)
    <3>1. CASE q = p
      BY <2>1, <3>1 DEF HasRemote, Idle
    <3>2. CASE q # p
      BY <1>1, <2>1, <2>2, <3>2 DEF RoomInv, PairInv
    <3> QED
      BY <3>1, <3>2
  <2> QED
    BY <2>1, <2>2 DEF Idle
<1> QED
  BY <1>1, ExchangeInvariance, PTL

--------------------------------------------------------------------------------
(******************************************************************************)
(* The order of texts.  A candidate is posted behind the description it       *)
(* belongs to, and stays behind it on every queue unless the pool overtakes.  *)
(******************************************************************************)
IsDesc(m) == m.type \in {"offer", "answer"}
HasDesc(s) == Has(s, "offer") \/ Has(s, "answer")

\* Every candidate in s comes behind a description in s.
Led(s) ==
    \A i \in 1..Len(s) : s[i].type = "candidate" => \E j \in 1..(i - 1) : IsDesc(s[j])

\* p has the description of q, or reads nothing more, or q has overtaken.
Told(p, q) == HasRemote(p) \/ stopped[p] # "no" \/ overtook[q]

\* What q has sent and has still to send is in order.
InOrder(q) ==
    /\ Led(up[q])
    /\ HasDesc(up[q]) \/ (Led(posted[q]) /\ (gather[q] # 0 => HasDesc(posted[q])))

OrderInv(p, q) == Told(p, q) \/ HasDesc(down[p]) \/ InOrder(q)

Overtaken(p) == \E q \in Peers \ {p} : overtook[q]

DeafInv(p) ==
    /\ p \notin left =>
          HasRemote(p) \/ stopped[p] # "no" \/ Led(down[p]) \/ Overtaken(p)
    /\ stopped[p] = "candidate" => Overtaken(p)

DeafAll == \A p \in Peers : DeafInv(p)
OrderAll == \A p, q \in room : p # q => OrderInv(p, q)

LEMMA NoneLed ==
  ASSUME NEW s, ~Has(s, "candidate")
  PROVE  Led(s)
  BY DEF Has, Led

LEMMA LedAppend ==
  ASSUME NEW S, NEW s \in Seq(S), NEW m \in S, Led(s), m.type = "candidate" => HasDesc(s)
  PROVE  Led(Append(s, m))
<1>1. /\ Len(Append(s, m)) = Len(s) + 1 /\ Append(s, m)[Len(s) + 1] = m
      /\ \A i \in 1..Len(s) : Append(s, m)[i] = s[i]
      /\ Len(s) \in Nat
  OBVIOUS
<1>2. ASSUME NEW i \in 1..Len(Append(s, m)), Append(s, m)[i].type = "candidate"
      PROVE  \E j \in 1..(i - 1) : IsDesc(Append(s, m)[j])
  <2>1. CASE i \in 1..Len(s)
    <3>1. PICK j \in 1..(i - 1) : IsDesc(s[j])
      BY <1>1, <1>2, <2>1 DEF Led
    <3>2. j \in 1..Len(s) /\ Append(s, m)[j] = s[j]
      BY <1>1, <2>1
    <3> QED
      BY <3>1, <3>2
  <2>2. CASE i = Len(s) + 1
    <3>1. HasDesc(s)
      BY <1>1, <1>2, <2>2
    <3>2. PICK j \in 1..Len(s) : IsDesc(s[j])
      BY <3>1 DEF HasDesc, Has, IsDesc
    <3>3. j \in 1..(i - 1) /\ Append(s, m)[j] = s[j]
      BY <1>1, <2>2
    <3> QED
      BY <3>2, <3>3
  <2> QED
    BY <1>1, <2>1, <2>2
<1> QED
  BY <1>2 DEF Led

LEMMA DescAppend ==
  ASSUME NEW S, NEW s \in Seq(S), NEW m \in S
  PROVE  HasDesc(Append(s, m)) <=> HasDesc(s) \/ IsDesc(m)
  BY HasAppend DEF HasDesc, IsDesc

LEMMA LedTail ==
  ASSUME NEW S, NEW s \in Seq(S), s # <<>>, Led(s)
  PROVE  Head(s).type # "candidate" /\ (~IsDesc(Head(s)) => Led(Tail(s)))
<1>1. /\ Len(s) \in Nat /\ Len(s) >= 1 /\ Len(Tail(s)) = Len(s) - 1 /\ Head(s) = s[1]
      /\ \A i \in 1..Len(Tail(s)) : Tail(s)[i] = s[i + 1]
  OBVIOUS
<1>2. Head(s).type # "candidate"
  BY <1>1 DEF Led
<1>3. ASSUME ~IsDesc(Head(s)), NEW i \in 1..Len(Tail(s)), Tail(s)[i].type = "candidate"
      PROVE  \E j \in 1..(i - 1) : IsDesc(Tail(s)[j])
  <2>1. i + 1 \in 1..Len(s) /\ s[i + 1].type = "candidate"
    BY <1>1, <1>3
  <2>2. PICK j \in 1..i : IsDesc(s[j])
    BY <2>1 DEF Led
  <2>3. j # 1
    BY <1>1, <1>3, <2>2
  <2>4. j - 1 \in 1..(i - 1) /\ Tail(s)[j - 1] = s[j]
    BY <1>1, <2>3
  <2> QED
    BY <2>2, <2>4
<1> QED
  BY <1>2, <1>3 DEF Led

LEMMA DescTail ==
  ASSUME NEW S, NEW s \in Seq(S), s # <<>>
  PROVE  HasDesc(s) <=> HasDesc(Tail(s)) \/ IsDesc(Head(s))
  BY HasTail DEF HasDesc, IsDesc

LEMMA RemovedFirst ==
  ASSUME NEW S, NEW s \in Seq(S), s # <<>>
  PROVE  Removed(s, 1) = Tail(s)
<1>1. SubSeq(s, 1, 0) = <<>> /\ SubSeq(s, 2, Len(s)) = Tail(s) /\ Tail(s) \in Seq(S)
  OBVIOUS
<1>2. <<>> \o Tail(s) = Tail(s)
  BY <1>1
<1>3. 1 - 1 = 0 /\ 1 + 1 = 2
  OBVIOUS
<1> QED
  BY <1>1, <1>2, <1>3, Zenon DEF Removed

LEMMA OrderInit == Init => DeafAll /\ OrderAll
<1>1. ASSUME Init PROVE OrderAll
  BY <1>1 DEF Init, OrderAll
<1>2. ASSUME Init, NEW p \in Peers PROVE DeafInv(p)
  <2>1. down[p] = <<>> /\ stopped[p] = "no"
    BY <1>2 DEF Init
  <2>2. Led(down[p])
    BY <2>1, HasEmpty, NoneLed
  <2> QED
    BY <2>1, <2>2 DEF DeafInv
<1> QED
  BY <1>1, <1>2 DEF DeafAll

\* A step after which p still has, reads or knows that it does not read the description.
Hears(p) ==
    /\ HasRemote(p) => HasRemote(p)'
    /\ stopped[p] # "no" => stopped'[p] = stopped[p]
    /\ HasDesc(down[p]) => HasDesc(down'[p]) \/ HasRemote(p)' \/ stopped'[p] # "no"
    /\ Led(down[p]) => Led(down'[p]) \/ HasRemote(p)' \/ stopped'[p] # "no"
    /\ stopped'[p] = "candidate" /\ stopped[p] = "no" =>
          ~HasRemote(p) /\ ~Led(down[p]) /\ p \notin left
    /\ p \in left => p \in left'

\* A step after which q still sends in order, or has overtaken.
Sends(q) ==
    /\ overtook[q] => overtook'[q]
    /\ InOrder(q) => InOrder(q)' \/ overtook'[q]

LEMMA UntouchedHears ==
  ASSUME NEW r, connection_'[r] = connection_[r], stopped'[r] = stopped[r],
         down'[r] = down[r], r \in left' <=> r \in left
  PROVE  Hears(r)
  BY DEF Hears, HasRemote

LEMMA UntouchedSends ==
  ASSUME NEW r, gather'[r] = gather[r], posted'[r] = posted[r], up'[r] = up[r],
         overtook'[r] = overtook[r]
  PROVE  Sends(r)
  BY DEF Sends, InOrder

LEMMA DeafHears ==
  ASSUME NEW p \in Peers, DeafInv(p), Hears(p),
         \A q \in Peers : overtook[q] => overtook'[q]
  PROVE  DeafInv(p)'
<1>1. Overtaken(p) => Overtaken(p)'
  BY DEF Overtaken
<1> QED
  BY <1>1 DEF DeafInv, Hears

LEMMA OrderHears ==
  ASSUME NEW p, NEW q, OrderInv(p, q), Hears(p), Sends(q)
  PROVE  OrderInv(p, q)'
  BY DEF OrderInv, Told, Hears, Sends

\* A step of p's own threads.
LEMMA OrderLocal ==
  ASSUME TypeOK, DeafAll, OrderAll, NEW p \in Peers, Local(p), Sends(p),
         \/ Hears(p)
         \/ p \in left' /\ p \notin room /\ stopped'[p] = stopped[p]
  PROVE  DeafAll' /\ OrderAll'
<1>1. room' = room /\ room \subseteq Peers /\ \A r \in Peers \ {p} : Same(r)
  BY LocalStep DEF TypeOK
<1>2. \A r \in Peers \ {p} : Hears(r) /\ Sends(r)
  BY <1>1, UntouchedHears, UntouchedSends DEF Same
<1>3. \A q \in Peers : overtook[q] => overtook'[q]
  BY <1>2 DEF Sends
<1>4. ASSUME NEW r \in Peers PROVE DeafInv(r)'
  <2>1. CASE Hears(r)
    BY <1>3, <2>1, DeafHears DEF DeafAll
  <2>2. CASE r \in left' /\ stopped'[r] = stopped[r]
    BY <1>3, <2>2 DEF DeafAll, DeafInv, Overtaken
  <2> QED
    BY <1>2, <2>1, <2>2
<1>5. ASSUME NEW q \in room, NEW r \in room, q # r PROVE OrderInv(q, r)'
  BY <1>1, <1>2, <1>5, OrderHears DEF OrderAll
<1> QED
  BY <1>1, <1>4, <1>5 DEF DeafAll, OrderAll

LEMMA NewsHears ==
  ASSUME TypeOK, NEW ps, NEW m \in Messages, Send(ps, m),
         m.type \in {"accept", "reject", "ping", "bye"}, NEW r \in Peers,
         UNCHANGED <<connection_, stopped, left>>
  PROVE  Hears(r)
<1>1. CASE r \notin ps
  BY <1>1, SendEffect, UntouchedHears
<1>2. CASE r \in ps
  <2>1. down[r] \in Seq(Messages) /\ down'[r] = Append(down[r], m)
    BY <1>2, SendEffect DEF TypeOK
  <2>2. HasDesc(down[r]) => HasDesc(down'[r])
    BY <2>1, DescAppend
  <2>3. Led(down[r]) => Led(down'[r])
    BY <2>1, LedAppend
  <2> QED
    BY <2>2, <2>3 DEF Hears, HasRemote
<1> QED
  BY <1>1, <1>2

\* A text that is not a candidate is posted.
LEMMA PostsNoCandidate ==
  ASSUME TypeOK, NEW p \in Peers, NEW type \in Types, type # "candidate",
         SendText(p, type), UNCHANGED <<gather, up, overtook>>
  PROVE  Sends(p)
<1>1. /\ posted[p] \in Seq(Messages) /\ posted'[p] = Append(posted[p], Msg(type))
      /\ Msg(type) \in Messages /\ Msg(type).type # "candidate"
  BY DEF SendText, TypeOK, Msg, Messages
<1>2. (HasDesc(posted[p]) => HasDesc(posted'[p])) /\ (Led(posted[p]) => Led(posted'[p]))
  BY <1>1, LedAppend, DescAppend
<1> QED
  BY <1>2 DEF Sends, InOrder

LEMMA PostsDescription ==
  ASSUME TypeOK, NEW p \in Peers, UNCHANGED <<up, overtook>>,
         SendText(p, "offer") \/ SendText(p, "answer")
  PROVE  Sends(p)
<1>1. PICK m \in Messages : IsDesc(m) /\ posted'[p] = Append(posted[p], m)
  <2>1. \A type \in {"offer", "answer"} : Msg(type) \in Messages /\ IsDesc(Msg(type))
    BY DEF Msg, Messages, Types, IsDesc
  <2> QED
    BY <2>1 DEF SendText, TypeOK
<1>2. posted[p] \in Seq(Messages) /\ m.type # "candidate"
  BY <1>1 DEF TypeOK, IsDesc
<1>3. HasDesc(posted'[p]) /\ (Led(posted[p]) => Led(posted'[p]))
  BY <1>1, <1>2, LedAppend, DescAppend
<1> QED
  BY <1>3 DEF Sends, InOrder

LEMMA OrderNext ==
  TypeInv /\ JoinAll /\ PeerAll /\ RoomInv /\ DeafAll /\ OrderAll /\ [Next]_vars
    => DeafAll' /\ OrderAll'
<1> SUFFICES ASSUME TypeInv, JoinAll, PeerAll, RoomInv, DeafAll, OrderAll, [Next]_vars
             PROVE  DeafAll' /\ OrderAll'
  OBVIOUS
<1> USE DEF ioVars, rtcVars, netVars, ghostVars
<1>0. TypeOK /\ \A p \in Peers : JoinInv(p) /\ PeerInv(p) /\ DeafInv(p)
  BY DEF TypeInv, JoinAll, PeerAll, DeafAll
<1>1. ASSUME NEW p \in Peers,
             Connect(p) \/ OnResolve(p) \/ OnSSLConnect(p) \/ OnSSLHandshake(p) \/
             OnMalformed(p) \/ OnReadError(p) \/ CreateDataChannel(p) \/
             OnSetOffer(p) \/ TaskFails(p)
      PROVE  DeafAll' /\ OrderAll'
  <2>0. Local(p) /\ TypeOK /\ JoinInv(p) /\ PeerInv(p)
    BY <1>1, <1>0 DEF Local, IocStep, SigStep
  <2>1. UNCHANGED <<connection_, gather, posted, up, down, stopped, overtook, left>>
    BY <1>1 DEF Connect, OnResolve, OnSSLConnect, OnSSLHandshake, Advance, OnMalformed,
             OnReadError, CreateDataChannel, OnSetOffer, TaskFails
  <2>8. Hears(p)
    BY <2>1, UntouchedHears
  <2>9. Sends(p)
    BY <2>1, UntouchedSends
  <2> QED
    BY <2>0, <2>8, <2>9, OrderLocal
<1>2. ASSUME NEW p \in Peers, OnHandshake(p) PROVE DeafAll' /\ OrderAll'
  <2>0. Local(p) /\ TypeOK /\ JoinInv(p) /\ PeerInv(p)
    BY <1>2, <1>0 DEF Local, IocStep, SigStep
  <2>1. UNCHANGED <<connection_, gather, up, down, stopped, overtook, left>>
    BY <1>2 DEF OnHandshake
  <2>8. Hears(p)
    BY <2>1, UntouchedHears
  <2>9. Sends(p)
    <3>1. posted' = posted \/ SendText(p, "register")
      BY <1>2 DEF OnHandshake
    <3> QED
      BY <2>0, <2>1, <3>1, PostsNoCandidate, UntouchedSends DEF Types
  <2> QED
    BY <2>0, <2>8, <2>9, OrderLocal
<1>3. ASSUME NEW p \in Peers, OnAccept(p) PROVE DeafAll' /\ OrderAll'
  <2>0. Local(p) /\ TypeOK /\ JoinInv(p) /\ PeerInv(p)
    BY <1>3, <1>0 DEF Local, IocStep, SigStep
  <2>1. /\ down[p] \in Seq(Messages) /\ down[p] # <<>> /\ Head(down[p]).type = "accept"
        /\ down'[p] = Tail(down[p]) /\ p \notin left /\ stopped[p] = "no"
    <3>1. Receives(p, "accept")
      BY <1>3 DEF OnAccept
    <3>2. closes[p] = 0 => p \notin left
      BY <2>0 DEF JoinInv
    <3> QED
      BY <2>0, <3>1, <3>2, ReceivesEffect DEF TypeOK, Begins
  <2>2. /\ Led(down[p]) => Led(down'[p])
        /\ HasDesc(down[p]) => HasDesc(down'[p])
    <3>1. ~IsDesc(Head(down[p]))
      BY <2>1 DEF IsDesc
    <3> QED
      BY <2>1, <3>1, LedTail, DescTail
  <2>3. UNCHANGED <<gather, posted, up, stopped, overtook, left>>
    BY <1>3 DEF OnAccept
  <2>4. ~HasRemote(p)
    <3>1. connection_[p] = "null"
      BY <2>0, <2>1 DEF JoinInv, Begins
    <3> QED
      BY <3>1 DEF HasRemote
  <2>8. Hears(p)
    BY <2>1, <2>2, <2>3, <2>4 DEF Hears
  <2>9. Sends(p)
    BY <2>3, UntouchedSends
  <2> QED
    BY <2>0, <2>8, <2>9, OrderLocal
<1>4. ASSUME NEW p \in Peers, OnOffer(p) PROVE DeafAll' /\ OrderAll'
  <2>0. Local(p) /\ TypeOK /\ JoinInv(p) /\ PeerInv(p)
    BY <1>4, <1>0 DEF Local, IocStep, SigStep
  <2>1. /\ down[p] \in Seq(Messages) /\ down[p] # <<>> /\ Head(down[p]).type = "offer"
        /\ down'[p] = Tail(down[p]) /\ p \notin left /\ stopped[p] = "no"
    <3>1. Receives(p, "offer")
      BY <1>4 DEF OnOffer
    <3>2. closes[p] = 0 => p \notin left
      BY <2>0 DEF JoinInv
    <3> QED
      BY <2>0, <3>1, <3>2, ReceivesEffect DEF TypeOK, Begins
  <2>2. UNCHANGED <<gather, posted, up, overtook, left>>
    BY <1>4 DEF OnOffer
  <2>3. connection_[p] = "fresh"
    BY <2>0, <2>1, FitsHere
  <2>4. HasRemote(p)' \/ stopped'[p] = "parse"
    BY <1>4, <2>0, <2>3 DEF OnOffer, Stops, HasRemote, TypeOK
  <2>5. stopped'[p] # "candidate"
    BY <1>4, <2>0, <2>1 DEF OnOffer, Stops, TypeOK
  <2>6. ~HasRemote(p)
    BY <2>3 DEF HasRemote
  <2>8. Hears(p)
    BY <2>1, <2>2, <2>4, <2>5, <2>6 DEF Hears
  <2>9. Sends(p)
    BY <2>2, UntouchedSends
  <2> QED
    BY <2>0, <2>8, <2>9, OrderLocal
<1>5. ASSUME NEW p \in Peers, OnAnswer(p) PROVE DeafAll' /\ OrderAll'
  <2>0. Local(p) /\ TypeOK /\ JoinInv(p) /\ PeerInv(p)
    BY <1>5, <1>0 DEF Local, IocStep, SigStep
  <2>1. /\ down[p] \in Seq(Messages) /\ down[p] # <<>> /\ Head(down[p]).type = "answer"
        /\ down'[p] = Tail(down[p]) /\ p \notin left /\ stopped[p] = "no"
    <3>1. Receives(p, "answer")
      BY <1>5 DEF OnAnswer
    <3>2. closes[p] = 0 => p \notin left
      BY <2>0 DEF JoinInv
    <3> QED
      BY <2>0, <3>1, <3>2, ReceivesEffect DEF TypeOK, Begins
  <2>2. UNCHANGED <<gather, posted, up, overtook, left>>
    BY <1>5 DEF OnAnswer
  <2>3. connection_[p] = "have_local_offer"
    BY <2>0, <2>1, FitsHere
  <2>4. HasRemote(p)' \/ stopped'[p] = "parse"
    BY <1>5, <2>0, <2>3 DEF OnAnswer, Stops, HasRemote, TypeOK
  <2>5. stopped'[p] # "candidate"
    BY <1>5, <2>0, <2>1 DEF OnAnswer, Stops, TypeOK
  <2>6. ~HasRemote(p)
    BY <2>3 DEF HasRemote
  <2>8. Hears(p)
    BY <2>1, <2>2, <2>4, <2>5, <2>6 DEF Hears
  <2>9. Sends(p)
    BY <2>2, UntouchedSends
  <2> QED
    BY <2>0, <2>8, <2>9, OrderLocal
<1>6. ASSUME NEW p \in Peers, OnCandidate(p) PROVE DeafAll' /\ OrderAll'
  <2>0. Local(p) /\ TypeOK /\ JoinInv(p) /\ PeerInv(p)
    BY <1>6, <1>0 DEF Local, IocStep, SigStep
  <2>1. /\ down[p] \in Seq(Messages) /\ down[p] # <<>> /\ Head(down[p]).type = "candidate"
        /\ down'[p] = Tail(down[p]) /\ p \notin left /\ stopped[p] = "no"
    <3>1. Receives(p, "candidate")
      BY <1>6 DEF OnCandidate
    <3>2. closes[p] = 0 => p \notin left
      BY <2>0 DEF JoinInv
    <3> QED
      BY <2>0, <3>1, <3>2, ReceivesEffect DEF TypeOK, Begins
  <2>2. UNCHANGED <<connection_, gather, posted, up, overtook, left>>
    BY <1>6 DEF OnCandidate
  <2>3. ~Led(down[p])
    BY <2>1, LedTail
  <2>4. HasDesc(down[p]) => HasDesc(down'[p])
    BY <2>1, DescTail DEF IsDesc
  <2>5. HasRemote(p) => stopped'[p] # "candidate"
    BY <1>6, <2>0, <2>1 DEF OnCandidate, Stops, TypeOK
  <2>6. HasRemote(p)' <=> HasRemote(p)
    BY <2>2 DEF HasRemote
  <2>8. Hears(p)
    BY <2>1, <2>2, <2>3, <2>4, <2>5, <2>6 DEF Hears
  <2>9. Sends(p)
    BY <2>2, UntouchedSends
  <2> QED
    BY <2>0, <2>8, <2>9, OrderLocal
<1>7. ASSUME NEW p \in Peers, OnPing(p) PROVE DeafAll' /\ OrderAll'
  <2>0. Local(p) /\ TypeOK /\ JoinInv(p) /\ PeerInv(p)
    BY <1>7, <1>0 DEF Local, IocStep, SigStep
  <2>1. /\ down[p] \in Seq(Messages) /\ down[p] # <<>> /\ Head(down[p]).type = "ping"
        /\ down'[p] = Tail(down[p]) /\ p \notin left /\ stopped[p] = "no"
    <3>1. Receives(p, "ping")
      BY <1>7 DEF OnPing
    <3>2. closes[p] = 0 => p \notin left
      BY <2>0 DEF JoinInv
    <3> QED
      BY <2>0, <3>1, <3>2, ReceivesEffect DEF TypeOK, Begins
  <2>2. /\ Led(down[p]) => Led(down'[p])
        /\ HasDesc(down[p]) => HasDesc(down'[p])
    <3>1. ~IsDesc(Head(down[p]))
      BY <2>1 DEF IsDesc
    <3> QED
      BY <2>1, <3>1, LedTail, DescTail
  <2>3. UNCHANGED <<connection_, gather, up, stopped, overtook, left>> /\ SendText(p, "pong")
    BY <1>7 DEF OnPing
  <2>8. Hears(p)
    BY <2>1, <2>2, <2>3 DEF Hears, HasRemote
  <2>9. Sends(p)
    BY <2>0, <2>3, PostsNoCandidate DEF Types
  <2> QED
    BY <2>0, <2>8, <2>9, OrderLocal
<1>8. ASSUME NEW p \in Peers, OnUnknown(p) PROVE DeafAll' /\ OrderAll'
  <2>0. Local(p) /\ TypeOK /\ JoinInv(p) /\ PeerInv(p)
    BY <1>8, <1>0 DEF Local, IocStep, SigStep
  <2>1. /\ down[p] \in Seq(Messages) /\ down[p] # <<>> /\ Head(down[p]).type = "reject"
        /\ down'[p] = Tail(down[p]) /\ p \notin left /\ stopped[p] = "no"
    <3>1. Receives(p, "reject")
      BY <1>8 DEF OnUnknown
    <3>2. closes[p] = 0 => p \notin left
      BY <2>0 DEF JoinInv
    <3> QED
      BY <2>0, <3>1, <3>2, ReceivesEffect DEF TypeOK, Begins
  <2>2. UNCHANGED <<connection_, gather, posted, up, overtook, left>> /\ stopped'[p] = "unknown"
    BY <1>8, <2>0 DEF OnUnknown, Stops, TypeOK
  <2>8. Hears(p)
    BY <2>1, <2>2 DEF Hears, HasRemote
  <2>9. Sends(p)
    BY <2>2, UntouchedSends
  <2> QED
    BY <2>0, <2>8, <2>9, OrderLocal
<1>9. ASSUME NEW p \in Peers, OnBye(p) PROVE DeafAll' /\ OrderAll'
  <2>0. Local(p) /\ TypeOK /\ JoinInv(p) /\ PeerInv(p)
    BY <1>9, <1>0 DEF Local, IocStep, SigStep
  <2>1. /\ p \in left' /\ Receives(p, "bye") /\ UNCHANGED <<posted, up, stopped, overtook>>
        /\ gather'[p] = 0
    BY <1>9, <2>0 DEF OnBye, TypeOK
  <2>8. p \in left' /\ p \notin room /\ stopped'[p] = stopped[p]
    BY <2>0, <2>1, ReceivesEffect DEF JoinInv
  <2>9. Sends(p)
    BY <2>1 DEF Sends, InOrder
  <2> QED
    BY <2>0, <2>8, <2>9, OrderLocal
<1>10. ASSUME NEW p \in Peers, OnCreateOffer(p) PROVE DeafAll' /\ OrderAll'
  <2>0. Local(p) /\ TypeOK /\ JoinInv(p) /\ PeerInv(p)
    BY <1>10, <1>0 DEF Local, IocStep, SigStep
  <2>1. UNCHANGED <<up, down, stopped, overtook, left>>
    BY <1>10 DEF OnCreateOffer
  <2>2. HasRemote(p) => HasRemote(p)'
    BY <1>10, <2>0 DEF OnCreateOffer, HasRemote, TypeOK
  <2>8. Hears(p)
    BY <2>1, <2>2 DEF Hears
  <2>9. Sends(p)
    <3>1. CASE SendText(p, "offer")
      BY <2>0, <2>1, <3>1, PostsDescription
    <3>2. CASE posted' = posted /\ gather' = gather
      BY <2>1, <3>2, UntouchedSends
    <3> QED
      BY <1>10, <3>1, <3>2 DEF OnCreateOffer
  <2> QED
    BY <2>0, <2>8, <2>9, OrderLocal
<1>11. ASSUME NEW p \in Peers, OnCreateAnswer(p) PROVE DeafAll' /\ OrderAll'
  <2>0. Local(p) /\ TypeOK /\ JoinInv(p) /\ PeerInv(p)
    BY <1>11, <1>0 DEF Local, IocStep, SigStep
  <2>1. UNCHANGED <<up, down, stopped, overtook, left>>
    BY <1>11 DEF OnCreateAnswer
  <2>2. HasRemote(p) => HasRemote(p)'
    BY <1>11, <2>0 DEF OnCreateAnswer, HasRemote, TypeOK
  <2>8. Hears(p)
    BY <2>1, <2>2 DEF Hears
  <2>9. Sends(p)
    <3>1. CASE SendText(p, "answer")
      BY <2>0, <2>1, <3>1, PostsDescription
    <3>2. CASE posted' = posted /\ gather' = gather
      BY <2>1, <3>2, UntouchedSends
    <3> QED
      BY <1>11, <3>1, <3>2 DEF OnCreateAnswer
  <2> QED
    BY <2>0, <2>8, <2>9, OrderLocal
<1>12. ASSUME NEW p \in Peers, OnIceCandidate(p) PROVE DeafAll' /\ OrderAll'
  <2>0. Local(p) /\ TypeOK /\ JoinInv(p) /\ PeerInv(p)
    BY <1>12, <1>0 DEF Local, IocStep, SigStep
  <2>1. /\ UNCHANGED <<connection_, up, down, stopped, overtook, left>>
        /\ gather[p] # 0 /\ SendText(p, "candidate")
    BY <1>12 DEF OnIceCandidate
  <2>2. /\ posted[p] \in Seq(Messages) /\ posted'[p] = Append(posted[p], Msg("candidate"))
        /\ Msg("candidate") \in Messages
    BY <2>0, <2>1 DEF SendText, TypeOK, Msg, Messages, Types
  <2>3. /\ HasDesc(posted[p]) => HasDesc(posted'[p])
        /\ Led(posted[p]) /\ HasDesc(posted[p]) => Led(posted'[p])
    BY <2>2, LedAppend, DescAppend
  <2>8. Hears(p)
    BY <2>1, UntouchedHears
  <2>9. Sends(p)
    BY <2>1, <2>3 DEF Sends, InOrder
  <2> QED
    BY <2>0, <2>8, <2>9, OrderLocal
<1>13. ASSUME NEW p \in Peers, DoSendText(p) PROVE DeafAll' /\ OrderAll'
  <2>0. Local(p) /\ TypeOK /\ JoinInv(p) /\ PeerInv(p)
    BY <1>13, <1>0 DEF Local, IocStep, SigStep
  <2>1. UNCHANGED <<connection_, gather, down, stopped, left>>
    BY <1>13 DEF DoSendText
  <2>8. Hears(p)
    BY <2>1, UntouchedHears
  <2>9. Sends(p)
    <3>1. PICK i \in 1..Len(posted[p]) :
              /\ up' = [up EXCEPT ![p] = Append(up[p], posted[p][i])]
              /\ posted' = [posted EXCEPT ![p] = Removed(posted[p], i)]
              /\ overtook' = [overtook EXCEPT ![p] = overtook[p] \/ i # 1]
      BY <1>13 DEF DoSendText, Removed
    <3>2. overtook'[p] = (overtook[p] \/ i # 1)
      BY <2>0, <3>1 DEF TypeOK
    <3>3. CASE i # 1
      BY <3>2, <3>3 DEF Sends
    <3>4. CASE i = 1
      <4>1. /\ posted[p] \in Seq(Messages) /\ up[p] \in Seq(Messages) /\ posted[p] # <<>>
            /\ posted[p][1] = Head(posted[p]) /\ Head(posted[p]) \in Messages
        BY <2>0, <3>1, <3>4 DEF TypeOK
      <4>2. up'[p] = Append(up[p], Head(posted[p])) /\ posted'[p] = Tail(posted[p])
        BY <2>0, <3>1, <3>4, <4>1, RemovedFirst DEF TypeOK
      <4>3. /\ HasDesc(up'[p]) <=> HasDesc(up[p]) \/ IsDesc(Head(posted[p]))
            /\ HasDesc(posted[p]) <=> HasDesc(posted'[p]) \/ IsDesc(Head(posted[p]))
        BY <4>1, <4>2, DescAppend, DescTail
      <4>4. /\ Led(up[p]) /\ (HasDesc(up[p]) \/ Led(posted[p])) => Led(up'[p])
            /\ Led(posted[p]) /\ ~IsDesc(Head(posted[p])) => Led(posted'[p])
        BY <4>1, <4>2, LedAppend, LedTail
      <4> QED
        BY <2>1, <3>2, <4>3, <4>4 DEF Sends, InOrder
    <3> QED
      BY <3>3, <3>4
  <2> QED
    BY <2>0, <2>8, <2>9, OrderLocal
<1>14. ASSUME NEW p \in Peers, ServerHandles(p) PROVE DeafAll' /\ OrderAll'
  <2> DEFINE m == Head(up[p])
  <2>0. /\ up[p] # <<>> /\ up' = [up EXCEPT ![p] = Tail(up[p])] /\ posted' = posted
        /\ UNCHANGED <<connection_, gather, stopped, overtook, left>>
    BY <1>14 DEF ServerHandles
  <2>1. /\ up[p] \in Seq(Messages) /\ m \in Messages /\ up'[p] = Tail(up[p])
        /\ OutHas(p, m.type) /\ (\A t : OutHas(p, t)' => OutHas(p, t))
        /\ room \subseteq Peers
        /\ \A r \in Peers \ {p} : up'[r] = up[r]
    BY <1>0, <2>0, TakeEffect DEF TypeOK
  <2>2. \A r \in Peers : overtook[r] => overtook'[r]
    BY <2>0
  <2>3. \A r \in Peers : down'[r] = down[r] => Hears(r)
    BY <2>0, UntouchedHears
  <2>4. \A r \in Peers \ {p} : Sends(r)
    BY <2>0, <2>1, UntouchedSends
  <2>5. ~IsDesc(m) => Sends(p)
    BY <2>0, <2>1, LedTail, DescTail DEF Sends, InOrder
  <2>6. CASE m.type = "register"
    <3>1. PICK a \in Messages :
             /\ Send({p}, a) /\ a.type \in {"accept", "reject"}
             /\ room' \in {room, room \cup {p}}
      <4>1. [type |-> "accept", isExistUser |-> room # {}] \in Messages
            /\ Msg("reject") \in Messages
        BY DEF Messages, Types, Msg
      <4> QED
        BY <1>14, <2>6, <4>1 DEF ServerHandles, Msg
    <3>2. /\ Outside(p) /\ p \notin room /\ p \notin left
      BY <1>0, <2>1, <2>6 DEF JoinInv, Registered
    <3>3. \A r \in Peers : Hears(r)
      <4>1. \A r \in Peers \ {p} : down'[r] = down[r]
        BY <1>0, <3>1, SendEffect
      <4>2. Hears(p)
        BY <1>0, <2>0, <3>1, NewsHears
      <4> QED
        BY <2>3, <4>1, <4>2
    <3>4. DeafAll'
      BY <1>0, <2>2, <3>3, DeafHears DEF DeafAll
    <3>5. ASSUME NEW q \in room', NEW r \in room', q # r PROVE OrderInv(q, r)'
      <4>1. CASE q \in room /\ r \in room
        BY <2>1, <2>4, <3>2, <3>3, <3>5, <4>1, OrderHears DEF OrderAll
      <4>2. CASE r = p
        <5>1. InOrder(p)'
          <6>1. ~OutHas(p, "candidate") /\ gather[p] = 0
            BY <1>0, <3>2 DEF PeerInv, Outside, GatherFits, Idle
          <6>2. ~OutHas(p, "candidate")' /\ gather'[p] = 0
            BY <2>0, <2>1, <6>1
          <6> QED
            BY <6>2, NoneLed DEF InOrder, OutHas
        <5> QED
          BY <4>2, <5>1 DEF OrderInv
      <4>3. CASE q = p /\ r \in room
        <5>1. r \in Peers \ {p} /\ AloneInv(r) /\ r \notin left
          <6>1. room' = room \cup {p} /\ r \in Peers /\ r # p
            BY <2>1, <3>1, <3>2, <3>5, <4>3
          <6>2. Cardinality(room) < 2
            BY <1>14, <2>6, <3>2, <6>1 DEF ServerHandles
          <6>3. room = {r}
            BY <4>3, <6>2, SmallRoom DEF RoomInv
          <6> QED
            BY <1>0, <4>3, <6>1, <6>3 DEF RoomInv, JoinInv
        <5>2. ~OutHas(r, "candidate") /\ gather[r] = 0
          BY <1>0, <5>1 DEF PeerInv, AloneInv, GatherFits
        <5>3. InOrder(r)
          BY <5>2, NoneLed DEF InOrder, OutHas
        <5>4. InOrder(r)' \/ overtook'[r]
          BY <2>4, <5>1, <5>3 DEF Sends
        <5> QED
          BY <5>4 DEF OrderInv, Told
      <4> QED
        BY <3>1, <3>5, <4>1, <4>2, <4>3
    <3> QED
      BY <3>4, <3>5 DEF OrderAll
  <2>7. CASE m.type \in {"offer", "answer", "candidate"}
    <3>1. room' = room /\ Send(IF p \in room THEN room \ {p} ELSE {}, m)
      BY <1>14, <2>7 DEF ServerHandles
    <3>2. \A r \in Peers : r = p \/ r \notin room \/ p \notin room => Hears(r)
      BY <1>0, <2>1, <2>3, <3>1, SendEffect
    <3>3. CASE p \notin room
      <4>1. DeafAll'
        BY <1>0, <2>2, <3>2, <3>3, DeafHears DEF DeafAll
      <4>2. OrderAll'
        BY <2>1, <2>4, <3>1, <3>2, <3>3, OrderHears DEF OrderAll
      <4> QED
        BY <4>1, <4>2
    <3>4. ASSUME p \in room, NEW q \in room \ {p} PROVE DeafInv(q)' /\ OrderInv(q, p)'
      <4>1. /\ q \in Peers /\ down[q] \in Seq(Messages) /\ down'[q] = Append(down[q], m)
            /\ OrderInv(q, p) /\ DeafInv(q)
        <5>1. Send(room \ {p}, m) /\ q \in Peers /\ q # p
          BY <2>1, <3>1, <3>4
        <5>2. down'[q] = Append(down[q], m)
          BY <1>0, <2>1, <3>4, <5>1, SendEffect
        <5>3. OrderInv(q, p)
          BY <3>4, <5>1 DEF OrderAll
        <5> QED
          BY <1>0, <5>1, <5>2, <5>3 DEF TypeOK
      <4>2. HasDesc(down'[q]) <=> HasDesc(down[q]) \/ IsDesc(m)
        BY <2>1, <4>1, DescAppend
      <4>3. /\ HasRemote(q)' <=> HasRemote(q)
            /\ Told(q, p)' <=> Told(q, p)
            /\ Overtaken(q)' <=> Overtaken(q)
            /\ stopped'[q] = stopped[q] /\ (q \in left' <=> q \in left)
        BY <2>0 DEF HasRemote, Told, Overtaken
      <4>4. CASE IsDesc(m)
        <5>1. Led(down[q]) => Led(down'[q])
          BY <2>1, <4>1, <4>4, LedAppend DEF IsDesc
        <5> QED
          BY <4>1, <4>2, <4>3, <4>4, <5>1 DEF DeafInv, OrderInv
      <4>5. CASE m.type = "candidate"
        <5>1. ~Led(up[p])
          BY <2>0, <2>1, <4>5, LedTail
        <5>2. Told(q, p) \/ HasDesc(down[q])
          BY <4>1, <5>1 DEF OrderInv, InOrder
        <5>3. Led(down[q]) /\ HasDesc(down[q]) => Led(down'[q])
          BY <2>1, <4>1, LedAppend
        <5>4. overtook[p] => Overtaken(q)
          BY <3>4 DEF Overtaken
        <5> QED
          BY <4>1, <4>2, <4>3, <5>2, <5>3, <5>4 DEF DeafInv, OrderInv, Told
      <4> QED
        BY <2>7, <4>4, <4>5 DEF IsDesc
    <3>5. CASE p \in room
      <4>1. ASSUME NEW r \in Peers PROVE DeafInv(r)'
        BY <1>0, <2>2, <3>2, <3>4, <3>5, DeafHears
      <4>2. ASSUME NEW q \in room, NEW r \in room, q # r PROVE OrderInv(q, r)'
        <5>1. CASE r = p
          BY <3>4, <3>5, <4>2, <5>1
        <5>2. CASE q = p
          BY <2>1, <2>4, <3>2, <4>2, <5>2, OrderHears DEF OrderAll
        <5> QED
          BY <3>5, <4>2, <5>1, <5>2 DEF RoomInv
      <4> QED
        BY <3>1, <4>1, <4>2 DEF DeafAll, OrderAll
    <3> QED
      BY <3>3, <3>5
  <2>8. CASE m.type = "pong"
    <3>1. room' = room /\ down' = down
      BY <1>14, <2>8 DEF ServerHandles
    <3>2. \A r \in Peers : Hears(r) /\ Sends(r)
      BY <2>3, <2>4, <2>5, <2>8, <3>1 DEF IsDesc
    <3> QED
      BY <1>0, <2>1, <2>2, <3>1, <3>2, DeafHears, OrderHears DEF DeafAll, OrderAll
  <2> QED
    BY <1>14, <2>6, <2>7, <2>8 DEF ServerHandles
<1>15. ASSUME NEW p \in Peers, ServerPings(p) PROVE DeafAll' /\ OrderAll'
  <2>1. /\ Send({p}, Msg("ping")) /\ room' = room /\ room \subseteq Peers
        /\ UNCHANGED <<connection_, gather, posted, up, stopped, overtook, left>>
    BY <1>15, <1>0 DEF ServerPings, TypeOK
  <2>2. Msg("ping") \in Messages /\ Msg("ping").type = "ping"
    BY DEF Msg, Messages, Types
  <2>3. \A r \in Peers : Hears(r) /\ Sends(r)
    BY <1>0, <2>1, <2>2, NewsHears, UntouchedSends
  <2>4. DeafAll'
    BY <1>0, <2>1, <2>3, DeafHears DEF DeafAll
  <2>5. OrderAll'
    BY <2>1, <2>3, OrderHears DEF OrderAll
  <2> QED
    BY <2>4, <2>5
<1>16. ASSUME NEW p \in Peers, ServerLoses(p) PROVE DeafAll' /\ OrderAll'
  <2>1. /\ Send(room \ {p}, Msg("bye")) /\ room' = {}
        /\ UNCHANGED <<connection_, gather, posted, up, stopped, overtook, left>>
    BY <1>16 DEF ServerLoses
  <2>2. Msg("bye") \in Messages /\ Msg("bye").type = "bye"
    BY DEF Msg, Messages, Types
  <2>3. \A r \in Peers : Hears(r) /\ Sends(r)
    BY <1>0, <2>1, <2>2, NewsHears, UntouchedSends
  <2>4. DeafAll'
    BY <1>0, <2>1, <2>3, DeafHears DEF DeafAll
  <2> QED
    BY <2>1, <2>4 DEF OrderAll
<1>17. CASE UNCHANGED vars
  <2>1. room' = room /\ room \subseteq Peers /\ \A r \in Peers : Hears(r) /\ Sends(r)
    BY <1>17, <1>0, UntouchedHears, UntouchedSends DEF vars, TypeOK
  <2>2. \A r \in Peers : overtook[r] => overtook'[r]
    BY <2>1 DEF Sends
  <2> QED
    BY <1>0, <2>1, <2>2, DeafHears, OrderHears DEF DeafAll, OrderAll
<1> QED
  BY <1>1, <1>2, <1>3, <1>4, <1>5, <1>6, <1>7, <1>8, <1>9, <1>10, <1>11, <1>12, <1>13,
     <1>14, <1>15, <1>16, <1>17
  DEF Next, IocStep, SigStep

\* A peer goes deaf over a candidate only if the pool of another peer ran a task before
\* an older one: with one text at a time in the pool no candidate is ever refused.
THEOREM DeafNeedsOvertaking == Spec => []DeafOnlyIfOvertaken
<1>1. DeafAll => DeafOnlyIfOvertaken
  BY DEF DeafAll, DeafInv, Overtaken, DeafOnlyIfOvertaken
<1> QED
  BY <1>1, ExchangeInvariance, OrderInit, OrderNext, PTL DEF Spec

================================================================================
