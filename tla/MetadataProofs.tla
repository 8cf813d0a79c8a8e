----------------------------- MODULE MetadataProofs -----------------------------
(******************************************************************************)
(* Theorems about the two loops of PerformOp that take a metadata batch to    *)
(* JSON and back, for batches of any length.                                  *)
(******************************************************************************)
EXTENDS UrlPartsProofs \* for MinIsLeast

Stages == {"fill", "send", "recv", "ready", "terminated"}

BatchOK ==
    /\ md \in Seq(Keys \X Values)
    /\ stage \in Stages
    /\ pos \in 1..(Len(md) + 1)
    /\ received \in Seq(Keys \X Values)

\* jmeta holds what the entries in front of pos leave: for each key its last value.
LoopInv ==
    /\ \A k \in DOMAIN jmeta :
          \E i \in 1..(pos - 1) :
              /\ md[i][1] = k /\ jmeta[k] = CString(md[i][2])
              /\ \A j \in (i + 1)..(pos - 1) : md[j][1] # k
    /\ \A i \in 1..(pos - 1) : md[i][1] \in DOMAIN jmeta
    /\ stage = "fill" => pos = 1
    /\ stage \notin {"fill", "send"} => pos = Len(md) + 1

\* The receive lambda has added the items it has visited, and those it has not are
\* behind them.
VisitInv ==
    /\ stage \in {"fill", "send"} => received = <<>> /\ items = {}
    /\ stage = "terminated" => \E k \in DOMAIN jmeta : jmeta[k] = "bin"
    /\ stage = "ready" => items = {}
    /\ stage \in {"recv", "ready"} =>
          /\ items \subseteq DOMAIN jmeta
          /\ \A k \in DOMAIN jmeta : jmeta[k] # "bin"
          /\ \A k \in DOMAIN jmeta \ items : \E j \in 1..Len(received) : received[j][1] = k
          /\ \A j \in 1..Len(received) :
                /\ received[j][1] \in DOMAIN jmeta
                /\ received[j][2] = jmeta[received[j][1]]
                /\ \A k \in items : received[j][1] < k
          /\ Ascending(received)

Clean == Ascending(md) /\ \A i \in 1..Len(md) : md[i][2] \in {"ok", "cut"}

\* A batch in order is received entry by entry.
PrefixInv ==
    stage \in {"recv", "ready"} /\ Clean =>
        \A j \in 1..Len(received) : j <= Len(md) /\ received[j] = md[j]

MetaInv == BatchOK /\ LoopInv /\ VisitInv /\ PrefixInv

--------------------------------------------------------------------------------
(******************************************************************************)
(* The steps.                                                                 *)
(******************************************************************************)
LEMMA MetaInit == MetadataInit => MetaInv
<1> SUFFICES ASSUME MetadataInit PROVE MetaInv
  OBVIOUS
<1>1. md = <<>> /\ stage = "fill" /\ pos = 1 /\ jmeta = <<>> /\ items = {} /\ received = <<>>
  BY DEF MetadataInit
<1>2. <<>> \in Seq(Keys \X Values) /\ Len(<<>>) = 0 /\ DOMAIN <<>> = {}
  OBVIOUS
<1>3. BatchOK
  BY <1>1, <1>2 DEF BatchOK, Stages
<1>4. LoopInv
  BY <1>1, <1>2 DEF LoopInv
<1>5. VisitInv /\ PrefixInv
  BY <1>1 DEF VisitInv, PrefixInv
<1> QED
  BY <1>3, <1>4, <1>5 DEF MetaInv

\* Core may fill the batch until the loop begins.
LEMMA AddEntryKeeps == MetaInv /\ AddEntry => MetaInv'
<1> SUFFICES ASSUME MetaInv, AddEntry PROVE MetaInv'
  OBVIOUS
<1>1. /\ stage = "fill" /\ stage' = stage /\ pos' = pos /\ jmeta' = jmeta
      /\ items' = items /\ received' = received
  BY DEF AddEntry
<1>2. PICK key \in Keys, value \in Values : md' = Append(md, <<key, value>>)
  BY DEF AddEntry
<1>3. md \in Seq(Keys \X Values) /\ Len(md) \in Nat /\ pos = 1
  BY <1>1 DEF MetaInv, BatchOK, LoopInv
<1>4. md' \in Seq(Keys \X Values) /\ Len(md') \in Nat
  BY <1>2, <1>3
<1>5. BatchOK'
  BY <1>1, <1>3, <1>4 DEF MetaInv, BatchOK
<1>6. LoopInv'
  <2>1. 1..(pos - 1) = {}
    BY <1>3
  <2>2. DOMAIN jmeta = {}
    BY <2>1 DEF MetaInv, LoopInv
  <2> QED
    BY <1>1, <1>3, <2>1, <2>2 DEF LoopInv
<1>7. VisitInv' /\ PrefixInv'
  BY <1>1 DEF MetaInv, VisitInv, PrefixInv
<1> QED
  BY <1>5, <1>6, <1>7 DEF MetaInv

LEMMA IssueSendKeeps == MetaInv /\ IssueSend => MetaInv'
<1> SUFFICES ASSUME MetaInv, IssueSend PROVE MetaInv'
  OBVIOUS
<1>1. /\ stage = "fill" /\ stage' = "send" /\ pos' = pos /\ jmeta' = jmeta /\ md' = md
      /\ items' = items /\ received' = received
  BY DEF IssueSend
<1>2. BatchOK'
  BY <1>1 DEF MetaInv, BatchOK, Stages
<1>3. LoopInv'
  BY <1>1 DEF MetaInv, LoopInv
<1>4. VisitInv' /\ PrefixInv'
  BY <1>1 DEF MetaInv, VisitInv, PrefixInv
<1> QED
  BY <1>2, <1>3, <1>4 DEF MetaInv

\* An iteration of the loop of PerformOp.
LEMMA SendEntryKeeps == MetaInv /\ SendEntry => MetaInv'
<1> SUFFICES ASSUME MetaInv, SendEntry PROVE MetaInv'
  OBVIOUS
<1> DEFINE key == md[pos][1]
           value == CString(md[pos][2])
<1>1. /\ stage = "send" /\ stage' = stage /\ pos <= Len(md) /\ pos' = pos + 1 /\ md' = md
      /\ items' = items /\ received' = received
      /\ jmeta' = [k \in DOMAIN jmeta \cup {key} |-> IF k = key THEN value ELSE jmeta[k]]
  BY DEF SendEntry, Assigned
<1> HIDE DEF key, value
<1>2. /\ md \in Seq(Keys \X Values) /\ Len(md) \in Nat /\ pos \in Nat /\ pos >= 1
      /\ pos \in 1..(pos' - 1) /\ \A i \in 1..(pos - 1) : i \in 1..(pos' - 1)
      /\ \A i \in 1..(pos' - 1) : i \in 1..(pos - 1) \/ i = pos
  BY <1>1 DEF MetaInv, BatchOK
<1>3. BatchOK'
  BY <1>1, <1>2 DEF MetaInv, BatchOK
<1>4. DOMAIN jmeta' = DOMAIN jmeta \cup {key} /\ jmeta'[key] = value
  BY <1>1
<1>5. ASSUME NEW k \in DOMAIN jmeta'
      PROVE  \E i \in 1..(pos' - 1) :
                /\ md[i][1] = k /\ jmeta'[k] = CString(md[i][2])
                /\ \A j \in (i + 1)..(pos' - 1) : md[j][1] # k
  <2>1. CASE k = key
    <3>1. (pos + 1)..(pos' - 1) = {}
      BY <1>1, <1>2
    <3> QED
      BY <1>2, <1>4, <2>1, <3>1 DEF key, value
  <2>2. CASE k # key
    <3>1. k \in DOMAIN jmeta /\ jmeta'[k] = jmeta[k]
      BY <1>1, <1>4, <2>2
    <3>2. PICK i \in 1..(pos - 1) :
             /\ md[i][1] = k /\ jmeta[k] = CString(md[i][2])
             /\ \A j \in (i + 1)..(pos - 1) : md[j][1] # k
      BY <3>1 DEF MetaInv, LoopInv
    <3>3. ASSUME NEW j \in (i + 1)..(pos' - 1) PROVE md[j][1] # k
      <4>1. j \in (i + 1)..(pos - 1) \/ j = pos
        BY <1>1, <1>2
      <4> QED
        BY <2>2, <3>2, <4>1 DEF key
    <3> QED
      BY <1>2, <3>1, <3>2, <3>3
  <2> QED
    BY <2>1, <2>2
<1>6. \A i \in 1..(pos' - 1) : md[i][1] \in DOMAIN jmeta'
  BY <1>2, <1>4 DEF MetaInv, LoopInv, key
<1>7. LoopInv'
  <2>1. md' = md /\ stage' = "send"
    BY <1>1
  <2> QED
    BY <1>5, <1>6, <2>1 DEF LoopInv
<1>8. VisitInv' /\ PrefixInv'
  BY <1>1 DEF MetaInv, VisitInv, PrefixInv
<1> QED
  BY <1>3, <1>7, <1>8 DEF MetaInv

\* dump() ends the loop, and the process if it throws.
LEMMA DumpKeeps == MetaInv /\ Dump => MetaInv'
<1> SUFFICES ASSUME MetaInv, Dump PROVE MetaInv'
  OBVIOUS
<1>1. /\ stage = "send" /\ pos > Len(md) /\ md' = md /\ pos' = pos /\ jmeta' = jmeta
      /\ received' = received /\ items' = DOMAIN jmeta
  BY DEF Dump
<1>2. \/ stage' = "terminated" /\ \E k \in DOMAIN jmeta : jmeta[k] = "bin"
      \/ stage' = "recv" /\ \A k \in DOMAIN jmeta : jmeta[k] # "bin"
  BY DEF Dump
<1>3. received = <<>> /\ Len(<<>>) = 0
  BY <1>1 DEF MetaInv, VisitInv
<1>4. BatchOK'
  BY <1>1, <1>2 DEF MetaInv, BatchOK, Stages
<1>5. pos = Len(md) + 1
  BY <1>1 DEF MetaInv, BatchOK
<1>6. LoopInv'
  BY <1>1, <1>2, <1>5 DEF MetaInv, LoopInv
<1>7. 1..Len(received') = {}
  BY <1>1, <1>3
<1>8. VisitInv'
  BY <1>1, <1>2, <1>7 DEF VisitInv, Ascending
<1>9. PrefixInv'
  BY <1>7 DEF PrefixInv
<1> QED
  BY <1>4, <1>6, <1>8, <1>9 DEF MetaInv

\* The entries of a batch are pairs, and so are those of what is received.
LEMMA PairsOfBatch ==
  ASSUME NEW batch \in Seq(Keys \X Values), NEW i \in 1..Len(batch)
  PROVE  /\ batch[i] = <<batch[i][1], batch[i][2]>>
         /\ batch[i][1] \in Keys /\ batch[i][2] \in Values /\ batch[i][1] \in Nat
<1>1. batch[i] \in Keys \X Values
  OBVIOUS
<1>2. \A e \in Keys \X Values : e = <<e[1], e[2]>> /\ e[1] \in Keys /\ e[2] \in Values
  OBVIOUS
<1> QED
  BY <1>1, <1>2, KeysAssumption, Zenon

\* After the loop jmeta is made of the last values.
LEMMA JsonIsLast ==
  ASSUME MetaInv, stage \notin {"fill", "send"}
  PROVE  /\ \A k \in DOMAIN jmeta : \E i \in 1..Len(md) :
               md[i][1] = k /\ jmeta[k] = CString(md[i][2]) /\ IsLast(i)
         /\ \A i \in 1..Len(md) : md[i][1] \in DOMAIN jmeta
         /\ \A k \in DOMAIN jmeta : k \in Nat /\ k \in Keys /\ jmeta[k] \in Values
<1>1. md \in Seq(Keys \X Values) /\ Len(md) \in Nat /\ pos - 1 = Len(md)
  BY DEF MetaInv, BatchOK, LoopInv
<1>2. ASSUME NEW k \in DOMAIN jmeta
      PROVE  \E i \in 1..Len(md) : md[i][1] = k /\ jmeta[k] = CString(md[i][2]) /\ IsLast(i)
  <2>1. PICK i \in 1..Len(md) :
           /\ md[i][1] = k /\ jmeta[k] = CString(md[i][2])
           /\ \A j \in (i + 1)..Len(md) : md[j][1] # k
    BY <1>1 DEF MetaInv, LoopInv
  <2>2. ASSUME NEW j \in 1..Len(md), j > i PROVE j \in (i + 1)..Len(md)
    BY <1>1, <2>2
  <2> QED
    BY <2>1, <2>2 DEF IsLast
<1>3. \A i \in 1..Len(md) : md[i][1] \in DOMAIN jmeta
  BY <1>1 DEF MetaInv, LoopInv
<1>4. ASSUME NEW k \in DOMAIN jmeta PROVE k \in Nat /\ k \in Keys /\ jmeta[k] \in Values
  <2>1. PICK i \in 1..Len(md) : md[i][1] = k /\ jmeta[k] = CString(md[i][2])
    BY <1>2
  <2>2. md[i][1] \in Keys /\ md[i][2] \in Values /\ md[i][1] \in Nat
    BY <1>1, PairsOfBatch
  <2> QED
    BY <2>1, <2>2 DEF CString, Values
<1> QED
  BY <1>2, <1>3, <1>4

\* An iteration of the loop of the receive lambda.
LEMMA AddTailKeeps == MetaInv /\ AddTail => MetaInv'
<1> SUFFICES ASSUME MetaInv, AddTail PROVE MetaInv'
  OBVIOUS
<1> DEFINE key == Min(items)
           n == Len(received) + 1
<1>1. /\ stage = "recv" /\ items # {} /\ md' = md /\ stage' = stage /\ pos' = pos
      /\ jmeta' = jmeta /\ received' = Append(received, <<key, jmeta[key]>>)
      /\ items' = items \ {key}
  BY DEF AddTail
<1>2. /\ \A k \in DOMAIN jmeta : \E i \in 1..Len(md) :
            md[i][1] = k /\ jmeta[k] = CString(md[i][2]) /\ IsLast(i)
      /\ \A i \in 1..Len(md) : md[i][1] \in DOMAIN jmeta
      /\ \A k \in DOMAIN jmeta : k \in Nat /\ k \in Keys /\ jmeta[k] \in Values
  BY <1>1, JsonIsLast
<1>3. /\ items \subseteq DOMAIN jmeta
      /\ \A k \in DOMAIN jmeta : jmeta[k] # "bin"
      /\ \A k \in DOMAIN jmeta \ items : \E j \in 1..Len(received) : received[j][1] = k
      /\ \A j \in 1..Len(received) :
            /\ received[j][1] \in DOMAIN jmeta
            /\ received[j][2] = jmeta[received[j][1]]
            /\ \A k \in items : received[j][1] < k
      /\ Ascending(received)
  BY <1>1 DEF MetaInv, VisitInv
<1>4. key \in items /\ \A k \in items : key <= k
  BY <1>1, <1>2, <1>3, MinIsLeast
<1> HIDE DEF key
<1>5. key \in DOMAIN jmeta /\ key \in Nat /\ <<key, jmeta[key]>> \in Keys \X Values
  BY <1>2, <1>3, <1>4
<1>6. /\ md \in Seq(Keys \X Values) /\ Len(md) \in Nat
      /\ received \in Seq(Keys \X Values) /\ Len(received) \in Nat
  BY DEF MetaInv, BatchOK
<1>7. /\ received' \in Seq(Keys \X Values) /\ Len(received') = n
      /\ received'[n] = <<key, jmeta[key]>>
      /\ \A j \in 1..Len(received) : received'[j] = received[j]
      /\ \A j \in 1..n : j \in 1..Len(received) \/ j = n
      /\ n \in 1..n /\ \A j \in 1..Len(received) : j \in 1..n /\ j < n
  BY <1>1, <1>5, <1>6
<1>8. BatchOK'
  BY <1>1, <1>7 DEF MetaInv, BatchOK
<1>9. LoopInv'
  BY <1>1 DEF MetaInv, LoopInv
<1>10. received'[n][1] = key /\ received'[n][2] = jmeta[key]
  BY <1>7
<1>11. VisitInv'
  <2>1. ASSUME NEW k \in DOMAIN jmeta \ items'
        PROVE  \E j \in 1..n : received'[j][1] = k
    <3>1. CASE k = key
      BY <1>7, <1>10, <3>1
    <3>2. CASE k # key
      <4>1. k \in DOMAIN jmeta \ items
        BY <1>1, <3>2
      <4>2. PICK j \in 1..Len(received) : received[j][1] = k
        BY <1>3, <4>1
      <4> QED
        BY <1>7, <4>2
    <3> QED
      BY <3>1, <3>2
  <2>2. ASSUME NEW j \in 1..n
        PROVE  /\ received'[j][1] \in DOMAIN jmeta
               /\ received'[j][2] = jmeta[received'[j][1]]
               /\ \A k \in items' : received'[j][1] < k
    <3>1. CASE j \in 1..Len(received)
      BY <1>1, <1>3, <1>7, <3>1
    <3>2. CASE j = n
      <4>1. ASSUME NEW k \in items' PROVE key < k
        <5>1. k \in items /\ k # key /\ key <= k /\ k \in Nat
          BY <1>1, <1>2, <1>3, <1>4
        <5> QED
          BY <1>5, <5>1
      <4> QED
        BY <1>5, <1>10, <3>2, <4>1
    <3> QED
      BY <1>7, <3>1, <3>2
  <2>3. ASSUME NEW i \in 1..n, NEW j \in 1..n, i < j
        PROVE  received'[i][1] < received'[j][1]
    <3>1. i \in 1..Len(received)
      BY <1>6, <2>3
    <3>2. CASE j \in 1..Len(received)
      BY <1>3, <1>7, <2>3, <3>1, <3>2 DEF Ascending
    <3>3. CASE j = n
      BY <1>3, <1>4, <1>7, <1>10, <3>1, <3>3
    <3> QED
      BY <1>7, <3>2, <3>3
  <2>4. Ascending(received')
    BY <1>7, <2>3 DEF Ascending
  <2>5. items' \subseteq DOMAIN jmeta
    BY <1>1, <1>3
  <2>6. stage' = "recv" /\ jmeta' = jmeta /\ Len(received') = n
    BY <1>1, <1>7
  <2> QED
    BY <1>3, <2>1, <2>2, <2>4, <2>5, <2>6 DEF VisitInv
<1>12. PrefixInv'
  <2> SUFFICES ASSUME Clean PROVE \A j \in 1..n : j <= Len(md) /\ received'[j] = md[j]
    BY <1>1, <1>7 DEF PrefixInv, Clean
  <2>1. \A j \in 1..Len(received) : j <= Len(md) /\ received[j] = md[j]
    BY <1>1 DEF MetaInv, PrefixInv
  <2>2. PICK i \in 1..Len(md) : md[i][1] = key /\ jmeta[key] = CString(md[i][2])
    BY <1>2, <1>5
  <2>3. i \notin 1..Len(received)
    <3>1. ASSUME i \in 1..Len(received) PROVE FALSE
      <4>1. received[i][1] = key
        BY <2>1, <2>2, <3>1
      <4>2. received[i][1] < key
        BY <1>3, <1>4, <3>1
      <4> QED
        BY <1>5, <4>1, <4>2
    <3> QED
      BY <3>1
  <2>4. i >= n /\ n \in 1..Len(md)
    BY <1>6, <2>2, <2>3
  <2>5. md[n][1] \in items
    <3>1. md[n][1] \in DOMAIN jmeta
      BY <1>2, <2>4
    <3>2. ASSUME NEW j \in 1..Len(received) PROVE received[j][1] # md[n][1]
      <4>1. /\ received[j] = md[j] /\ j \in 1..Len(md) /\ j < n
        BY <1>6, <1>7, <2>1
      <4>2. md[j][1] < md[n][1]
        BY <2>4, <4>1 DEF Clean, Ascending
      <4>3. md[j][1] \in Nat /\ md[n][1] \in Nat
        BY <1>6, <2>4, <4>1, PairsOfBatch
      <4> QED
        BY <4>1, <4>2, <4>3
    <3> QED
      BY <1>3, <3>1, <3>2
  <2>6. i = n
    <3>1. key <= md[n][1] /\ md[i][1] \in Nat /\ md[n][1] \in Nat
      BY <1>4, <1>6, <2>4, <2>5, PairsOfBatch
    <3>2. n < i => md[n][1] < md[i][1]
      BY <2>2, <2>4 DEF Clean, Ascending
    <3> QED
      BY <1>6, <2>2, <2>4, <3>1, <3>2
  <2>7. received'[n] = md[n]
    <3>1. md[n] = <<md[n][1], md[n][2]>>
      BY <1>6, <2>4, PairsOfBatch
    <3>2. md[n][2] \in {"ok", "cut"}
      BY <2>4 DEF Clean
    <3>3. jmeta[key] = md[n][2]
      BY <2>2, <2>6, <3>2 DEF CString
    <3> QED
      BY <1>7, <2>2, <2>6, <3>1, <3>3
  <2> QED
    BY <1>7, <2>1, <2>4, <2>7
<1> QED
  BY <1>8, <1>9, <1>11, <1>12 DEF MetaInv

LEMMA RecvReadyKeeps == MetaInv /\ RecvReady => MetaInv'
<1> SUFFICES ASSUME MetaInv, RecvReady PROVE MetaInv'
  OBVIOUS
<1>1. /\ stage = "recv" /\ stage' = "ready" /\ items = {} /\ md' = md /\ pos' = pos
      /\ jmeta' = jmeta /\ items' = items /\ received' = received
  BY DEF RecvReady
<1>2. BatchOK'
  BY <1>1 DEF MetaInv, BatchOK, Stages
<1>3. LoopInv'
  BY <1>1 DEF MetaInv, LoopInv
<1>4. VisitInv'
  BY <1>1 DEF MetaInv, VisitInv, Ascending
<1>5. PrefixInv'
  BY <1>1 DEF MetaInv, PrefixInv, Clean, Ascending
<1> QED
  BY <1>2, <1>3, <1>4, <1>5 DEF MetaInv

--------------------------------------------------------------------------------
(******************************************************************************)
(* The theorems.                                                              *)
(******************************************************************************)

\* What the two loops have done so far: the inductive invariant of the codec.
THEOREM CodecInvariance == Spec => []MetaInv
<1>1. Init => MetaInv
  BY MetaInit DEF Init
<1>2. MetaInv /\ [Next]_vars => MetaInv'
  <2> SUFFICES ASSUME MetaInv, [Next]_vars PROVE MetaInv'
    OBVIOUS
  <2>1. CASE Transfer
    BY <2>1, AddEntryKeeps, IssueSendKeeps, SendEntryKeeps, DumpKeeps, AddTailKeeps,
       RecvReadyKeeps DEF Transfer, MetadataNext
  <2>2. CASE UNCHANGED metadataVars
    BY <2>2 DEF metadataVars, MetaInv, BatchOK, LoopInv, VisitInv, PrefixInv, Clean, Ascending
  <2> QED
    BY <2>1, <2>2 DEF Next, TypeUrl, WriteParts, vars
<1> QED
  BY <1>1, <1>2, PTL DEF Spec

\* A metadata batch of any length arrives as it was sent exactly if its keys are in
\* strictly increasing order and no value holds a NUL byte or is not UTF-8: what
\* jmeta[key] = value, grpc_slice_to_c_string and dump() together leave of it.
THEOREM ExactlyCleanArrives == Spec => []MetadataArrives
<1>1. ASSUME MetaInv PROVE MetadataArrives
  <2> SUFFICES ASSUME stage \in {"ready", "terminated"}
               PROVE  (stage = "ready" /\ received = md) <=> Clean
    BY DEF MetadataArrives, Clean
  <2>1. /\ md \in Seq(Keys \X Values) /\ Len(md) \in Nat
        /\ received \in Seq(Keys \X Values) /\ Len(received) \in Nat
    BY <1>1 DEF MetaInv, BatchOK
  <2>2. /\ \A k \in DOMAIN jmeta : \E i \in 1..Len(md) :
              md[i][1] = k /\ jmeta[k] = CString(md[i][2]) /\ IsLast(i)
        /\ \A i \in 1..Len(md) : md[i][1] \in DOMAIN jmeta
        /\ \A k \in DOMAIN jmeta : k \in Nat /\ k \in Keys /\ jmeta[k] \in Values
    BY <1>1, JsonIsLast
  <2>3. ASSUME stage = "ready", received = md PROVE Clean
    <3>1. Ascending(md)
      BY <1>1, <2>3 DEF MetaInv, VisitInv
    <3>2. ASSUME NEW i \in 1..Len(md) PROVE md[i][2] \in {"ok", "cut"}
      <4>1. md[i][2] = jmeta[md[i][1]] /\ md[i][1] \in DOMAIN jmeta /\ md[i][2] # "bin"
        BY <1>1, <2>3 DEF MetaInv, VisitInv
      <4>2. PICK j \in 1..Len(md) : jmeta[md[i][1]] = CString(md[j][2])
        BY <2>2, <4>1
      <4>3. md[i][2] \in Values /\ md[j][2] \in Values
        BY <2>1, PairsOfBatch
      <4> QED
        BY <4>1, <4>2, <4>3 DEF CString, Values
    <3> QED
      BY <3>1, <3>2 DEF Clean
  <2>4. ASSUME Clean PROVE stage = "ready" /\ received = md
    <3>1. stage # "terminated"
      <4>1. \A k \in DOMAIN jmeta : jmeta[k] # "bin"
        BY <2>2, <2>4 DEF Clean, CString
      <4> QED
        BY <1>1, <4>1 DEF MetaInv, VisitInv
    <3>2. stage = "ready"
      BY <3>1
    <3>3. \A j \in 1..Len(received) : j <= Len(md) /\ received[j] = md[j]
      BY <1>1, <2>4, <3>2 DEF MetaInv, PrefixInv
    <3>4. Len(received) <= Len(md)
      <4>1. CASE Len(received) = 0
        BY <2>1, <4>1
      <4>2. CASE Len(received) # 0
        BY <2>1, <3>3, <4>2
      <4> QED
        BY <4>1, <4>2
    <3>5. ASSUME Len(received) < Len(md) PROVE FALSE
      <4> DEFINE n == Len(received) + 1
      <4>1. n \in 1..Len(md) /\ \A j \in 1..Len(received) : j < n /\ j \in 1..Len(md)
        BY <2>1, <3>5
      <4> HIDE DEF n
      <4>2. md[n][1] \in DOMAIN jmeta
        BY <2>2, <4>1
      <4>3. PICK j \in 1..Len(received) : received[j][1] = md[n][1]
        BY <1>1, <3>2, <4>2 DEF MetaInv, VisitInv
      <4>4. md[j][1] = md[n][1] /\ j < n /\ j \in 1..Len(md)
        BY <3>3, <4>1, <4>3
      <4>5. md[j][1] < md[n][1] /\ md[j][1] \in Nat
        BY <2>1, <2>4, <4>1, <4>4, PairsOfBatch DEF Clean, Ascending
      <4> QED
        BY <4>4, <4>5
    <3>6. Len(received) = Len(md)
      BY <2>1, <3>4, <3>5
    <3>7. received = md
      BY <2>1, <3>3, <3>6, SeqEqual
    <3> QED
      BY <3>2, <3>7
  <2> QED
    BY <2>3, <2>4
<1> QED
  BY <1>1, CodecInvariance, PTL

\* Of a batch of any length the last value of each key arrives, once, in the order of
\* the keys and cut at its NUL byte, and PerformOp throws exactly if such a value is
\* not UTF-8.
THEOREM LastWins == Spec => []LastValueArrives
<1>1. ASSUME MetaInv PROVE LastValueArrives
  <2> DEFINE last == {i \in 1..Len(md) : IsLast(i)}
             what(i) == IF md[i][2] = "nul" THEN "cut" ELSE md[i][2]
  <2>1. /\ md \in Seq(Keys \X Values) /\ Len(md) \in Nat
        /\ received \in Seq(Keys \X Values) /\ Len(received) \in Nat
    BY <1>1 DEF MetaInv, BatchOK
  <2>2. \A i \in 1..Len(md) : what(i) = CString(md[i][2])
    BY DEF CString
  <2>3. ASSUME NEW i \in last, NEW j \in last, md[i][1] = md[j][1] PROVE i = j
    <3>1. ~(i < j) /\ ~(j < i)
      BY <2>3 DEF IsLast
    <3> QED
      BY <2>1, <3>1
  <2>4. ASSUME stage \notin {"fill", "send"}
        PROVE  /\ \A k \in DOMAIN jmeta : \E i \in last :
                     md[i][1] = k /\ jmeta[k] = what(i)
               /\ \A i \in last : md[i][1] \in DOMAIN jmeta /\ jmeta[md[i][1]] = what(i)
    <3>1. \A k \in DOMAIN jmeta : \E i \in last : md[i][1] = k /\ jmeta[k] = what(i)
      <4>1. \A k \in DOMAIN jmeta : \E i \in 1..Len(md) :
               md[i][1] = k /\ jmeta[k] = CString(md[i][2]) /\ IsLast(i)
        BY <1>1, <2>4, JsonIsLast
      <4> HIDE DEF what
      <4> QED
        BY <2>2, <4>1
    <3>2. ASSUME NEW i \in last
          PROVE  md[i][1] \in DOMAIN jmeta /\ jmeta[md[i][1]] = what(i)
      <4>1. md[i][1] \in DOMAIN jmeta
        BY <1>1, <2>4, JsonIsLast
      <4>2. PICK j \in last : md[j][1] = md[i][1] /\ jmeta[md[i][1]] = what(j)
        BY <3>1, <4>1
      <4>3. i = j
        BY <2>3, <4>2
      <4> QED
        BY <4>1, <4>2, <4>3
    <3> QED
      BY <3>1, <3>2
  <2>5. ASSUME stage = "terminated" PROVE \E i \in last : md[i][2] = "bin"
    <3>1. PICK k \in DOMAIN jmeta : jmeta[k] = "bin"
      BY <1>1, <2>5 DEF MetaInv, VisitInv
    <3>2. PICK i \in last : jmeta[k] = what(i)
      BY <2>4, <2>5
    <3> QED
      BY <3>1, <3>2
  <2>6. ASSUME stage = "ready"
        PROVE  /\ \A i \in last : md[i][2] # "bin"
               /\ Ascending(received)
               /\ {received[j] : j \in 1..Len(received)} = {<<md[i][1], what(i)>> : i \in last}
    <3>1. /\ \A k \in DOMAIN jmeta : jmeta[k] # "bin"
          /\ Ascending(received)
          /\ \A k \in DOMAIN jmeta : \E j \in 1..Len(received) : received[j][1] = k
          /\ \A j \in 1..Len(received) :
                received[j][1] \in DOMAIN jmeta /\ received[j][2] = jmeta[received[j][1]]
      BY <1>1, <2>6 DEF MetaInv, VisitInv
    <3>2. \A i \in last : md[i][1] \in DOMAIN jmeta /\ jmeta[md[i][1]] = what(i)
      BY <2>4, <2>6
    <3>3. \A i \in last : md[i][2] # "bin"
      BY <3>1, <3>2
    <3>4. ASSUME NEW j \in 1..Len(received)
          PROVE  \E i \in last : received[j] = <<md[i][1], what(i)>>
      <4>1. PICK i \in last : md[i][1] = received[j][1] /\ jmeta[received[j][1]] = what(i)
        BY <2>4, <2>6, <3>1
      <4>2. received[j] = <<received[j][1], received[j][2]>>
        BY <2>1, PairsOfBatch
      <4> QED
        BY <3>1, <4>1, <4>2
    <3>5. ASSUME NEW i \in last
          PROVE  \E j \in 1..Len(received) : received[j] = <<md[i][1], what(i)>>
      <4>1. PICK j \in 1..Len(received) : received[j][1] = md[i][1]
        BY <3>1, <3>2
      <4>2. received[j] = <<received[j][1], received[j][2]>>
        BY <2>1, PairsOfBatch
      <4> QED
        BY <3>1, <3>2, <4>1, <4>2
    <3>6. {received[j] : j \in 1..Len(received)} = {<<md[i][1], what(i)>> : i \in last}
      <4> HIDE DEF last, what
      <4> QED
        BY <3>4, <3>5
    <3> QED
      BY <3>1, <3>3, <3>6
  <2> QED
    BY <2>5, <2>6, Zenon DEF LastValueArrives
<1> QED
  BY <1>1, CodecInvariance, PTL
================================================================================
