------------------------- MODULE SignalingWriterProofs -------------------------
(******************************************************************************)
(* Theorems about SignalingWriter, for any number of pool threads and texts:  *)
(* what the lock-free use of write_buffer_ guarantees as long as no two       *)
(* threads are inside it at once.                                             *)
(******************************************************************************)
EXTENDS SignalingWriter, TLAPS

\* The conditions and values that the actions name are expanded everywhere.
USE DEF BoundText, WritesAfterPush, AfterError, Erase, MoreToWrite

\* A worker inside DoSendText has a text.
TextInv == \A w \in Workers : wpc[w] # "idle" => text[w] \in Texts

\* At most one thread is inside the buffer.
Exclusive ==
    /\ \A v, w \in Workers : WorkerInside(v) /\ WorkerInside(w) => v = w
    /\ \A w \in Workers : WorkerInside(w) => ~IocInside

\* What a worker found in its test still holds when it acts on it.
TestHolds ==
    /\ \A w \in Workers : wpc[w] = "push" => empty[w] = (write_buffer_ = <<>>)
    /\ \A w \in Workers : wpc[w] = "write" => write_buffer_ # <<>> /\ writing = {} /\ ipc = "idle" /\ ~failed

\* Who is about to write, and that there is something to write.
WriteInv ==
    /\ \A m \in writing : write_buffer_ # <<>> /\ m = Head(write_buffer_)
    /\ writing # {} => ipc = "idle" /\ ~failed
    /\ ipc = "erase" => write_buffer_ # <<>>
    /\ ipc # "idle" => ~failed
    /\ failed => write_buffer_ # <<>>

\* OnWrite erases a text that is on the wire.
ErasesWritten == ipc = "erase" => Len(wire) >= 1

RaceFreeInv ==
    /\ Exclusive /\ TestHolds /\ WriteInv /\ ErasesWritten
    /\ WireInPushOrder /\ BufferIsServed

Inv == TypeOK /\ TextInv /\ (~raced => RaceFreeInv)

--------------------------------------------------------------------------------
LEMMA TypeInit == Init => TypeOK /\ TextInv
<1> SUFFICES ASSUME Init PROVE TypeOK /\ TextInv
  OBVIOUS
<1>1. posted \in Seq(Texts) /\ write_buffer_ \in Seq(Texts) /\ wire \in Seq(Texts) /\ pushed \in Seq(Texts)
  BY DEF Init
<1> QED
  BY <1>1, Zenon DEF Init, TypeOK, TextInv

LEMMA TypeNext == TypeOK /\ TextInv /\ [Next]_vars => (TypeOK /\ TextInv)'
<1> SUFFICES ASSUME TypeOK, TextInv, [Next]_vars PROVE (TypeOK /\ TextInv)'
  OBVIOUS
<1> USE WriterAssumption DEF TypeOK, TextInv, workerVars
<1>1. ASSUME NEW m \in Texts, SendText(m) PROVE (TypeOK /\ TextInv)'
  BY <1>1 DEF SendText
<1>2. ASSUME NEW m \in Texts, WriteCompletes(m) PROVE (TypeOK /\ TextInv)'
  BY <1>2 DEF WriteCompletes
<1>3. ASSUME NEW m \in Texts, WriteFails(m) PROVE (TypeOK /\ TextInv)'
  BY <1>3 DEF WriteFails
<1>4. ASSUME NEW w \in Workers, TakeTask(w) PROVE (TypeOK /\ TextInv)'
  <2>1. Head(posted) \in Texts /\ Tail(posted) \in Seq(Texts)
    BY <1>4 DEF TakeTask
  <2> QED
    BY <1>4, <2>1 DEF TakeTask
<1>5. ASSUME NEW w \in Workers, TestEmpty(w) PROVE (TypeOK /\ TextInv)'
  BY <1>5 DEF TestEmpty
<1>6. ASSUME NEW w \in Workers, PushBack(w) PROVE (TypeOK /\ TextInv)'
  <2>1. text[w] \in Texts
    BY <1>6 DEF PushBack
  <2>2. write_buffer_' \in Seq(Texts) /\ pushed' \in Seq(Texts)
    <3>1. Append(write_buffer_, text[w]) \in Seq(Texts) /\ Append(pushed, text[w]) \in Seq(Texts)
      BY <2>1
    <3> QED
      BY <1>6, <3>1 DEF PushBack
  <2>3. wpc' \in [Workers -> {"idle", "test", "push", "write"}]
    BY <1>6 DEF PushBack
  <2>4. TextInv'
    BY <1>6 DEF PushBack
  <2> QED
    BY <1>6, <2>2, <2>3, <2>4 DEF PushBack
<1>7. ASSUME NEW w \in Workers, DoWrite(w) PROVE (TypeOK /\ TextInv)'
  BY <1>7 DEF DoWrite, StartWrite
<1>8. CASE EraseFirst
  BY <1>8 DEF EraseFirst
<1>9. CASE WriteMore
  BY <1>9 DEF WriteMore, StartWrite
<1>10. CASE UNCHANGED vars
  BY <1>10 DEF vars
<1> QED
  BY <1>1, <1>2, <1>3, <1>4, <1>5, <1>6, <1>7, <1>8, <1>9, <1>10
  DEF Next, WorkerStep, IocStep


\* raced is never reset.
LEMMA RacedStays == [Next]_vars /\ raced => raced'
  BY DEF Next, WorkerStep, IocStep, SendText, WriteCompletes, WriteFails, TakeTask,
     TestEmpty, PushBack, DoWrite, EraseFirst, WriteMore, vars

LEMMA RaceFreeInit == Init => RaceFreeInv
<1> SUFFICES ASSUME Init PROVE RaceFreeInv
  OBVIOUS
<1>1. Exclusive /\ TestHolds /\ WriteInv /\ ErasesWritten
  BY DEF Init, Exclusive, TestHolds, WriteInv, ErasesWritten, WorkerInside, IocInside
<1>2. WireInPushOrder /\ BufferIsServed
  BY DEF Init, WireInPushOrder, BufferIsServed
<1> QED
  BY <1>1, <1>2 DEF RaceFreeInv

LEMMA RaceFreeNext ==
  ASSUME TypeOK, TextInv, RaceFreeInv, [Next]_vars, ~raced, ~raced'
  PROVE  RaceFreeInv'
<1> USE WriterAssumption DEF RaceFreeInv, workerVars
<1>1. ASSUME NEW m \in Texts, SendText(m) PROVE RaceFreeInv'
  BY <1>1 DEF SendText, ErasesWritten, Exclusive, TestHolds, WriteInv, WireInPushOrder, BufferIsServed,
     WorkerInside, IocInside, WillWrite
<1>2. ASSUME NEW m \in Texts, WriteCompletes(m) PROVE RaceFreeInv'
  <2>1. /\ m = Head(write_buffer_) /\ write_buffer_ # <<>> /\ ipc = "idle" /\ ~failed
        /\ writing' = {} /\ ipc' = "erase" /\ wire' = Append(wire, m)
        /\ UNCHANGED <<workerVars, write_buffer_, failed, pushed>>
    BY <1>2 DEF WriteCompletes, WriteInv
  <2>2. \A w \in Workers : wpc[w] # "write"
    BY <1>2 DEF WriteCompletes, TestHolds
  <2>3. (Exclusive /\ TestHolds /\ WriteInv /\ BufferIsServed)'
    BY <2>1, <2>2 DEF Exclusive, TestHolds, WriteInv, BufferIsServed, WillWrite,
       WorkerInside, IocInside
  <2>4. WireInPushOrder'
    <3>1. /\ Len(write_buffer_) = Len(pushed) - Len(wire) /\ Len(write_buffer_) >= 1
          /\ Len(write_buffer_) \in Nat /\ Len(pushed) \in Nat /\ Len(wire) \in Nat
      BY <2>1 DEF WireInPushOrder, TypeOK
    <3>2. m = pushed[Len(wire) + 1]
      <4>1. m = write_buffer_[1]
        BY <2>1
      <4>2. write_buffer_[1] = pushed[Len(pushed) - Len(write_buffer_) + 1]
        BY <3>1 DEF WireInPushOrder
      <4>3. Len(pushed) - Len(write_buffer_) + 1 = Len(wire) + 1
        BY <3>1
      <4> QED
        BY <4>1, <4>2, <4>3
    <3>3. /\ Len(wire') = Len(wire) + 1 /\ wire'[Len(wire) + 1] = m
          /\ \A i \in 1..Len(wire) : wire'[i] = wire[i]
      BY <2>1 DEF TypeOK
    <3>4. \A i \in 1..Len(wire') : wire'[i] = pushed[i]
      BY <3>1, <3>2, <3>3 DEF WireInPushOrder
    <3> QED
      BY <2>1, <3>1, <3>3, <3>4 DEF WireInPushOrder
  <2>5. ErasesWritten'
    BY <2>1 DEF ErasesWritten, TypeOK
  <2> QED
    BY <2>3, <2>4, <2>5
<1>3. ASSUME NEW m \in Texts, WriteFails(m) PROVE RaceFreeInv'
  BY <1>3 DEF WriteFails, ErasesWritten, Exclusive, TestHolds, WriteInv, WireInPushOrder, BufferIsServed,
     WorkerInside, IocInside, WillWrite
<1>4. ASSUME NEW w \in Workers, TakeTask(w) PROVE RaceFreeInv'
  BY <1>4 DEF TakeTask, ErasesWritten, Exclusive, TestHolds, WriteInv, WireInPushOrder, BufferIsServed,
     WorkerInside, IocInside, WillWrite, TypeOK
<1>5. ASSUME NEW w \in Workers, TestEmpty(w) PROVE RaceFreeInv'
  BY <1>5 DEF TestEmpty, ErasesWritten, Exclusive, TestHolds, WriteInv, WireInPushOrder, BufferIsServed,
     WorkerInside, IocInside, WillWrite, TypeOK
<1>6. ASSUME NEW w \in Workers, PushBack(w) PROVE RaceFreeInv'
  <2>1. \A v \in Workers \ {w} : ~WorkerInside(v)
    BY <1>6 DEF PushBack, Exclusive, WorkerInside
  <2>2. /\ text[w] \in Texts /\ write_buffer_' = Append(write_buffer_, text[w])
        /\ pushed' = Append(pushed, text[w]) /\ UNCHANGED <<text, empty, ipc, writing, wire, failed>>
        /\ wpc' = [wpc EXCEPT ![w] = IF empty[w] THEN "write" ELSE "idle"]
    BY <1>6, <2>1 DEF PushBack, TextInv, WorkerInside
  <2>3. write_buffer_' # <<>> /\ write_buffer_' \in Seq(Texts)
    BY <2>2 DEF TypeOK
  <2>4. write_buffer_ # <<>> => Head(write_buffer_') = Head(write_buffer_)
    BY <2>2 DEF TypeOK
  <2>5. empty[w] => write_buffer_ = <<>> /\ writing = {} /\ ipc = "idle" /\ ~failed
    BY <1>6 DEF PushBack, TestHolds, WriteInv, Exclusive, WorkerInside, IocInside, TypeOK
  <2>6. (Exclusive /\ TestHolds)'
    BY <2>1, <2>2, <2>3, <2>5 DEF Exclusive, TestHolds, WorkerInside, IocInside, TypeOK
  <2>7. WriteInv' /\ ErasesWritten'
    BY <2>2, <2>3, <2>4 DEF WriteInv, ErasesWritten
  <2>8. BufferIsServed'
    <3>1. CASE empty[w]
      <4>1. wpc'[w] = "write"
        BY <2>2, <3>1 DEF TypeOK
      <4> QED
        BY <4>1 DEF BufferIsServed, WillWrite
    <3>2. CASE ~empty[w]
      <4>1. write_buffer_ # <<>>
        BY <1>6, <3>2 DEF PushBack, TestHolds, TypeOK
      <4>2. \A v \in Workers : wpc[v] = "write" => wpc'[v] = "write"
        BY <1>6, <2>2 DEF PushBack, TypeOK
      <4> QED
        BY <2>2, <4>1, <4>2 DEF BufferIsServed, WillWrite
    <3> QED
      BY <3>1, <3>2
  <2>9. WireInPushOrder'
    <3>1. /\ Len(write_buffer_) \in Nat /\ Len(pushed) \in Nat /\ Len(wire) \in Nat
          /\ Len(write_buffer_') = Len(write_buffer_) + 1 /\ Len(pushed') = Len(pushed) + 1
      BY <2>2 DEF TypeOK
    <3>2. /\ write_buffer_'[Len(write_buffer_) + 1] = text[w]
          /\ \A i \in 1..Len(write_buffer_) : write_buffer_'[i] = write_buffer_[i]
      BY <2>2 DEF TypeOK
    <3>3. /\ pushed'[Len(pushed) + 1] = text[w]
          /\ \A i \in 1..Len(pushed) : pushed'[i] = pushed[i]
      BY <2>2 DEF TypeOK
    <3>4. ipc = "erase" => Len(write_buffer_) = Len(pushed) - Len(wire) + 1
      BY DEF WireInPushOrder
    <3>5. ipc # "erase" => Len(write_buffer_) = Len(pushed) - Len(wire)
      BY DEF WireInPushOrder
    <3>6. Len(wire) <= Len(pushed) /\ \A i \in 1..Len(wire) : wire[i] = pushed'[i]
      BY <3>1, <3>3 DEF WireInPushOrder
    <3>7. Len(write_buffer_) <= Len(pushed)
      <4>1. ipc = "erase" => Len(wire) >= 1
        BY DEF ErasesWritten
      <4> QED
        BY <3>1, <3>4, <3>5, <4>1
    <3>8. ASSUME NEW i \in 1..Len(write_buffer_')
          PROVE  write_buffer_'[i] = pushed'[Len(pushed') - Len(write_buffer_') + i]
      <4> DEFINE d == Len(pushed) - Len(write_buffer_)
      <4>1. Len(pushed') - Len(write_buffer_') = d /\ d \in Nat
        BY <3>1, <3>7
      <4>2. CASE i = Len(write_buffer_) + 1
        BY <3>1, <3>2, <3>3, <4>1, <4>2
      <4>3. CASE i \in 1..Len(write_buffer_)
        <5>1. d + i \in 1..Len(pushed)
          BY <3>1, <4>1, <4>3
        <5>2. write_buffer_[i] = pushed[d + i]
          BY <4>3 DEF WireInPushOrder
        <5> QED
          BY <3>2, <3>3, <4>1, <4>3, <5>1, <5>2
      <4> QED
        BY <3>1, <4>2, <4>3
    <3>9. /\ Len(pushed') - Len(wire') >= 0
          /\ Len(write_buffer_') = IF ipc' = "erase" THEN Len(pushed') - Len(wire') + 1
                                   ELSE Len(pushed') - Len(wire')
      BY <2>2, <3>1, <3>4, <3>5, <3>6
    <3>10. \A i \in 1..Len(wire') : wire'[i] = pushed'[i]
      BY <2>2, <3>6
    <3> QED
      BY <3>8, <3>9, <3>10 DEF WireInPushOrder
  <2> QED
    BY <2>6, <2>7, <2>8, <2>9
<1>7. ASSUME NEW w \in Workers, DoWrite(w) PROVE RaceFreeInv'
  BY <1>7 DEF DoWrite, StartWrite, ErasesWritten, Exclusive, TestHolds, WriteInv, WireInPushOrder, BufferIsServed,
     WorkerInside, IocInside, WillWrite, TypeOK
<1>8. CASE EraseFirst
  <2>1. /\ ipc = "erase" /\ ipc' = "more" /\ write_buffer_ # <<>>
        /\ write_buffer_' = Tail(write_buffer_) /\ writing = {} /\ ~failed
        /\ \A w \in Workers : ~WorkerInside(w)
        /\ UNCHANGED <<workerVars, writing, wire, failed, pushed>>
    BY <1>8 DEF EraseFirst, WriteInv
  <2>2. (Exclusive /\ TestHolds /\ WriteInv /\ ErasesWritten /\ BufferIsServed)'
    BY <2>1 DEF ErasesWritten, Exclusive, TestHolds, WriteInv, BufferIsServed, WillWrite, WorkerInside, IocInside
  <2>3. WireInPushOrder'
    <3>1. /\ Len(write_buffer_) \in Nat /\ Len(pushed) \in Nat /\ Len(wire) \in Nat
          /\ Len(write_buffer_) >= 1 /\ Len(write_buffer_') = Len(write_buffer_) - 1
      BY <2>1 DEF TypeOK
    <3>2. \A i \in 1..Len(write_buffer_') : write_buffer_'[i] = write_buffer_[i + 1]
      BY <2>1, <3>1 DEF TypeOK
    <3>3. Len(write_buffer_) = Len(pushed) - Len(wire) + 1
      BY <2>1 DEF WireInPushOrder
    <3>4. ASSUME NEW i \in 1..Len(write_buffer_')
          PROVE  write_buffer_'[i] = pushed[Len(pushed) - Len(write_buffer_') + i]
      <4>1. i + 1 \in 1..Len(write_buffer_)
        BY <3>1
      <4>2. write_buffer_[i + 1] = pushed[Len(pushed) - Len(write_buffer_) + (i + 1)]
        BY <4>1 DEF WireInPushOrder
      <4>3. Len(pushed) - Len(write_buffer_) + (i + 1) = Len(pushed) - Len(write_buffer_') + i
        BY <3>1
      <4> QED
        BY <3>2, <4>2, <4>3
    <3> QED
      BY <2>1, <3>1, <3>3, <3>4 DEF WireInPushOrder
  <2> QED
    BY <2>2, <2>3
<1>9. CASE WriteMore
  <2>1. /\ writing' = IF write_buffer_ = <<>> THEN writing ELSE writing \cup {Head(write_buffer_)}
        /\ ipc = "more" /\ ipc' = "idle" /\ writing = {}
        /\ UNCHANGED <<workerVars, write_buffer_, wire, failed, pushed>>
    BY <1>9 DEF WriteMore, StartWrite, WriteInv
  <2>2. (Exclusive /\ TestHolds /\ WriteInv /\ ErasesWritten)'
    BY <2>1 DEF ErasesWritten, Exclusive, TestHolds, WriteInv, WorkerInside, IocInside
  <2>3. (WireInPushOrder /\ BufferIsServed)'
    BY <2>1 DEF WireInPushOrder, BufferIsServed
  <2> QED
    BY <2>2, <2>3
<1>10. CASE UNCHANGED vars
  BY <1>10 DEF vars, ErasesWritten, Exclusive, TestHolds, WriteInv, WireInPushOrder, BufferIsServed,
     WorkerInside, IocInside, WillWrite
<1> QED
  BY <1>1, <1>2, <1>3, <1>4, <1>5, <1>6, <1>7, <1>8, <1>9, <1>10
  DEF Next, WorkerStep, IocStep

LEMMA InvInit == Init => Inv
  BY TypeInit, RaceFreeInit DEF Inv

LEMMA InvNext == Inv /\ [Next]_vars => Inv'
  BY TypeNext, RacedStays, RaceFreeNext DEF Inv

\* The buffer, the wire and the locals of DoSendText keep their types, with data
\* races and failed writes.
THEOREM WriterTypes == Spec => []TypeOK
  BY TypeInit, TypeNext, PTL DEF Spec

\* As long as no two threads overlap in write_buffer_, DoSendText and OnWrite
\* together never start a second async_write.
THEOREM NeverTwoWrites == Spec => []OneWriteAtATime
<1>1. Inv => OneWriteAtATime
  BY DEF Inv, RaceFreeInv, OneWriteAtATime, WriteInv, TestHolds, Exclusive, WillWrite,
     WorkerInside
<1> QED
  BY <1>1, InvInit, InvNext, PTL DEF Spec

\* As long as no two threads overlap in write_buffer_, the texts are written in
\* the order of their push_back.
THEOREM PushOrderKept == Spec => []WireInPushOrder
<1>1. Inv => WireInPushOrder
  BY DEF Inv, RaceFreeInv, WireInPushOrder
<1> QED
  BY <1>1, InvInit, InvNext, PTL DEF Spec

\* As long as no two threads overlap in write_buffer_ and no write fails, a text
\* in the buffer has somebody who will write it.
THEOREM NoTextForgotten == Spec => []BufferIsServed
<1>1. Inv => BufferIsServed
  BY DEF Inv, RaceFreeInv, BufferIsServed
<1> QED
  BY <1>1, InvInit, InvNext, PTL DEF Spec

\* After a write that failed nothing is written any more.
THEOREM ErrorIsFinal == Spec => SilentAfterError
<1>1. Inv /\ [Next]_vars => [failed /\ ~raced' => wire' = wire]_vars
  <2> SUFFICES ASSUME Inv, Next, failed, ~raced' PROVE wire' = wire
    BY DEF vars
  <2>1. writing = {}
    BY RacedStays DEF Inv, RaceFreeInv, WriteInv, TypeOK
  <2> QED
    BY <2>1 DEF Next, WorkerStep, IocStep, SendText, WriteCompletes, WriteFails, TakeTask,
       TestEmpty, PushBack, DoWrite, EraseFirst, WriteMore
<1> QED
  BY <1>1, InvInit, InvNext, PTL DEF Spec, SilentAfterError

\* As long as no two threads overlap in write_buffer_, the threads of the pool and
\* OnWrite implement a FIFO from push_back to the websocket.
THEOREM RefinesTextFifo == Spec => ImplementsTextFifo
<1>1. Init => Fifo!Init
  BY DEF Init, Fifo!Init
<1>2. Inv /\ [Next]_vars => [Fifo!Next]_<<pushed, wire, raced>>
  <2> SUFFICES ASSUME Inv, Next PROVE Fifo!Next \/ UNCHANGED <<pushed, wire, raced>>
    BY DEF vars
  <2>1. raced \in BOOLEAN /\ (raced => raced')
    BY RacedStays DEF Inv, TypeOK
  <2>2. CASE raced
    BY <2>1, <2>2 DEF Fifo!Next, Fifo!Anything
  <2>3. ASSUME ~raced, NEW w \in Workers, PushBack(w) PROVE Fifo!Put
    BY <2>3 DEF PushBack, Inv, TextInv, Fifo!Put
  \* The write that completes has the first text of the buffer.
  <2>4. ASSUME ~raced, NEW m \in Texts, WriteCompletes(m) PROVE Fifo!Get
    <3>1. /\ m = Head(write_buffer_) /\ write_buffer_ # <<>> /\ ipc = "idle"
          /\ write_buffer_ \in Seq(Texts) /\ pushed \in Seq(Texts) /\ wire \in Seq(Texts)
      BY <2>4 DEF WriteCompletes, Inv, RaceFreeInv, WriteInv, TypeOK
    <3>2. Len(write_buffer_) = Len(pushed) - Len(wire) /\ Len(write_buffer_) \in Nat \ {0}
      BY <2>4, <3>1 DEF Inv, RaceFreeInv, WireInPushOrder
    <3>3. m = write_buffer_[1] /\ 1 \in 1..Len(write_buffer_)
      BY <3>1, <3>2
    <3>4. m = pushed[Len(pushed) - Len(write_buffer_) + 1]
      BY <2>4, <3>3 DEF Inv, RaceFreeInv, WireInPushOrder
    <3>5. Len(pushed) - Len(write_buffer_) + 1 = Len(wire) + 1 /\ Len(wire) < Len(pushed)
      BY <3>1, <3>2
    <3> QED
      BY <2>4, <3>4, <3>5 DEF WriteCompletes, Fifo!Get
  <2>5. ASSUME ~raced, UNCHANGED <<pushed, wire>>
        PROVE  Fifo!Next \/ UNCHANGED <<pushed, wire, raced>>
    <3>1. raced' \in BOOLEAN
      BY InvNext DEF Inv, TypeOK
    <3> QED
      BY <2>1, <2>5, <3>1 DEF Fifo!Next, Fifo!Break
  <2>6. CASE ~raced /\ ~UNCHANGED <<pushed, wire>>
    <3>1. (\E w \in Workers : PushBack(w)) \/ (\E m \in Texts : WriteCompletes(m))
      BY <2>6 DEF Next, WorkerStep, IocStep, SendText, WriteFails, TakeTask, TestEmpty,
         DoWrite, EraseFirst, WriteMore
    <3> QED
      BY <2>3, <2>4, <2>6, <3>1 DEF Fifo!Next
  <2> QED
    BY <2>1, <2>2, <2>5, <2>6
<1> QED
  BY <1>1, <1>2, InvInit, InvNext, PTL DEF Spec, ImplementsTextFifo, Fifo!Spec
================================================================================
