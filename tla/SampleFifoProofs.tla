--------------------------- MODULE SampleFifoProofs ---------------------------
(***************************************************************************)
(* The ring with its two threads implements the queue of SampleFifo, for    *)
(* every ring size, watermark and pair of rates.                            *)
(***************************************************************************)
EXTENDS SdrReaderProofs

Queue == [i \in 0 .. used - 1 |-> buf[(head + i) % size]]

Misplaced == InFlight /\ wtail # TailPos

\* A step that changes none of the four parts of the queue is a stutter.
LEMMA FifoStutter ==
    ASSUME used' = used, Queue' = Queue, LastCommitted' = LastCommitted,
           Misplaced' <=> Misplaced
    PROVE  UNCHANGED Fifo!fifoVars
BY DEF Fifo!fifoVars, Queue, Misplaced

\* The queue does not change with the ring, except for its stamps.
LEMMA QueueUnchanged ==
    ASSUME UNCHANGED <<size, used, head>>,
           \A i \in 0 .. used - 1 : buf'[(head + i) % size] = buf[(head + i) % size]
    PROVE  Queue' = Queue
BY DEF Queue

\* The first tune() leaves an empty queue.
LEMMA FifoInit == Init => Fifo!Init
BY DEF Init, Fifo!Init, LastCommitted, InFlight

-----------------------------------------------------------------------------
(* The steps of the reader thread                                          *)

\* Leaving the loop, the check for room and write_head(): the queue stays, and the
\* pointer, when there is one, is the tail.
LEMMA LookStutters ==
    ASSUME IndInv, ReaderExit \/ ReaderHasRoom \/ WriteHead
    PROVE  UNCHANGED Fifo!fifoVars
<1>1. UNCHANGED ringVars /\ UNCHANGED <<stamp, wn>> /\ rpc \notin {"fill", "commit"} /\ rpc' # "commit"
  BY DEF ReaderExit, ReaderHasRoom, WriteHead
<1>2. Queue' = Queue /\ used' = used /\ TailPos' = TailPos
  BY <1>1 DEF Queue, TailPos, ringVars
<1>3. ~Misplaced /\ ~Misplaced'
  BY <1>1, <1>2 DEF ReaderExit, ReaderHasRoom, WriteHead, Misplaced, InFlight
<1>4. LastCommitted' = LastCommitted
  BY <1>1 DEF LastCommitted
<1> QED BY <1>2, <1>3, <1>4, FifoStutter

\* readStream() writes behind the reader's pointer, where the queue is not.
LEMMA ReadStreamStutters ==
    ASSUME IndInv, ReadStream
    PROVE  UNCHANGED Fifo!fifoVars
<1>1. PICK n \in 0 .. wlen :
        Store(wtail, n, stamp + 1) /\ stamp' = stamp + n /\ wn' = n
  BY DEF ReadStream
<1>2. UNCHANGED <<size, used, head, wtail>> /\ rpc = "fill" /\ rpc' = "commit"
  BY DEF ReadStream
<1>3. ASSUME NEW i \in 0 .. used - 1
      PROVE  buf'[(head + i) % size] = buf[(head + i) % size]
  <2>1. /\ (head + i) % size \in 0 .. size - 1
        /\ (head + i) % size < wtail \/ (head + i) % size >= wtail + wlen
    BY <1>2, DisjointRegions DEF IndInv, InFlight
  <2> QED BY <1>1, <2>1 DEF Store, IndInv, TypeOK
<1>4. Queue' = Queue
  BY <1>2, <1>3, QueueUnchanged
<1>5. LastCommitted' = LastCommitted
  BY <1>1, <1>2 DEF LastCommitted, IndInv, TypeOK
<1>6. Misplaced' <=> Misplaced
  BY <1>2 DEF Misplaced, InFlight, TailPos
<1> QED BY <1>2, <1>4, <1>5, <1>6, FifoStutter

\* commit() puts what was received at the back of the queue, or, when the ring was
\* cleared under the pointer, as many samples nobody wrote there.
LEMMA CommitPuts ==
    ASSUME IndInv, IndInv', Commit
    PROVE  Fifo!Put \/ Fifo!PutMisplaced \/ UNCHANGED Fifo!fifoVars
<1> USE DEF IndInv
<1>1. /\ UNCHANGED <<size, head, buf, stamp>> /\ used' = used + wn
      /\ rpc = "commit" /\ rpc' = "loop"
  BY DEF Commit, commit
<1>2. LastCommitted = stamp - wn /\ LastCommitted' = stamp
  BY <1>1 DEF LastCommitted
<1>3. ~Misplaced'
  BY <1>1 DEF Misplaced, InFlight
<1>4. size \in Nat \ {0} /\ used \in Nat /\ wn \in Nat /\ stamp \in Nat /\ head \in 0 .. size - 1
  BY DEF TypeOK
<1>5. CASE Misplaced
  <2>1. used = 0
    BY <1>5 DEF Misplaced, PointerOK
  <2>2. Fifo!PutMisplaced
    BY <1>1, <1>2, <1>3, <1>4, <1>5, <2>1 DEF Fifo!PutMisplaced, Misplaced
  <2> QED BY <2>2
<1>6. CASE ~Misplaced /\ wn = 0
  <2>1. Queue' = Queue /\ used' = used
    BY <1>1, <1>4, <1>6 DEF Queue
  <2> QED BY <1>2, <1>3, <1>4, <1>6, <2>1, FifoStutter
<1>7. CASE ~Misplaced /\ wn > 0
  <2>1. /\ wtail = TailPos /\ wn <= wlen /\ wlen \in Nat
        /\ wtail + wlen <= size /\ used + wn <= size
    BY <1>1, <1>4, <1>7 DEF Misplaced, InFlight, FilledOK, PointerOK, TypeOK
  <2>2. ASSUME NEW i \in 0 .. used' - 1
        PROVE  buf[(head + i) % size] =
                 IF i < used THEN buf[(head + i) % size] ELSE (stamp - wn) + (i - used) + 1
    <3>1. SUFFICES ASSUME i >= used
                   PROVE  buf[(head + i) % size] = (stamp - wn) + (i - used) + 1
      BY <1>4
    <3>2. i \in 0 .. size /\ used \in 0 .. size /\ i - used \in 0 .. wn - 1
      BY <1>1, <1>4, <2>1, <3>1
    <3>3. /\ (head + i) % size = SlotAt(head, i, size)
          /\ wtail = SlotAt(head, used, size)
      BY <1>4, <2>1, <3>2, SlotMod DEF TailPos
    <3>4. SlotAt(head, i, size) = wtail + (i - used)
      BY <1>4, <2>1, <3>2, <3>3 DEF SlotAt
    <3>5. buf[wtail + (i - used)] = stamp - wn + (i - used) + 1
      BY <1>1, <3>2 DEF FilledOK
    <3> QED BY <3>3, <3>4, <3>5
  <2>3. Queue' = [i \in 0 .. used' - 1 |->
                    IF i < used THEN Queue[i] ELSE LastCommitted + (i - used) + 1]
    <3>1. \A i \in 0 .. used' - 1 : i < used => i \in 0 .. used - 1
      BY <1>4
    <3> QED BY <1>1, <1>2, <2>2, <3>1 DEF Queue
  <2>4. LastCommitted' > LastCommitted /\ used' = used + (LastCommitted' - LastCommitted)
    BY <1>1, <1>2, <1>4, <1>7
  <2>5. Fifo!Put
    BY <1>3, <1>7, <2>3, <2>4 DEF Fifo!Put, Misplaced, Queue
  <2> QED BY <2>5
<1> QED BY <1>4, <1>5, <1>6, <1>7

-----------------------------------------------------------------------------
(* The steps of main                                                       *)

\* read() takes from the front, and leaves the tail where it was.
LEMMA ReadGets ==
    ASSUME IndInv, GetRead
    PROVE  Fifo!Get \/ UNCHANGED Fifo!fifoVars
<1> USE DEF IndInv
<1>1. /\ size \in Nat \ {0} /\ head \in 0 .. size - 1 /\ used \in 0 .. size
      /\ need \in 0 .. used /\ need \in 0 .. size
  BY DEF GetRead, RequestOK, TypeOK
<1>2. /\ head' = SlotAt(head, need, size) /\ head' \in 0 .. size - 1
      /\ used' = used - need /\ used' \in 0 .. size
  BY <1>1, SlotMod DEF GetRead, read
<1>3. UNCHANGED <<size, buf, rpc, wtail, wn, stamp>>
  BY DEF GetRead, read, readerVars
<1>4. LastCommitted' = LastCommitted
  BY <1>3 DEF LastCommitted
<1>5. TailPos' = TailPos
  <2>1. TailPos = SlotAt(head, used, size) /\ TailPos' = SlotAt(head', used', size)
    BY <1>1, <1>2, <1>3, SlotMod DEF TailPos
  <2>2. SlotAt(head', used', size) = SlotAt(head, used, size)
    BY <1>1, <1>2 DEF SlotAt
  <2> QED BY <2>1, <2>2
<1>6. Misplaced' <=> Misplaced
  BY <1>3, <1>5 DEF Misplaced, InFlight
<1>7. ASSUME NEW i \in 0 .. used' - 1
      PROVE  i + need \in 0 .. used - 1 /\ Queue'[i] = Queue[i + need]
  <2>1. i \in 0 .. size /\ i + need \in 0 .. size /\ i + need \in 0 .. used - 1
    BY <1>1, <1>2
  <2>2. /\ (head' + i) % size = SlotAt(head', i, size)
        /\ (head + (i + need)) % size = SlotAt(head, i + need, size)
    BY <1>1, <1>2, <2>1, SlotMod
  <2>3. SlotAt(head', i, size) = SlotAt(head, i + need, size)
    BY <1>1, <1>2, <2>1 DEF SlotAt
  <2> QED BY <1>3, <2>1, <2>2, <2>3 DEF Queue
<1>8. Queue' = [i \in 0 .. used' - 1 |-> Queue[i + (used - used')]]
  <2>1. used - used' = need
    BY <1>1, <1>2
  <2> QED BY <1>7, <2>1 DEF Queue
<1>9. CASE need = 0
  <2>1. used' = used /\ head' = head
    BY <1>1, <1>2, <1>9 DEF SlotAt
  <2>2. Queue' = Queue
    BY <1>3, <2>1 DEF Queue
  <2> QED BY <1>4, <1>6, <2>1, <2>2, FifoStutter
<1>10. CASE need > 0
  <2>1. used' >= 0 /\ used' < used
    BY <1>1, <1>2, <1>10
  <2>2. Fifo!Get
    BY <1>4, <1>6, <1>8, <2>1 DEF Fifo!Get, Queue, Misplaced
  <2> QED BY <2>2
<1> QED BY <1>1, <1>9, <1>10

\* clear_buffer(), on its own or in stop().
LEMMA ClearClears ==
    ASSUME IndInv, ClearBuffer \/ StopJoined
    PROVE  Fifo!Clear
<1>1. used' = 0 /\ UNCHANGED <<rpc, wn, stamp>>
  BY DEF ClearBuffer, StopJoined, clear, readerVars
<1>2. LastCommitted' = LastCommitted
  BY <1>1 DEF LastCommitted
<1>3. Misplaced' \in BOOLEAN
  BY DEF Misplaced
<1> QED BY <1>1, <1>2, <1>3 DEF Fifo!Clear, Misplaced

\* tune() makes a new ring while no reader thread runs.
LEMMA TuneRestarts ==
    ASSUME IndInv, Tune
    PROVE  Fifo!Restart
<1>1. rpc = "off" /\ rpc' = "off" /\ used' = 0 /\ stamp' = 0
  BY DEF IndInv, ReaderOffWhileTuning, Tune, Create, readerVars
<1> QED BY <1>1 DEF Fifo!Restart, LastCommitted, InFlight

\* The other steps of main do not touch the ring, the pointer or the samples; a
\* reader thread that start() creates has no pointer yet.
LEMMA MainStutters ==
    ASSUME IndInv,
           \/ GetSamples \/ GetFilled \/ GetTimeout \/ Stop \/ TuneUnmade
           \/ Start \/ StartFails \/ Crashed \/ UNCHANGED vars
    PROVE  UNCHANGED Fifo!fifoVars
<1>1. /\ UNCHANGED <<size, used, head, buf, wtail, wn, stamp>>
      /\ rpc' = rpc \/ (rpc = "off" /\ rpc' = "loop")
  BY DEF IndInv, ReaderOffWhileTuning, GetSamples, GetFilled, GetTimeout, Stop, TuneUnmade,
     Start, StartFails, Crashed, vars, ringVars, readerVars
<1>2. Queue' = Queue /\ LastCommitted' = LastCommitted
  BY <1>1 DEF Queue, LastCommitted
<1>3. Misplaced' <=> Misplaced
  BY <1>1 DEF Misplaced, InFlight, TailPos
<1> QED BY <1>1, <1>2, <1>3, FifoStutter

-----------------------------------------------------------------------------
\* Every step of the two threads is a step of the queue, or none.
LEMMA FifoStep == IndInv /\ IndInv' /\ [Next]_vars => [Fifo!Next]_(Fifo!fifoVars)
<1> SUFFICES ASSUME IndInv, IndInv', [Next]_vars
             PROVE  Fifo!Next \/ UNCHANGED Fifo!fifoVars
  OBVIOUS
<1>1. CASE Reader
  BY <1>1, LookStutters, ReadStreamStutters, CommitPuts DEF Reader, Fifo!Next
<1>2. CASE GetRead \/ ClearBuffer \/ StopJoined \/ Tune
  BY <1>2, ReadGets, ClearClears, TuneRestarts DEF Fifo!Next
<1>3. CASE \/ GetSamples \/ GetFilled \/ GetTimeout \/ Stop \/ TuneUnmade
           \/ Start \/ StartFails \/ Crashed \/ UNCHANGED vars
  BY <1>3, MainStutters
<1> QED BY <1>1, <1>2, <1>3 DEF Next, Main

\* What get_samples() is served from is a queue of the device's samples, lost only by
\* clear_buffer() and tune(): the ring, whose writer uses three critical sections for
\* one batch while main reads, clears, stops and retunes, implements SampleFifo.
THEOREM RingImplementsFifo == Spec => ImplementsFifo
BY FifoInit, FifoStep, Inductive, PTL DEF Spec, ImplementsFifo, Fifo!Spec
===============================================================================
