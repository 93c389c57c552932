--------------------------- MODULE SdrReaderProofs ---------------------------
(***************************************************************************)
(* The safety of the sample path for every ring size, every watermark that  *)
(* meets the assumptions and every pair of requested and actual rates.      *)
(*                                                                         *)
(* The invariants of SdrReader are not inductive: what makes a commit safe   *)
(* is where the pointer of the reader stands relative to the tail, or that   *)
(* a clear_buffer() emptied the ring since write_head().                    *)
(***************************************************************************)
EXTENDS SdrReader, TLAPS

-----------------------------------------------------------------------------
(* Indices modulo the size of the ring                                     *)

\* The slot of the i-th sample behind head, without the modulus.
SlotAt(h, i, s) == IF h + i < s THEN h + i ELSE h + i - s

\* One wrap at most: the sum of two indices of the ring, reduced by % as in
\* write_head() and read(), is the sum or the sum less the size.
LEMMA SlotMod ==
    ASSUME NEW s \in Nat \ {0}, NEW h \in 0 .. s - 1, NEW i \in 0 .. s
    PROVE  /\ (h + i) % s = SlotAt(h, i, s)
           /\ (h + i) % s \in 0 .. s - 1
<1>1. CASE h + i < s
  BY <1>1 DEF SlotAt
<1>2. CASE h + i >= s
  <2>1. \A x \in s .. 2 * s - 1 : x % s = x - s
    OBVIOUS
  <2>2. h + i \in s .. 2 * s - 1
    BY <1>2
  <2> QED BY <2>1, <2>2, <1>2 DEF SlotAt
<1> QED BY <1>1, <1>2

\* Half the ring, in samples of the actual rate, is at least the low watermark:
\* the wait loop of get_samples() lets no request through that read() cannot meet.
LEMMA HalfCoversLow ==
    ASSUME NEW r \in Nat
    PROVE  /\ r * LowMs \in Nat
           /\ r * BufferMs \in Nat
           /\ 2 * (r * LowMs) <= r * BufferMs
BY WatermarkAssumption

\* A requested rate gives a ring with at least one slot.
LEMMA CapacityPositive ==
    ASSUME NEW r \in Nat \ {0}
    PROVE  r * BufferMs \in Nat \ {0}
BY WatermarkAssumption

-----------------------------------------------------------------------------
(* The inductive invariant                                                 *)

\* The reader's pointer is the current tail with room behind it, or the ring was
\* emptied under it.
PointerOK ==
    InFlight =>
        /\ wtail + wlen <= size
        /\ wlen <= toRead
        /\ (wtail = TailPos /\ used + wlen <= size) \/ used = 0

\* What readStream() stored waits at the reader's pointer for its commit.
FilledOK ==
    rpc = "commit" =>
        /\ wn <= wlen
        /\ \A k \in 0 .. wn - 1 : buf[wtail + k] = stamp - wn + k + 1

RequestOK ==
    /\ mpc = "wait" => need <= rate * LowMs
    /\ mpc = "read" => need <= used

StaleOK == stale <= used

\* A reader thread outlives _running only while stop() waits for it.
JoinedOK == rpc # "off" => running \/ mpc = "join"

IndInv ==
    /\ TypeOK
    /\ ReaderOffWhileTuning
    /\ JoinedOK
    /\ PointerOK
    /\ FilledOK
    /\ RequestOK
    /\ StaleOK
    /\ InOrderBeyondStale

\* After the first tune() the invariant holds: the ring is empty, no thread runs.
LEMMA InitIndInv == Init => IndInv
<1> SUFFICES ASSUME Init PROVE IndInv
  OBVIOUS
<1>1. PICK c \in Coercion :
        /\ size = c[1] * BufferMs
        /\ buf = [i \in 0 .. c[1] * BufferMs - 1 |-> Uninitialised]
        /\ rate = c[2]
  BY DEF Init
<1>2. c[1] \in Nat \ {0} /\ c[2] \in Nat \ {0}
  BY CoercionAssumption
<1>3. size \in Nat \ {0}
  BY <1>1, <1>2, CapacityPositive
<1>4. buf \in [0 .. size - 1 -> Nat]
  BY <1>1 DEF Uninitialised
<1>5. running \in BOOLEAN /\ high \in BOOLEAN
  BY Zenon DEF Init
<1>6. TypeOK
  BY <1>1, <1>2, <1>3, <1>4, <1>5 DEF Init, TypeOK, RPC, MPC
<1> QED
  BY <1>6 DEF Init, IndInv, TypeOK, ReaderOffWhileTuning, JoinedOK, PointerOK, InFlight, FilledOK,
     RequestOK, StaleOK, InOrderBeyondStale, toRead

\* The two flags stay Boolean; apart from the rest, which needs arithmetic.
LEMMA FlagsBoolean ==
    ASSUME TypeOK, [Next]_vars
    PROVE  running' \in BOOLEAN /\ high' \in BOOLEAN
<1>1. running \in BOOLEAN /\ high \in BOOLEAN
  BY DEF TypeOK
<1>2. CASE Reader
  BY <1>1, <1>2, Zenon DEF Reader, ReaderExit, ReaderHasRoom, WriteHead, ReadStream, Commit, mainVars
<1>3. CASE Main
  BY <1>1, <1>3, Zenon DEF Main, GetFilled, GetTimeout, GetRead, StopJoined, Tune, TuneUnmade,
     Start, StartFails
<1>4. CASE GetSamples
  BY <1>1, <1>4, Zenon DEF GetSamples
<1>5. CASE ClearBuffer \/ Stop
  BY <1>1, <1>5, Zenon DEF ClearBuffer, Stop
<1>6. CASE Crashed \/ UNCHANGED vars
  BY <1>1, <1>6, Zenon DEF Crashed, vars, mainVars
<1> QED BY <1>2, <1>3, <1>4, <1>5, <1>6 DEF Next

\* write_head() hands out a region that fits between the tail and the end of
\* the memory, or between the tail and the head.
LEMMA WriteableFits ==
    ASSUME TypeOK
    PROVE  /\ TailPos \in 0 .. size - 1
           /\ Writeable \in Nat
           /\ TailPos + Writeable <= size
           /\ used + Writeable <= size
<1>1. /\ TailPos = SlotAt(head, used, size)
      /\ TailPos \in 0 .. size - 1
  BY SlotMod DEF TypeOK, TailPos
<1> QED BY <1>1 DEF TypeOK, Writeable, SlotAt

\* The region behind the reader's pointer is disjoint from the committed one.
LEMMA DisjointRegions ==
    ASSUME TypeOK, PointerOK, InFlight, NEW i \in 0 .. used - 1
    PROVE  /\ (head + i) % size \in 0 .. size - 1
           /\ (head + i) % size < wtail \/ (head + i) % size >= wtail + wlen
<1>1. /\ (head + i) % size = SlotAt(head, i, size)
      /\ (head + i) % size \in 0 .. size - 1
  BY SlotMod DEF TypeOK
<1>2. wtail = TailPos /\ used + wlen <= size
  BY DEF PointerOK, TypeOK
<1>3. TailPos = SlotAt(head, used, size)
  BY SlotMod DEF TypeOK, TailPos
<1>4. size \in Nat /\ head \in 0 .. size - 1 /\ used \in 0 .. size /\ wtail \in Nat /\ wlen \in Nat
  BY DEF TypeOK
<1>5. wtail = SlotAt(head, used, size)
  BY <1>2, <1>3
<1>6. SlotAt(head, i, size) < wtail \/ SlotAt(head, i, size) >= wtail + wlen
  BY <1>2, <1>4, <1>5 DEF SlotAt
<1> QED BY <1>1, <1>6

\* The steps that touch neither the ring nor the samples in flight: they move
\* one of the two program counters, and main's request.
LEMMA QuietStepIndInv ==
    ASSUME IndInv,
           running' \in BOOLEAN, high' \in BOOLEAN,
           UNCHANGED <<ringVars, wtail, wlen, wn, rate, stamp, stale>>,
           device' \in {"open", "unmade"},
           rpc' \in RPC, mpc' \in MPC, need' \in Nat,
           rpc' \in {"fill", "commit"} => rpc' = rpc,
           rpc = "commit" => rpc' = "commit",
           ReaderOffWhileTuning', JoinedOK',
           RequestOK'
    PROVE  IndInv'
<1>1. TypeOK'
  BY DEF IndInv, TypeOK, ringVars
<1>2. PointerOK'
  BY DEF IndInv, PointerOK, InFlight, TailPos, toRead, ringVars
<1>3. FilledOK'
  BY DEF IndInv, FilledOK, ringVars
<1>4. InOrderBeyondStale'
  <2>1. LastCommitted' = LastCommitted
    BY DEF LastCommitted
  <2> QED BY <2>1 DEF IndInv, InOrderBeyondStale, toRead, ringVars
<1> QED BY <1>1, <1>2, <1>3, <1>4 DEF IndInv, StaleOK, ringVars

\* Every step of SdrReader::read() keeps it; readStream() and commit() are the
\* ones that depend on the pointer.
LEMMA ReaderStepIndInv ==
    ASSUME IndInv, [Next]_vars, Reader
    PROVE  IndInv'
<1>0. running' \in BOOLEAN /\ high' \in BOOLEAN
  BY FlagsBoolean DEF IndInv
<1> USE <1>0 DEF IndInv
<1>1. CASE ReaderExit
  BY <1>1, QuietStepIndInv DEF ReaderExit, TypeOK, RPC, mainVars, RequestOK, ReaderOffWhileTuning, JoinedOK, ringVars
<1>2. CASE ReaderHasRoom
  BY <1>2, QuietStepIndInv DEF ReaderHasRoom, TypeOK, RPC, mainVars, RequestOK, ReaderOffWhileTuning, JoinedOK, ringVars
<1>3. CASE WriteHead
  <2>1. wtail' = TailPos /\ TailPos' = TailPos
    BY <1>3 DEF WriteHead, TailPos, ringVars
  <2>2. /\ wlen' \in Nat /\ wlen' <= Writeable /\ wlen' <= rate
        /\ wtail' \in Nat
    BY <1>3, WriteableFits DEF WriteHead, toRead, TypeOK
  <2>3. TypeOK'
    BY <1>3, <2>2 DEF WriteHead, TypeOK, RPC, mainVars, ringVars
  <2>4. PointerOK'
    BY <1>3, <2>1, <2>2, WriteableFits DEF WriteHead, PointerOK, toRead, ringVars, TypeOK
  <2>5. FilledOK' /\ RequestOK' /\ StaleOK' /\ ReaderOffWhileTuning' /\ JoinedOK'
    BY <1>3 DEF WriteHead, FilledOK, RequestOK, StaleOK, ReaderOffWhileTuning, JoinedOK, mainVars, ringVars
  <2>6. InOrderBeyondStale'
    BY <1>3 DEF WriteHead, InOrderBeyondStale, LastCommitted, toRead, ringVars
  <2> QED BY <2>3, <2>4, <2>5, <2>6
<1>4. CASE ReadStream
  <2>1. PICK n \in 0 .. wlen :
          /\ Store(wtail, n, stamp + 1)
          /\ stamp' = stamp + n
          /\ wn' = n
    BY <1>4 DEF ReadStream
  <2>2. /\ buf' \in [0 .. size - 1 -> Nat]
        /\ \A j \in 0 .. size - 1 :
             buf'[j] = IF wtail <= j /\ j < wtail + n THEN stamp + 1 + (j - wtail) ELSE buf[j]
    BY <2>1 DEF Store, TypeOK
  <2>3. TypeOK'
    BY <1>4, <2>1, <2>2 DEF ReadStream, TypeOK, RPC, mainVars
  <2>4. PointerOK'
    BY <1>4 DEF ReadStream, PointerOK, InFlight, TailPos, toRead
  <2>5. FilledOK'
    BY <1>4, <2>1, <2>2 DEF ReadStream, FilledOK, PointerOK, InFlight, TypeOK
  <2>6. RequestOK' /\ StaleOK' /\ ReaderOffWhileTuning' /\ JoinedOK'
    BY <1>4 DEF ReadStream, RequestOK, StaleOK, ReaderOffWhileTuning, JoinedOK, mainVars
  <2>7. InOrderBeyondStale'
    <3>1. LastCommitted' = LastCommitted
      BY <1>4, <2>1 DEF ReadStream, LastCommitted, TypeOK
    <3>2. ASSUME NEW i \in stale .. used - 1
          PROVE  buf'[(head + i) % size] = buf[(head + i) % size]
      <4>1. i \in 0 .. used - 1
        BY DEF TypeOK
      <4>2. /\ (head + i) % size \in 0 .. size - 1
            /\ (head + i) % size < wtail \/ (head + i) % size >= wtail + wlen
        BY <1>4, <4>1, DisjointRegions DEF ReadStream, InFlight
      <4> QED BY <2>2, <4>2 DEF TypeOK
    <3> QED BY <1>4, <3>1, <3>2 DEF ReadStream, InOrderBeyondStale, toRead
  <2> QED BY <2>3, <2>4, <2>5, <2>6, <2>7
<1>5. CASE Commit
  <2>1. wn <= wlen /\ used + wlen <= size /\ wtail + wlen <= size /\ wlen <= rate
    BY <1>5 DEF Commit, PointerOK, FilledOK, InFlight, toRead, TypeOK
  <2>2. TypeOK'
    BY <1>5, <2>1 DEF Commit, commit, TypeOK, RPC, mainVars
  <2>3. PointerOK' /\ FilledOK' /\ RequestOK' /\ ReaderOffWhileTuning' /\ JoinedOK'
    BY <1>5 DEF Commit, commit, PointerOK, FilledOK, InFlight, RequestOK, ReaderOffWhileTuning, JoinedOK, mainVars, TypeOK
  <2>4. CASE wtail = TailPos
    <3>1. StaleOK' /\ stale' = stale
      BY <1>5, <2>4 DEF Commit, commit, StaleOK, TypeOK
    <3>2. ASSUME NEW i \in stale .. used + wn - 1
          PROVE  buf[(head + i) % size] = stamp - (used + wn) + i + 1
      <4>1. CASE i < used
        <5>1. i \in stale .. used - 1
          BY <4>1 DEF TypeOK
        <5>2. buf[(head + i) % size] = (stamp - wn) - used + i + 1
          BY <1>5, <5>1 DEF Commit, InOrderBeyondStale, LastCommitted
        <5>3. (stamp - wn) - used + i + 1 = stamp - (used + wn) + i + 1
          BY DEF TypeOK
        <5> QED BY <5>2, <5>3
      <4>2. CASE i >= used
        <5>0. i \in 0 .. size /\ used \in 0 .. size /\ size \in Nat \ {0} /\ head \in 0 .. size - 1
          BY <2>1, <4>2 DEF TypeOK
        <5>1. /\ (head + i) % size = SlotAt(head, i, size)
              /\ wtail = SlotAt(head, used, size)
          BY <2>4, <5>0, SlotMod DEF TailPos
        <5>2. SlotAt(head, i, size) = wtail + (i - used)
          BY <2>1, <4>2, <5>1 DEF SlotAt, TypeOK
        <5>3. i - used \in 0 .. wn - 1
          BY <4>2 DEF TypeOK
        <5>4. buf[wtail + (i - used)] = stamp - wn + (i - used) + 1
          BY <1>5, <5>3 DEF Commit, FilledOK
        <5> QED BY <5>1, <5>2, <5>4 DEF TypeOK
      <4> QED BY <4>1, <4>2 DEF TypeOK
    <3>3. InOrderBeyondStale'
      <4>1. LastCommitted' = stamp /\ used' = used + wn /\ UNCHANGED <<buf, head, size, rate>>
        BY <1>5 DEF Commit, commit, LastCommitted
      <4>2. stale' <= toRead'
        BY <3>1, <4>1 DEF InOrderBeyondStale, toRead
      <4>3. ASSUME NEW i \in stale' .. used' - 1
            PROVE  buf'[(head' + i) % size'] = LastCommitted' - used' + i + 1
        <5>1. i \in stale .. used + wn - 1
          BY <3>1, <4>1, <4>3 DEF TypeOK
        <5> QED BY <3>2, <4>1, <5>1
      <4> QED BY <4>2, <4>3 DEF InOrderBeyondStale
    <3> QED BY <2>2, <2>3, <3>1, <3>3
  <2>5. CASE wtail # TailPos
    <3>1. used = 0 /\ stale = 0
      BY <1>5, <2>5 DEF Commit, PointerOK, InFlight, StaleOK, TypeOK
    <3>2. stale' = wn /\ used' = wn
      BY <1>5, <2>5, <3>1 DEF Commit, commit, TypeOK
    <3>3. StaleOK' /\ InOrderBeyondStale'
      BY <1>5, <2>1, <3>2 DEF Commit, StaleOK, InOrderBeyondStale, toRead, TypeOK
    <3> QED BY <2>2, <2>3, <3>3
  <2> QED BY <2>4, <2>5
<1> QED BY <1>1, <1>2, <1>3, <1>4, <1>5 DEF Reader

\* clear_buffer(), on its own or at the end of stop(): the ring is empty, so any
\* pointer the reader still holds is harmless.
LEMMA ClearIndInv ==
    ASSUME IndInv, clear, stale' = 0,
           running' \in BOOLEAN, high' \in BOOLEAN,
           UNCHANGED <<readerVars, need, rate, device, stamp>>,
           mpc' \in MPC \ {"wait", "read"},
           ReaderOffWhileTuning', JoinedOK'
    PROVE  IndInv'
<1>1. TypeOK'
  BY DEF IndInv, TypeOK, clear, readerVars
<1>2. PointerOK'
  BY DEF IndInv, PointerOK, InFlight, clear, readerVars, toRead
<1>3. FilledOK'
  BY DEF IndInv, FilledOK, clear, readerVars
<1>4. RequestOK' /\ StaleOK'
  BY DEF RequestOK, StaleOK, clear, MPC
<1>5. InOrderBeyondStale'
  BY DEF IndInv, TypeOK, InOrderBeyondStale, clear, toRead
<1> QED BY <1>1, <1>2, <1>3, <1>4, <1>5 DEF IndInv

\* Every step of get_samples(), clear_buffer(), stop(), tune() and start() keeps
\* it, whatever the reader thread is doing.
LEMMA MainStepIndInv ==
    ASSUME IndInv, [Next]_vars, Main \/ GetSamples \/ ClearBuffer \/ Stop
    PROVE  IndInv'
<1>0. running' \in BOOLEAN /\ high' \in BOOLEAN
  BY FlagsBoolean DEF IndInv
<1> USE <1>0 DEF IndInv
<1>1. CASE GetFilled
  <2>1. RequestOK'
    <3>1. need <= rate * LowMs /\ rate * BufferMs <= 2 * used
      BY <1>1, HalfCoversLow DEF GetFilled, BelowHalf, RequestOK, TypeOK
    <3>2. need <= used
      <4>1. /\ rate * LowMs \in Nat /\ rate * BufferMs \in Nat
            /\ 2 * (rate * LowMs) <= rate * BufferMs
        BY HalfCoversLow DEF TypeOK
      <4>2. need \in Nat /\ used \in Nat
        BY DEF TypeOK
      <4> QED BY <3>1, <4>1, <4>2
    <3> QED BY <1>1, <3>2 DEF GetFilled, RequestOK, ringVars
  <2> QED BY <1>1, <2>1, QuietStepIndInv DEF GetFilled, TypeOK, MPC, readerVars, ReaderOffWhileTuning, JoinedOK
<1>2. CASE GetTimeout
  BY <1>2, QuietStepIndInv DEF GetTimeout, TypeOK, MPC, readerVars, RequestOK, ReaderOffWhileTuning, JoinedOK
<1>3. CASE GetSamples
  <2>1. PICK n \in 1 .. rate * LowMs : need' = n
    BY <1>3 DEF GetSamples
  <2>2. RequestOK'
    <3>1. mpc' = "read" => ~BelowLow
      BY <1>3 DEF GetSamples
    <3>2. rate * LowMs \in Nat /\ used \in Nat
      BY HalfCoversLow DEF TypeOK
    <3>3. used' = used /\ rate' = rate
      BY <1>3 DEF GetSamples, ringVars
    <3> QED BY <2>1, <3>1, <3>2, <3>3 DEF RequestOK, BelowLow
  <2>3. mpc' \in {"read", "wait"} /\ need' \in Nat
    BY <1>3, <2>1, HalfCoversLow DEF GetSamples, TypeOK
  <2> QED BY <1>3, <2>2, <2>3, QuietStepIndInv DEF GetSamples, TypeOK, MPC, readerVars, ReaderOffWhileTuning, JoinedOK
<1>4. CASE GetRead
  <2>1. need <= used
    BY <1>4 DEF GetRead, RequestOK
  <2>2. /\ head' = SlotAt(head, need, size) /\ head' \in 0 .. size - 1
        /\ used' = used - need
    <3>1. need \in 0 .. size /\ size \in Nat \ {0} /\ head \in 0 .. size - 1
      BY <2>1 DEF TypeOK
    <3> QED BY <1>4, <3>1, SlotMod DEF GetRead, read
  <2>3. stale' \in Nat /\ stale' <= stale /\ stale' <= used' /\ stale <= stale' + need
    BY <1>4, <2>1, <2>2 DEF GetRead, StaleOK, TypeOK
  <2>4. TypeOK'
    BY <1>4, <2>1, <2>2, <2>3 DEF GetRead, read, TypeOK, MPC, readerVars
  <2>5. PointerOK'
    <3>1. SUFFICES ASSUME InFlight, wtail = TailPos, used + wlen <= size, used # 0
                   PROVE  wtail = TailPos' /\ used' + wlen <= size
      <4>1. UNCHANGED <<wtail, wlen, rpc, size, rate>>
        BY <1>4 DEF GetRead, read, readerVars
      <4>2. used = 0 => need = 0 /\ used' = 0
        BY <2>1, <2>2 DEF TypeOK
      <4> QED BY <3>1, <4>1, <4>2 DEF PointerOK, InFlight, toRead
    <3>2. used' + wlen <= size
      BY <3>1, <2>1, <2>2 DEF TypeOK
    <3>3. wtail = SlotAt(head, used, size)
      BY <3>1, SlotMod DEF TailPos, TypeOK
    <3>4. TailPos' = SlotAt(head', used', size)
      <4>1. used' \in 0 .. size /\ size' = size
        BY <1>4, <2>1, <2>2 DEF GetRead, read, TypeOK
      <4> QED BY <2>2, <4>1, SlotMod DEF TailPos, TypeOK
    <3>5. SlotAt(head', used', size) = SlotAt(head, used, size)
      BY <2>1, <2>2 DEF SlotAt, TypeOK
    <3> QED BY <3>2, <3>3, <3>4, <3>5
  <2>6. FilledOK' /\ RequestOK' /\ StaleOK' /\ ReaderOffWhileTuning' /\ JoinedOK'
    BY <1>4, <2>3 DEF GetRead, read, FilledOK, RequestOK, StaleOK, ReaderOffWhileTuning, JoinedOK, readerVars
  <2>7. InOrderBeyondStale'
    <3>1. /\ LastCommitted' = LastCommitted
          /\ LastCommitted \in Int
          /\ UNCHANGED <<buf, size, rate>>
      BY <1>4 DEF GetRead, read, LastCommitted, readerVars, TypeOK
    <3>2. stale' <= toRead'
      BY <2>3, <3>1 DEF InOrderBeyondStale, toRead, TypeOK
    <3>3. ASSUME NEW i \in stale' .. used' - 1
          PROVE  buf'[(head' + i) % size'] = LastCommitted' - used' + i + 1
      <4>1. /\ i \in 0 .. size /\ i + need \in 0 .. size
            /\ i + need \in stale .. used - 1
            /\ size \in Nat \ {0} /\ head \in 0 .. size - 1 /\ used \in Nat /\ need \in Nat
        <5>1. /\ size \in Nat \ {0} /\ head \in 0 .. size - 1 /\ used \in 0 .. size
              /\ need \in Nat /\ stale \in Nat
          BY DEF TypeOK
        <5>2. i \in Int /\ stale' <= i /\ i <= used' - 1
          BY <2>2, <2>3, <3>3, <5>1
        <5>3. used' = used - need /\ stale' \in Nat /\ stale <= stale' + need
          BY <2>2, <2>3
        <5>5. 0 <= i /\ stale <= i + need /\ i + need <= used - 1
          <6>1. \A a, u, n, s, t \in Int :
                  0 <= t /\ t <= a /\ a <= (u - n) - 1 /\ s <= t + n
                    => 0 <= a /\ s <= a + n /\ a + n <= u - 1
            OBVIOUS
          <6>2. i <= (used - need) - 1 /\ used \in Int /\ need \in Int /\ stale \in Int /\ stale' \in Int /\ 0 <= stale'
            BY <5>1, <5>2, <5>3
          <6> QED BY <5>2, <5>3, <6>1, <6>2
        <5> QED BY <5>1, <5>2, <5>5
      <4>2. (head' + i) % size = SlotAt(head', i, size)
        BY <2>2, <4>1, SlotMod
      <4>3. (head + (i + need)) % size = SlotAt(head, i + need, size)
        BY <4>1, SlotMod
      <4>4. SlotAt(head', i, size) = SlotAt(head, i + need, size)
        BY <2>1, <2>2, <4>1 DEF SlotAt, TypeOK
      <4>5. buf[(head + (i + need)) % size] = LastCommitted - used + (i + need) + 1
        BY <4>1 DEF InOrderBeyondStale
      <4>6. LastCommitted - used + (i + need) + 1 = LastCommitted - (used - need) + i + 1
        BY <3>1, <4>1
      <4> QED BY <2>2, <3>1, <4>2, <4>3, <4>4, <4>5, <4>6
    <3> QED BY <3>2, <3>3 DEF InOrderBeyondStale
  <2> QED BY <2>3, <2>4, <2>5, <2>6, <2>7
<1>5. CASE ClearBuffer
  BY <1>5, ClearIndInv DEF ClearBuffer, MPC, ReaderOffWhileTuning, JoinedOK, readerVars
<1>6. CASE Stop
  <2>1. mpc = "idle" /\ ~running => rpc = "off"
    BY DEF JoinedOK
  <2> QED BY <1>6, <2>1, QuietStepIndInv DEF Stop, TypeOK, MPC, readerVars, RequestOK,
          ReaderOffWhileTuning, JoinedOK
<1>7. CASE StopJoined
  BY <1>7, ClearIndInv DEF StopJoined, MPC, ReaderOffWhileTuning, JoinedOK, readerVars
<1>8. CASE Tune
  <2>1. PICK c \in Coercion : Create(c[1] * BufferMs) /\ rate' = c[2]
    BY <1>8 DEF Tune
  <2>2. c[1] \in Nat \ {0} /\ c[2] \in Nat \ {0}
    BY CoercionAssumption
  <2>3. /\ size' \in Nat \ {0} /\ used' = 0 /\ head' = 0
        /\ buf' \in [0 .. size' - 1 -> Nat]
    BY <2>1, <2>2, CapacityPositive DEF Create, Uninitialised
  <2>4. TypeOK'
    <3>1. rate' \in Nat \ {0}
      BY <2>1, <2>2
    <3>2. used' \in 0 .. size' /\ head' \in 0 .. size' - 1
      <4>1. \A n \in Nat \ {0} : 0 \in 0 .. n /\ 0 \in 0 .. n - 1
        OBVIOUS
      <4> QED BY <2>3, <4>1
    <3>3. /\ device' \in {"open", "unmade"} /\ rpc' \in RPC /\ mpc' \in MPC
          /\ wtail' \in Nat /\ wlen' \in Nat /\ wn' \in Nat /\ need' \in Nat
          /\ stamp' \in Nat /\ stale' \in Nat
      BY <1>8 DEF Tune, TypeOK, MPC, readerVars
    <3> QED BY <2>3, <3>1, <3>2, <3>3 DEF TypeOK
  <2>5. rpc' = "off" /\ stale' = 0 /\ mpc' = "start"
    BY <1>8 DEF Tune, ReaderOffWhileTuning, readerVars
  <2>6. InOrderBeyondStale'
    <3>1. stale' <= toRead'
      BY <2>4, <2>5 DEF TypeOK, toRead
    <3>2. stale' .. used' - 1 = {}
      BY <2>3, <2>5
    <3> QED BY <3>1, <3>2 DEF InOrderBeyondStale
  <2> QED BY <2>3, <2>4, <2>5, <2>6 DEF PointerOK, InFlight, FilledOK, RequestOK, StaleOK,
          ReaderOffWhileTuning, JoinedOK
<1>9. CASE TuneUnmade
  BY <1>9, QuietStepIndInv DEF TuneUnmade, TypeOK, MPC, readerVars, RequestOK, ReaderOffWhileTuning, JoinedOK
<1>10. CASE Start
  BY <1>10, QuietStepIndInv DEF Start, TypeOK, RPC, MPC, readerVars, RequestOK, ReaderOffWhileTuning, JoinedOK
<1>11. CASE StartFails
  BY <1>11, QuietStepIndInv DEF StartFails, TypeOK, MPC, readerVars, RequestOK, ReaderOffWhileTuning, JoinedOK
<1> QED BY <1>1, <1>2, <1>3, <1>4, <1>5, <1>6, <1>7, <1>8, <1>9, <1>10, <1>11 DEF Main

\* The induction step for both threads together.
LEMMA NextIndInv == IndInv /\ [Next]_vars => IndInv'
<1> SUFFICES ASSUME IndInv, [Next]_vars PROVE IndInv'
  OBVIOUS
<1>1. CASE Reader
  BY <1>1, ReaderStepIndInv
<1>2. CASE Main \/ GetSamples \/ ClearBuffer \/ Stop
  BY <1>2, MainStepIndInv
<1>3. CASE Crashed \/ UNCHANGED vars
  <2>1. /\ UNCHANGED <<ringVars, readerVars, mainVars, rate, running, device, stamp, stale>>
        /\ running' \in BOOLEAN /\ high' \in BOOLEAN
    BY <1>3, FlagsBoolean DEF Crashed, vars, IndInv
  <2> QED BY <2>1, QuietStepIndInv DEF IndInv, TypeOK, readerVars, mainVars, ringVars,
          ReaderOffWhileTuning, JoinedOK, RequestOK
<1> QED BY <1>1, <1>2, <1>3 DEF Next

\* The inductive invariant holds in every state the two threads can reach.
THEOREM Inductive == Spec => []IndInv
BY InitIndInv, NextIndInv, PTL DEF Spec

-----------------------------------------------------------------------------
(* What follows from it                                                    *)

\* The indices of the ring stay inside the memory tune() allocated, for every
\* buffer length and every rate a device may coerce a request to.
THEOREM TypeCorrect == Spec => []TypeOK
<1>1. IndInv => TypeOK
  BY DEF IndInv
<1> QED BY <1>1, Inductive, PTL

\* No assert of commit() or read() fails: the watermarks of get_samples() make
\* its unguarded read() safe, and a clear_buffer() never invalidates a commit().
THEOREM AssertsNeverFail == Spec => []AssertsHold
<1>1. IndInv => AssertsHold
  BY DEF IndInv, TypeOK, PointerOK, InFlight, FilledOK, RequestOK, AssertsHold, free_size
<1> QED BY <1>1, Inductive, PTL

\* The device never writes over a committed sample that nobody has read.
THEOREM NeverOverwrites == Spec => []NoOverwrite
<1>1. IndInv => NoOverwrite
  BY DisjointRegions DEF IndInv, NoOverwrite, PointerOK
<1> QED BY <1>1, Inductive, PTL

\* The ring is a FIFO of the device's samples behind at most one stale chunk.
THEOREM SamplesInOrder == Spec => []InOrderBeyondStale
<1>1. IndInv => InOrderBeyondStale
  BY DEF IndInv
<1> QED BY <1>1, Inductive, PTL

\* The two memcpy calls of read() deliver that run, wherever it wraps around.
THEOREM ReadDeliversInOrder == Spec => []DeliversInOrder
<1>1. ASSUME IndInv PROVE DeliversInOrder
  <2>1. SUFFICES ASSUME mpc = "read", NEW i \in stale .. need - 1
                 PROVE  Copied(need, i) = LastCommitted - used + i + 1
    BY DEF DeliversInOrder
  <2>2. /\ size \in Nat \ {0} /\ head \in 0 .. size - 1 /\ used \in 0 .. size
        /\ need \in Nat /\ stale \in Nat /\ need <= used
    BY <2>1, <1>1 DEF IndInv, TypeOK, RequestOK
  <2>3. i \in 0 .. size /\ need \in 0 .. size /\ i < need /\ i \in stale .. used - 1
    BY <2>1, <2>2
  <2>4. buf[(head + i) % size] = LastCommitted - used + i + 1
    BY <1>1, <2>3 DEF IndInv, InOrderBeyondStale
  <2>5. (head + i) % size = SlotAt(head, i, size)
    BY <2>2, <2>3, SlotMod
  <2>6. (head + need) % size = SlotAt(head, need, size)
    BY <2>2, <2>3, SlotMod
  <2>7. Copied(need, i) = buf[SlotAt(head, i, size)]
    <3>1. CASE head + need < size
      BY <2>2, <2>3, <2>6, <3>1 DEF Copied, SlotAt
    <3>2. CASE head + need >= size
      <4>1. (head + need) % size <= head
        BY <2>2, <2>3, <2>6, <3>2 DEF SlotAt
      <4>2. i < size - head => SlotAt(head, i, size) = head + i
        BY <2>2, <2>3 DEF SlotAt
      <4>3. ~(i < size - head) => SlotAt(head, i, size) = i - (size - head)
        BY <2>2, <2>3 DEF SlotAt
      <4> QED BY <4>1, <4>2, <4>3 DEF Copied
    <3> QED BY <2>2, <3>1, <3>2
  <2> QED BY <2>4, <2>5, <2>7
<1> QED BY <1>1, Inductive, PTL

\* tune() never replaces the ring, and start() never overwrites the thread
\* object, while a reader thread is running.
THEOREM ReaderOffWhenTuning == Spec => []ReaderOffWhileTuning
<1>1. IndInv => ReaderOffWhileTuning
  BY DEF IndInv
<1> QED BY <1>1, Inductive, PTL

=============================================================================
