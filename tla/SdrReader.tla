------------------------------ MODULE SdrReader ------------------------------
(***************************************************************************)
(* The SDR reader (src/src/SdrReader.{h,cpp}): a realtime thread copies     *)
(* samples from the device into the ring, and the main thread takes them    *)
(* out through get_samples(), empties the ring with clear_buffer(), and     *)
(* stops, retunes and restarts the reader.                                  *)
(*                                                                         *)
(* A rate is a number of samples per millisecond (_sampleRate / 1000).      *)
(***************************************************************************)
EXTENDS MultichannelRingbuffer

CONSTANTS
    BufferMs,   \* _buffer_ms, modem.sdr.ringbuffer_size_ms
    LowMs,      \* the low watermark of get_samples(), 10 in the code
    Coercion,   \* the <<requested, actual>> rates of the devices considered
    MaxStamp    \* bound: samples a device delivers between two calls of tune()

\* The watermarks are ordered only if the ring holds twice the low one.
ASSUME WatermarkAssumption ==
    /\ BufferMs \in Nat
    /\ LowMs \in Nat \ {0}
    /\ 2 * LowMs <= BufferMs

ASSUME CoercionAssumption == Coercion \subseteq (Nat \ {0}) \X (Nat \ {0})

ASSUME BoundAssumption == MaxStamp \in Nat

VARIABLES
    rate,      \* _sampleRate: samples per ms, as the device reports it
    running,   \* _running
    high,      \* _high_watermark_reached
    device,    \* _sdr: "open", or "unmade" while the pointer still is non-null
    rpc,       \* reader thread: "off", or where it is in SdrReader::read()
    wtail,     \* slot of the pointer the reader got from write_head()
    wlen,      \* min(writeable_samples, toRead)
    wn,        \* what readStream() returned, negative codes as 0
    mpc,       \* main thread: where it is with respect to this object
    need,      \* nsamples of the get_samples() call under way
    stamp,     \* ghost: stamp of the last sample the device delivered
    stale      \* ghost: committed samples at the front that nobody wrote there

readerVars == <<rpc, wtail, wlen, wn>>
mainVars == <<mpc, need, high>>
vars == <<ringVars, readerVars, mainVars, rate, running, device, stamp, stale>>

-----------------------------------------------------------------------------
(* The reader thread, SdrReader::read()                                    *)

\* int toRead = ceil(_sampleRate / 1000.0)
toRead == rate

\* Mutant: _running is only looked at when there is room in the ring.
ReaderExitWithRoom ==
    /\ rpc = "loop" /\ ~running /\ free_size >= toRead
    /\ rpc' = "off"
    /\ UNCHANGED <<ringVars, wtail, wlen, wn, mainVars, rate, running, device, stamp, stale>>

ReaderExit ==
    /\ rpc = "loop" /\ ~running
    /\ rpc' = "off"
    /\ UNCHANGED <<ringVars, wtail, wlen, wn, mainVars, rate, running, device, stamp, stale>>

\* free_size() is checked here, write_head() takes the mutex again later.  The
\* overflow branch sleeps and loops: it is the step that is not taken.
ReaderHasRoom ==
    /\ rpc = "loop" /\ running
    /\ free_size >= toRead
    /\ rpc' = "head"
    /\ UNCHANGED <<ringVars, wtail, wlen, wn, mainVars, rate, running, device, stamp, stale>>

WriteHead ==
    /\ rpc = "head"
    /\ wtail' = TailPos
    /\ wlen' = IF Writeable < toRead THEN Writeable ELSE toRead
    /\ rpc' = "fill"
    /\ UNCHANGED <<ringVars, wn, mainVars, rate, running, device, stamp, stale>>

\* readStream() or srsran_filesource_read_multi(): n samples go to the pointer.
\* n = 0 stands for an empty read, a timeout and every error code.
ReadStream ==
    /\ rpc = "fill"
    /\ \E n \in 0 .. wlen :
         /\ stamp + n <= MaxStamp
         /\ Store(wtail, n, stamp + 1)
         /\ stamp' = stamp + n
         /\ wn' = n
    /\ rpc' = "commit"
    /\ UNCHANGED <<size, used, head, wtail, wlen, mainVars, rate, running, device, stale>>

\* Mutant: the requested number of samples is committed, not the received one.
CommitRequested ==
    /\ rpc = "commit"
    /\ commit(wlen)
    /\ stale' = IF wtail = TailPos THEN stale ELSE stale + wlen
    /\ rpc' = "loop"
    /\ UNCHANGED <<wtail, wlen, wn, mainVars, rate, running, device, stamp>>

\* Mutant: a short read is taken for an error and not committed.
CommitFullReads ==
    /\ rpc = "commit"
    /\ commit(IF wn < wlen THEN 0 ELSE wn)
    /\ stale' = IF wtail = TailPos THEN stale ELSE stale + wn
    /\ rpc' = "loop"
    /\ UNCHANGED <<wtail, wlen, wn, mainVars, rate, running, device, stamp>>

\* When the tail moved since write_head() the committed slots are not the ones
\* that were written.
Commit ==
    /\ rpc = "commit"
    /\ commit(wn)
    /\ stale' = IF wtail = TailPos THEN stale ELSE stale + wn
    /\ rpc' = "loop"
    /\ UNCHANGED <<wtail, wlen, wn, mainVars, rate, running, device, stamp>>

Reader == ReaderExit \/ ReaderHasRoom \/ WriteHead \/ ReadStream \/ Commit

-----------------------------------------------------------------------------
(* The main thread                                                         *)

\* Mutant: once filled, the ring is taken to stay above the low watermark.
NeverBelowLow == FALSE

\* used < (_sampleRate / 1000) * 10
BelowLow == used < rate * LowMs

\* used < (_sampleRate / 1000) * (_buffer_ms / 2.0)
BelowHalf == 2 * used < rate * BufferMs

\* get_samples() up to the wait loop.  The callers, srsRAN's synchronisation
\* functions, ask for one frame at most: 10 ms, the low watermark.
GetSamples ==
    /\ mpc = "idle"
    /\ \E n \in 1 .. rate * LowMs : need' = n
    /\ high' = (high /\ ~BelowLow)
    /\ mpc' = IF high' THEN "read" ELSE "wait"
    /\ UNCHANGED <<ringVars, readerVars, rate, running, device, stamp, stale>>

\* The wait loop is left because the ring is half full ...
GetFilled ==
    /\ mpc = "wait" /\ ~BelowHalf
    /\ high' = TRUE
    /\ mpc' = "read"
    /\ UNCHANGED <<ringVars, readerVars, need, rate, running, device, stamp, stale>>

\* Mutant: the wait loop without its deadline.
WaitForever == FALSE

\* ... or with -1, because the deadline has passed and it is not.
GetTimeout ==
    /\ mpc = "wait" /\ BelowHalf
    /\ mpc' = "idle"
    /\ UNCHANGED <<ringVars, readerVars, need, high, rate, running, device, stamp, stale>>

GetRead ==
    /\ mpc = "read"
    /\ read(need)
    /\ stale' = IF stale > need THEN stale - need ELSE 0
    /\ mpc' = "idle"
    /\ UNCHANGED <<readerVars, need, high, rate, running, device, stamp>>

\* clear_buffer(); the main loop calls it before every cell search.
ClearBuffer ==
    /\ mpc = "idle"
    /\ clear
    /\ high' = FALSE
    /\ stale' = 0
    /\ UNCHANGED <<readerVars, mpc, need, rate, running, device, stamp>>

\* Mutant: the reader is told to stop, but not waited for.
StopWithoutJoin ==
    /\ mpc = "idle"
    /\ running' = FALSE
    /\ mpc' = "tune"
    /\ UNCHANGED <<ringVars, readerVars, need, high, rate, device, stamp, stale>>

\* stop() up to the join; it does nothing when the reader was never started.
Stop ==
    /\ mpc = "idle"
    /\ running' = FALSE
    /\ mpc' = IF running THEN "join" ELSE "tune"
    /\ UNCHANGED <<ringVars, readerVars, need, high, rate, device, stamp, stale>>

\* The rest of stop(): join, close the stream, clear_buffer().
StopJoined ==
    /\ mpc = "join" /\ rpc = "off"
    /\ clear
    /\ high' = FALSE
    /\ stale' = 0
    /\ mpc' = "tune"
    /\ UNCHANGED <<readerVars, need, rate, running, device, stamp>>

\* tune(): the ring is sized for the requested rate, then _sampleRate becomes
\* what the device made of it.  high survives: only clear_buffer() resets it.
Tune ==
    /\ mpc = "tune" /\ device = "open"
    /\ \E c \in Coercion :
         /\ Create(c[1] * BufferMs)
         /\ rate' = c[2]
    /\ stamp' = 0
    /\ stale' = 0
    /\ mpc' = "start"
    /\ UNCHANGED <<readerVars, need, high, running, device>>

\* After start() failed, _sdr points to a device that was unmade.
TuneUnmade ==
    /\ mpc = "tune" /\ device = "unmade"
    /\ mpc' = "crashed"
    /\ UNCHANGED <<ringVars, readerVars, need, high, rate, running, device, stamp, stale>>

Start ==
    /\ mpc = "start"
    /\ running' = TRUE
    /\ rpc' = "loop"
    /\ mpc' = "idle"
    /\ UNCHANGED <<ringVars, wtail, wlen, wn, need, high, rate, device, stamp, stale>>

\* setupStream() returned nullptr: the device is unmade, _running stays as it is.
StartFails ==
    /\ mpc = "start"
    /\ device' = "unmade"
    /\ mpc' = "idle"
    /\ UNCHANGED <<ringVars, readerVars, need, high, rate, running, stamp, stale>>

Crashed == mpc = "crashed" /\ UNCHANGED vars

\* The steps the main thread takes once it is inside one of the operations.
Main == GetFilled \/ GetTimeout \/ GetRead \/ StopJoined \/ Tune \/ TuneUnmade
          \/ Start \/ StartFails

Next == Reader \/ Main \/ GetSamples \/ ClearBuffer \/ Stop \/ Crashed

-----------------------------------------------------------------------------
\* After the first tune(), before start(); _running has no initialiser.
Init ==
    /\ \E c \in Coercion :
         /\ size = c[1] * BufferMs
         /\ buf = [i \in 0 .. c[1] * BufferMs - 1 |-> Uninitialised]
         /\ rate = c[2]
    /\ used = 0 /\ head = 0
    /\ running \in BOOLEAN
    /\ high = FALSE
    /\ device = "open"
    /\ rpc = "off" /\ wtail = 0 /\ wlen = 0 /\ wn = 0
    /\ mpc = "start" /\ need = 0
    /\ stamp = 0 /\ stale = 0

\* Both threads are scheduled, readStream() returns within its own timeout, and
\* main finishes the operation it is in.
Spec == Init /\ [][Next]_vars /\ WF_vars(Reader) /\ WF_vars(Main)

-----------------------------------------------------------------------------
(* Properties                                                              *)

RPC == {"off", "loop", "head", "fill", "commit"}
MPC == {"start", "idle", "wait", "read", "join", "tune", "crashed"}

\* Every variable keeps its type: the ring's indices stay inside the memory that
\* tune() allocated.
TypeOK ==
    /\ size \in Nat \ {0}
    /\ used \in 0 .. size
    /\ head \in 0 .. size - 1
    /\ buf \in [0 .. size - 1 -> Nat]
    /\ rate \in Nat \ {0}
    /\ running \in BOOLEAN /\ high \in BOOLEAN
    /\ device \in {"open", "unmade"}
    /\ rpc \in RPC /\ mpc \in MPC
    /\ wtail \in Nat /\ wlen \in Nat /\ wn \in Nat /\ need \in Nat
    /\ stamp \in Nat /\ stale \in Nat

\* The asserts of commit() and read() hold whenever the calls are made, although
\* each caller checked the fill level in an earlier critical section.
AssertsHold ==
    /\ rpc = "commit" => wn <= free_size
    /\ mpc = "read" => need <= used

InFlight == rpc \in {"fill", "commit"}

\* While the reader holds a pointer from write_head(), the region it may write
\* stays inside the memory and never touches a committed, unread sample: even
\* when main reads or clears the ring in between.
NoOverwrite ==
    InFlight =>
        /\ wtail + wlen <= size
        /\ \A i \in 0 .. used - 1 :
             LET slot == (head + i) % size
             IN  slot < wtail \/ slot >= wtail + wlen

\* The last stamp committed to the ring.
LastCommitted == IF rpc = "commit" THEN stamp - wn ELSE stamp

\* Behind at most one chunk of misplaced samples, the ring holds the newest
\* samples of the device, consecutive and in order: nothing is lost, repeated
\* or swapped between the reader thread and get_samples().
InOrderBeyondStale ==
    /\ stale <= toRead
    /\ \A i \in stale .. used - 1 :
         buf[(head + i) % size] = LastCommitted - used + i + 1

\* What read() is about to copy, wrap-around included, is such a run.
DeliversInOrder ==
    mpc = "read" =>
        \A i \in stale .. need - 1 : Copied(need, i) = LastCommitted - used + i + 1

\* The ring is only replaced, and a new reader thread only started, when no
\* reader thread is running.
ReaderOffWhileTuning ==
    mpc \in {"tune", "start", "crashed"} => rpc = "off"

\* "Clear all samples from the rx buffers" (SdrReader.h:80): what is read after
\* a clear_buffer() was received in order by the device.
ClearedMeansFresh ==
    mpc = "read" =>
        \A i \in 0 .. need - 1 : Copied(need, i) = LastCommitted - used + i + 1

\* stop() returns: the reader notices _running and its thread is joined.
StopReturns == mpc = "join" ~> mpc = "tune"

\* get_samples() returns even when the reader died or the ring never fills.
GetSamplesReturns == mpc \in {"wait", "read"} ~> mpc = "idle"

-----------------------------------------------------------------------------
(* The ring as a queue                                                     *)

\* The queue is what lies between head and tail; a batch is misplaced when the
\* tail has moved away from the reader's pointer.
Fifo == INSTANCE SampleFifo WITH
    len <- used,
    q <- [i \in 0 .. used - 1 |-> buf[(head + i) % size]],
    last <- LastCommitted,
    misplaced <- InFlight /\ wtail # TailPos

\* The ring, its three critical sections per write and all that main may do
\* between them implement the queue of SampleFifo.
ImplementsFifo == Fifo!Spec
=============================================================================
