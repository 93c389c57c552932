# A TLA+ model of the rt-mbms-modem

The modem receives 5G Broadcast (FeMBMS): it tunes an SDR, searches a cell,
synchronises with it, and decodes one subframe of 1 ms after the other on a pool
of threads, under the control of a REST API. The radio mathematics is srsRAN's.
What this repository adds, and what these modules model, is the control around
it: a sample ring between two threads, buffers that travel between the main
thread and workers, and global variables that REST threads write while the main
loop reads them. None of that is reached by a unit test.

## 1. Inventory

| Part (source) | State | Operations | Who runs it |
|---|---|---|---|
| Sample ring (`MultichannelRingbuffer.*`) | `_size _used _head _buffers` | constructor, `clear`, `write_head`, `commit`, `read` | reader thread, main |
| SDR reader (`SdrReader.*`) | `_buffer _running _high_watermark_reached _sampleRate _sdr` | `read` (thread), `get_samples`, `clear_buffer`, `stop`, `tune`, `start` | reader thread, main |
| Main loop (`main.cpp`) | `state frequency sample_rate start_frequency step ... restart`, failure counters, `tti`, `mb_idx` | one pass of searching, syncing, processing | main |
| REST control (`RestHandler.cpp`, `set_params`, `set_scan_mode` in `main.cpp`) | the same globals | PUT sdr_params, scan_mode, ce_enable, restart; GETs | cpprest threads |
| Frame processors (`CasFrameProcessor.*`, `MbsfnFrameProcessor.*`) | mutex, buffer, `_mbsfn_configured`, cell; shared: `_sched_stops`, `_rlc_mutex` | `rx_buffer` / `get_rx_buffer_and_lock`, `process`, `unlock`, `set_cell`, `configure_mbsfn` | main and pool workers |
| Thread pool (`include/thread_pool.hpp`) | task queue | `push`, `next_task` | main, workers |
| PHY (`Phy.*`) | cell, SIB13, MCCH, flags, `_tti` | `cell_search`, `synchronize_subframe`, `get_next_frame`, `set_mch_scheduling_info`, `set_mbsfn_config`, `mbsfn_config_for_tti`, `reset` | main and workers |
| RRC (`Rrc.*`) | `_state` of the acquisition | `write_pdu_bcch_dlsch`, `write_pdu_mch`, `reset` | workers, main |
| Gateway (`Gw.*`) | TUN descriptor, the destinations in `Phy` | `init`, `write_pdu_mch` with its checksum | workers |
| Statistics (`RestHandler.*`) | counters, CINR queue | added by workers, divided by GETs | workers, REST threads |
| Configuration writers (`main.cpp`) | the configuration file | `write_frequency_to_config`, `write_ce_to_config` | main, REST threads |
| Measurement file, constellation viewer | - | output only | main, gpsd thread |

How they interact. The reader thread fills the ring; main drains it through
srsRAN's receive callback, that is `get_samples()`. Main locks a processor,
receives a subframe into its buffer and pushes it to the pool; the worker decodes
it and unlocks the processor. Workers report through RRC to the PHY, which main
asks whether MBSFN subframes can be decoded yet. REST threads assign globals of
`main.cpp`, main's `state` among them, with neither lock nor atomic.

What is hard here, with the line where it bites, is the list `hazards` of
`PROJECT.json`. In short: three critical sections for one write to the ring;
`clear_buffer()` between them; a mutex locked by one thread and unlocked by
another, or by nobody; `restart` tested and cleared in two steps; unsigned
counters; a processor that is configured once and kept for ever.

What makes each part correct:

* ring and reader - no assert fails, no unread sample is overwritten, samples
  leave in order, `stop()` and `get_samples()` always return;
* pipeline - one owner per processor, a worker decodes the subframe it was given
  with the parameters of the current cell, main is never stuck on a mutex;
* schedule - a subframe is decoded as what it is, the end of a session is found in
  time and not too early, though workers finish in any order;
* output - packets leave with a correct checksum, counters can be divided, what is
  listed is what is received;
* configuration - what was acknowledged is in the file and is used after a restart;
* control - what is saved is what was found, a request takes effect, a sweep visits
  all its frequencies again and again, no state is a trap.

## 2. Modules

| Module | Models | Used by |
|---|---|---|
| `MultichannelRingbuffer` | the ring, one operator per method | `SdrReader` |
| `SampleFifo` | what the ring promises: a queue of samples | `SdrReader`, as `INSTANCE ... WITH` |
| `SdrReader` | reader thread and main on one ring | `MCSdrReader`, `SdrReaderProofs` |
| `SdrReaderProofs` | theorems about `SdrReader` | `SampleFifoProofs` |
| `SampleFifoProofs` | the theorem that `SdrReader` implements `SampleFifo` | - |
| `FramePipeline` | main's dispatch, processors, pool, REST flags | `MCFramePipeline`, `FramePipelineProofs` |
| `FramePipelineProofs` | theorems about `FramePipeline` | - |
| `ModemControl` | main's state machine and the REST threads | `MCModemControl`, `ModemControlProofs` |
| `ModemControlProofs` | theorems about `ModemControl` | - |
| `Acquisition` | what RRC and PHY learn from a cell, and who writes it when | `MCAcquisition`, `AcquisitionProofs` |
| `AcquisitionProofs` | theorems about `Acquisition` | - |
| `SubframeMap` | the subframe arithmetic of `Phy.cpp`, as operators | `MchSchedule` |
| `MchSchedule` | from subframes to the bearers of RLC: dispatch in turn, `process()`, the stops of the MTCHs | `MCMchSchedule`, `MchScheduleProofs` |
| `MchScheduleProofs` | theorems about `SubframeMap` and `MchSchedule` | - |
| `Gw` | the gateway and its checksum | `Output` |
| `ChannelStats` | the divisors of the block error rates | `Output` |
| `Output` | workers that count and deliver, over `ChannelStats` and `Gw` | `MCOutput`, `OutputProofs` |
| `OutputProofs` | theorems about `Gw`, `ChannelStats` and `Output` | - |
| `ConfigFile` | the writers of the configuration file, the end and the start of the process | `MCConfigFile`, `ConfigFileProofs` |
| `ConfigFileProofs` | theorems about `ConfigFile` | - |
| `MC*` | the constants of the small instances | the `.cfg` files |

The operators behind a comment "Mutant:" are variants
of the definition that follows them, with a slip such code could contain; they are
used by no specification and serve to show that the properties can fail.

### MultichannelRingbuffer and SdrReader

All channels move together, so there is one. The unit is a sample, and a rate is
samples per millisecond. A slot holds the stamp of its sample, counted by the
device since the last `tune()`; 0 is memory nobody wrote. Each ring method runs
under the ring's mutex and is one atomic operator. The reader's loop is cut where
it releases the mutex: `ReaderHasRoom` (`free_size`), `WriteHead`, `ReadStream`
(the device writes through the pointer, outside the mutex, any number of samples
including none: short reads, timeouts and errors), `Commit`. Main's
`get_samples()` is `GetSamples`, then `GetFilled` or `GetTimeout` if it has to
wait, then `GetRead`. `stop()` is `Stop` and, after the join, `StopJoined`.
`Tune` replaces the ring, sized for the *requested* rate, and then takes over the
rate the device reports (`Coercion` is the set of pairs); `StartFails` is a failed
`setupStream()`, after which `_sdr` dangles and the next tune crashes
(`TuneUnmade`).

Two ghost variables record what the code cannot know: `stamp`, and `stale`, the
number of samples at the front of the ring that were committed but not written
there.

`SampleFifo` is the abstract specification: samples are appended in batches, taken in
batches and lost at a clear only. `SdrReader` implements it (`ImplementsFifo`) with
the mapping: the queue is what lies between head and tail, the last sample put is
`LastCommitted`, and a batch is misplaced while the reader holds a pointer that is no
longer the tail. Finding 1 is part of the promise: after a clear
during a batch, the queue starts with as many samples of unknown content.

Assumptions: the ring holds twice the low watermark (`WatermarkAssumption`; the
code does not check `ringbuffer_size_ms`), and a caller asks for one frame at most, 10 ms
at the rate the device reports. (srsRAN's synchronisation functions ask for 10 ms or less
at the requested rate, which is more only when the device coerces it downwards.) The wait
loop's sleep and the pacing sleeps have no effect on the state and are left out.

### FramePipeline

State per processor: mutex, the subframe in its buffer, the cell it is configured
for. Main's steps are cut where another thread can matter: the loop test,
the mutex, the receive call, the dispatch, the PRB extension after the push. A
failed receive leads to `GoSearching`, which leaves the mutex as it is, like the
code. `process()` of either processor is one step, the one that ends it: in
between it only touches what it owns. For CAS it may make SIB13 known (`mcch`),
with or without a wider MBSFN part. TTIs are counted modulo `TtiCount`, and a cell
is given by its CAS subframes within `CasPeriod`, so that dedicated and mixed cells
are both there.

`WorkersKeepUp` is a timing assumption. After a loss the SDR is stopped, retuned
and started and a cell is searched (seconds); a PRB extension waits at least for
half the ring to fill again. A task decodes 1 ms of samples. So a synchronisation
does not succeed while a task from before is unfinished; without the assumption
the unconditional unlock of `main.cpp:717` breaks `OneOwner`.

### ModemControl

The globals, assignment by assignment for the REST threads, and load and store for
main's `step++`. Main's actions are its blocks between two reads of a shared
variable. `cell_search()` and `synchronize_subframe()` succeed or fail freely.
The loop `while (!sfn_sync && max_frames-- > 0)` is summarised by the value of
`max_frames` behind it (`FramesLeft`), wrap-around included. Decoding from a sample
file is left out.

### Acquisition

The state is Phy's: `_mcch_configured`, `_mch_configured`, `_decode_mcch`, the MCCH table,
`_sib13`, `_mcch`; with the bearers of RLC and `_rlc_mutex`. Nothing locks Phy, so both
kinds of workers are cut at every write another thread can see. The CAS worker runs
`ClearTable` and `FillTable` (`Phy::set_mch_scheduling_info`, whose loop fills a table that a
worker may be reading), `AddMcchBearer` and `DecodeMcch` (`Rrc::handle_sib1`). An MBSFN worker
asks `mbsfn_config_for_tti` and then either decodes data (`DecodeMch`) or an MCCH
message: `WritePduMch`, `AddBearers`, `set_mbsfn_config`, `StopDecodingMcch`, all under
`_rlc_mutex`. `GoSearching` is the only path with `phy.reset()`; `PutScanMode` and
`PrbExtension` leave processing without one. `_sib13` and `_mcch` are structures copied without a lock, so a
read during the copy is a choice: any answer for the MCCH subframe (`is_mcch`), and any
mixture of the old and the new MCCH (`McchSeen`; `use` is the set of what was mixed).

What a cell broadcasts is a pair of the cell and the sessions of its MCCH, and
`McchChange` changes the sessions. Each task carries the broadcast its samples were
taken from (`smp`), and the MCCHs it is decoded with (`use`), so that the two can be
compared. Nobody reads Rrc's own `_state`, so it is left out. All cells share one MBSFN
area and subcarrier spacing (otherwise finding 3 hides everything here), and, as in
`FramePipeline`, the workers finish before the next synchronisation. `tti` and `mb_idx`
go back to 0 at once when processing ends, not when it resumes: no step reads them in
between.

### SubframeMap and MchSchedule

`SubframeMap` has the closed formulas of `mbsfn_config_for_tti()`: the MCCH test by repetition period,
offset and table (`is_mcch`), the number of a subframe, its PMCH and its MCS. `MchSchedule`
sets them against a carrier that *counts* its subframes (`TxNumber`) and the frames between two
MCCHs (`TxIsMcch`) and sends, in
each scheduling period, the scheduling information (MSI) of each PMCH in its first subframe, the
MCCH, and the MTCHs one after the other (`Sent`); the plan may differ between the
two periods of the model. Main hands MBSFN subframes to the processors in turn. A
worker is cut at every use of the shared `_sched_stops` and of RLC:
`mbsfn_config_for_tti`, `Decode` or `DecodeFails`, `ScheduleStop` per MSI entry,
`WritePdu` per SDU, then the loop over the PMCHs, `LockStops`, `StopBearer`,
`UnlockStops`. RLC is the set of periods whose PDUs a bearer got since its
last `stop_mch()`. Two ghosts say when nothing can be expected: `lost` (a subframe
with an MSI or with data was not decoded) and `overtaken` (a worker acted before one
with an older subframe).

`CellsAssumption` says what a carrier is: an MCCH with a period and an offset below it, at least one PMCH and at
most 16, the size of `_rest._mch` (`process()` drops further ones, `MbsfnFrameProcessor.cpp:104`), and
their ends in the order they are listed in. The period is the same for all PMCHs, as the index is computed per PMCH but compared
with boundaries that are common to all. `PlanAssumption` says what a plan is, for
carriers with one PMCH: LCID 0 is the MCCH's, an MTCH has one entry in the scheduling
information, and in some subframe from its end on there is data of an MTCH, because only such a subframe runs
the loop over `_sched_stops` (the MCCH's does not). `Spaced` is a condition that `NeverCutShort` names and no
assumption: counted in MBSFN subframes (`Gap`), there are at least as many as there are
processors between the scheduling information and a subframe that stops each MTCH (`Ends`), and between the
PMCH and the next period. The branch for an LCID of 32 or more
(`MbsfnFrameProcessor.cpp:214`) is left out: the field has five bits. `process()` is also in
`FramePipeline`, as one step; that it ends is shown here (`ProcessEnds`). `_rlc_mutex` is part of the step
that takes it: its holder never waits for another lock.

### Gw, ChannelStats and Output

A header has its nine words without the checksum, each one of `Base` values (2^16 in the
code; `HeaderAssumption` asks for nine, so that nine words carry less than a word), and the
one's complement sum of its option words, 0 without options: the code does not look at
them, and a receiver only adds them up. `sum`,
`Folded` and `checksum` are the nine additions, the fold, and the second fold with the truncation to
a word; `Verifies` is the receiver's
check, with the carry added at each word. The order of the bytes in a word does not
matter for either. Packets of two bytes or less are `DeliverNothing`. PDUs of 3 to 19 bytes (`WriteRunt`) are
read past their end, in what the buffer held before, so protocol and destination are a choice, and
nothing is said of the header they do not have. Later fragments of a packet have a header and no
UDP header (`NoUdpHeader`): whatever is read there is noted as the destination (`DestRead`).

`ChannelStats` has the two `total` counters; `errors` never decides anything. For the
MCHs, which several workers count, an increment is a load and a store, so that a
reset can be undone by an increment under way. Counters stay at `MaxCount`, and any subframe may
be one that resets: which order the workers are in is left to `MchSchedule`.

`Output` composes the two: the step that ends `process()` also delivers a packet, an
MCCH message (which lists the destinations anew) or nothing.

### ConfigFile

A writer reads the file, opens (and truncates) it, and closes it; each may fail, and
`_Exit()` may cut it off anywhere. A Broken file stops a writer (the exception is caught,
the request is answered with an error) and a start (`exit(1)`, and systemd
tries again). `mixed` is for two writers that have the file open at the same time: the
text of the second lies over that of the first, and the file is readable only if
nothing of the first sticks out. `acked` is what the file should hold by the calls that succeeded.
A start limit of systemd is left out.

## 3. Runs

| Run | Expectation | Shows |
|---|---|---|
| `ring` | pass | asserts, no overwrite, order, `stop()` and `get_samples()` return; the ring implements `SampleFifo` |
| `ring_clear` | violation | a chunk that survives `clear_buffer()` |
| `pipeline` | pass | one owner, samples match the task, no leaked MBSFN mutex, main gets the mutex |
| `cas_lock` | violation | the CAS mutex leaks when a CAS subframe is lost |
| `stale_cell` | violation | processors keep the configuration of an earlier cell |
| `control` | pass | what is saved is what was found, outside a request under way; a sweep within its preset covers it for ever; without a request a search runs at the search rate |
| `restart_lost` | violation | a restart set between test and reset is dropped |
| `sync_stuck` | violation | an undecodable MIB keeps the modem in syncing for ever |
| `acquisition` | pass | a worker decodes with an MCCH whose bearers exist; the modem ends up with what the cell broadcasts |
| `schedule` | pass | a subframe is decoded as the MCCH or the PMCH it was sent as, with its MCS; bounded reordering; sessions are neither cut short nor mixed with those of the next period; `process()` ends |
| `output` | pass | block error rates are finite, checksums of headers without options verify, destinations are listed |
| `config` | pass | no lost settings and no broken file outside two named races; a restart activates what was acknowledged |

Bounds.

* `ring`: `BufferMs = 3`, `LowMs = 1`, rates 1 and 2, also with a device that
  doubles or halves the request. Rings of 3 and 6 slots and requests of 1 and 2
  make every wrap-around happen, full and empty ring included, and an odd
  `BufferMs` keeps the half watermark off a whole number. `MaxStamp = 8` lets the
  longest ring fill and start over; the proofs have no such bound in their
  argument. `ring_clear` needs one rate and a ring of four slots only.
* `pipeline`: two MBSFN processors and three workers, so that mb_idx wraps and
  tasks overtake one another; CAS every fourth subframe (and every second in the mixed
  cell), TTIs modulo 8; two cells.
* `control`: presets of three and two frequencies on rasters that differ; one
  request, at any moment; three frames per synchronisation, with
  `MaxUnsigned = 15` for `UINT_MAX`; hard resets after two failures. The
  counterexamples need no more than one request.

* `acquisition`: a cell with two session sets and a second cell whose MCCH is in another
  subframe; CAS and two MBSFN subframes in turn; two workers. So a late worker of
  the first cell, a change of the MCCH and a reset can all cross.

* `schedule`: the shortest real period (8 frames, two CAS subframes), two periods,
  two workers, three carriers: a dedicated one whose MTCHs end differently in the
  two periods, a mixed one with two PMCHs, and a dedicated one whose second PMCH starts
  right behind a CAS subframe, where the formula changes. The MCCH comes twice a period, once,
  or in every second period, with and without an offset.
* `output`: words of four bits and seven headers of nine words, whose sums have from none to
  eight carries, with and without another one from the fold, and one with IP options; two
  workers, counters up to 2, two destinations.
* `config`: main and two REST threads, two frequencies, with and without `--ce`.

Deadlock is checked in all of them. A crash in `SdrReader` is a state of its own,
in which nothing changes.

Fairness. `SdrReader`: weak fairness of the reader thread and of main inside an
operation - both are scheduled threads, `readStream()` has a timeout, and the
wait loop has a deadline; main need not call anything. `FramePipeline`: weak
fairness of main, of taking a task, and of each running task; none of a successful
synchronisation. `ModemControl`: weak fairness of main's own steps and of the
assignments of an accepted request; none of losing a subframe, since a cell may be
received for ever. `Acquisition`: weak fairness of main's dispatch, of the CAS
worker and of each MBSFN worker. That SIB1 is decoded and that an error-free MCCH
subframe meets a complete table is radio and luck, so `FollowsTheAir` has
it in its premise, not in the specification. `MchSchedule`: weak fairness of main and of
each worker; there are more pool threads than processors. `ConfigFile`: weak fairness
of a writer inside its call, of the end of the 200 ms sleep and of systemd's start.
`Output`: strong fairness of decoding a packet and of decoding an MCCH message, since a
carrier repeats both; that subframes are decoded at all is a premise of `DestListed`.

## 4. Findings

1. `clear_buffer()` (`main.cpp:602`) runs while the reader may hold a pointer from
   `write_head()`. The commit that follows counts slots at the new tail, not the ones
   that were written: the first chunk after the clear is old or uninitialised
   memory. `SamplesInOrder` proves that the damage is one chunk at most.
2. A lost CAS subframe leaves the CAS mutex locked (`main.cpp:774`); the resync
   unlocks the MBSFN processors only. Main blocks at the next CAS subframe.
3. `_mbsfn_configured` is never reset: MBSFN processors keep cell, area and subcarrier
   spacing of the first cell.
4. `restart` is cleared unconditionally ten lines after it was tested. The SDR stays on the old
   frequency until a hard reset, a loss or another request tunes it.
5. `max_frames == 0 && !sfn_sync` is never true (`main.cpp:692`): the unsigned counter has
   wrapped. The failure branch, with its own recovery, is dead code.

Observations, met while modelling, without a run of their own:

* `step = 0` of `set_scan_mode()` (`main.cpp:282`) is lost between load and store of main's `step++`
  (`main.cpp:654`). With `step` above the `number_of_step` of the new preset neither test of the sweep is
  true any more, and the modem searches one frequency, outside the preset, until another
  request; `main.cpp:266` says that the call starts the search "from its beginning". The model can do that;
  `SweepsForever` excludes it by `step <= number_of_step` in its premise, and is violated without it.
* What is saved as the "discovered frequency" (`main.cpp:610`) is the variable, which a request may have
  assigned since the SDR was tuned. `SavesWhatItFound` has this as its exception, and is violated
  without it.
* The checksum is computed over 20 bytes (`Gw.cpp:52`) although the UDP header is looked for behind the
  options (`Gw.cpp:46`): a correct checksum of a packet with IP options is "corrected" (`Gw.cpp:70`) to a
  wrong one. `ChecksumVerifies` proves that it is wrong unless the options add up to zero;
  `HeadersVerify` is about headers without options.
* PUT scan_mode writes `state` past the branches that restore the search rate
  (`main.cpp:596` says "We're at the search sample rate") and that call `phy.reset()`: the
  first subframes of the next cell are decoded with the MCCH of the last. `SearchRateRestored` is therefore
  about modems without a request, and `FollowsTheAir` about what the modem ends up with.
* With several PMCHs the stops do not do what they are for: they are keyed by LCID
  alone, counted by the carrier from the start of each PMCH but compared with an index that
  counts from the start of the period, and all sent to MCH 0. `NeverCutShort` and
  `PeriodsSeparate` are about carriers with one PMCH.
* A worker that is overtaken in the last subframe of a session delivers its PDU
  after the stop; the stop is not repeated (`overtaken` in `PeriodsSeparate`).
* An entry of `_sched_stops` does not say which period it is of. With three processors
  and a PMCH that fills the period, a slow worker with a subframe near the end of a period can come to its loop
  after a faster one has noted the stops of the next: its index is higher, so it stops the MTCHs
  at the start of their period (`MbsfnFrameProcessor.cpp:257`). `NeverCutShort` says that this takes
  both an overtaken worker and a carrier that is not `Spaced`.
* A scheduling period whose first subframe is also the MCCH's is only stopped if the MCCH
  is being decoded at that moment (`Phy.cpp:361`): otherwise the MSI is not read.
* A GET pdsch_status between the reset and the count (`CasFrameProcessor.cpp:109`) divides by 0,
  although `CasFrameProcessor.cpp:175` guards another value "against NAN: it would serialise to
  invalid JSON on the API".
* Two writers of the configuration file, or a restart during a write, can lose an
  acknowledged ce_enable or leave a file the modem does not start with; `FileConsistent` says
  that nothing else can.
* `add_cinr_value()` keeps one value more than the "last CINR_RAVG_CNT samples" of
  `RestHandler.h:137`.

## 5. Proofs

`SdrReaderProofs` proves the safety properties of the ring for every buffer length,
watermark, rate pair and bound allowed by the assumptions. The inductive invariant
`IndInv` is the conjunction of

* `TypeOK`;
* `ReaderOffWhileTuning` and `JoinedOK` - the reader is off whenever main replaces the
  ring, and it outlives `_running` only while `stop()` waits for it: so `size` and
  `rate` are fixed while the reader is in its loop;
* `PointerOK` - the region of the reader's pointer lies inside the memory, and either
  starts at the tail with room for all of it, or the ring is empty: this is what lets
  the level checked in one critical section be used in the next two, whatever main
  reads or clears in between;
* `FilledOK` - after `readStream()` the written slots hold the last stamps;
* `RequestOK` - the watermark logic implies enough samples for the request before
  `read()`;
* `StaleOK` and `InOrderBeyondStale` - at most one stale chunk, FIFO order behind it.

`PointerOK` is needed because `AssertsHold` and `NoOverwrite` are not inductive: they say
nothing about the reader between the check and the pointer. `FilledOK` is needed because
`Commit` moves the written slots into the FIFO. The proof has one step per action and
one per conjunct; the arithmetic of `% size` is in lemmas of its own. The
theorems `TypeCorrect`, `AssertsNeverFail`, `NeverOverwrites`, `SamplesInOrder`,
`ReadDeliversInOrder` and `ReaderOffWhenTuning` follow from `Inductive`.

`AcquisitionProofs` proves `TypeCorrect` and `BearersAlwaysReady` for every number of
workers, cells, sessions and subframes. `BearersReady` speaks of the workers that
decode; inductive is its conjunction with `TypeOK` and `BearersAdded`, which says
where a worker may have got its permission from: whatever `_mcch` holds has its
bearers, `_decode_mcch` implies the MCCH's bearer, and a worker past `AddBearers`, or a CAS
worker past `AddMcchBearer`, has added its own. Bearers are never removed, so a reset in between
does no harm.

`ConfigFileProofs` proves `TypeCorrect` and `FileAlwaysConsistent` for every set of
frequencies and any number of REST threads. `FileConsistent` says nothing while a writer is
under way, so it is not inductive; `IndInv` adds to `TypeOK` the invariant `Orderly`: as
long as no two writers overlapped, at most one is under way (`OneWriter`) and no text was
mixed; if no write was cut off either, the copy of that writer differs from what was
acknowledged in the setting it changes and in nothing else (`OwnSettingOnly`), and the file
is as acknowledged unless it is open (`FileAcked`).

`SampleFifoProofs` proves the refinement: `RingImplementsFifo`, that every behaviour of
`SdrReader` is one of `SampleFifo` under the mapping of section 2. It needs no invariant beyond the one
above. The reader's steps before `commit()` stutter - for `readStream()` because the region
it writes is disjoint from the queue (`DisjointRegions`) -, `commit()` is a `Put`, or a
`PutMisplaced` after a clear, `read()` is a `Get`, and `clear_buffer()` and `tune()` are `Clear` and
`Restart`.

`FramePipelineProofs` proves who owns a processor, for every number of processors and
pool threads, every set of cells and every pattern of CAS subframes. `OneOwner` is not inductive: it speaks
of tasks only, while the danger is main between lock and push. `Ownership` says that
a processor with a task has its mutex locked, is not held by main, and has one task, queued or
running; `BufferOK` that its buffer holds the subframe of the task, or, before the push, the current
one; `NoLeak` that a locked MBSFN mutex has a holder, also before processing is entered. Main
unlocks the MBSFN processors after each synchronisation without asking (`main.cpp:717`), so
`ProcessorsOwnedOnce` and `WorkersSeeTheirSamples` have `WorkersKeepUp` as their
premise. Two results do not need it: `CasOwnedOnce`, since nobody unlocks that processor but its
worker, and `NoMbsfnLockLeaks`. The CAS mutex *is* leaked (finding 2), so there is no theorem
about that.

`ModemControlProofs` proves `TypeCorrect`, `AlwaysSavesWhatItFound`,
`SweepAlwaysWithinPreset` and `SearchRateAlwaysRestored` for all presets, frequencies and rates and for
any number of requests. `SavesWhatItFound` is about the step that saves; it follows from the invariant `Described`: when the SDR is not
tuned to `frequency`, main is about to tune, `restart` is set, a REST thread is between its
assignment of `frequency` and that of `restart`, or a restart was overwritten (finding 4). `SweepOK` and
`RateOK` say what holds at each of main's points as long as there was no request; `RateOK` needs
that the failure branch of the synchronisation is dead (`NeverZeroFramesLeft`, finding 5), because
below `max_sync_fails` that branch goes back to searching without restoring the rate.

`MchScheduleProofs` first proves the arithmetic of `Phy.cpp` for every period that is a multiple of four
frames: `ClosedFormula`, that `sf_idx` counts the MBSFN subframes of the
period, by numbering them (39 of 40 on a dedicated carrier, six of ten on a mixed one); and
`PmchAgrees`, that the first allocation that has not ended is the one that contains the
subframe; and `McchAgrees`, that the MCCH test finds the repetitions counted from the offset. `AlwaysDecodesAsSent` follows with `Dispatched`: workers only get MBSFN subframes, for which
alone the formula is right. `ReorderAlwaysBounded` needs `Rank`: a busy worker is behind by no
more subframes than the turn has passed processors since it got its own, `(mb_idx - 1 - w) %
thread_cnt`. Main cannot pass a busy processor, so a subframe and a processor are added together,
and a CAS subframe adds neither; the TTI may wrap around in between. `TypeCorrect` includes that
`_sched_stop_mutex` is held exactly by a worker in the loop.

`PeriodsAlwaysSeparate` and `NeverCutsShort` are about all that several workers do to `_sched_stops` and to
RLC in a period. `Older` orders the workers by the turn they were given their subframes in, which is the order of the
subframes. `Faithful` ties what a worker still has to do to what was sent. `TurnInv`, for workers in turn and no
losses, then follows an MTCH through a period: before its data comes its entry, which a worker has still to
note or has noted already (`MsiThenData`, and `MsiBeforeMain` for subframes that were not received yet); after
its entry comes a subframe that stops it, before any of the next period (`MsiThenEnd`, by `Coming`, over the
busy workers in their order and what main has yet to receive); so an entry is always of the
period whose PDUs its bearer has, and a bearer without an entry is empty (`StopKnown`). `McchInTurn` does the
same for the MCCH, which its own worker stops. `WroteInTurn` carries `~overtaken` from one step of a worker to
the next. With `StopKnown` a bearer has PDUs of one period only, and a due entry is of the worker's own
period, where `NotDueYet` (the index grows, `IndexGrows`) rules out that data is to come.

When workers overtake one another `TurnInv` is lost, and `NeverCutsShort` rests on `RoomInv`: on a
`Spaced` carrier an entry is of a period in which a subframe that stops it is still to come or at
work. A worker of another period would be at least `thread_cnt` subframes behind, which `Rank` excludes
(`InRoom`). The theorem covers both cases.

`OutputProofs` proves `ChecksumVerifies` for all headers and word widths: a receiver accepts the checksum exactly
if the options add up to zero. Without them (`WordsVerify`) the folds take
away multiples of `Base - 1`, one's complement addition too (`OnesAddSums`), so a receiver's sum is a word that is
a multiple of `Base - 1`; it is not 0, since only words that are all 0 add up to 0, and their checksum
is all ones; added to that sum, options that are not zero spoil it. With `Checked` (what was written carries the checksum of its own header) this gives
`HeadersAlwaysVerify`. `RatesAlwaysFinite` is inductive with `TypeOK`: a store is of a value above
what was loaded, however old that is.

Every conjunct of the inductive invariants holds in TLC on the instances of the runs. The
theorems use the assumptions named in the modules, which TLC evaluates in the runs, and no other.

Only model-checked: the liveness properties (`StopReturns`, `GetSamplesReturns`,
`FollowsTheAir`, `MbsfnLockAcquired`, `SweepsForever`, `ProcessEnds`, `DestListed`,
`RestartActivates`): liveness under fairness is outside the prover.

## 6. Plan

All modules above are written, and every safety property of the passing runs, invariant, action property
or refinement, is proved. What could come next:

* what `_sched_stops` does on carriers with several PMCHs: today there is nothing to state but
  that the stops reach the wrong bearer (section 4);
* `Acquisition` with cells of different MBSFN areas, once finding 3 is repaired;
* the liveness properties, with a prover that knows fairness.

## 7. Not modelled

Decoding, synchronisation, RLC and PDCP (srsRAN), the SDR driver, HTTP, libconfig and
gpsd: external, kept as the results the code tells apart. Command line, logging, the
measurement file and the constellation viewer: output without effect on the state.
(The GPS thread assigns strings that main copies into the measurement file,
`MeasurementFileWriter.cpp:99`: a data race, in output nothing reads back.)
`src/include/spdlog`, four fifths of the lines of the repository, is a vendored copy of a
logging library. Of the REST API, the JSON, the plots, the system status, the API key and
OPTIONS: they read and never change the modem's state.
`thread_pool::join()` is never reached, since the main loop has no exit.
