---------------------------- MODULE ModemControl ----------------------------
(***************************************************************************)
(* The control of the modem (src/src/main.cpp): the main loop with its      *)
(* states searching, syncing and processing, the frequency sweep, and the   *)
(* tuning of the SDR; and the threads of the REST API, which write the same *)
(* global variables without a lock (set_params(), set_scan_mode(), and      *)
(* _state = searching in src/src/RestHandler.cpp).  Every assignment of a   *)
(* REST thread is a step of its own.  Samples come from the air.            *)
(***************************************************************************)
EXTENDS Integers

CONSTANTS
    Presets,        \* scan presets: records [freq, step_hz, n_steps]
    StartPreset,    \* the preset chosen at start-up
    Freqs,          \* frequencies a PUT sdr_params may ask for
    SearchRate,     \* search_sample_rate
    CellRates,      \* srsran_sampling_freq_hz(cas_nof_prb) of the cells on the air
    WideRate,       \* the rate of a cell whose MBSFN part is wider than its CAS
    MaxSyncFails,   \* modem.phy.max_sync_fails
    MaxFrames,      \* max_frames of the syncing state, 200
    MaxUnsigned,    \* UINT_MAX
    MaxRequests     \* bound: requests the REST API receives

ASSUME ControlAssumption ==
    /\ StartPreset \in Presets
    /\ \A p \in Presets : p.freq \in Nat /\ p.step_hz \in Nat /\ p.n_steps \in Nat
    /\ Freqs \subseteq Nat
    /\ SearchRate \in Nat /\ CellRates \subseteq Nat /\ WideRate \in Nat
    /\ MaxSyncFails \in Nat /\ MaxFrames \in Nat \ {0} /\ MaxRequests \in Nat
    /\ MaxUnsigned \in Nat /\ MaxFrames <= MaxUnsigned

VARIABLES
    \* the globals, written by main and by the REST threads
    state, frequency, sample_rate, start_frequency, frequency_step,
    number_of_step, step, restart,
    \* main
    mpc,                  \* where the main loop is
    tuned,                \* the parameters of the last sdr.tune(): [freq, rate]
    saved,                \* the frequency in the configuration file
    stepReg,              \* the value step++ is about to store
    search_fail_count, sync_fail_count,
    \* a REST thread
    rpc, arg,             \* where it is, and the request it serves
    requests,             \* requests so far
    lost                  \* ghost: main cleared a restart it had not acted on

sweepVars == <<start_frequency, frequency_step, number_of_step, step>>
tuneVars == <<frequency, sample_rate>>
mainVars == <<mpc, tuned, saved, stepReg, search_fail_count, sync_fail_count>>
restVars == <<rpc, arg, requests>>
vars == <<state, tuneVars, sweepVars, restart, mainVars, restVars, lost>>

-----------------------------------------------------------------------------
(* The searching state                                                     *)

\* sdr.stop(); sdr.tune(f, r, ...); sdr.start()
tune(f, r) == tuned' = [freq |-> f, rate |-> r]

\* if (restart) at the top of the searching state.
CheckRestart ==
    /\ mpc = "top" /\ state = "searching"
    /\ mpc' = IF restart THEN "retune" ELSE "clear"
    /\ UNCHANGED <<state, tuneVars, sweepVars, restart, tuned, saved, stepReg,
                   search_fail_count, sync_fail_count, restVars, lost>>

Retune ==
    /\ mpc = "retune"
    /\ tune(frequency, sample_rate)
    /\ mpc' = "retuned"
    /\ UNCHANGED <<state, tuneVars, sweepVars, restart, saved, stepReg,
                   search_fail_count, sync_fail_count, restVars, lost>>

\* restart = false, whether or not it is the one that was checked.  A restart
\* set after the check, or after the retuning, is gone.
ClearRestart ==
    /\ mpc \in {"clear", "retuned"}
    /\ restart' = FALSE
    /\ lost' = (lost \/ (restart /\ (mpc = "clear" \/ tuned.freq # frequency)))
    /\ mpc' = "search"
    /\ UNCHANGED <<state, tuneVars, sweepVars, tuned, saved, stepReg,
                   search_fail_count, sync_fail_count, restVars>>

\* phy.cell_search() succeeds; search_fail_count is reset.
CellFound ==
    /\ mpc = "search"
    /\ search_fail_count' = 0
    /\ mpc' = "found"
    /\ UNCHANGED <<state, tuneVars, sweepVars, restart, tuned, saved, stepReg,
                   sync_fail_count, restVars, lost>>

write_frequency_to_config ==
    /\ mpc = "found"
    /\ saved' = frequency
    /\ mpc' = "adjust"
    /\ UNCHANGED <<state, tuneVars, sweepVars, restart, tuned, stepReg,
                   search_fail_count, sync_fail_count, restVars, lost>>

\* The sample rate of the cell, if it differs from the one searched with.
AdjustRate ==
    /\ mpc = "adjust"
    /\ \E r \in CellRates :
         IF r = sample_rate
         THEN UNCHANGED <<sample_rate, tuned>>
         ELSE sample_rate' = r /\ tune(frequency, r)
    /\ mpc' = "locked"
    /\ UNCHANGED <<state, frequency, sweepVars, restart, saved, stepReg,
                   search_fail_count, sync_fail_count, restVars, lost>>

ToSyncing ==
    /\ mpc = "locked"
    /\ state' = "syncing"
    /\ mpc' = "top"
    /\ UNCHANGED <<tuneVars, sweepVars, restart, tuned, saved, stepReg,
                   search_fail_count, sync_fail_count, restVars, lost>>

\* Mutant: the failure counter is not reset by the hard reset.
NoCellFoundKeepCount ==
    /\ mpc = "search"
    /\ search_fail_count' = search_fail_count + 1
    /\ IF search_fail_count + 1 >= MaxSyncFails
       THEN tune(frequency, sample_rate)
       ELSE UNCHANGED tuned
    /\ mpc' = "sweep"
    /\ UNCHANGED <<state, tuneVars, sweepVars, restart, saved, stepReg,
                   sync_fail_count, restVars, lost>>

\* phy.cell_search() fails: after max_sync_fails failures the SDR is reset.
NoCellFound ==
    /\ mpc = "search"
    /\ IF search_fail_count + 1 >= MaxSyncFails
       THEN search_fail_count' = 0 /\ tune(frequency, sample_rate)
       ELSE search_fail_count' = search_fail_count + 1 /\ UNCHANGED tuned
    /\ mpc' = "sweep"
    /\ UNCHANGED <<state, tuneVars, sweepVars, restart, saved, stepReg,
                   sync_fail_count, restVars, lost>>

\* The sweep: step++ is a load and a store, and a REST thread may store in between.
SweepLoad ==
    /\ mpc = "sweep" /\ step < number_of_step
    /\ stepReg' = step + 1
    /\ mpc' = "store"
    /\ UNCHANGED <<state, tuneVars, sweepVars, restart, tuned, saved,
                   search_fail_count, sync_fail_count, restVars, lost>>

SweepStore ==
    /\ mpc = "store"
    /\ step' = stepReg
    /\ mpc' = "candidate"
    /\ UNCHANGED <<state, tuneVars, start_frequency, frequency_step, number_of_step,
                   restart, tuned, saved, stepReg, search_fail_count, sync_fail_count,
                   restVars, lost>>

\* Mutant: each candidate is counted from the last one instead of the start.
SweepFromLast ==
    /\ mpc = "candidate"
    /\ frequency' = frequency + step * frequency_step
    /\ mpc' = "tune"
    /\ UNCHANGED <<state, sample_rate, sweepVars, restart, tuned, saved, stepReg,
                   search_fail_count, sync_fail_count, restVars, lost>>

SweepFrequency ==
    /\ mpc = "candidate"
    /\ frequency' = start_frequency + step * frequency_step
    /\ mpc' = "tune"
    /\ UNCHANGED <<state, sample_rate, sweepVars, restart, tuned, saved, stepReg,
                   search_fail_count, sync_fail_count, restVars, lost>>

SweepTune ==
    /\ mpc = "tune"
    /\ tune(frequency, sample_rate)
    /\ mpc' = "top"
    /\ UNCHANGED <<state, tuneVars, sweepVars, restart, saved, stepReg,
                   search_fail_count, sync_fail_count, restVars, lost>>

\* Mutant: the variables go back to the start, the SDR does not.
SweepRestartNoRetune ==
    /\ mpc = "sweep" /\ step = number_of_step /\ number_of_step > 0
    /\ frequency' = start_frequency
    /\ sample_rate' = SearchRate
    /\ step' = 0
    /\ mpc' = "top"
    /\ UNCHANGED <<state, start_frequency, frequency_step, number_of_step, restart, tuned,
                   saved, stepReg, search_fail_count, sync_fail_count, restVars, lost>>

\* Mutant: step stays at number_of_step.
SweepRestartKeepStep ==
    /\ mpc = "sweep" /\ step = number_of_step /\ number_of_step > 0
    /\ frequency' = start_frequency
    /\ sample_rate' = SearchRate
    /\ restart' = TRUE
    /\ mpc' = "top"
    /\ UNCHANGED <<state, sweepVars, tuned, saved, stepReg,
                   search_fail_count, sync_fail_count, restVars, lost>>

\* The end of a sweep: back to its start, and a retune at the top of the loop.
SweepRestart ==
    /\ mpc = "sweep" /\ step = number_of_step /\ number_of_step > 0
    /\ frequency' = start_frequency
    /\ sample_rate' = SearchRate
    /\ restart' = TRUE
    /\ step' = 0
    /\ mpc' = "top"
    /\ UNCHANGED <<state, start_frequency, frequency_step, number_of_step, tuned, saved,
                   stepReg, search_fail_count, sync_fail_count, restVars, lost>>

\* No sweep configured, or step beyond its end: the same frequency again.
NoSweep ==
    /\ mpc = "sweep"
    /\ step > number_of_step \/ number_of_step = 0
    /\ mpc' = "top"
    /\ UNCHANGED <<state, tuneVars, sweepVars, restart, tuned, saved, stepReg,
                   search_fail_count, sync_fail_count, restVars, lost>>

-----------------------------------------------------------------------------
(* The syncing state                                                       *)

\* while (!sfn_sync && max_frames-- > 0): the value max_frames has behind the
\* loop when the n-th call of synchronize_subframe() succeeded, or none did and
\* the failing test decremented an unsigned 0.
FramesLeft(n) == IF n <= MaxFrames THEN MaxFrames - n ELSE MaxUnsigned

Synchronised ==
    /\ state' = "processing"
    /\ sync_fail_count' = 0
    /\ mpc' = "top"
    /\ UNCHANGED <<tuneVars, sweepVars, tuned>>

SyncFailed ==
    /\ IF sync_fail_count + 1 >= MaxSyncFails
       THEN /\ sync_fail_count' = 0
            /\ step' = 0
            /\ frequency' = start_frequency
            /\ sample_rate' = SearchRate
            /\ tune(start_frequency, SearchRate)
            /\ UNCHANGED <<start_frequency, frequency_step, number_of_step>>
       ELSE /\ sync_fail_count' = sync_fail_count + 1
            /\ UNCHANGED <<tuneVars, sweepVars, tuned>>
    /\ state' = "searching"
    /\ mpc' = "top"

SyncBegin ==
    /\ mpc = "top" /\ state = "syncing"
    /\ mpc' = "sync"
    /\ UNCHANGED <<state, tuneVars, sweepVars, restart, tuned, saved, stepReg,
                   search_fail_count, sync_fail_count, restVars, lost>>

\* One pass through the syncing state; call n of synchronize_subframe() succeeds,
\* or for n = MaxFrames + 1 none.
Syncing ==
    /\ mpc = "sync"
    /\ \E n \in {1, MaxFrames, MaxFrames + 1} :
         LET sfn_sync == n <= MaxFrames
         IN  IF sfn_sync THEN Synchronised
             ELSE IF FramesLeft(n) = 0 THEN SyncFailed
             ELSE mpc' = "top" /\ UNCHANGED <<state, tuneVars, sweepVars, tuned, sync_fail_count>>
    /\ UNCHANGED <<restart, saved, stepReg, search_fail_count, restVars, lost>>

-----------------------------------------------------------------------------
(* The processing state; FramePipeline has its detail                      *)

EnterProcessing ==
    /\ mpc = "top" /\ state = "processing"
    /\ mpc' = "subframe"
    /\ UNCHANGED <<state, tuneVars, sweepVars, restart, tuned, saved, stepReg,
                   search_fail_count, sync_fail_count, restVars, lost>>

\* The loop condition: a REST thread has written state.
LeaveProcessing ==
    /\ mpc = "subframe" /\ state # "processing"
    /\ mpc' = "top"
    /\ UNCHANGED <<state, tuneVars, sweepVars, restart, tuned, saved, stepReg,
                   search_fail_count, sync_fail_count, restVars, lost>>

\* restart is set, or no subframe was received.
SubframeLost ==
    /\ mpc = "subframe" /\ state = "processing"
    /\ mpc' = "lost"
    /\ UNCHANGED <<state, tuneVars, sweepVars, restart, tuned, saved, stepReg,
                   search_fail_count, sync_fail_count, restVars, lost>>

\* Mutant: the rate of the lost cell is kept.
GoSearchingKeepRate ==
    /\ mpc = "lost"
    /\ tune(frequency, sample_rate)
    /\ state' = "searching"
    /\ mpc' = "top"
    /\ UNCHANGED <<tuneVars, sweepVars, restart, saved, stepReg,
                   search_fail_count, sync_fail_count, restVars, lost>>

GoSearching ==
    /\ mpc = "lost"
    /\ sample_rate' = SearchRate
    /\ tune(frequency, SearchRate)
    /\ state' = "searching"
    /\ mpc' = "top"
    /\ UNCHANGED <<frequency, sweepVars, restart, saved, stepReg,
                   search_fail_count, sync_fail_count, restVars, lost>>

\* The MBSFN part of the cell is wider: tune to its rate, which sample_rate does
\* not follow, and synchronise again.
ExtendPrb ==
    /\ mpc = "subframe" /\ state = "processing" /\ ~restart
    /\ IF WideRate = sample_rate THEN UNCHANGED tuned ELSE tune(frequency, WideRate)
    /\ state' = "syncing"
    /\ mpc' = "top"
    /\ UNCHANGED <<tuneVars, sweepVars, restart, saved, stepReg,
                   search_fail_count, sync_fail_count, restVars, lost>>

\* The steps main takes on its own account; the others are events of the radio.
Control ==
    \/ CheckRestart \/ Retune \/ ClearRestart
    \/ CellFound \/ write_frequency_to_config \/ AdjustRate \/ ToSyncing
    \/ NoCellFound \/ SweepLoad \/ SweepStore \/ SweepFrequency \/ SweepTune
    \/ SweepRestart \/ NoSweep
    \/ SyncBegin \/ Syncing \/ EnterProcessing \/ LeaveProcessing \/ GoSearching

Main == Control \/ SubframeLost \/ ExtendPrb

-----------------------------------------------------------------------------
(* The REST threads; requests are served one after the other               *)

mainOnly == <<mainVars, lost>>

\* PUT sdr_params: what the request leaves out is read back from the SDR.
PutParams ==
    /\ rpc = "idle" /\ requests < MaxRequests
    /\ \E f \in Freqs \union {tuned.freq} : arg' = [freq |-> f, rate |-> tuned.rate]
    /\ requests' = requests + 1
    /\ rpc' = "p_rate"
    /\ UNCHANGED <<state, tuneVars, sweepVars, restart, mainOnly>>

\* set_params(), in the order of its assignments.
set_params ==
    /\ \/ /\ rpc = "p_rate" /\ rpc' = "p_freq"
          /\ sample_rate' = arg.rate
          /\ UNCHANGED <<frequency, restart>>
       \/ /\ rpc = "p_freq" /\ rpc' = "p_restart"
          /\ frequency' = arg.freq
          /\ UNCHANGED <<sample_rate, restart>>
       \/ /\ rpc = "p_restart" /\ rpc' = "idle"
          /\ restart' = TRUE
          /\ UNCHANGED <<sample_rate, frequency>>
    /\ UNCHANGED <<state, sweepVars, arg, requests, mainOnly>>

\* PUT scan_mode with the name of a preset; another name changes nothing.
PutScanMode ==
    /\ rpc = "idle" /\ requests < MaxRequests
    /\ \E p \in Presets : arg' = p
    /\ requests' = requests + 1
    /\ rpc' = "s_freq"
    /\ UNCHANGED <<state, tuneVars, sweepVars, restart, mainOnly>>

\* set_scan_mode(), in the order of its assignments; start_frequency is read
\* back from frequency.
set_scan_mode ==
    /\ \/ /\ rpc = "s_freq" /\ rpc' = "s_hz"
          /\ frequency' = arg.freq
          /\ UNCHANGED <<sweepVars, restart>>
       \/ /\ rpc = "s_hz" /\ rpc' = "s_n"
          /\ frequency_step' = arg.step_hz
          /\ UNCHANGED <<frequency, start_frequency, number_of_step, step, restart>>
       \/ /\ rpc = "s_n" /\ rpc' = "s_start"
          /\ number_of_step' = arg.n_steps
          /\ UNCHANGED <<frequency, start_frequency, frequency_step, step, restart>>
       \/ /\ rpc = "s_start" /\ rpc' = "s_step"
          /\ start_frequency' = frequency
          /\ UNCHANGED <<frequency, frequency_step, number_of_step, step, restart>>
       \/ /\ rpc = "s_step" /\ rpc' = "s_restart"
          /\ step' = 0
          /\ UNCHANGED <<frequency, start_frequency, frequency_step, number_of_step, restart>>
       \/ /\ rpc = "s_restart" /\ rpc' = "s_state"
          /\ restart' = TRUE
          /\ UNCHANGED <<frequency, sweepVars>>
    /\ UNCHANGED <<state, sample_rate, arg, requests, mainOnly>>

\* _state = searching, after set_scan_mode() returned true.
ScanModeState ==
    /\ rpc = "s_state"
    /\ state' = "searching"
    /\ rpc' = "idle"
    /\ UNCHANGED <<tuneVars, sweepVars, restart, arg, requests, mainOnly>>

Rest == PutParams \/ set_params \/ PutScanMode \/ set_scan_mode \/ ScanModeState

-----------------------------------------------------------------------------
\* After the first sdr.tune() and sdr.start().
Init ==
    /\ state = "searching"
    /\ frequency = StartPreset.freq /\ start_frequency = StartPreset.freq
    /\ frequency_step = StartPreset.step_hz /\ number_of_step = StartPreset.n_steps
    /\ step = 0 /\ restart = FALSE
    /\ sample_rate = SearchRate
    /\ mpc = "top"
    /\ tuned = [freq |-> StartPreset.freq, rate |-> SearchRate]
    /\ saved = StartPreset.freq
    /\ stepReg = 0 /\ search_fail_count = 0 /\ sync_fail_count = 0
    /\ rpc = "idle" /\ arg = StartPreset /\ requests = 0
    /\ lost = FALSE

Next == Main \/ Rest

\* Main is scheduled and its calls return, with whatever result; a request that
\* was accepted is served.  A cell that is received may be received for ever.
Spec == Init /\ [][Next]_vars /\ WF_vars(Control)
          /\ WF_vars(set_params) /\ WF_vars(set_scan_mode) /\ WF_vars(ScanModeState)

-----------------------------------------------------------------------------
(* Properties                                                              *)

MPC == {"top", "retune", "retuned", "clear", "search", "found", "adjust", "locked",
        "sync", "sweep", "store", "candidate", "tune", "subframe", "lost"}

\* Every variable keeps its type, and search_fail_count stays below the number of
\* failures that forces a hard reset.
TypeOK ==
    /\ state \in {"searching", "syncing", "processing"}
    /\ {frequency, sample_rate, start_frequency, frequency_step, number_of_step, step,
        stepReg, saved, search_fail_count, sync_fail_count} \subseteq Nat
    /\ restart \in BOOLEAN /\ lost \in BOOLEAN
    /\ mpc \in MPC
    /\ tuned \in [freq : Nat, rate : Nat]
    /\ search_fail_count < MaxSyncFails \/ MaxSyncFails = 0
    /\ requests \in 0 .. MaxRequests

\* A REST thread has stored a frequency and not yet set restart.
FrequencyPending == rpc \in {"p_restart", "s_hz", "s_n", "s_start", "s_step", "s_restart"}

\* The frequency main saves is the one the SDR was tuned to when the cell was found,
\* at every moment of a request too, except while a request has stored a frequency
\* that main has not tuned to - the variable is saved, not what the SDR was tuned to
\* (main.cpp:611) -, or its restart was overwritten.
SavesWhatItFound ==
    [][write_frequency_to_config =>
         saved' = tuned.freq \/ FrequencyPending \/ restart \/ lost]_vars

\* The sweep stays within the preset: a candidate lies on its raster, and the end
\* of the sweep is met exactly, as the test step == number_of_step requires.
SweepWithinPreset ==
    requests = 0 =>
        /\ step <= number_of_step
        /\ mpc = "search" => frequency = start_frequency + step * frequency_step

SweepIs(p) ==
    /\ start_frequency = p.freq /\ frequency_step = p.step_hz
    /\ number_of_step = p.n_steps /\ number_of_step > 0

\* A modem that keeps searching with a preset searches every frequency of the
\* preset again and again, whatever requests it received before, as long as step is
\* within the preset.  That excludes one case: step = 0 of a request is lost between
\* load and store of step++, and step stays above number_of_step (main.cpp:654).
SweepsForever ==
    \A p \in Presets : \A k \in 0 .. p.n_steps :
        <>[](state = "searching" /\ SweepIs(p) /\ step <= number_of_step)
          => []<>(mpc = "search" /\ tuned.freq = p.freq + k * p.step_hz)

\* A cell is searched at the search rate, however main came to search again: from
\* a failed search, the end of a sweep or a loss during processing, also after the
\* SDR was tuned to the rate of a cell or of its wider MBSFN part.  Only a request
\* can change that: PUT scan_mode goes to searching past the branch that restores
\* the rate, and PUT sdr_params stores back the rate it read from the SDR.
SearchRateRestored == requests = 0 /\ mpc = "search" => tuned.rate = SearchRate

\* "Setting this to true triggers resynchronization using the params set"
\* (main.cpp:234): once the request is through and restart is consumed, the
\* search uses its parameters.
RestartTakesEffect ==
    mpc = "search" /\ rpc = "idle" /\ ~restart => tuned.freq = frequency

\* "Synchronization failed ... Going back to search state." (main.cpp:694): the
\* modem does not stay in the syncing state for ever.
SyncGivesUp == state = "syncing" ~> state # "syncing"
=============================================================================
