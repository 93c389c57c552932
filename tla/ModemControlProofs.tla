-------------------------- MODULE ModemControlProofs --------------------------
(***************************************************************************)
(* The control of the modem, for every list of presets, set of frequencies  *)
(* and rates, and any number of requests.                                   *)
(***************************************************************************)
EXTENDS ModemControl, TLAPS

-----------------------------------------------------------------------------
(* The inductive invariant                                                 *)

ParamSteps == {"p_rate", "p_freq", "p_restart"}
ScanSteps == {"s_freq", "s_hz", "s_n", "s_start", "s_step", "s_restart", "s_state"}

\* A request under way carries what its handler is going to store.
RequestOK ==
    /\ rpc \in {"idle"} \union ParamSteps \union ScanSteps
    /\ rpc \in ParamSteps => arg \in [freq : Nat, rate : Nat]
    /\ rpc \in ScanSteps => arg \in Presets
    /\ requests = 0 => rpc = "idle"

\* The SDR is tuned to frequency, or somebody is going to see to it, or the request
\* to do so was overwritten.
Described ==
    \/ tuned.freq = frequency
    \/ mpc = "tune" \/ restart \/ FrequencyPending
    \/ lost

OnRaster == frequency = start_frequency + step * frequency_step

\* Without requests the sweep is main's own: step is counted up to its end, and only
\* between step++ and the assignment that follows frequency is behind.
SweepOK ==
    requests = 0 =>
        /\ step <= number_of_step
        /\ mpc = "store" => stepReg = step + 1 /\ step < number_of_step
        /\ mpc # "candidate" => OnRaster

SearchPoints == {"retune", "retuned", "clear", "search", "found", "adjust",
                 "sweep", "store", "candidate", "tune"}

\* Without requests main comes back to searching only where it restores the rate, in
\* the variable and in the SDR.
RateOK ==
    requests = 0 =>
        /\ mpc = "sync" => state = "syncing"
        /\ mpc = "subframe" => state = "processing"
        /\ mpc \in SearchPoints \/ (mpc = "top" /\ state = "searching")
             => tuned.rate = SearchRate /\ sample_rate = SearchRate

IndInv == TypeOK /\ RequestOK /\ Described /\ SweepOK /\ RateOK

-----------------------------------------------------------------------------
(* Types                                                                   *)

\* The numbers are natural numbers, one by one.
LEMMA Numbers ==
    TypeOK =>
        /\ frequency \in Nat /\ sample_rate \in Nat /\ start_frequency \in Nat
        /\ frequency_step \in Nat /\ number_of_step \in Nat /\ step \in Nat
        /\ stepReg \in Nat /\ saved \in Nat
        /\ search_fail_count \in Nat /\ sync_fail_count \in Nat
        /\ tuned.freq \in Nat /\ tuned.rate \in Nat
        /\ start_frequency + step * frequency_step \in Nat
BY DEF TypeOK

\* max_frames wraps around when no subframe was synchronised: it is not 0 then.
LEMMA NeverZeroFramesLeft ==
    ASSUME NEW n \in {1, MaxFrames, MaxFrames + 1}, ~(n <= MaxFrames)
    PROVE  FramesLeft(n) # 0
BY ControlAssumption DEF FramesLeft

\* What a pass through the syncing state can do: no success, or success.  The branch
\* that goes back to searching is never taken.
LEMMA SyncingEffect ==
    ASSUME Syncing
    PROVE  /\ mpc = "sync" /\ mpc' = "top"
           /\ UNCHANGED <<tuneVars, sweepVars, tuned, restart, saved, stepReg,
                          search_fail_count, restVars, lost>>
           /\ state' \in {state, "processing"} /\ sync_fail_count' \in {sync_fail_count, 0}
BY NeverZeroFramesLeft DEF Syncing, Synchronised

LEMMA SearchTypes ==
    ASSUME TypeOK,
           \/ CheckRestart \/ Retune \/ CellFound \/ write_frequency_to_config
           \/ AdjustRate \/ ToSyncing \/ NoCellFound
    PROVE  TypeOK'
<1> USE Numbers, ControlAssumption
    DEF tune, tuneVars, sweepVars, restVars, MPC
<1>1. CASE CheckRestart \/ CellFound \/ write_frequency_to_config \/ ToSyncing
  BY <1>1 DEF CheckRestart, CellFound, write_frequency_to_config, ToSyncing, TypeOK
<1>2. CASE Retune
  BY <1>2 DEF Retune, TypeOK
<1>3. CASE NoCellFound
  BY <1>3 DEF NoCellFound, TypeOK
<1>4. CASE AdjustRate
  <2>1. sample_rate' \in Nat /\ tuned' \in [freq : Nat, rate : Nat]
    <3>1. PICK r \in CellRates :
            IF r = sample_rate THEN UNCHANGED <<sample_rate, tuned>>
            ELSE sample_rate' = r /\ tuned' = [freq |-> frequency, rate |-> r]
      BY <1>4 DEF AdjustRate
    <3>2. r \in Nat /\ tuned \in [freq : Nat, rate : Nat]
      BY DEF TypeOK
    <3> QED BY <3>1, <3>2
  <2> QED BY <1>4, <2>1 DEF AdjustRate, TypeOK
<1> QED BY <1>1, <1>2, <1>3, <1>4

LEMMA ClearTypes ==
    ASSUME TypeOK, ClearRestart
    PROVE  TypeOK'
<1>1. restart' \in BOOLEAN /\ lost' \in BOOLEAN
  BY Zenon DEF ClearRestart, TypeOK
<1> QED BY <1>1 DEF ClearRestart, TypeOK, tuneVars, sweepVars, restVars, MPC

LEMMA SweepTypes ==
    ASSUME TypeOK,
           SweepLoad \/ SweepStore \/ SweepFrequency \/ SweepTune \/ SweepRestart \/ NoSweep
    PROVE  TypeOK'
<1> USE Numbers DEF tune, tuneVars, sweepVars, restVars, MPC
<1>1. CASE SweepLoad \/ SweepStore \/ NoSweep
  BY <1>1 DEF SweepLoad, SweepStore, NoSweep, TypeOK
<1>2. CASE SweepFrequency \/ SweepTune
  BY <1>2 DEF SweepFrequency, SweepTune, TypeOK
<1>3. CASE SweepRestart
  BY <1>3, ControlAssumption DEF SweepRestart, TypeOK
<1> QED BY <1>1, <1>2, <1>3

LEMMA ProcessingTypes ==
    ASSUME TypeOK,
           \/ SyncBegin \/ Syncing \/ EnterProcessing \/ LeaveProcessing \/ SubframeLost
           \/ GoSearching \/ ExtendPrb
    PROVE  TypeOK'
<1> USE Numbers DEF tune, tuneVars, sweepVars, restVars, MPC
<1>1. CASE SyncBegin \/ EnterProcessing \/ LeaveProcessing \/ SubframeLost
  BY <1>1 DEF SyncBegin, EnterProcessing, LeaveProcessing, SubframeLost, TypeOK
<1>2. CASE Syncing
  BY <1>2, SyncingEffect DEF TypeOK
<1>3. CASE GoSearching \/ ExtendPrb
  BY <1>3, ControlAssumption DEF GoSearching, ExtendPrb, TypeOK
<1> QED BY <1>1, <1>2, <1>3

LEMMA RestTypes ==
    ASSUME TypeOK, RequestOK, Rest
    PROVE  TypeOK' /\ RequestOK'
<1> USE Numbers, ControlAssumption
    DEF tuneVars, sweepVars, mainOnly, mainVars, RequestOK, ParamSteps, ScanSteps
<1>1. CASE PutParams
  <2>1. arg' \in [freq : Nat, rate : Nat] /\ rpc' = "p_rate" /\ requests' = requests + 1
    <3>1. PICK f \in Freqs \union {tuned.freq} : arg' = [freq |-> f, rate |-> tuned.rate]
      BY <1>1 DEF PutParams
    <3>2. f \in Nat
      OBVIOUS
    <3> QED BY <1>1, <3>1, <3>2 DEF PutParams
  <2> QED BY <1>1, <2>1 DEF PutParams, TypeOK
<1>2. CASE set_params
  BY <1>2 DEF set_params, TypeOK
<1>3. CASE PutScanMode
  BY <1>3 DEF PutScanMode, TypeOK
<1>4. CASE set_scan_mode
  <2>1. /\ rpc \in ScanSteps /\ rpc' \in ScanSteps /\ arg' = arg /\ requests' = requests
        /\ arg \in Presets /\ requests # 0
    BY <1>4 DEF set_scan_mode
  <2>2. arg.freq \in Nat /\ arg.step_hz \in Nat /\ arg.n_steps \in Nat
    BY <2>1
  <2>3. /\ frequency' \in {frequency, arg.freq}
        /\ frequency_step' \in {frequency_step, arg.step_hz}
        /\ number_of_step' \in {number_of_step, arg.n_steps}
        /\ start_frequency' \in {start_frequency, frequency}
        /\ step' \in {step, 0}
        /\ restart' \in {restart, TRUE}
    BY <1>4 DEF set_scan_mode
  <2>4. UNCHANGED <<state, sample_rate, mpc, tuned, saved, stepReg, search_fail_count,
                    sync_fail_count, lost>>
    BY <1>4 DEF set_scan_mode
  <2>5. /\ frequency' \in Nat /\ frequency_step' \in Nat /\ number_of_step' \in Nat
        /\ start_frequency' \in Nat /\ step' \in Nat
    BY <2>2, <2>3
  <2>6. restart' \in BOOLEAN
    BY <2>3, Zenon DEF TypeOK
  <2>7. TypeOK'
    BY <2>1, <2>4, <2>5, <2>6 DEF TypeOK
  <2> QED BY <2>1, <2>7
<1>5. CASE ScanModeState
  BY <1>5 DEF ScanModeState, TypeOK
<1> QED BY <1>1, <1>2, <1>3, <1>4, <1>5 DEF Rest

-----------------------------------------------------------------------------
(* The steps                                                               *)

\* Main reads and writes the globals, never the request.
LEMMA MainKeepsRequest ==
    ASSUME RequestOK, Main
    PROVE  RequestOK' /\ UNCHANGED restVars
<1>1. UNCHANGED restVars
  BY SyncingEffect
     DEF Main, Control, CheckRestart, Retune, ClearRestart, CellFound, write_frequency_to_config,
     AdjustRate, ToSyncing, NoCellFound, SweepLoad, SweepStore, SweepFrequency, SweepTune,
     SweepRestart, NoSweep, SyncBegin, EnterProcessing, LeaveProcessing, GoSearching,
     SubframeLost, ExtendPrb
<1> QED BY <1>1 DEF RequestOK, restVars

\* Steps of main in the searching state, up to the search and behind a success.
LEMMA SearchStep ==
    ASSUME IndInv,
           \/ CheckRestart \/ Retune \/ ClearRestart \/ CellFound
           \/ write_frequency_to_config \/ AdjustRate \/ ToSyncing \/ NoCellFound
    PROVE  Described' /\ SweepOK' /\ RateOK'
<1> USE Numbers DEF IndInv, Described, SweepOK, RateOK, OnRaster, FrequencyPending, SearchPoints,
    tuneVars, sweepVars, restVars, tune
<1>1. CASE CheckRestart \/ CellFound \/ write_frequency_to_config \/ ToSyncing
  BY <1>1 DEF CheckRestart, CellFound, write_frequency_to_config, ToSyncing
<1>2. CASE Retune
  BY <1>2 DEF Retune
<1>3. CASE ClearRestart
  BY <1>3 DEF ClearRestart
<1>4. CASE AdjustRate
  BY <1>4 DEF AdjustRate
<1>5. CASE NoCellFound
  BY <1>5 DEF NoCellFound
<1> QED BY <1>1, <1>2, <1>3, <1>4, <1>5

\* The sweep.
LEMMA SweepStep ==
    ASSUME IndInv,
           SweepLoad \/ SweepStore \/ SweepFrequency \/ SweepTune \/ SweepRestart \/ NoSweep
    PROVE  Described' /\ SweepOK' /\ RateOK'
<1> USE Numbers DEF IndInv, Described, SweepOK, RateOK, OnRaster, FrequencyPending, SearchPoints,
    tuneVars, sweepVars, restVars, tune
<1>1. CASE SweepLoad
  BY <1>1 DEF SweepLoad
<1>2. CASE SweepStore
  BY <1>2 DEF SweepStore
<1>3. CASE SweepFrequency
  BY <1>3 DEF SweepFrequency
<1>4. CASE SweepTune \/ NoSweep
  BY <1>4 DEF SweepTune, NoSweep
<1>5. CASE SweepRestart
  BY <1>5 DEF SweepRestart
<1> QED BY <1>1, <1>2, <1>3, <1>4, <1>5

\* The syncing and the processing state.
LEMMA ProcessingStep ==
    ASSUME IndInv,
           \/ SyncBegin \/ Syncing \/ EnterProcessing \/ LeaveProcessing \/ SubframeLost
           \/ GoSearching \/ ExtendPrb
    PROVE  Described' /\ SweepOK' /\ RateOK'
<1> USE Numbers DEF IndInv, Described, SweepOK, RateOK, OnRaster, FrequencyPending, SearchPoints,
    tuneVars, sweepVars, restVars, tune
<1>1. CASE SyncBegin \/ EnterProcessing \/ LeaveProcessing \/ SubframeLost
  BY <1>1 DEF SyncBegin, EnterProcessing, LeaveProcessing, SubframeLost
<1>2. CASE Syncing
  BY <1>2, SyncingEffect
<1>3. CASE GoSearching
  BY <1>3 DEF GoSearching
<1>4. CASE ExtendPrb
  BY <1>4 DEF ExtendPrb
<1> QED BY <1>1, <1>2, <1>3, <1>4

\* A REST thread: after the first request nothing is claimed of sweep and rate, and
\* whoever stores a frequency sets restart behind it.
LEMMA RestStep ==
    ASSUME IndInv, Rest
    PROVE  Described' /\ SweepOK' /\ RateOK'
<1>1. requests' # 0
  BY DEF IndInv, TypeOK, RequestOK, Rest, PutParams, set_params, PutScanMode, set_scan_mode,
     ScanModeState
<1>2. Described'
  BY DEF IndInv, Described, FrequencyPending, Rest, PutParams, set_params, PutScanMode,
     set_scan_mode, ScanModeState, mainOnly, mainVars, tuneVars, sweepVars
<1> QED BY <1>1, <1>2 DEF SweepOK, RateOK

\* Main and the REST threads keep what the modem is tuned to, where the sweep is and
\* which rate is searched with.
THEOREM Inductive == Spec => []IndInv
<1>1. Init => IndInv
  <2> SUFFICES ASSUME Init PROVE IndInv
    OBVIOUS
  <2>1. StartPreset.freq \in Nat /\ StartPreset.step_hz \in Nat /\ StartPreset.n_steps \in Nat
    BY ControlAssumption
  <2>2. TypeOK
    <3>1. tuned \in [freq : Nat, rate : Nat]
      BY <2>1, ControlAssumption DEF Init
    <3>2. /\ SearchRate \in Nat /\ 0 \in 0 .. MaxRequests
          /\ 0 < MaxSyncFails \/ MaxSyncFails = 0
      BY ControlAssumption
    <3>3. restart \in BOOLEAN /\ lost \in BOOLEAN
      BY DEF Init
    <3>4. {frequency, sample_rate, start_frequency, frequency_step, number_of_step, step,
           stepReg, saved, search_fail_count, sync_fail_count} \subseteq Nat
      BY <2>1, <3>2 DEF Init
    <3> QED BY <3>1, <3>2, <3>3, <3>4 DEF Init, TypeOK, MPC
  <2>3. RequestOK
    BY DEF Init, RequestOK, ParamSteps, ScanSteps
  <2>4. SweepOK
    BY <2>1 DEF Init, SweepOK, OnRaster
  <2> QED BY <2>2, <2>3, <2>4 DEF Init, IndInv, Described, RateOK
<1>2. IndInv /\ [Next]_vars => IndInv'
  <2> SUFFICES ASSUME IndInv, [Next]_vars PROVE IndInv'
    OBVIOUS
  <2>1. CASE Main
    <3>1. TypeOK'
      BY <2>1, SearchTypes, ClearTypes, SweepTypes, ProcessingTypes DEF IndInv, Main, Control
    <3>2. RequestOK'
      BY <2>1, MainKeepsRequest DEF IndInv
    <3>3. Described' /\ SweepOK' /\ RateOK'
      BY <2>1, SearchStep, SweepStep, ProcessingStep DEF Main, Control
    <3> QED BY <3>1, <3>2, <3>3 DEF IndInv
  <2>2. CASE Rest
    BY <2>2, RestTypes, RestStep DEF IndInv
  <2>3. CASE UNCHANGED vars
    BY <2>3 DEF vars, tuneVars, sweepVars, mainVars, restVars, IndInv, TypeOK, RequestOK,
       Described, FrequencyPending, SweepOK, OnRaster, RateOK
  <2> QED BY <2>1, <2>2, <2>3 DEF Next
<1> QED BY <1>1, <1>2, PTL DEF Spec

\* Types, and search_fail_count stays below the number of failures that resets the SDR.
THEOREM TypeCorrect == Spec => []TypeOK
<1>1. IndInv => TypeOK
  BY DEF IndInv
<1> QED BY <1>1, Inductive, PTL

\* The frequency saved is the one the cell was found on, for any number of requests and
\* every interleaving with them, except while a request has stored a frequency main has
\* not tuned to, or after a restart was overwritten.
THEOREM AlwaysSavesWhatItFound == Spec => SavesWhatItFound
<1>1. IndInv /\ [Next]_vars =>
        [write_frequency_to_config =>
           saved' = tuned.freq \/ FrequencyPending \/ restart \/ lost]_vars
  BY DEF IndInv, Described, write_frequency_to_config
<1> QED BY <1>1, Inductive, PTL DEF Spec, SavesWhatItFound

\* The sweep stays on the raster of its preset and meets its end exactly, for every
\* preset.
THEOREM SweepAlwaysWithinPreset == Spec => []SweepWithinPreset
<1>1. IndInv => SweepWithinPreset
  BY DEF IndInv, SweepOK, OnRaster, SweepWithinPreset
<1> QED BY <1>1, Inductive, PTL

\* A cell is searched at the search rate, for all rates of cells and MBSFN parts.
THEOREM SearchRateAlwaysRestored == Spec => []SearchRateRestored
<1>1. IndInv => SearchRateRestored
  BY DEF IndInv, RateOK, SearchPoints, SearchRateRestored
<1> QED BY <1>1, Inductive, PTL
===============================================================================
