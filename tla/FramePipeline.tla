---------------------------- MODULE FramePipeline ----------------------------
(***************************************************************************)
(* The subframe pipeline: the main loop of src/src/main.cpp receives one    *)
(* subframe after the other into the buffer of a frame processor, whose     *)
(* mutex it takes first, and hands the processor to a thread pool           *)
(* (src/include/thread_pool.hpp).  A worker runs process(), which releases  *)
(* the mutex.  There is one CAS processor, and thread_cnt MBSFN processors   *)
(* that take turns.                                                         *)
(*                                                                         *)
(* The mutexes are taken by main and released by workers, and main also     *)
(* releases the MBSFN ones when it has synchronised again.                  *)
(***************************************************************************)
EXTENDS Integers, Sequences, FiniteSets

CONSTANTS
    thread_cnt,      \* modem.phy.threads: MBSFN processors; the pool has one worker more
    TtiCount,        \* 10240 in the code
    CasPeriod,       \* the pattern of CAS subframes repeats after so many subframes
    Cells,           \* the cells the search can find
    CasSubframes,    \* for each cell its CAS subframes: {0} of 40 in a dedicated cell,
                     \* {0, 4, 5, 9} of 10 in a mixed one
    WorkersKeepUp    \* a worker finishes in less time than a synchronisation takes

NoCell == 0

ASSUME PipelineAssumption ==
    /\ thread_cnt \in Nat \ {0}
    /\ CasPeriod \in Nat \ {0}
    /\ TtiCount \in Nat \ {0}
    /\ TtiCount % CasPeriod = 0
    /\ NoCell \notin Cells
    /\ \A c \in Cells : CasSubframes[c] \subseteq 0 .. CasPeriod - 1 /\ 0 \in CasSubframes[c]
    /\ WorkersKeepUp \in BOOLEAN

Mbsfn == 0 .. thread_cnt - 1
CAS == thread_cnt
Proc == Mbsfn \union {CAS}

PoolSize == thread_cnt + 1

Tti == 0 .. TtiCount - 1

\* A buffer that holds no complete subframe.
NoTti == TtiCount

Task == [proc : Proc, tti : Tti]

VARIABLES
    state,      \* state: searching, syncing or processing
    mpc,        \* where the main loop is
    tti,        \* tti
    mb_idx,     \* mb_idx
    lock,       \* _mutex of each processor: held or not
    rxTti,      \* the subframe in _signal_buffer_rx of each processor
    cfg,        \* the cell each MBSFN processor is configured for; NoCell: !_mbsfn_configured
    cell,       \* the cell of phy
    mcch,       \* phy.mcch_configured()
    wider,      \* phy.nof_mbsfn_prb() != mbsfn_nof_prb
    tasks,      \* m_tasks of the pool
    running,    \* the tasks the workers are executing
    restart,    \* restart, set by the REST API
    scanning    \* a REST thread is between set_scan_mode() and _state = searching

poolVars == <<tasks, running>>
phyVars == <<cell, mcch, wider>>
restVars == <<restart, scanning>>
procVars == <<lock, rxTti, cfg>>
vars == <<state, mpc, tti, mb_idx, procVars, phyVars, poolVars, restVars>>

\* is_mbsfn_subframe() is its complement, for both kinds of cell.
is_cas_subframe(t) == t % CasPeriod \in CasSubframes[cell]

\* The TTIs synchronize_subframe() can end with: it decodes the MIB, in the first
\* CAS subframe of a period.
SyncTti == {t \in Tti : t % CasPeriod = 0}

\* The processor whose turn it is.
Target == IF is_cas_subframe(tti) THEN CAS ELSE mb_idx

Outstanding(p) ==
    \/ \E i \in DOMAIN tasks : tasks[i].proc = p
    \/ \E t \in running : t.proc = p

-----------------------------------------------------------------------------
(* The main loop outside the processing state                              *)

\* restart is cleared before the search that is going to honour it.
SearchBegin ==
    /\ mpc = "top" /\ state = "searching"
    /\ restart' = FALSE
    /\ mpc' = "search"
    /\ UNCHANGED <<state, tti, mb_idx, procVars, phyVars, poolVars, scanning>>

\* phy.cell_search() found a cell: mbsfn_prb is nof_prb until SIB13 says more.
CellFound ==
    /\ mpc = "search"
    /\ cell' \in Cells
    /\ wider' = FALSE
    /\ state' = "syncing"
    /\ mpc' = "top"
    /\ UNCHANGED <<tti, mb_idx, procVars, mcch, poolVars, restVars>>

NoCellFound ==
    /\ mpc = "search"
    /\ mpc' = "top"
    /\ UNCHANGED <<state, tti, mb_idx, procVars, phyVars, poolVars, restVars>>

\* Mutant: the processors are not unlocked after a synchronisation.
SynchronisedNoUnlock ==
    /\ mpc = "top" /\ state = "syncing"
    /\ WorkersKeepUp => tasks = <<>> /\ running = {}
    /\ tti' \in SyncTti
    /\ state' = "processing"
    /\ UNCHANGED <<mpc, mb_idx, procVars, phyVars, poolVars, restVars>>

\* synchronize_subframe() succeeded: every MBSFN processor is unlocked, locked
\* or not, and the MIB gives the TTI.  A REST thread that
\* writes state meanwhile is overwritten, which leaves what set_params leaves.
Synchronised ==
    /\ mpc = "top" /\ state = "syncing"
    /\ WorkersKeepUp => tasks = <<>> /\ running = {}
    /\ lock' = [p \in Proc |-> IF p \in Mbsfn THEN FALSE ELSE lock[p]]
    /\ tti' \in SyncTti
    /\ state' = "processing"
    /\ UNCHANGED <<mpc, mb_idx, rxTti, cfg, phyVars, poolVars, restVars>>

-----------------------------------------------------------------------------
(* The processing loop                                                     *)

EnterProcessing ==
    /\ mpc = "top" /\ state = "processing"
    /\ mb_idx' = 0
    /\ mpc' = "next"
    /\ UNCHANGED <<state, tti, procVars, phyVars, poolVars, restVars>>

\* state is read by the loop condition only, restart once per subframe; with
\* restart set no mutex is taken.
NextSubframe ==
    /\ mpc = "next" /\ state = "processing"
    /\ tti' = (tti + 1) % TtiCount
    /\ mpc' = IF restart THEN "lost" ELSE "lock"
    /\ UNCHANGED <<state, mb_idx, procVars, phyVars, poolVars, restVars>>

LeaveProcessing ==
    /\ mpc = "next" /\ state # "processing"
    /\ mpc' = "top"
    /\ UNCHANGED <<state, tti, mb_idx, procVars, phyVars, poolVars, restVars>>

\* Mutant: the buffer is handed out without waiting for the mutex.
TakeBufferUnlocked ==
    /\ mpc = "lock"
    /\ lock' = [lock EXCEPT ![Target] = TRUE]
    /\ mpc' = "receive"
    /\ UNCHANGED <<state, tti, mb_idx, rxTti, cfg, phyVars, poolVars, restVars>>

\* rx_buffer() or get_rx_buffer_and_lock(): main blocks on the mutex.
LockProcessor ==
    /\ mpc = "lock" /\ ~lock[Target]
    /\ lock' = [lock EXCEPT ![Target] = TRUE]
    /\ mpc' = "receive"
    /\ UNCHANGED <<state, tti, mb_idx, rxTti, cfg, phyVars, poolVars, restVars>>

\* phy.get_next_frame() fills the buffer, or fails and leaves part of a frame.
get_next_frame(ok) ==
    /\ mpc = "receive"
    /\ rxTti' = [rxTti EXCEPT ![Target] = IF ok THEN tti ELSE NoTti]
    /\ mpc' = IF ok THEN "dispatch" ELSE "lost"
    /\ UNCHANGED <<state, tti, mb_idx, lock, cfg, phyVars, poolVars, restVars>>

push(p) == tasks' = Append(tasks, [proc |-> p, tti |-> tti])

DispatchCas ==
    /\ mpc = "dispatch" /\ Target = CAS
    /\ push(CAS)
    /\ mpc' = "extend"
    /\ UNCHANGED <<state, tti, mb_idx, procVars, phyVars, running, restVars>>

\* After the push: a wider MBSFN part means the SDR and the PHY are configured
\* again, and the modem synchronises again.
ExtendPrb ==
    /\ mpc = "extend"
    /\ IF wider
       THEN wider' = FALSE /\ state' = "syncing"
       ELSE UNCHANGED <<wider, state>>
    /\ mpc' = "next"
    /\ UNCHANGED <<tti, mb_idx, procVars, cell, mcch, poolVars, restVars>>

\* Mutant: main unlocks the processor as soon as the task is queued.
DispatchAndUnlock ==
    /\ mpc = "dispatch" /\ Target \in Mbsfn
    /\ mcch
    /\ cfg' = [cfg EXCEPT ![mb_idx] = IF cfg[mb_idx] = NoCell THEN cell ELSE cfg[mb_idx]]
    /\ push(mb_idx)
    /\ lock' = [lock EXCEPT ![mb_idx] = FALSE]
    /\ mb_idx' = (mb_idx + 1) % thread_cnt
    /\ mpc' = "next"
    /\ UNCHANGED <<state, tti, rxTti, phyVars, running, restVars>>

\* Mutant: mb_idx runs over thread_cnt + 1 processors.
DispatchOffByOne ==
    /\ mpc = "dispatch" /\ Target \in Mbsfn
    /\ mcch
    /\ cfg' = [cfg EXCEPT ![mb_idx] = IF cfg[mb_idx] = NoCell THEN cell ELSE cfg[mb_idx]]
    /\ push(mb_idx)
    /\ mb_idx' = (mb_idx + 1) % (thread_cnt + 1)
    /\ mpc' = "next"
    /\ UNCHANGED <<state, tti, lock, rxTti, phyVars, running, restVars>>

\* set_cell() and configure_mbsfn() are called for a processor only once.
DispatchMbsfn ==
    /\ mpc = "dispatch" /\ Target \in Mbsfn
    /\ mcch
    /\ cfg' = [cfg EXCEPT ![mb_idx] = IF cfg[mb_idx] = NoCell THEN cell ELSE cfg[mb_idx]]
    /\ push(mb_idx)
    /\ mb_idx' = (mb_idx + 1) % thread_cnt
    /\ mpc' = "next"
    /\ UNCHANGED <<state, tti, lock, rxTti, phyVars, running, restVars>>

\* Mutant: a discarded subframe leaves its processor locked.
DiscardLocked ==
    /\ mpc = "dispatch" /\ Target \in Mbsfn
    /\ ~mcch
    /\ mb_idx' = (mb_idx + 1) % thread_cnt
    /\ mpc' = "next"
    /\ UNCHANGED <<state, tti, procVars, phyVars, poolVars, restVars>>

\* "Nothing to do yet, we lack the data from SIB1/SIB13."
DiscardMbsfn ==
    /\ mpc = "dispatch" /\ Target \in Mbsfn
    /\ ~mcch
    /\ lock' = [lock EXCEPT ![mb_idx] = FALSE]
    /\ mb_idx' = (mb_idx + 1) % thread_cnt
    /\ mpc' = "next"
    /\ UNCHANGED <<state, tti, rxTti, cfg, phyVars, poolVars, restVars>>

\* No subframe, or a restart: phy.reset(), rrc.reset() and back to searching.
\* The mutex stays as it is.
GoSearching ==
    /\ mpc = "lost"
    /\ state' = "searching"
    /\ mcch' = FALSE
    /\ mpc' = "next"
    /\ mb_idx' = IF Target = CAS THEN mb_idx ELSE (mb_idx + 1) % thread_cnt
    /\ UNCHANGED <<tti, procVars, cell, wider, poolVars, restVars>>

\* The steps main takes whatever the radio does.
Loop ==
    \/ SearchBegin \/ CellFound \/ NoCellFound
    \/ EnterProcessing \/ NextSubframe \/ LeaveProcessing \/ LockProcessor
    \/ \E ok \in BOOLEAN : get_next_frame(ok)
    \/ DispatchCas \/ ExtendPrb \/ DispatchMbsfn \/ DiscardMbsfn \/ GoSearching

Main == Loop \/ Synchronised

-----------------------------------------------------------------------------
(* The pool                                                                *)

next_task ==
    /\ tasks # <<>>
    /\ Cardinality(running) < PoolSize
    /\ running' = running \union {Head(tasks)}
    /\ tasks' = Tail(tasks)
    /\ UNCHANGED <<state, mpc, tti, mb_idx, procVars, phyVars, restVars>>

\* CasFrameProcessor::process(): every return is preceded by the unlock.  When
\* SIB1 or SIB13 was decoded, rrc hands it to phy before that.
ProcessCas ==
    /\ \E t \in running :
         /\ t.proc = CAS
         /\ running' = running \ {t}
    /\ lock' = [lock EXCEPT ![CAS] = FALSE]
    /\ \/ UNCHANGED <<mcch, wider>>
       \/ mcch' = TRUE /\ wider' \in {wider, TRUE}
    /\ UNCHANGED <<state, mpc, tti, mb_idx, rxTti, cfg, cell, tasks, restVars>>

\* MbsfnFrameProcessor::process(), with the same discipline.
ProcessMbsfn(p) ==
    /\ \E t \in running :
         /\ t.proc = p
         /\ running' = running \ {t}
    /\ lock' = [lock EXCEPT ![p] = FALSE]
    /\ UNCHANGED <<state, mpc, tti, mb_idx, rxTti, cfg, phyVars, tasks, restVars>>

Workers == next_task \/ ProcessCas \/ \E p \in Mbsfn : ProcessMbsfn(p)

-----------------------------------------------------------------------------
(* The REST threads                                                        *)

\* PUT sdr_params.
set_params ==
    /\ restart' = TRUE
    /\ UNCHANGED <<state, mpc, tti, mb_idx, procVars, phyVars, poolVars, scanning>>

\* PUT scan_mode, in two steps: the flag, then main's state variable.
set_scan_mode ==
    /\ ~scanning
    /\ restart' = TRUE
    /\ scanning' = TRUE
    /\ UNCHANGED <<state, mpc, tti, mb_idx, procVars, phyVars, poolVars>>

PutScanMode ==
    /\ scanning
    /\ state' = "searching"
    /\ scanning' = FALSE
    /\ UNCHANGED <<mpc, tti, mb_idx, procVars, phyVars, poolVars, restart>>

Rest == set_params \/ set_scan_mode \/ PutScanMode

-----------------------------------------------------------------------------
Init ==
    /\ state = "searching" /\ mpc = "top"
    /\ tti = 0 /\ mb_idx = 0
    /\ lock = [p \in Proc |-> FALSE]
    /\ rxTti = [p \in Proc |-> NoTti]
    /\ cfg = [p \in Mbsfn |-> NoCell]
    /\ cell = NoCell /\ mcch = FALSE /\ wider = FALSE
    /\ tasks = <<>> /\ running = {}
    /\ restart = FALSE /\ scanning = FALSE

Next == Main \/ Workers \/ Rest

\* Main and every worker are scheduled; process() and get_next_frame() return.
\* Nothing says that a synchronisation ever succeeds.
Fairness ==
    /\ WF_vars(Loop)
    /\ WF_vars(next_task)
    /\ WF_vars(ProcessCas)
    /\ \A p \in Mbsfn : WF_vars(ProcessMbsfn(p))

Spec == Init /\ [][Next]_vars /\ Fairness

-----------------------------------------------------------------------------
(* Properties                                                              *)

MPC == {"top", "search", "next", "lock", "receive", "dispatch", "extend", "lost"}

\* Every variable keeps its type: mb_idx is the index of an existing MBSFN
\* processor, and every task belongs to a processor.
TypeOK ==
    /\ state \in {"searching", "syncing", "processing"}
    /\ mpc \in MPC
    /\ tti \in Tti /\ mb_idx \in Mbsfn
    /\ lock \in [Proc -> BOOLEAN]
    /\ rxTti \in [Proc -> Tti \union {NoTti}]
    /\ cfg \in [Mbsfn -> Cells \union {NoCell}]
    /\ cell \in Cells \union {NoCell}
    /\ mcch \in BOOLEAN /\ wider \in BOOLEAN
    /\ tasks \in Seq(Task) /\ running \subseteq Task
    /\ restart \in BOOLEAN /\ scanning \in BOOLEAN

HeldByMain(p) == mpc \in {"receive", "dispatch"} /\ Target = p

\* A processor belongs to one thread at a time: at most one task of it is queued
\* or running, its mutex is held meanwhile, and main does not hold it too.
OneOwner ==
    \A p \in Proc :
        Outstanding(p) =>
            /\ lock[p]
            /\ ~HeldByMain(p)
            /\ \A i, j \in DOMAIN tasks :
                 tasks[i].proc = p /\ tasks[j].proc = p => i = j
            /\ \A t, u \in running : t.proc = p /\ u.proc = p => t = u
            /\ \A i \in DOMAIN tasks, t \in running :
                 ~(tasks[i].proc = p /\ t.proc = p)

\* The samples a worker decodes are those of the subframe it was given: nobody
\* receives into the buffer between the push and the end of process().
SamplesMatchTask ==
    /\ \A i \in DOMAIN tasks : rxTti[tasks[i].proc] = tasks[i].tti
    /\ \A t \in running : rxTti[t.proc] = t.tti

InLoop == mpc \in {"next", "lock", "receive", "dispatch", "extend"}

\* While subframes are being processed no MBSFN mutex is leaked: whoever holds
\* one, main with this subframe or a task, is going to release it.
NoLeakedMbsfnLock ==
    InLoop /\ state = "processing" =>
        \A p \in Mbsfn : lock[p] => HeldByMain(p) \/ Outstanding(p)

\* Main is never blocked for good on the mutex of an MBSFN processor.
MbsfnLockAcquired == mpc = "lock" /\ Target \in Mbsfn ~> mpc # "lock"

\* "If process() is not called by the application after calling this method, it
\* must unlock the processor itself" (MbsfnFrameProcessor.h:103, to which
\* CasFrameProcessor::unlock() refers): a held CAS mutex has somebody to release it.
CasLockHasOwner ==
    lock[CAS] => HeldByMain(CAS) \/ Outstanding(CAS) \/ mpc = "lost"

\* "If data frm SIB1/SIB13 has been received in CAS, configure the processors
\* accordingly" (main.cpp:793): a queued MBSFN task has the parameters of the
\* cell the modem has synchronised with.
ConfiguredForThisCell ==
    \A i \in DOMAIN tasks :
        tasks[i].proc \in Mbsfn /\ state = "processing" => cfg[tasks[i].proc] = cell
=============================================================================
