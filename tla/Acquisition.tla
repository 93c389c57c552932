----------------------------- MODULE Acquisition -----------------------------
(***************************************************************************)
(* How the modem learns what a cell broadcasts: SIB1 with SIB13 comes in    *)
(* CAS subframes and tells where the MCCH is, the MCCH comes in MBSFN       *)
(* subframes and tells where the MCHs are.  The CAS worker and the MBSFN    *)
(* workers write it through Rrc (src/src/Rrc.cpp) into Phy (src/src/Phy.cpp),*)
(* where MBSFN workers read it for every subframe, and main resets it.      *)
(* There is no lock around Phy; _rlc_mutex serialises the MBSFN workers.    *)
(* Nobody reads Rrc's own _state, so neither its writes nor rrc.reset(),    *)
(* which does nothing else, are steps here.                                 *)
(*                                                                         *)
(* FramePipeline has the mutexes of the processors.  All cells are taken to *)
(* have the same MBSFN area and subcarrier spacing, which the processors    *)
(* would not follow (ConfiguredForThisCell there), and to announce it in     *)
(* every SIB13.                                                            *)
(***************************************************************************)
EXTENDS Integers, FiniteSets

CONSTANTS
    Configs,    \* what a cell broadcasts: [cell, sess], where sess are the sessions in
                \* the MCCH, as the LCIDs of their bearers; it may change
    McchPos,    \* the subframe of each cell's MCCH, that SIB13 announces
    Subframes,  \* subframes from a CAS subframe, number 0, to the next
    thread_cnt  \* MBSFN processors, which take turns

Cells == {c.cell : c \in Configs}

ASSUME AcquisitionAssumption ==
    /\ Subframes \in Nat \ {0} /\ thread_cnt \in Nat \ {0}
    /\ \A c \in Cells : McchPos[c] \in 1 .. Subframes - 1
    /\ \A c \in Configs : c.sess \subseteq Nat

\* A SIB13 or MCCH that was never received.
NoCell == 0
NoConfig == [cell |-> NoCell, sess |-> {}]

\* The LCID of the bearer of the MCCH itself.
McchLcid == 0

Worker == 0 .. thread_cnt - 1

VARIABLES
    state,              \* state of main
    sf,                 \* tti: the last subframe received
    mb_idx,             \* mb_idx
    air,                \* the configuration of the cell the modem listens to
    mcch_configured,    \* _mcch_configured
    mch_configured,     \* _mch_configured
    decode_mcch,        \* _decode_mcch
    table,              \* _mcch_table is filled in
    sib13,              \* _sib13: the cell it came from
    mcch,               \* _mcch
    bearers,            \* the MRBs of RLC, by LCID
    cas,                \* the CAS worker: [pc, smp]
    mbsfn,              \* the MBSFN workers: [pc, sf, smp, ok, use]
    rlc_mutex           \* _rlc_mutex

mainVars == <<state, sf, mb_idx>>
phyVars == <<mcch_configured, mch_configured, decode_mcch, table, sib13, mcch>>
vars == <<mainVars, air, phyVars, bearers, cas, mbsfn, rlc_mutex>>

NoCas == [pc |-> "idle", smp |-> NoCell]
NoTask == [pc |-> "idle", sf |-> 0, smp |-> NoConfig, ok |-> FALSE, use |-> {}]

Idle(w) == mbsfn[w].pc = "idle"

-----------------------------------------------------------------------------
(* Main                                                                    *)

CellFound ==
    /\ state = "searching"
    /\ air' \in Configs
    /\ state' = "syncing"
    /\ UNCHANGED <<sf, mb_idx, phyVars, bearers, cas, mbsfn, rlc_mutex>>

\* Phy is not reset here.  The workers have finished what they had, as
\* WorkersKeepUp in FramePipeline says.
Synchronised ==
    /\ state = "syncing"
    /\ cas.pc = "idle" /\ \A w \in Worker : Idle(w)
    /\ state' = "processing"
    /\ UNCHANGED <<sf, mb_idx, air, phyVars, bearers, cas, mbsfn, rlc_mutex>>

\* tti and mb_idx start from 0 when subframes are processed again; nobody looks at
\* them until then.
LeaveProcessing(to) ==
    /\ state' = to
    /\ sf' = 0 /\ mb_idx' = 0

Received(n) == state = "processing" /\ n = (sf + 1) % Subframes /\ sf' = n

\* A CAS subframe goes to the CAS worker, which may find no SIB1 in it.
DispatchCas ==
    /\ Received(0)
    /\ cas.pc = "idle"
    /\ \/ cas' = [pc |-> "clear", smp |-> air.cell]
       \/ cas' = NoCas
    /\ UNCHANGED <<state, mb_idx, air, phyVars, bearers, mbsfn, rlc_mutex>>

\* Mutant: mb_idx may reach thread_cnt.
DispatchOffByOne ==
    /\ \E n \in 1 .. Subframes - 1 :
         /\ Received(n)
         /\ Idle(mb_idx)
         /\ \E ok \in BOOLEAN :
              mbsfn' = IF mcch_configured
                       THEN [mbsfn EXCEPT ![mb_idx] =
                              [pc |-> "config", sf |-> n, smp |-> air, ok |-> ok, use |-> {}]]
                       ELSE mbsfn
    /\ mb_idx' = (mb_idx + 1) % (thread_cnt + 1)
    /\ UNCHANGED <<state, air, phyVars, bearers, cas, rlc_mutex>>

\* An MBSFN subframe goes to the next MBSFN worker, or is discarded.
DispatchMbsfn ==
    /\ \E n \in 1 .. Subframes - 1 :
         /\ Received(n)
         /\ Idle(mb_idx)
         /\ \E ok \in BOOLEAN :
              mbsfn' = IF mcch_configured
                       THEN [mbsfn EXCEPT ![mb_idx] =
                              [pc |-> "config", sf |-> n, smp |-> air, ok |-> ok, use |-> {}]]
                       ELSE mbsfn
    /\ mb_idx' = (mb_idx + 1) % thread_cnt
    /\ UNCHANGED <<state, air, phyVars, bearers, cas, rlc_mutex>>

\* A lost subframe or a restart: phy.reset(), whatever the workers are doing.
GoSearching ==
    /\ state = "processing"
    /\ mcch_configured' = FALSE /\ mch_configured' = FALSE
    /\ LeaveProcessing("searching")
    /\ UNCHANGED <<air, decode_mcch, table, sib13, mcch, bearers, cas, mbsfn,
                   rlc_mutex>>

\* PUT scan_mode writes state itself: main leaves its loop without a reset.
PutScanMode ==
    /\ state # "searching"
    /\ LeaveProcessing("searching")
    /\ UNCHANGED <<air, phyVars, bearers, cas, mbsfn, rlc_mutex>>

\* SIB13 has announced a wider MBSFN part: main synchronises again, without a reset.
PrbExtension ==
    /\ state = "processing" /\ sf = 0
    /\ LeaveProcessing("syncing")
    /\ UNCHANGED <<air, phyVars, bearers, cas, mbsfn, rlc_mutex>>

-----------------------------------------------------------------------------
(* The CAS worker: Rrc::write_pdu_bcch_dlsch(), handle_sib1()              *)

CasStep(from, to) == cas.pc = from /\ cas' = [cas EXCEPT !.pc = to]

\* set_mch_scheduling_info() stores SIB13 and clears the table ...
ClearTable ==
    /\ CasStep("clear", "fill")
    /\ sib13' = cas.smp
    /\ table' = FALSE
    /\ UNCHANGED <<mainVars, air, mcch_configured, mch_configured, decode_mcch, mcch,
                   bearers, mbsfn, rlc_mutex>>

\* ... and fills it again.
FillTable ==
    /\ CasStep("fill", "bearer")
    /\ table' = TRUE
    /\ mcch_configured' = TRUE
    /\ UNCHANGED <<mainVars, air, mch_configured, decode_mcch, sib13, mcch, bearers,
                   mbsfn, rlc_mutex>>

AddMcchBearer ==
    /\ CasStep("bearer", "decode")
    /\ bearers' = bearers \union {McchLcid}
    /\ UNCHANGED <<mainVars, air, phyVars, mbsfn, rlc_mutex>>

\* Mutant: the MCCH is only decoded until it was received once.
DecodeMcchOnce ==
    /\ cas.pc = "decode" /\ cas' = NoCas
    /\ decode_mcch' = ~mch_configured
    /\ UNCHANGED <<mainVars, air, mcch_configured, mch_configured, table, sib13, mcch,
                   bearers, mbsfn, rlc_mutex>>

\* set_decode_mcch(true), with every SIB1.
DecodeMcch ==
    /\ cas.pc = "decode" /\ cas' = NoCas
    /\ decode_mcch' = TRUE
    /\ UNCHANGED <<mainVars, air, mcch_configured, mch_configured, table, sib13, mcch,
                   bearers, mbsfn, rlc_mutex>>

CasWorker == ClearTable \/ FillTable \/ AddMcchBearer \/ DecodeMcch

-----------------------------------------------------------------------------
(* An MBSFN worker: MbsfnFrameProcessor::process(), Rrc::write_pdu_mch()   *)

Step(w, from, to) == mbsfn[w].pc = from /\ mbsfn' = [mbsfn EXCEPT ![w].pc = to]

Finish(w, from) == mbsfn[w].pc = from /\ mbsfn' = [mbsfn EXCEPT ![w] = NoTask]

\* What Phy may take subframe n for.  _sib13 is copied without a lock: while another
\* one is being stored, its old and new fields mix.
is_mcch(n) ==
    IF cas.pc = "clear" /\ cas.smp # sib13 THEN {m \in BOOLEAN : m => table}
    ELSE {table /\ sib13 # NoCell /\ n = McchPos[sib13]}

\* The configurations whose fields a read of _mcch may return: it is copied without
\* a lock too.
McchSeen == {mcch} \union {mbsfn[v].smp : v \in {v \in Worker : mbsfn[v].pc = "write"}}

\* mbsfn_config_for_tti(), and the return of process() when nothing is enabled: no
\* MCCH is wanted, or the subframe is beyond the last MCH.
mbsfn_config_for_tti(w) ==
    /\ mbsfn[w].pc = "config"
    /\ \E m \in is_mcch(mbsfn[w].sf) :
         \/ /\ mcch_configured /\ m => ~decode_mcch
            /\ Finish(w, "config")
         \/ /\ mcch_configured /\ m /\ decode_mcch
            /\ Step(w, "config", "mcch")
         \/ /\ mcch_configured /\ ~m /\ mch_configured
            /\ \E seen \in SUBSET McchSeen \ {{}} :
                   mbsfn' = [mbsfn EXCEPT ![w] = [@ EXCEPT !.pc = "mch", !.use = seen]]
    /\ UNCHANGED <<mainVars, air, phyVars, bearers, cas, rlc_mutex>>

\* Data of an MCH, decoded with the parameters in use.
DecodeMch(w) ==
    /\ Finish(w, "mch")
    /\ UNCHANGED <<mainVars, air, phyVars, bearers, cas, rlc_mutex>>

\* A subframe that was an MCCH subframe on the air too yields the MCCH.
IsMcchMessage(w) == mbsfn[w].ok /\ mbsfn[w].sf = McchPos[mbsfn[w].smp.cell]

DecodeMcchFails(w) ==
    /\ ~IsMcchMessage(w)
    /\ Finish(w, "mcch")
    /\ UNCHANGED <<mainVars, air, phyVars, bearers, cas, rlc_mutex>>

\* Under _rlc_mutex RLC hands the message to Rrc.
WritePduMch(w) ==
    /\ IsMcchMessage(w)
    /\ ~rlc_mutex
    /\ Step(w, "mcch", "bearers")
    /\ rlc_mutex' = TRUE
    /\ UNCHANGED <<mainVars, air, phyVars, bearers, cas>>

\* Mutant: bearers are only added for the first MCCH message.
AddBearersOnce(w) ==
    /\ Step(w, "bearers", "write")
    /\ bearers' = IF mch_configured THEN bearers ELSE bearers \union mbsfn[w].smp.sess
    /\ UNCHANGED <<mainVars, air, phyVars, cas, rlc_mutex>>

AddBearers(w) ==
    /\ Step(w, "bearers", "write")
    /\ bearers' = bearers \union mbsfn[w].smp.sess
    /\ UNCHANGED <<mainVars, air, phyVars, cas, rlc_mutex>>

set_mbsfn_config(w) ==
    /\ Step(w, "write", "stop")
    /\ mcch' = mbsfn[w].smp
    /\ mch_configured' = TRUE
    /\ UNCHANGED <<mainVars, air, mcch_configured, decode_mcch, table, sib13, bearers,
                   cas, rlc_mutex>>

\* set_decode_mcch(false), which may undo that of a SIB1 received since.
StopDecodingMcch(w) ==
    /\ Finish(w, "stop")
    /\ decode_mcch' = FALSE
    /\ rlc_mutex' = FALSE
    /\ UNCHANGED <<mainVars, air, mcch_configured, mch_configured, table, sib13, mcch,
                   bearers, cas>>

MbsfnWorker(w) ==
    \/ mbsfn_config_for_tti(w) \/ DecodeMch(w) \/ DecodeMcchFails(w) \/ WritePduMch(w)
    \/ AddBearers(w) \/ set_mbsfn_config(w) \/ StopDecodingMcch(w)

-----------------------------------------------------------------------------
(* The cell                                                                *)

\* The network starts or ends a session: the MCCH changes.
McchChange ==
    /\ \E c \in Configs \ {air} : c.cell = air.cell /\ air' = c
    /\ UNCHANGED <<mainVars, phyVars, bearers, cas, mbsfn, rlc_mutex>>

Dispatch == DispatchCas \/ DispatchMbsfn

Next ==
    \/ CellFound \/ Synchronised \/ Dispatch \/ GoSearching \/ PutScanMode
    \/ PrbExtension
    \/ CasWorker \/ (\E w \in Worker : MbsfnWorker(w))
    \/ McchChange

Init ==
    /\ state = "searching" /\ sf = 0 /\ mb_idx = 0
    /\ air \in Configs
    /\ mcch_configured = FALSE /\ mch_configured = FALSE /\ decode_mcch = FALSE
    /\ table = FALSE /\ sib13 = NoCell /\ mcch = NoConfig
    /\ bearers = {}
    /\ cas = NoCas
    /\ mbsfn = [w \in Worker |-> NoTask]
    /\ rlc_mutex = FALSE

\* Main receives subframes, and the workers are scheduled.
Spec ==
    /\ Init /\ [][Next]_vars
    /\ WF_vars(Dispatch) /\ WF_vars(CasWorker)
    /\ \A w \in Worker : WF_vars(MbsfnWorker(w))

-----------------------------------------------------------------------------
(* Properties                                                              *)

WorkerPC == {"idle", "config", "mch", "mcch", "bearers", "write", "stop"}

\* Every variable keeps its type: mb_idx is the index of an existing worker.
TypeOK ==
    /\ state \in {"searching", "syncing", "processing"}
    /\ sf \in 0 .. Subframes - 1 /\ mb_idx \in Worker
    /\ air \in Configs
    /\ mcch_configured \in BOOLEAN /\ mch_configured \in BOOLEAN
    /\ decode_mcch \in BOOLEAN /\ table \in BOOLEAN
    /\ sib13 \in Cells \union {NoCell}
    /\ mcch \in Configs \union {NoConfig}
    /\ bearers \subseteq Nat
    /\ cas \in [pc : {"idle", "clear", "fill", "bearer", "decode"},
                smp : Cells \union {NoCell}]
    /\ mbsfn \in [Worker -> [pc : WorkerPC, sf : 0 .. Subframes - 1,
                             smp : Configs \union {NoConfig}, ok : BOOLEAN,
                             use : SUBSET (Configs \union {NoConfig})]]
    /\ rlc_mutex \in BOOLEAN

\* A worker that decodes data of an MCH finds the bearers of every session that its
\* MCCH announces, also when it has read _mcch while that was changed, and one that
\* decodes the MCCH finds the bearer of the MCCH: RLC drops a PDU without a bearer.
BearersReady ==
    \A w \in Worker :
        /\ mbsfn[w].pc = "mch" => \A c \in mbsfn[w].use : c.sess \subseteq bearers
        /\ mbsfn[w].pc = "mcch" => McchLcid \in bearers

\* An MCCH subframe without a bit error meets a table that is not being rebuilt.
McchRead(w) == mbsfn_config_for_tti(w) /\ table /\ IsMcchMessage(w)

\* A modem that stays on a cell, and receives SIB1 and the MCCH again and again,
\* ends up with the cell's present SIB13 and MCCH: whatever it had before,
\* whatever late workers wrote after a reset, and after every change of the MCCH.
FollowsTheAir ==
    \A c \in Configs :
        /\ <>[](state = "processing" /\ air = c)
        /\ []<><<DecodeMcch>>_vars
        /\ \E w \in Worker : []<><<McchRead(w)>>_vars
        => <>[](sib13 = c.cell /\ mcch = c /\ mcch_configured /\ mch_configured)
=============================================================================
