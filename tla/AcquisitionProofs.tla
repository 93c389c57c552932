-------------------------- MODULE AcquisitionProofs --------------------------
(* The bearers of RLC are ready for whatever the MBSFN workers decode, for     *)
(* every number of workers, cells and sessions.                                *)
EXTENDS Acquisition, TLAPS

\* The bearers of the MCCH that Phy has, and of the one a worker is about to
\* store there, exist; so does that of the MCCH itself once it may be decoded.
BearersAdded ==
    /\ mcch.sess \subseteq bearers
    /\ decode_mcch \/ cas.pc = "decode" => McchLcid \in bearers
    /\ \A w \in Worker : mbsfn[w].pc = "write" => mbsfn[w].smp.sess \subseteq bearers

IndInv == TypeOK /\ BearersAdded /\ BearersReady

\* mb_idx wraps around within the processors.
LEMMA NextWorker ==
    ASSUME NEW i \in Worker
    PROVE  (i + 1) % thread_cnt \in Worker
BY AcquisitionAssumption DEF Worker

\* The tasks of the workers.
MbsfnTask == [pc : WorkerPC, sf : 0 .. Subframes - 1, smp : Configs \union {NoConfig},
              ok : BOOLEAN, use : SUBSET (Configs \union {NoConfig})]

CasTask == [pc : {"idle", "clear", "fill", "bearer", "decode"}, smp : Cells \union {NoCell}]

\* An idle worker has a task too, and it holds nothing.
LEMMA NoTaskType ==
    /\ NoConfig.sess = {}
    /\ NoTask \in MbsfnTask /\ NoTask.pc = "idle"
    /\ NoCas \in CasTask /\ NoCas.pc = "idle"
BY AcquisitionAssumption DEF NoConfig, NoTask, NoCas, WorkerPC, MbsfnTask, CasTask

\* Before the first cell is found nothing is configured.
LEMMA InitIndInv == Init => IndInv
<1> SUFFICES ASSUME Init PROVE IndInv
  OBVIOUS
<1>1. 0 \in Worker /\ 0 \in 0 .. Subframes - 1
  BY AcquisitionAssumption DEF Worker
<1>2. mbsfn \in [Worker -> MbsfnTask] /\ cas \in CasTask
  BY NoTaskType DEF Init
<1>3. TypeOK
  BY <1>1, <1>2 DEF Init, TypeOK, MbsfnTask, CasTask
<1>4. BearersAdded /\ BearersReady
  BY NoTaskType DEF Init, BearersAdded, BearersReady
<1> QED
  BY <1>3, <1>4 DEF IndInv

\* Main changes the state, the subframe and mb_idx, and hands out tasks.
LEMMA MainType ==
    ASSUME TypeOK,
           \/ CellFound \/ Synchronised \/ Dispatch \/ GoSearching
           \/ PutScanMode \/ PrbExtension \/ McchChange
    PROVE  TypeOK'
<1> USE DEF TypeOK
<1>1. CASE CellFound
  BY <1>1 DEF CellFound, phyVars
<1>2. CASE Synchronised
  BY <1>2 DEF Synchronised, phyVars
<1>3. CASE DispatchCas
  <2>1. air.cell \in Cells
    BY DEF Cells
  <2>2. cas' \in CasTask
    BY <1>3, <2>1, NoTaskType DEF DispatchCas, CasTask
  <2>3. sf' \in 0 .. Subframes - 1
    BY <1>3, AcquisitionAssumption DEF DispatchCas, Received
  <2> QED
    BY <1>3, <2>2, <2>3 DEF DispatchCas, phyVars, CasTask
<1>4. CASE DispatchMbsfn
  <2>1. PICK n \in 1 .. Subframes - 1, ok \in BOOLEAN :
          /\ sf' = n
          /\ mbsfn' = IF mcch_configured
                      THEN [mbsfn EXCEPT ![mb_idx] =
                             [pc |-> "config", sf |-> n, smp |-> air, ok |-> ok, use |-> {}]]
                      ELSE mbsfn
    BY <1>4 DEF DispatchMbsfn, Received
  <2>2. sf' \in 0 .. Subframes - 1
    BY <2>1, AcquisitionAssumption
  <2>3. [pc |-> "config", sf |-> n, smp |-> air, ok |-> ok, use |-> {}] \in MbsfnTask
    BY <2>1, AcquisitionAssumption DEF MbsfnTask, WorkerPC
  <2>4. mbsfn' \in [Worker -> MbsfnTask]
    BY <2>1, <2>3 DEF MbsfnTask
  <2>5. mb_idx' \in Worker
    BY <1>4, NextWorker DEF DispatchMbsfn
  <2>6. UNCHANGED <<state, air, phyVars, bearers, cas, rlc_mutex>>
    BY <1>4 DEF DispatchMbsfn
  <2> QED
    BY <2>2, <2>4, <2>5, <2>6 DEF phyVars, MbsfnTask
<1>5. CASE GoSearching
  <2>1. sf' \in 0 .. Subframes - 1 /\ mb_idx' \in Worker
    BY <1>5, AcquisitionAssumption DEF GoSearching, LeaveProcessing, Worker
  <2> QED
    BY <1>5, <2>1 DEF GoSearching, LeaveProcessing
<1>6. CASE PutScanMode
  BY <1>6, AcquisitionAssumption DEF PutScanMode, LeaveProcessing, Worker, phyVars
<1>7. CASE PrbExtension
  BY <1>7, AcquisitionAssumption DEF PrbExtension, LeaveProcessing, Worker, phyVars
<1>8. CASE McchChange
  BY <1>8 DEF McchChange, mainVars, phyVars
<1> QED
  BY <1>1, <1>2, <1>3, <1>4, <1>5, <1>6, <1>7, <1>8 DEF Dispatch

\* The CAS worker stores the SIB13 of a cell.
LEMMA CasType ==
    ASSUME TypeOK, CasWorker
    PROVE  TypeOK'
<1> USE DEF TypeOK, mainVars
<1>1. ASSUME NEW to \in {"fill", "bearer", "decode"}, cas' = [cas EXCEPT !.pc = to]
      PROVE  cas' \in CasTask
  BY <1>1 DEF CasTask
<1>2. CASE ClearTable
  <2>1. cas' \in CasTask
    BY <1>1, <1>2 DEF ClearTable, CasStep
  <2> QED
    BY <1>2, <2>1 DEF ClearTable, CasTask
<1>3. CASE FillTable
  <2>1. cas' \in CasTask
    BY <1>1, <1>3 DEF FillTable, CasStep
  <2> QED
    BY <1>3, <2>1 DEF FillTable, CasTask
<1>4. CASE AddMcchBearer
  <2>1. cas' \in CasTask
    BY <1>1, <1>4 DEF AddMcchBearer, CasStep
  <2> QED
    BY <1>4, <2>1 DEF AddMcchBearer, CasTask, phyVars, McchLcid
<1>5. CASE DecodeMcch
  BY <1>5, NoTaskType DEF DecodeMcch, CasTask
<1> QED
  BY <1>2, <1>3, <1>4, <1>5 DEF CasWorker

\* A step of an MBSFN worker leaves it with a task of the right type.
LEMMA TaskType ==
    ASSUME TypeOK, NEW w \in Worker, MbsfnWorker(w)
    PROVE  mbsfn' \in [Worker -> MbsfnTask]
<1>0. mbsfn \in [Worker -> MbsfnTask] /\ mcch \in Configs \union {NoConfig}
  BY DEF TypeOK, MbsfnTask
<1>1. ASSUME NEW from, NEW to \in WorkerPC, Step(w, from, to)
      PROVE  mbsfn' \in [Worker -> MbsfnTask]
  BY <1>0, <1>1 DEF Step, MbsfnTask
<1>2. ASSUME NEW from, Finish(w, from)
      PROVE  mbsfn' \in [Worker -> MbsfnTask]
  BY <1>0, <1>2, NoTaskType DEF Finish
<1>3. CASE mbsfn_config_for_tti(w)
  <2>1. McchSeen \subseteq Configs \union {NoConfig}
    BY <1>0 DEF McchSeen, MbsfnTask
  <2>2. ASSUME NEW seen \in SUBSET McchSeen,
               mbsfn' = [mbsfn EXCEPT ![w] = [@ EXCEPT !.pc = "mch", !.use = seen]]
        PROVE  mbsfn' \in [Worker -> MbsfnTask]
    <3>1. mbsfn[w] \in MbsfnTask /\ seen \in SUBSET (Configs \union {NoConfig})
      BY <1>0, <2>1
    <3>2. [mbsfn[w] EXCEPT !.pc = "mch", !.use = seen] \in MbsfnTask
      BY <3>1 DEF MbsfnTask, WorkerPC
    <3> QED
      BY <1>0, <2>2, <3>2
  <2> QED
    BY <1>1, <1>2, <1>3, <2>2 DEF mbsfn_config_for_tti, WorkerPC
<1>4. CASE DecodeMch(w) \/ DecodeMcchFails(w) \/ StopDecodingMcch(w)
  BY <1>2, <1>4 DEF DecodeMch, DecodeMcchFails, StopDecodingMcch
<1>5. CASE WritePduMch(w) \/ AddBearers(w) \/ set_mbsfn_config(w)
  BY <1>1, <1>5 DEF WritePduMch, AddBearers, set_mbsfn_config, WorkerPC
<1> QED
  BY <1>3, <1>4, <1>5 DEF MbsfnWorker

\* The MBSFN workers store an MCCH that a cell has broadcast.
LEMMA MbsfnType ==
    ASSUME TypeOK, NEW w \in Worker, MbsfnWorker(w)
    PROVE  TypeOK'
<1>1. mbsfn' \in [Worker -> MbsfnTask]
  BY TaskType
<1>2. mbsfn[w].smp \in Configs \union {NoConfig} /\ mbsfn[w].smp.sess \subseteq Nat
  BY NoTaskType, AcquisitionAssumption DEF TypeOK
<1> USE <1>1, <1>2 DEF TypeOK, MbsfnTask, mainVars, phyVars
<1>3. CASE mbsfn_config_for_tti(w)
  <2>1. UNCHANGED <<mainVars, air, phyVars, bearers, cas, rlc_mutex>>
    BY <1>3 DEF mbsfn_config_for_tti
  <2> QED
    BY <2>1
<1>4. CASE DecodeMch(w) \/ DecodeMcchFails(w)
  BY <1>4 DEF DecodeMch, DecodeMcchFails
<1>5. CASE WritePduMch(w)
  BY <1>5 DEF WritePduMch
<1>6. CASE AddBearers(w)
  <2>1. bearers' \subseteq Nat
    BY <1>6 DEF AddBearers
  <2> QED
    BY <1>6, <2>1 DEF AddBearers
<1>7. CASE set_mbsfn_config(w)
  BY <1>7 DEF set_mbsfn_config
<1>8. CASE StopDecodingMcch(w)
  BY <1>8 DEF StopDecodingMcch
<1> QED
  BY <1>3, <1>4, <1>5, <1>6, <1>7, <1>8 DEF MbsfnWorker

\* Main and the cell leave the bearers and the MCCH alone; a new task has not
\* been looked at yet.
LEMMA MainBearers ==
    ASSUME IndInv,
           \/ CellFound \/ Synchronised \/ Dispatch \/ GoSearching
           \/ PutScanMode \/ PrbExtension \/ McchChange
    PROVE  BearersAdded' /\ BearersReady'
<1> USE DEF IndInv, BearersAdded, BearersReady
<1>1. CASE CellFound \/ Synchronised \/ GoSearching \/ PutScanMode \/ PrbExtension \/ McchChange
  BY <1>1 DEF CellFound, Synchronised, GoSearching, PutScanMode,
              PrbExtension, McchChange, phyVars, mainVars
<1>2. CASE DispatchCas
  <2>1. cas'.pc # "decode"
    BY <1>2, NoTaskType DEF DispatchCas
  <2> QED
    BY <1>2, <2>1 DEF DispatchCas, phyVars
<1>3. CASE DispatchMbsfn
  <2>1. \A w \in Worker : mbsfn'[w] = mbsfn[w] \/ mbsfn'[w].pc = "config"
    BY <1>3 DEF DispatchMbsfn, TypeOK
  <2>2. UNCHANGED <<phyVars, bearers, cas>>
    BY <1>3 DEF DispatchMbsfn
  <2> QED
    BY <2>1, <2>2 DEF phyVars
<1> QED
  BY <1>1, <1>2, <1>3 DEF Dispatch

\* The CAS worker adds the bearer of the MCCH before it allows its decoding.
LEMMA CasBearers ==
    ASSUME IndInv, CasWorker
    PROVE  BearersAdded' /\ BearersReady'
<1> USE DEF IndInv, BearersAdded, BearersReady, TypeOK
<1>1. CASE ClearTable \/ FillTable
  BY <1>1 DEF ClearTable, FillTable, CasStep
<1>2. CASE AddMcchBearer
  BY <1>2 DEF AddMcchBearer, CasStep, phyVars
<1>3. CASE DecodeMcch
  BY <1>3, NoTaskType DEF DecodeMcch
<1> QED
  BY <1>1, <1>2, <1>3 DEF CasWorker

\* An MBSFN worker adds the bearers of an MCCH before it publishes it, and uses
\* what was published before.
LEMMA MbsfnBearers ==
    ASSUME IndInv, NEW w \in Worker, MbsfnWorker(w)
    PROVE  BearersAdded' /\ BearersReady'
<1> USE DEF IndInv, BearersAdded, BearersReady
<1>0. mbsfn \in [Worker -> MbsfnTask]
  BY DEF TypeOK, MbsfnTask
<1>1. ASSUME NEW from, NEW to, Step(w, from, to)
      PROVE  /\ mbsfn[w].pc = from
             /\ mbsfn'[w].pc = to /\ mbsfn'[w].smp = mbsfn[w].smp
             /\ mbsfn'[w].use = mbsfn[w].use
             /\ \A v \in Worker \ {w} : mbsfn'[v] = mbsfn[v]
  BY <1>0, <1>1 DEF Step, MbsfnTask
<1>2. ASSUME NEW from, Finish(w, from)
      PROVE  mbsfn'[w].pc = "idle" /\ \A v \in Worker \ {w} : mbsfn'[v] = mbsfn[v]
  BY <1>0, <1>2, NoTaskType DEF Finish
<1>3. CASE mbsfn_config_for_tti(w)
  <2>1. \A c \in McchSeen : c.sess \subseteq bearers
    BY DEF McchSeen
  <2>2. ASSUME NEW seen \in SUBSET McchSeen,
               mbsfn' = [mbsfn EXCEPT ![w] = [@ EXCEPT !.pc = "mch", !.use = seen]]
        PROVE  /\ mbsfn'[w].pc = "mch" /\ mbsfn'[w].use \subseteq McchSeen
               /\ \A v \in Worker \ {w} : mbsfn'[v] = mbsfn[v]
    BY <1>0, <2>2 DEF MbsfnTask
  <2>3. /\ mbsfn'[w].pc \in {"idle", "mch", "mcch"}
        /\ mbsfn'[w].pc = "mch" => mbsfn'[w].use \subseteq McchSeen
        /\ mbsfn'[w].pc = "mcch" => decode_mcch
        /\ \A v \in Worker \ {w} : mbsfn'[v] = mbsfn[v]
    <3>1. CASE Finish(w, "config")
      BY <1>2, <3>1
    <3>2. CASE decode_mcch /\ Step(w, "config", "mcch")
      BY <1>1, <3>2
    <3>3. CASE \E seen \in SUBSET McchSeen :
                 mbsfn' = [mbsfn EXCEPT ![w] = [@ EXCEPT !.pc = "mch", !.use = seen]]
      BY <2>2, <3>3
    <3> QED
      BY <1>3, <3>1, <3>2, <3>3 DEF mbsfn_config_for_tti
  <2>4. UNCHANGED <<phyVars, bearers, cas>>
    BY <1>3 DEF mbsfn_config_for_tti
  <2> QED
    BY <2>1, <2>3, <2>4 DEF phyVars
<1>4. CASE DecodeMch(w) \/ DecodeMcchFails(w)
  BY <1>2, <1>4 DEF DecodeMch, DecodeMcchFails, phyVars
<1>5. CASE WritePduMch(w)
  BY <1>1, <1>5 DEF WritePduMch, phyVars
<1>6. CASE AddBearers(w)
  BY <1>1, <1>6 DEF AddBearers, phyVars
<1>7. CASE set_mbsfn_config(w)
  BY <1>1, <1>7 DEF set_mbsfn_config
<1>8. CASE StopDecodingMcch(w)
  BY <1>2, <1>8 DEF StopDecodingMcch
<1> QED
  BY <1>3, <1>4, <1>5, <1>6, <1>7, <1>8 DEF MbsfnWorker

\* Every step keeps the invariant.
LEMMA NextIndInv == IndInv /\ [Next]_vars => IndInv'
<1> SUFFICES ASSUME IndInv, [Next]_vars PROVE IndInv'
  OBVIOUS
<1>1. CASE \/ CellFound \/ Synchronised \/ Dispatch \/ GoSearching
           \/ PutScanMode \/ PrbExtension \/ McchChange
  BY <1>1, MainType, MainBearers DEF IndInv
<1>2. CASE CasWorker
  BY <1>2, CasType, CasBearers DEF IndInv
<1>3. ASSUME NEW w \in Worker, MbsfnWorker(w) PROVE IndInv'
  BY <1>3, MbsfnType, MbsfnBearers DEF IndInv
<1>4. CASE UNCHANGED vars
  BY <1>4 DEF IndInv, TypeOK, BearersAdded, BearersReady, vars, mainVars, phyVars
<1> QED
  BY <1>1, <1>2, <1>3, <1>4 DEF Next

\* mb_idx stays within the processors, and Phy and the tasks hold what a cell has
\* broadcast, for every number of workers and cells.
THEOREM TypeCorrect == Spec => []TypeOK
<1>1. IndInv => TypeOK
  BY DEF IndInv
<1> QED
  BY <1>1, InitIndInv, NextIndInv, PTL DEF Spec

\* Whatever the order in which workers, resets and changes of the MCCH interleave, a
\* worker decodes with an MCCH whose bearers Rrc has added.
THEOREM BearersAlwaysReady == Spec => []BearersReady
<1>1. IndInv => BearersReady
  BY DEF IndInv
<1> QED
  BY <1>1, InitIndInv, NextIndInv, PTL DEF Spec
=============================================================================
