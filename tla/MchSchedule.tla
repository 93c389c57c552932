----------------------------- MODULE MchSchedule -----------------------------
(***************************************************************************)
(* From MBSFN subframes to the bearers of RLC: main hands the subframes in  *)
(* turn to thread_cnt processors (src/src/main.cpp), whose workers run      *)
(* MbsfnFrameProcessor::process() (src/src/MbsfnFrameProcessor.cpp): find   *)
(* the PMCH of the subframe, decode it, note in _sched_stops where the MCH  *)
(* scheduling information (MSI) ends each MTCH, give the SDUs to RLC, and   *)
(* stop the MTCHs whose end has come.  _sched_stops and both mutexes are    *)
(* static: all processors share them.                                       *)
(*                                                                         *)
(* Calls of RLC under _rlc_mutex are single steps.  _sched_stop_mutex is    *)
(* held over a whole loop of such calls, so it is a variable.  RRC, here,   *)
(* has its MCCH (Acquisition is about how it gets it); the counters of      *)
(* process() are in ChannelStats.                                           *)
(***************************************************************************)
EXTENDS SubframeMap, FiniteSets

CONSTANTS
    thread_cnt,     \* MBSFN processors, modem.phy.threads
    TtiCount,       \* TTIs are counted modulo this, 10240 in the code
    Cells,          \* carriers: [dedicated, end, plan, mcch], see TxIsMcch and SentMtchs
    allow_rrc_sn_across_periods

ASSUME ScheduleAssumption ==
    /\ thread_cnt \in Nat \ {0}
    /\ TtiCount \in Nat \ {0} /\ TtiCount % (20 * Period) = 0
    /\ allow_rrc_sn_across_periods \in BOOLEAN

\* At least one PMCH, and no more than process() has counters for (those of further
\* ones it drops); the PMCHs have their subframes in the order they are listed in.
ASSUME CellsAssumption ==
    \A c \in Cells :
        /\ c.dedicated \in BOOLEAN
        /\ c.mcch.repeat_period \in Nat \ {0} /\ c.mcch.offset \in 0 .. c.mcch.repeat_period - 1
        /\ c.end \in Seq(Nat) \ {<<>>} /\ Len(c.end) <= 16
        /\ \A i, j \in 1 .. Len(c.end) : i <= j => c.end[i] <= c.end[j]
        /\ \A p \in {0, 1}, i \in 1 .. Len(c.end) : c.plan[p][i] \in Seq([lcid : Nat, stop : Nat])

Proc == 0 .. thread_cnt - 1
NoStop == -1
Nobody == -1
McchLcid == 0

VARIABLES
    cell,         \* the carrier received
    tti,          \* the next subframe
    mb_idx,       \* the processor that takes it
    decode_mcch,  \* Phy::_decode_mcch
    work,         \* per processor: what its worker is doing
    stops,        \* _sched_stops: LCID -> subframe index
    sched_mutex,  \* _sched_stop_mutex: the processor whose worker holds it
    rlc,          \* RLC, per bearer: periods (mod 2) of its PDUs since its last stop
    lost,         \* ghost: scheduling information or data was not decoded
    overtaken     \* ghost: a worker was overtaken by one with a later subframe

vars == <<cell, tti, mb_idx, decode_mcch, work, stops, sched_mutex, rlc, lost, overtaken>>
mainVars == <<cell, tti, mb_idx>>

-----------------------------------------------------------------------------
(* What the carrier sends                                                  *)

\* The scheduling period a TTI lies in, modulo 2.
PeriodOf(t) == (t \div (10 * Period)) % 2

\* The number of each subframe of a period, by counting.
TxNumber ==
    [dedicated \in BOOLEAN |-> [t \in 0 .. 10 * Period - 1 |->
        Cardinality({u \in 0 .. t - 1 : is_mbsfn_subframe(dedicated, u)})]]

TxIndex(c, t) == TxNumber[c.dedicated][t % (10 * Period)]

TxFirst(c, i) == IF i <= 1 THEN 0 ELSE c.end[i - 1] + 1

\* The PMCH of the subframe with number n, 0 for none.
PmchAt(c, n) ==
    IF \E i \in DOMAIN c.end : n \in TxFirst(c, i) .. c.end[i]
    THEN CHOOSE i \in DOMAIN c.end : n \in TxFirst(c, i) .. c.end[i]
    ELSE 0

TxPmch(c, t) == PmchAt(c, TxIndex(c, t))

\* The MCCH is sent in frame offset and every repeat_period frames from there, in
\* subframes sfs.
TxIsMcch(c, t) ==
    /\ t % 10 \in c.mcch.sfs
    /\ \E k \in 0 .. t \div 10 : t \div 10 = c.mcch.offset + k * c.mcch.repeat_period

\* The MTCHs of PMCH i in the period of t, in the order of their subframes, each
\* with its last subframe counted from the first one of the PMCH; they may differ
\* from period to period.
SentMtchs(c, i, t) == c.plan[PeriodOf(t)][i]

\* The content of a subframe: the MSI at the start of a PMCH, the MCCH, and the
\* MTCH whose turn it is.
Sent(c, t) ==
    LET i == TxPmch(c, t)
        n == TxIndex(c, t) - TxFirst(c, i)
        mtchs == IF i = 0 THEN <<>> ELSE SentMtchs(c, i, t)
        msi == [k \in DOMAIN mtchs |->
                  [ce |-> TRUE, lcid |-> mtchs[k].lcid, stop |-> mtchs[k].stop]]
        left == {k \in DOMAIN mtchs : n <= mtchs[k].stop}
        sdu(l) == <<[ce |-> FALSE, lcid |-> l, stop |-> 0]>>
    IN  (IF i # 0 /\ n = 0 THEN msi ELSE <<>>) \o
        (IF TxIsMcch(c, t) THEN sdu(McchLcid)
         ELSE IF left = {} THEN <<>>
         ELSE sdu(mtchs[CHOOSE k \in left : \A j \in left : k <= j].lcid))

CarriesMtch(c, t) ==
    LET s == Sent(c, t) IN \E k \in DOMAIN s : s[k].ce \/ s[k].lcid # McchLcid

\* Subframe t carries data of an MTCH of the first PMCH.
HasMtch(c, t) ==
    /\ is_mbsfn_subframe(c.dedicated, t) /\ TxPmch(c, t) = 1 /\ ~TxIsMcch(c, t)
    /\ \E k \in DOMAIN SentMtchs(c, 1, t) : TxIndex(c, t) <= SentMtchs(c, 1, t)[k].stop

SamePeriod(t, u) == t \div (10 * Period) = u \div (10 * Period)

\* The subframes from t to the end of its period that stop an MTCH ending in subframe s.
Ends(c, t, s) ==
    {u \in t .. TtiCount - 1 : SamePeriod(t, u) /\ HasMtch(c, u) /\ TxIndex(c, u) >= s}

\* A carrier with one PMCH: LCID 0 is the MCCH's, an MTCH has one entry in the
\* scheduling information, and its end is not hidden by an MCCH with no data after it.
ASSUME PlanAssumption ==
    \A c \in Cells, t \in 0 .. TtiCount - 1 : Len(c.end) = 1 =>
        LET mtchs == SentMtchs(c, 1, t)
        IN  /\ \A k \in DOMAIN mtchs : mtchs[k].lcid # McchLcid
            /\ \A j, k \in DOMAIN mtchs : mtchs[j].lcid = mtchs[k].lcid => j = k
            /\ is_mbsfn_subframe(c.dedicated, t) /\ TxIndex(c, t) = 0 =>
                 \A k \in DOMAIN mtchs : Ends(c, t, mtchs[k].stop) # {}

\* MBSFN subframes after t in its period, up to u.
Gap(c, t, u) ==
    Cardinality({v \in t + 1 .. u : SamePeriod(t, v) /\ is_mbsfn_subframe(c.dedicated, v)})

\* The processors are done with the scheduling information of a period before the
\* MTCHs end, and with the PMCH before the next period starts.
Spaced(c) ==
    \A t \in 0 .. TtiCount - 1 : is_mbsfn_subframe(c.dedicated, t) /\ TxPmch(c, t) = 1 =>
        /\ Gap(c, t, TtiCount - 1) >= thread_cnt
        /\ TxIndex(c, t) = 0 =>
             \A k \in DOMAIN SentMtchs(c, 1, t) :
                 \E u \in Ends(c, t, SentMtchs(c, 1, t)[k].stop) : Gap(c, t, u) >= thread_cnt

-----------------------------------------------------------------------------
(* Main                                                                    *)

Idle == [pc |-> "idle", tti |-> 0, mch |-> 0, is_mcch |-> FALSE, sig |-> FALSE,
         todo |-> <<>>, i |-> 0]

\* Mutant: any processor that is free.
DispatchAnyFree ==
    /\ is_mbsfn_subframe(cell.dedicated, tti)
    /\ \E w \in Proc :
         /\ work[w].pc = "idle"
         /\ work' = [work EXCEPT ![w] = [Idle EXCEPT !.pc = "config", !.tti = tti]]
         /\ mb_idx' = w
    /\ tti' = (tti + 1) % TtiCount
    /\ UNCHANGED <<cell, decode_mcch, stops, sched_mutex, rlc, lost, overtaken>>

\* Lock the next processor in turn, receive the subframe, push its task.
DispatchMbsfn ==
    /\ is_mbsfn_subframe(cell.dedicated, tti)
    /\ work[mb_idx].pc = "idle"
    /\ work' = [work EXCEPT ![mb_idx] = [Idle EXCEPT !.pc = "config", !.tti = tti]]
    /\ mb_idx' = (mb_idx + 1) % thread_cnt
    /\ tti' = (tti + 1) % TtiCount
    /\ UNCHANGED <<cell, decode_mcch, stops, sched_mutex, rlc, lost, overtaken>>

\* A CAS subframe; a SIB1 in it makes the modem read the MCCH again.
DispatchCas ==
    /\ is_cas_subframe(cell.dedicated, tti)
    /\ decode_mcch' \in {decode_mcch, TRUE}
    /\ tti' = (tti + 1) % TtiCount
    /\ UNCHANGED <<cell, mb_idx, work, stops, sched_mutex, rlc, lost, overtaken>>

-----------------------------------------------------------------------------
(* The workers, process()                                                  *)

\* Processors were given their subframes in turn, so the ones ahead of w in the
\* turn that are still busy have older subframes.
Turn(w) == (w - mb_idx) % thread_cnt
Overtakes(w) == \E v \in Proc : work[v].pc # "idle" /\ Turn(v) < Turn(w)

\* process() returns: the processor is unlocked.
Return(w) == work' = [work EXCEPT ![w] = Idle]

\* mbsfn_config_for_tti(), with the early return when it enables nothing.
mbsfn_config_for_tti(w) ==
    LET t == work[w].tti
        idx == IndexOf(cell.dedicated, t)
        mch == PmchFor(cell.end, idx)
        mcch == is_mcch(cell.mcch, t)
        enabled == IF mcch THEN decode_mcch ELSE mch # 0
    IN  /\ work[w].pc = "config"
        /\ IF enabled
           THEN work' = [work EXCEPT
                    ![w].pc = "decode",
                    ![w].is_mcch = mcch,
                    ![w].mch = IF mcch THEN 1 ELSE mch,
                    ![w].sig = mcch \/ UsesSigMcs(cell.end, mch, t, idx)]
           ELSE Return(w)
        /\ lost' = (lost \/ (~enabled /\ CarriesMtch(cell, t)))
        /\ UNCHANGED <<mainVars, decode_mcch, stops, sched_mutex, rlc, overtaken>>

\* The channel estimate, the PMCH or its CRC fails: three early returns.
\* (The one before them, for a PMCH beyond the size of _rest._mch, needs more PMCHs than
\* CellsAssumption allows.)
DecodeFails(w) ==
    /\ work[w].pc = "decode"
    /\ Return(w)
    /\ lost' = (lost \/ CarriesMtch(cell, work[w].tti))
    /\ UNCHANGED <<mainVars, decode_mcch, stops, sched_mutex, rlc, overtaken>>

Decode(w) ==
    /\ work[w].pc = "decode"
    /\ work' = [work EXCEPT ![w].pc = "pdu", ![w].todo = Sent(cell, work[w].tti)]
    /\ UNCHANGED <<mainVars, decode_mcch, stops, sched_mutex, rlc, lost, overtaken>>

\* One entry of an MSI control element, under _sched_stop_mutex.
ScheduleStop(w) ==
    /\ work[w].pc = "pdu" /\ work[w].todo # <<>>
    /\ LET e == Head(work[w].todo)
       IN  /\ e.ce
           /\ sched_mutex = Nobody
           /\ stops' = [stops EXCEPT ![e.lcid] = e.stop]
    /\ work' = [work EXCEPT ![w].todo = Tail(@)]
    /\ overtaken' = (overtaken \/ Overtakes(w))
    /\ UNCHANGED <<mainVars, decode_mcch, sched_mutex, rlc, lost>>

\* One SDU goes to RLC, under _rlc_mutex; one of the MCCH ends in
\* Rrc::write_pdu_mch(), which stops the decoding of the MCCH.
WritePdu(w) ==
    /\ work[w].pc = "pdu" /\ work[w].todo # <<>>
    /\ LET e == Head(work[w].todo)
       IN  /\ ~e.ce
           /\ rlc' = [rlc EXCEPT ![<<work[w].mch, e.lcid>>] = @ \union {PeriodOf(work[w].tti)}]
           /\ decode_mcch' = (decode_mcch /\ e.lcid # McchLcid)
    /\ work' = [work EXCEPT ![w].todo = Tail(@)]
    /\ overtaken' = (overtaken \/ Overtakes(w))
    /\ UNCHANGED <<mainVars, stops, sched_mutex, lost>>

\* The end of an MCCH subframe: stop_mch(0, 0), without _rlc_mutex.
StopMcch(w) ==
    /\ work[w].pc = "pdu" /\ work[w].todo = <<>> /\ work[w].is_mcch
    /\ rlc' = [rlc EXCEPT ![<<1, McchLcid>>] = {}]
    /\ Return(w)
    /\ UNCHANGED <<mainVars, decode_mcch, stops, sched_mutex, lost, overtaken>>

\* The loop over the PMCHs starts.
StopLoop(w) ==
    /\ work[w].pc = "pdu" /\ work[w].todo = <<>> /\ ~work[w].is_mcch
    /\ work' = [work EXCEPT ![w].pc = "lock", ![w].i = 1]
    /\ UNCHANGED <<mainVars, decode_mcch, stops, sched_mutex, rlc, lost, overtaken>>

LockStops(w) ==
    /\ work[w].pc = "lock"
    /\ sched_mutex = Nobody
    /\ sched_mutex' = w
    /\ work' = [work EXCEPT ![w].pc = "stop"]
    /\ UNCHANGED <<mainVars, decode_mcch, stops, rlc, lost, overtaken>>

\* Mutant: off by one, the last subframe of an MTCH does not stop it.
DueAfter(w) ==
    {l \in DOMAIN stops :
        stops[l] # NoStop /\ IndexOf(cell.dedicated, work[w].tti) > stops[l]}

\* Mutant: off by one, an MTCH is stopped in the subframe before its last one.
DueBefore(w) ==
    {l \in DOMAIN stops :
        stops[l] # NoStop /\ IndexOf(cell.dedicated, work[w].tti) + 1 >= stops[l]}

\* The entries the loop stops: sf_idx >= itr->second.
Due(w) ==
    {l \in DOMAIN stops :
        stops[l] # NoStop /\ IndexOf(cell.dedicated, work[w].tti) >= stops[l]}

\* Mutant: the entry is not erased, and the iterator stays on it.
StopBearerKeepsEntry(w) ==
    /\ work[w].pc = "stop" /\ Due(w) # {}
    /\ LET l == CHOOSE l \in Due(w) : \A k \in Due(w) : l <= k
       IN  rlc' = [rlc EXCEPT ![<<work[w].i, l>>] = {}]
    /\ overtaken' = (overtaken \/ Overtakes(w))
    /\ UNCHANGED <<mainVars, decode_mcch, work, stops, sched_mutex, lost>>

\* The next entry that is due is stopped, on the bearer of PMCH i, and erased.
StopBearer(w) ==
    /\ work[w].pc = "stop" /\ Due(w) # {}
    /\ LET l == CHOOSE l \in Due(w) : \A k \in Due(w) : l <= k
       IN  /\ stops' = [stops EXCEPT ![l] = NoStop]
           /\ rlc' = IF allow_rrc_sn_across_periods THEN rlc
                     ELSE [rlc EXCEPT ![<<work[w].i, l>>] = {}]
    /\ overtaken' = (overtaken \/ Overtakes(w))
    /\ UNCHANGED <<mainVars, decode_mcch, work, sched_mutex, lost>>

\* Mutant: the return after the last PMCH leaves the mutex locked.
UnlockStopsButLast(w) ==
    /\ work[w].pc = "stop" /\ Due(w) = {}
    /\ IF work[w].i < Len(cell.end)
       THEN /\ sched_mutex' = Nobody
            /\ work' = [work EXCEPT ![w].pc = "lock", ![w].i = @ + 1]
       ELSE Return(w) /\ UNCHANGED sched_mutex
    /\ UNCHANGED <<mainVars, decode_mcch, stops, rlc, lost, overtaken>>

\* The end of one turn of the loop: the next PMCH, or the end of process().
UnlockStops(w) ==
    /\ work[w].pc = "stop" /\ Due(w) = {}
    /\ sched_mutex' = Nobody
    /\ IF work[w].i < Len(cell.end)
       THEN work' = [work EXCEPT ![w].pc = "lock", ![w].i = @ + 1]
       ELSE Return(w)
    /\ UNCHANGED <<mainVars, decode_mcch, stops, rlc, lost, overtaken>>

Work(w) ==
    \/ mbsfn_config_for_tti(w) \/ DecodeFails(w) \/ Decode(w)
    \/ ScheduleStop(w) \/ WritePdu(w)
    \/ StopMcch(w) \/ StopLoop(w) \/ LockStops(w) \/ StopBearer(w) \/ UnlockStops(w)

-----------------------------------------------------------------------------
Lcids(c) ==
    {McchLcid} \union
    UNION {{c.plan[p][i][k].lcid : k \in DOMAIN c.plan[p][i]} :
             p \in {0, 1}, i \in DOMAIN c.end}

Init ==
    /\ cell \in Cells
    /\ tti = 0 /\ mb_idx = 0
    /\ decode_mcch = FALSE
    /\ work = [w \in Proc |-> Idle]
    /\ stops = [l \in Lcids(cell) |-> NoStop]
    /\ sched_mutex = Nobody
    /\ rlc = [b \in (DOMAIN cell.end) \X Lcids(cell) |-> {}]
    /\ lost = FALSE /\ overtaken = FALSE

Main == DispatchMbsfn \/ DispatchCas

Next == Main \/ \E w \in Proc : Work(w)

\* Main and the threads of the pool are scheduled; there are more threads than
\* processors, so every task that was pushed runs.
Spec == Init /\ [][Next]_vars /\ WF_vars(Main) /\ \A w \in Proc : WF_vars(Work(w))

-----------------------------------------------------------------------------
(* Properties                                                              *)

WorkPC == {"idle", "config", "decode", "pdu", "lock", "stop"}

\* What a worker holds: its subframe, the PMCH, and the entries and SDUs left over.
WorkOf(c) ==
    [pc : WorkPC, tti : 0 .. TtiCount - 1, mch : 0 .. Len(c.end), is_mcch : BOOLEAN,
     sig : BOOLEAN, todo : Seq([ce : BOOLEAN, lcid : Lcids(c), stop : Nat]),
     i : 0 .. Len(c.end)]

\* Every variable keeps its type, and _sched_stop_mutex is held by a worker that is
\* in the loop that takes it.
TypeOK ==
    /\ cell \in Cells /\ tti \in 0 .. TtiCount - 1 /\ mb_idx \in Proc
    /\ decode_mcch \in BOOLEAN /\ lost \in BOOLEAN /\ overtaken \in BOOLEAN
    /\ work \in [Proc -> WorkOf(cell)]
    /\ \A w \in Proc : work[w].pc = "stop" <=> sched_mutex = w
    /\ sched_mutex \in Proc \union {Nobody}
    /\ stops \in [Lcids(cell) -> Nat \union {NoStop}]
    /\ rlc \in [(DOMAIN cell.end) \X Lcids(cell) -> SUBSET {0, 1}]

\* The closed formulas for sf_idx and for the MCCH agree with a transmitter that counts
\* subframes, on dedicated and on mixed carriers: a worker takes its subframe for the
\* MCCH's exactly if it is, and decodes others as the PMCH they belong to, with the
\* signalling MCS exactly where the scheduling information is.
DecodesAsSent ==
    \A w \in Proc : work[w].pc = "decode" =>
        LET t == work[w].tti
        IN  /\ work[w].is_mcch = TxIsMcch(cell, t)
            /\ ~work[w].is_mcch =>
                 /\ work[w].mch = TxPmch(cell, t)
                 /\ work[w].sig = (TxIndex(cell, t) = TxFirst(cell, TxPmch(cell, t)))

\* MBSFN subframes main has received after the one of worker w.
Behind(w) ==
    Cardinality({k \in 1 .. (tti - work[w].tti - 1) % TtiCount :
                   is_mbsfn_subframe(cell.dedicated, (work[w].tti + k) % TtiCount)})

\* PDUs may reach RLC out of order, but a PDU is never overtaken by one that is
\* thread_cnt or more subframes younger: the reordering that RLC has to undo is
\* bounded, because processors are locked in turn.
ReorderBounded == \A w \in Proc : work[w].pc # "idle" => Behind(w) < thread_cnt

\* Whether an MTCH of the first PMCH has data in a later subframe of t's period.
MoreToCome(l, t) ==
    \E u \in t + 1 .. TtiCount - 1 :
        /\ u \div (10 * Period) = t \div (10 * Period)
        /\ is_mbsfn_subframe(cell.dedicated, u)
        /\ TxPmch(cell, u) = 1
        /\ \E k \in DOMAIN Sent(cell, u) : ~Sent(cell, u)[k].ce /\ Sent(cell, u)[k].lcid = l

\* With one PMCH and no losses, a worker never stops an MTCH that has data in a later
\* subframe of the same period; when workers overtake one another it takes a carrier
\* that leaves room for them.
NeverCutShort ==
    [][\A l \in DOMAIN stops :
         /\ stops[l] # NoStop /\ stops'[l] = NoStop /\ ~lost /\ Len(cell.end) = 1
         /\ MoreToCome(l, work[sched_mutex].tti)
         => overtaken' /\ ~Spaced(cell)]_vars

\* With one PMCH, no losses and no overtaking, the PDUs of two scheduling periods
\* never meet in a bearer: RLC's sequence numbers start anew with each period.
PeriodsSeparate ==
    ~lost /\ ~overtaken /\ Len(cell.end) = 1 /\ ~allow_rrc_sn_across_periods =>
        \A l \in DOMAIN stops : Cardinality(rlc[<<1, l>>]) <= 1

\* process() always ends and unlocks its processor, whatever it met and whoever
\* else wanted the two mutexes, so that main is never stuck on it.
ProcessEnds == \A w \in Proc : work[w].pc # "idle" ~> work[w].pc = "idle"
=============================================================================
