---------------------------- MODULE ChannelStats ----------------------------
(***************************************************************************)
(* The counters behind "bler" in the REST API: RestHandler::ChannelInfo     *)
(* (src/src/RestHandler.h), plain integers that workers reset and count     *)
(* (src/src/CasFrameProcessor.cpp, MbsfnFrameProcessor.cpp) while requests  *)
(* divide errors by total (src/src/RestHandler.cpp), without a lock.  Only  *)
(* the divisors are modelled.                                               *)
(*                                                                         *)
(* One CAS worker counts the PDSCH.  Several MBSFN workers count an MCH, so *)
(* there an increment is a load and a store; the counters of the MCCH and   *)
(* of the other MCHs are handled by the same lines and are independent of   *)
(* it.  Which subframes reset a counter (those of one frame in 100, or 50)  *)
(* is left open, and a counter stays at MaxCount once it got there.         *)
(***************************************************************************)
EXTENDS Integers

CONSTANTS
    thread_cnt,   \* MBSFN processors
    MaxCount      \* bound of the counters

ASSUME StatsAssumption == thread_cnt \in Nat \ {0} /\ MaxCount \in Nat \ {0}

Proc == 0 .. thread_cnt - 1

VARIABLES
    pdsch_total,  \* _pdsch.total
    mch_total,    \* _mch[i].total
    cas,          \* where the CAS worker is
    wpc, reg      \* per MBSFN worker: where it is, and the value it has loaded

statVars == <<pdsch_total, mch_total, cas, wpc, reg>>

ChannelInfoInit ==
    /\ pdsch_total = 1 /\ mch_total = 1
    /\ cas = "idle"
    /\ wpc = [p \in Proc |-> "idle"] /\ reg = [p \in Proc |-> 0]

Incremented(n) == IF n < MaxCount THEN n + 1 ELSE MaxCount

-----------------------------------------------------------------------------
(* CasFrameProcessor::process()                                            *)

PdschReset ==
    /\ cas = "idle"
    /\ pdsch_total' = 0
    /\ cas' = "count"
    /\ UNCHANGED <<mch_total, wpc, reg>>

\* total++, behind a reset or not.
PdschCount ==
    /\ cas \in {"idle", "count"}
    /\ pdsch_total' = Incremented(pdsch_total)
    /\ cas' = "decode"
    /\ UNCHANGED <<mch_total, wpc, reg>>

CasReturn ==
    /\ cas = "decode"
    /\ cas' = "idle"
    /\ UNCHANGED <<pdsch_total, mch_total, wpc, reg>>

CasWorker == PdschReset \/ PdschCount \/ CasReturn

-----------------------------------------------------------------------------
(* MbsfnFrameProcessor::process()                                          *)

Goto(p, label) == wpc' = [wpc EXCEPT ![p] = label]

\* Mutant: reset like the counter of the PDSCH.
MchResetToZero(p) ==
    /\ wpc[p] = "idle"
    /\ mch_total' = 0
    /\ Goto(p, "reset")
    /\ UNCHANGED <<pdsch_total, cas, reg>>

\* total = 1
MchReset(p) ==
    /\ wpc[p] = "idle"
    /\ mch_total' = 1
    /\ Goto(p, "reset")
    /\ UNCHANGED <<pdsch_total, cas, reg>>

\* Nothing is enabled in a subframe that has reset the counter: process() returns.
MchSkip(p) ==
    /\ wpc[p] = "reset"
    /\ Goto(p, "idle")
    /\ UNCHANGED <<pdsch_total, mch_total, cas, reg>>

\* total++, behind a reset or not.
MchLoadTotal(p) ==
    /\ wpc[p] \in {"idle", "reset"}
    /\ reg' = [reg EXCEPT ![p] = mch_total]
    /\ Goto(p, "store")
    /\ UNCHANGED <<pdsch_total, mch_total, cas>>

MchStoreTotal(p) ==
    /\ wpc[p] = "store"
    /\ mch_total' = Incremented(reg[p])
    /\ reg' = [reg EXCEPT ![p] = 0]
    /\ Goto(p, "decode")
    /\ UNCHANGED <<pdsch_total, cas>>

MbsfnCounts(p) == MchReset(p) \/ MchSkip(p) \/ MchLoadTotal(p) \/ MchStoreTotal(p)

-----------------------------------------------------------------------------
\* "guard against NAN: it would serialise to invalid JSON on the API"
\* (CasFrameProcessor.cpp:175).  However the resets and the increments of the workers
\* interleave, also when one undoes the other, a request never divides the errors of
\* an MCH by 0; those of the PDSCH only between a reset and the count that follows.
BlerFinite == mch_total # 0 /\ (pdsch_total = 0 => cas = "count")
=============================================================================
