----------------------------- MODULE SubframeMap -----------------------------
(***************************************************************************)
(* The subframe arithmetic of src/src/Phy.cpp.  A radio frame has ten       *)
(* subframes.  On an MBMS-dedicated carrier every fourth frame starts with  *)
(* a CAS subframe and all others are MBSFN subframes; a mixed carrier has   *)
(* six MBSFN subframes per frame.  The MBSFN subframes of a scheduling      *)
(* period are numbered from 0, and PMCH i gets those up to sf_alloc_end[i]. *)
(*                                                                         *)
(* The code computes the number from frame and subframe in closed form, in  *)
(* unsigned arithmetic; it is asked for MBSFN subframes only, and for those *)
(* nothing wraps.                                                           *)
(***************************************************************************)
EXTENDS Integers, Sequences

CONSTANT Period     \* mch_sched_period in frames, the same for all PMCHs

\* rf8, rf16, ..., rf1024; what matters is that CAS frames fall on the same
\* frames of every period.
ASSUME PeriodAssumption == Period \in Nat \ {0} /\ Period % 4 = 0

is_cas_subframe(dedicated, tti) ==
    IF dedicated THEN tti % 40 = 0 ELSE tti % 10 \in {0, 4, 5, 9}

is_mbsfn_subframe(dedicated, tti) ==
    /\ ~is_cas_subframe(dedicated, tti)
    /\ dedicated \/ tti % 10 \in {1, 2, 3, 6, 7, 8}

\* _mcch_table, filled in from sf_alloc_info by srsRAN's generate_mcch_table(): the
\* subframes sfs of the MCCH.
mcch_table(sfs) == [sf \in 0 .. 9 |-> IF sf \in sfs THEN 1 ELSE 0]

\* Whether mbsfn_config_for_tti() takes a subframe for the MCCH's: its frame by
\* repetition period and offset, its place in the frame by the table.
is_mcch(mcch, tti) ==
    /\ (tti \div 10) % mcch.repeat_period = mcch.offset
    /\ mcch_table(mcch.sfs)[tti % 10] = 1

fn_in_scheduling_period(tti) == (tti \div 10) % Period

\* Mutant: the CAS subframes are not left out of the count.
SfIdxWithCas(dedicated, fn, sf) ==
    IF dedicated
    THEN fn * 10 + sf - 1
    ELSE fn * 6 + (IF sf < 6 THEN sf - 1 ELSE sf - 3)

sf_idx(dedicated, fn, sf) ==
    IF dedicated
    THEN fn * 10 + sf - (fn \div 4) - 1
    ELSE fn * 6 + (IF sf < 6 THEN sf - 1 ELSE sf - 3)

\* sf_idx of a TTI, as mbsfn_config_for_tti() and process() compute it.
IndexOf(dedicated, tti) == sf_idx(dedicated, fn_in_scheduling_period(tti), tti % 10)

\* The loop of mbsfn_config_for_tti() over the PMCHs: the first one whose
\* allocation has not ended yet; 0 when there is none.
PmchFor(end, idx) ==
    LET open == {i \in 1 .. Len(end) : idx <= end[i]}
    IN  IF open = {} THEN 0 ELSE CHOOSE i \in open : \A j \in open : i <= j

\* Whether subframe idx of PMCH i uses sig_mcs, for the scheduling information,
\* instead of data_mcs.
UsesSigMcs(end, i, tti, idx) ==
    \/ i = 1 /\ fn_in_scheduling_period(tti) = 0 /\ tti % 10 = 1
    \/ i > 1 /\ end[i - 1] + 1 = idx
=============================================================================
