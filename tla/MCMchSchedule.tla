---------------------------- MODULE MCMchSchedule ----------------------------
(* Small instances of MchSchedule: a dedicated carrier with one PMCH whose    *)
(* plan changes from period to period, a mixed one with two PMCHs, and a       *)
(* dedicated one, without MTCHs, whose second PMCH starts at the CAS subframe  *)
(* of the fifth frame.  The MCCH is repeated twice a period, once, and every   *)
(* second period in two subframes.                                            *)
EXTENDS MchSchedule

Mtch(l, s) == [lcid |-> l, stop |-> s]

Mcch(r, o, s) == [repeat_period |-> r, offset |-> o, sfs |-> s]

Same(p) == [k \in {0, 1} |-> p]

MCCells == {
    [dedicated |-> TRUE, end |-> <<4>>, mcch |-> Mcch(4, 0, {1}),
     plan |-> [k \in {0, 1} |-> IF k = 0 THEN << <<Mtch(1, 1), Mtch(2, 4)>> >>
                                ELSE << <<Mtch(1, 3), Mtch(2, 4)>> >>]],
    [dedicated |-> FALSE, end |-> <<1, 3>>, mcch |-> Mcch(8, 1, {2}),
     plan |-> Same(<< <<Mtch(1, 1)>>, <<Mtch(1, 1)>> >>)],
    [dedicated |-> TRUE, end |-> <<38, 40>>, mcch |-> Mcch(16, 7, {8, 9}),
     plan |-> Same(<< <<>>, <<>> >>)]}
=============================================================================
