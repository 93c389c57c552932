---------------------------- MODULE MCAcquisition ----------------------------
(* Small instances of Acquisition: a cell whose MCCH changes and a second cell *)
(* with its MCCH in another subframe.                                          *)
EXTENDS Acquisition, TLC

MCConfigs ==
    {[cell |-> 1, sess |-> {1}], [cell |-> 1, sess |-> {1, 2}], [cell |-> 2, sess |-> {1}]}

MCMcchPos == (1 :> 1) @@ (2 :> 2)
=============================================================================
