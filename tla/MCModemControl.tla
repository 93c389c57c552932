--------------------------- MODULE MCModemControl ---------------------------
(* Small instances of ModemControl: two presets whose rasters and lengths     *)
(* differ, frequencies counted in channels.                                   *)
EXTENDS ModemControl

MCStart == [freq |-> 1, step_hz |-> 2, n_steps |-> 2]

MCOther == [freq |-> 2, step_hz |-> 1, n_steps |-> 1]

MCPresets == {MCStart, MCOther}
=============================================================================
