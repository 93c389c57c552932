--------------------------- MODULE MCFramePipeline ---------------------------
(* Small instances of FramePipeline: cell 1 is dedicated, its only CAS         *)
(* subframe is the first one; cell 2 is mixed and has a second one.            *)
EXTENDS FramePipeline, TLC

MCCasSubframes == (1 :> {0}) @@ (2 :> {0, 2})
=============================================================================
