----------------------------- MODULE MCConfigFile -----------------------------
(* ConfigFile with two frequencies and two REST threads.                      *)
EXTENDS ConfigFile

MCFreqs == {1, 2}
MCThreads == {1, 2}
===============================================================================
