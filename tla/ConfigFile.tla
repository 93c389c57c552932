------------------------------ MODULE ConfigFile ------------------------------
(***************************************************************************)
(* The configuration file and the life of the process.  Main saves the      *)
(* frequency of a cell it has found, REST threads save ce_enable            *)
(* (src/src/main.cpp), a PUT of restart ends the process                    *)
(* (src/src/RestHandler.cpp) and systemd starts it again.  A start reads    *)
(* the file once; ce_enable takes effect then.                              *)
(*                                                                         *)
(* A writer reads the file, changes its own setting and writes all of it    *)
(* back.  libconfig's writeFile() truncates the file when it opens it, and  *)
(* all of the text is there when it is closed: two steps.  Nothing keeps    *)
(* two writers apart.  A file that is empty, cut off or mixed is Broken:    *)
(* nobody can read it.                                                      *)
(***************************************************************************)
EXTENDS Integers

CONSTANTS
    Freqs,      \* frequencies with a cell
    Threads,    \* REST requests that may be served at the same time
    Broken      \* the file has no readable content

Content == [freq : Freqs, ce : BOOLEAN]

ASSUME BrokenAssumption == Broken \notin Content

MainThread == 0
Writer == {MainThread} \union Threads

ASSUME ThreadAssumption == MainThread \notin Threads

VARIABLES
    file,      \* the file: Broken or its content
    up,        \* the process runs
    exiting,   \* the thread of PUT restart sleeps its 200 ms
    ce_flag,   \* command line: -1 without --ce, else 0 or 1
    active,    \* _ce_enabled_active and the processors' copy
    pc,        \* per writer: "idle", "write" (has read the file), "close" (opened it)
    cfg,       \* per writer: the content it is going to write, Broken when idle
    mixed,     \* ghost, per writer: the file, open, holds another one's text
    acked,     \* ghost: what the file should hold by the successful calls
    clash,     \* ghost: two writers read the file before either wrote it
    killed     \* ghost: the process ended while a writer had the file open

vars == <<file, up, exiting, ce_flag, active, pc, cfg, mixed, acked, clash, killed>>
ghosts == <<acked, clash, killed>>

-----------------------------------------------------------------------------
(* The writers                                                             *)

\* cfg.readFile() and the change of a setting; a Broken file is an exception, the
\* caller gives up.
ReadAndChange(w, changed) ==
    /\ up /\ pc[w] = "idle"
    /\ file # Broken
    /\ cfg' = [cfg EXCEPT ![w] = changed]
    /\ pc' = [pc EXCEPT ![w] = "write"]
    /\ clash' = (clash \/ \E v \in Writer : pc[v] # "idle")
    /\ UNCHANGED <<file, up, exiting, ce_flag, active, mixed, acked, killed>>

\* Mutant: saved in kHz.
SaveFrequencyInKHz(f) ==
    ReadAndChange(MainThread, [file EXCEPT !.freq = f \div 1000])

\* Mutant: the configuration that was read at the start is changed and written.
SaveFrequencyFromStart(f) ==
    ReadAndChange(MainThread, [freq |-> f, ce |-> active])

write_frequency_to_config(f) ==
    ReadAndChange(MainThread, [file EXCEPT !.freq = f])

\* PUT ce_enable, a request with the field "enabled".
write_ce_to_config(t, enabled) ==
    ReadAndChange(t, [file EXCEPT !.ce = enabled])

\* The writer returns, its copy of the configuration is gone.
Done(w) ==
    /\ pc' = [pc EXCEPT ![w] = "idle"]
    /\ cfg' = [cfg EXCEPT ![w] = Broken]

\* writeFile() opens the file and truncates it ...
OpenFile(w) ==
    /\ up /\ pc[w] = "write"
    /\ file' = Broken
    /\ pc' = [pc EXCEPT ![w] = "close"]
    /\ mixed' = [v \in Writer |-> FALSE]
    /\ UNCHANGED <<up, exiting, ce_flag, active, cfg, ghosts>>

\* ... or cannot, and the exception leaves the file as it is.
OpenFails(w) ==
    /\ up /\ pc[w] = "write"
    /\ Done(w)
    /\ UNCHANGED <<file, up, exiting, ce_flag, active, mixed, ghosts>>

\* The setting writer w is responsible for.
Acknowledge(w) ==
    IF w = MainThread THEN [acked EXCEPT !.freq = cfg[w].freq]
    ELSE [acked EXCEPT !.ce = cfg[w].ce]

\* The text goes to the start of the file.  What another writer has put there
\* meanwhile stays behind its end, if it was longer.
CloseFile(w) ==
    /\ up /\ pc[w] = "close"
    /\ file' \in IF mixed[w] THEN {cfg[w], Broken} ELSE {cfg[w]}
    /\ mixed' = [v \in Writer |-> v # w /\ pc[v] = "close"]
    /\ Done(w)
    /\ acked' = Acknowledge(w)
    /\ UNCHANGED <<up, exiting, ce_flag, active, clash, killed>>

-----------------------------------------------------------------------------
(* The process                                                             *)

NoWriters ==
    /\ pc' = [w \in Writer |-> "idle"]
    /\ cfg' = [w \in Writer |-> Broken]
    /\ mixed' = [w \in Writer |-> FALSE]

\* PUT restart: the reply is sent, a detached thread starts its sleep.
PutRestart ==
    /\ up
    /\ exiting' = TRUE
    /\ UNCHANGED <<file, up, ce_flag, active, pc, cfg, mixed, ghosts>>

\* Mutant: exit() instead of _Exit() waits for the requests that are served.
ExitWhenIdle ==
    /\ up /\ exiting
    /\ \A t \in Threads : pc[t] = "idle"
    /\ up' = FALSE /\ exiting' = FALSE
    /\ killed' = (killed \/ \E w \in Writer : pc[w] = "close")
    /\ NoWriters
    /\ UNCHANGED <<file, ce_flag, active, acked, clash>>

\* std::_Exit(0): whatever a thread was doing is cut off, unwritten text is lost.
Exit ==
    /\ up /\ exiting
    /\ up' = FALSE /\ exiting' = FALSE
    /\ killed' = (killed \/ \E w \in Writer : pc[w] = "close")
    /\ NoWriters
    /\ UNCHANGED <<file, ce_flag, active, acked, clash>>

\* The value the processors use: --ce wins over the file.
InEffect(c) == IF ce_flag = -1 THEN c.ce ELSE ce_flag = 1

\* Restart=always: main() reads the file ...
Boot ==
    /\ ~up /\ file # Broken
    /\ up' = TRUE
    /\ active' = InEffect(file)
    /\ UNCHANGED <<file, exiting, ce_flag, pc, cfg, mixed, ghosts>>

\* ... and exits again when it cannot, or when the frequency is not in it.
BootFails == ~up /\ file = Broken /\ UNCHANGED vars

-----------------------------------------------------------------------------
Init ==
    /\ file \in Content
    /\ up = FALSE /\ exiting = FALSE
    /\ ce_flag \in {-1, 0, 1}
    /\ active = FALSE
    /\ pc = [w \in Writer |-> "idle"]
    /\ cfg = [w \in Writer |-> Broken]
    /\ mixed = [w \in Writer |-> FALSE]
    /\ acked = file
    /\ clash = FALSE /\ killed = FALSE

WriteFile(w) == OpenFile(w) \/ OpenFails(w) \/ CloseFile(w)

Next ==
    \/ \E f \in Freqs : write_frequency_to_config(f)
    \/ \E t \in Threads, b \in BOOLEAN : write_ce_to_config(t, b)
    \/ \E w \in Writer : WriteFile(w)
    \/ PutRestart \/ Exit \/ Boot \/ BootFails

\* Threads are scheduled, the sleep ends, and systemd does its part.
Spec ==
    /\ Init /\ [][Next]_vars
    /\ \A w \in Writer : WF_vars(WriteFile(w))
    /\ WF_vars(Exit) /\ WF_vars(Boot)

-----------------------------------------------------------------------------
(* Properties                                                              *)

Idle == \A w \in Writer : pc[w] = "idle"

\* Every variable keeps its type; nobody writes when the process does not run.
TypeOK ==
    /\ file \in Content \union {Broken}
    /\ up \in BOOLEAN /\ exiting \in BOOLEAN /\ active \in BOOLEAN
    /\ ce_flag \in {-1, 0, 1}
    /\ pc \in [Writer -> {"idle", "write", "close"}]
    /\ cfg \in [Writer -> Content \union {Broken}]
    /\ \A w \in Writer : pc[w] = "idle" <=> cfg[w] = Broken
    /\ mixed \in [Writer -> BOOLEAN] /\ clash \in BOOLEAN /\ killed \in BOOLEAN
    /\ acked \in Content
    /\ exiting \/ ~Idle => up

\* The two writers do not undo one another and leave a readable file, with failing
\* writes and restarts at any moment, except in two ways: a writer read the file
\* while another one was between its own read and the end of its write, or the
\* process was ended between opening and closing the file.
FileConsistent == ~clash /\ ~killed /\ Idle => file = acked

\* With the same two exceptions, PUT restart leads to a running modem that uses the
\* ce_enable value last acknowledged, however busy the REST threads are.
RestartActivates ==
    exiting ~> (up /\ ~exiting /\ active = InEffect(acked)) \/ clash \/ killed
===============================================================================
