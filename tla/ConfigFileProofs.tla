--------------------------- MODULE ConfigFileProofs ---------------------------
(***************************************************************************)
(* The configuration file holds what was acknowledged, for every set of     *)
(* frequencies and any number of REST threads.                              *)
(***************************************************************************)
EXTENDS ConfigFile, TLAPS

\* Without a clash at most one writer is under way ...
OneWriter ==
    \A v, w \in Writer : pc[v] # "idle" /\ pc[w] # "idle" => v = w

\* ... whose copy differs from what was acknowledged in its own setting only ...
OwnSettingOnly ==
    \A w \in Writer : pc[w] # "idle" =>
        IF w = MainThread THEN cfg[w].ce = acked.ce ELSE cfg[w].freq = acked.freq

\* ... and the file is as acknowledged unless the writer has it open.
FileAcked == (\A w \in Writer : pc[w] # "close") => file = acked

Orderly ==
    /\ ~clash => OneWriter /\ \A w \in Writer : ~mixed[w]
    /\ ~clash /\ ~killed => OwnSettingOnly /\ FileAcked

IndInv == TypeOK /\ Orderly

\* Initially the file is readable and nobody writes.
LEMMA InitOrderly == Init => IndInv
  BY BrokenAssumption
     DEF Init, IndInv, TypeOK, Orderly, OneWriter, OwnSettingOnly, FileAcked, Content, Idle

\* A read that keeps the other writer's setting: write_frequency_to_config() and
\* write_ce_to_config() before they open the file.
LEMMA ReadPreserves ==
    ASSUME IndInv, NEW w \in Writer, NEW c \in Content, ReadAndChange(w, c),
           IF w = MainThread THEN c.ce = file.ce ELSE c.freq = file.freq
    PROVE  IndInv'
<1>1. TypeOK'
  BY BrokenAssumption DEF IndInv, TypeOK, ReadAndChange, Idle
<1>2. ASSUME ~clash' PROVE OneWriter' /\ \A v \in Writer : ~mixed'[v]
  <2>1. ~clash /\ \A v \in Writer : pc[v] = "idle"
    BY <1>2 DEF ReadAndChange
  <2>2. QED
    BY <2>1 DEF IndInv, ReadAndChange, OneWriter, Orderly, TypeOK
<1>3. ASSUME ~clash', ~killed' PROVE OwnSettingOnly' /\ FileAcked'
  <2>1. ~clash /\ ~killed /\ \A v \in Writer : pc[v] = "idle"
    BY <1>3 DEF ReadAndChange
  <2>2. file = acked
    BY <2>1 DEF IndInv, Orderly, FileAcked
  <2>3. \A v \in Writer : v # w => pc'[v] = "idle"
    BY <2>1 DEF IndInv, ReadAndChange, TypeOK
  <2>4. cfg'[w] = c /\ acked' = acked /\ file' = file
    BY DEF IndInv, ReadAndChange, TypeOK
  <2>5. QED
    BY <2>2, <2>3, <2>4 DEF OwnSettingOnly, FileAcked
<1>4. QED
  BY <1>1, <1>2, <1>3 DEF IndInv, Orderly

\* Opening truncates the file; the one writer under way now has it open.
LEMMA OpenPreserves ==
    ASSUME IndInv, NEW w \in Writer, OpenFile(w)
    PROVE  IndInv'
<1>1. TypeOK'
  BY DEF IndInv, TypeOK, OpenFile, ghosts, Idle
<1>2. pc'[w] = "close" /\ \A v \in Writer : pc'[v] = "idle" <=> pc[v] = "idle"
  BY DEF IndInv, TypeOK, OpenFile
<1>3. QED
  BY <1>1, <1>2
     DEF IndInv, Orderly, OneWriter, OwnSettingOnly, FileAcked, OpenFile, ghosts

\* A failed open leaves the file as acknowledged.
LEMMA OpenFailsPreserves ==
    ASSUME IndInv, NEW w \in Writer, OpenFails(w)
    PROVE  IndInv'
<1>1. TypeOK'
  BY BrokenAssumption DEF IndInv, TypeOK, OpenFails, Done, ghosts, Idle
<1>2. \A v \in Writer : v # w => pc'[v] = pc[v] /\ cfg'[v] = cfg[v]
  BY DEF IndInv, TypeOK, OpenFails, Done
<1>3. pc[w] = "write" /\ pc'[w] = "idle"
  BY DEF IndInv, TypeOK, OpenFails, Done
<1>4. QED
  BY <1>1, <1>2, <1>3
     DEF IndInv, Orderly, OneWriter, OwnSettingOnly, FileAcked, OpenFails, ghosts

\* The text replaces the file, and what is acknowledged is what it says.
LEMMA ClosePreserves ==
    ASSUME IndInv, NEW w \in Writer, CloseFile(w)
    PROVE  IndInv'
<1>1. pc[w] = "close" /\ cfg[w] \in Content /\ acked \in Content
  BY BrokenAssumption DEF IndInv, TypeOK, CloseFile
<1>2. acked' \in Content
  BY <1>1 DEF CloseFile, Acknowledge, Content
<1>3. \A v \in Writer : v # w => pc'[v] = pc[v] /\ cfg'[v] = cfg[v]
  BY DEF IndInv, TypeOK, CloseFile, Done
<1>4. pc'[w] = "idle" /\ cfg'[w] = Broken
  BY DEF IndInv, TypeOK, CloseFile, Done
<1>5. TypeOK'
  BY <1>1, <1>2, <1>3, <1>4 DEF IndInv, TypeOK, CloseFile, Done, Idle
<1>6. ASSUME ~clash' PROVE OneWriter' /\ \A v \in Writer : ~mixed'[v] /\ pc'[v] = "idle"
  <2>1. \A v \in Writer : v # w => pc[v] = "idle"
    BY <1>1, <1>6 DEF IndInv, Orderly, OneWriter, CloseFile
  <2>2. QED
    BY <2>1, <1>3, <1>4 DEF OneWriter, CloseFile
<1>7. ASSUME ~clash', ~killed' PROVE OwnSettingOnly' /\ FileAcked'
  <2>1. file' = cfg[w]
    BY <1>7 DEF IndInv, Orderly, CloseFile
  <2>2. IF w = MainThread THEN cfg[w].ce = acked.ce ELSE cfg[w].freq = acked.freq
    BY <1>1, <1>7 DEF IndInv, Orderly, OwnSettingOnly, CloseFile
  <2>3. acked' = cfg[w]
    BY <1>1, <2>2 DEF CloseFile, Acknowledge, Content
  <2>4. QED
    BY <1>6, <1>7, <2>1, <2>3 DEF OwnSettingOnly, FileAcked
<1>8. QED
  BY <1>5, <1>6, <1>7 DEF IndInv, Orderly

\* The end of the process at any moment: only a writer that has the file open
\* can do harm, and killed remembers it.
LEMMA ExitPreserves ==
    ASSUME IndInv, Exit
    PROVE  IndInv'
  BY DEF IndInv, TypeOK, Exit, NoWriters, Idle, Orderly, OneWriter, OwnSettingOnly, FileAcked

\* Every step of the writers of the configuration file, of PUT restart and of the end and
\* start of the process keeps IndInv: types, and order as long as no writers overlapped.
THEOREM Inductive == Spec => []IndInv
<1>1. IndInv /\ [Next]_vars => IndInv'
  <2> SUFFICES ASSUME IndInv, [Next]_vars PROVE IndInv'
    OBVIOUS
  <2>1. ASSUME NEW f \in Freqs, write_frequency_to_config(f) PROVE IndInv'
    <3>1. file \in Content
      BY <2>1 DEF write_frequency_to_config, ReadAndChange, IndInv, TypeOK
    <3>2. [file EXCEPT !.freq = f] \in Content /\ [file EXCEPT !.freq = f].ce = file.ce
      BY <3>1 DEF Content
    <3>3. QED
      BY <2>1, <3>2, ReadPreserves DEF write_frequency_to_config, Writer
  <2>2. ASSUME NEW t \in Threads, NEW b \in BOOLEAN, write_ce_to_config(t, b) PROVE IndInv'
    <3>1. file \in Content
      BY <2>2 DEF write_ce_to_config, ReadAndChange, IndInv, TypeOK
    <3>2. [file EXCEPT !.ce = b] \in Content /\ [file EXCEPT !.ce = b].freq = file.freq
      BY <3>1 DEF Content
    <3>3. QED
      BY <2>2, <3>2, ReadPreserves, ThreadAssumption DEF write_ce_to_config, Writer
  <2>3. ASSUME NEW w \in Writer, WriteFile(w) PROVE IndInv'
    BY <2>3, OpenPreserves, OpenFailsPreserves, ClosePreserves DEF WriteFile
  <2>4. CASE PutRestart
    BY <2>4 DEF PutRestart, IndInv, TypeOK, Orderly, OneWriter, OwnSettingOnly, FileAcked,
                ghosts, Idle
  <2>5. CASE Exit
    BY <2>5, ExitPreserves
  <2>6. CASE Boot
    BY <2>6 DEF Boot, InEffect, Content, IndInv, TypeOK, Orderly, OneWriter, OwnSettingOnly,
                FileAcked, ghosts, Idle
  <2>7. CASE BootFails \/ UNCHANGED vars
    BY <2>7 DEF BootFails, vars, IndInv, TypeOK, Orderly, OneWriter, OwnSettingOnly,
                FileAcked, Idle
  <2>8. QED
    BY <2>1, <2>2, <2>3, <2>4, <2>5, <2>6, <2>7 DEF Next
<1>2. QED
  BY InitOrderly, <1>1, PTL DEF Spec

\* Types, for any number of REST threads.
THEOREM TypeCorrect == Spec => []TypeOK
<1>1. IndInv => TypeOK
  BY DEF IndInv
<1>2. QED
  BY <1>1, Inductive, PTL

\* Main and the REST threads leave a readable file that holds the frequency last saved
\* and the ce_enable last acknowledged, unless a clash or a cut-off write is on record.
THEOREM FileAlwaysConsistent == Spec => []FileConsistent
<1>1. IndInv => FileConsistent
  BY DEF IndInv, Orderly, FileAcked, FileConsistent, Idle
<1>2. QED
  BY <1>1, Inductive, PTL
===============================================================================
