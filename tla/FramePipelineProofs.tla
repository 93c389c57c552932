------------------------- MODULE FramePipelineProofs -------------------------
(***************************************************************************)
(* The ownership of the frame processors, for every number of processors,   *)
(* set of cells and pattern of CAS subframes.                               *)
(*                                                                         *)
(* Main unlocks the MBSFN processors after a synchronisation without asking *)
(* whether their workers are done: what is said of them needs workers that  *)
(* keep up.  What is said of the CAS processor, and that no MBSFN mutex is   *)
(* leaked, does not.                                                        *)
(***************************************************************************)
EXTENDS FramePipeline, TLAPS

\* Nobody unlocks the processor under its worker.
Undisturbed(p) == WorkersKeepUp \/ p = CAS

\* At most one task of p is queued or running.
AtMostOneTask(p) ==
    /\ \A i, j \in DOMAIN tasks : tasks[i].proc = p /\ tasks[j].proc = p => i = j
    /\ \A t, u \in running : t.proc = p /\ u.proc = p => t = u
    /\ \A i \in DOMAIN tasks, t \in running : ~(tasks[i].proc = p /\ t.proc = p)

OwnedOnce(p) == Outstanding(p) => lock[p] /\ ~HeldByMain(p) /\ AtMostOneTask(p)

Ownership ==
    \A p \in Proc : Undisturbed(p) => OwnedOnce(p) /\ (HeldByMain(p) => lock[p])

\* The buffer of a processor that is going to be decoded holds the right subframe.
BufferOK ==
    /\ mpc = "dispatch" => rxTti[Target] = tti
    /\ \A i \in DOMAIN tasks :
         Undisturbed(tasks[i].proc) => rxTti[tasks[i].proc] = tasks[i].tti
    /\ \A t \in running : Undisturbed(t.proc) => rxTti[t.proc] = t.tti

\* Somebody is going to release every MBSFN mutex, before the processing loop is
\* entered too; and no cell is searched for while main believes to process one.
NoLeak ==
    /\ mpc = "search" => state # "processing"
    /\ state = "processing" /\ mpc # "lost" =>
         \A p \in Mbsfn : lock[p] => HeldByMain(p) \/ Outstanding(p)

IndInv == TypeOK /\ Ownership /\ BufferOK /\ NoLeak

-----------------------------------------------------------------------------
(* Facts about the definitions                                             *)

\* mb_idx is one of the processors that take turns, the CAS processor is not.
LEMMA Processors ==
    ASSUME TypeOK
    PROVE  /\ CAS \in Proc /\ CAS \notin Mbsfn /\ Mbsfn \subseteq Proc
           /\ Target \in Proc
           /\ Target \in Mbsfn => Target = mb_idx
           /\ Target = CAS \/ Target = mb_idx
           /\ 0 \in Mbsfn /\ (mb_idx + 1) % thread_cnt \in Mbsfn
BY PipelineAssumption DEF Proc, CAS, Mbsfn, Target, TypeOK

\* Where Target points is decided by tti, mb_idx and cell.
LEMMA TargetUnchanged ==
    ASSUME UNCHANGED <<tti, mb_idx, cell>>
    PROVE  Target' = Target
BY DEF Target, is_cas_subframe

\* The queue of the pool: what push() adds and what next_task takes away.
LEMMA QueuePush ==
    ASSUME TypeOK, NEW p \in Proc, push(p)
    PROVE  /\ tasks' \in Seq(Task)
           /\ DOMAIN tasks' = DOMAIN tasks \union {Len(tasks) + 1}
           /\ Len(tasks) + 1 \notin DOMAIN tasks
           /\ \A i \in DOMAIN tasks : tasks'[i] = tasks[i]
           /\ tasks'[Len(tasks) + 1] = [proc |-> p, tti |-> tti]
           /\ [proc |-> p, tti |-> tti] \in Task
BY DEF TypeOK, push, Task

LEMMA QueuePop ==
    ASSUME TypeOK, tasks # <<>>, tasks' = Tail(tasks)
    PROVE  /\ tasks' \in Seq(Task) /\ Head(tasks) \in Task
           /\ 1 \in DOMAIN tasks /\ Head(tasks) = tasks[1]
           /\ \A i \in DOMAIN tasks' : i + 1 \in DOMAIN tasks /\ i + 1 # 1 /\ tasks'[i] = tasks[i + 1]
           /\ \A i \in DOMAIN tasks : i = 1 \/ (i - 1 \in DOMAIN tasks' /\ tasks[i] = tasks'[i - 1])
           /\ \A i, j \in DOMAIN tasks' : i + 1 = j + 1 => i = j
BY DEF TypeOK

-----------------------------------------------------------------------------
(* Types                                                                   *)

LEMMA MainTypes == TypeOK /\ Main => TypeOK'
<1> SUFFICES ASSUME TypeOK, Main PROVE TypeOK'
  OBVIOUS
<1> USE PipelineAssumption, Processors
<1>1. CASE SearchBegin \/ NoCellFound \/ EnterProcessing \/ LeaveProcessing
  BY <1>1 DEF SearchBegin, NoCellFound, EnterProcessing, LeaveProcessing, TypeOK, MPC,
     procVars, phyVars, poolVars, restVars
<1>2. CASE CellFound \/ ExtendPrb \/ GoSearching
  BY <1>2 DEF CellFound, ExtendPrb, GoSearching, TypeOK, MPC, procVars, phyVars, poolVars, restVars
<1>3. CASE Synchronised
  BY <1>3 DEF Synchronised, SyncTti, TypeOK, MPC, phyVars, poolVars, restVars
<1>4. CASE NextSubframe
  BY <1>4 DEF NextSubframe, TypeOK, MPC, Tti, procVars, phyVars, poolVars, restVars
<1>5. CASE LockProcessor
  BY <1>5 DEF LockProcessor, TypeOK, MPC, phyVars, poolVars, restVars
<1>6. CASE \E ok \in BOOLEAN : get_next_frame(ok)
  BY <1>6 DEF get_next_frame, TypeOK, MPC, phyVars, poolVars, restVars
<1>7. CASE DispatchCas
  BY <1>7, QueuePush DEF DispatchCas, TypeOK, MPC, procVars, phyVars, restVars
<1>8. CASE DispatchMbsfn
  <2>1. tasks' \in Seq(Task)
    BY <1>8, QueuePush DEF DispatchMbsfn, TypeOK
  <2> QED BY <1>8, <2>1 DEF DispatchMbsfn, TypeOK, MPC, phyVars, restVars
<1>9. CASE DiscardMbsfn
  BY <1>9 DEF DiscardMbsfn, TypeOK, MPC, phyVars, poolVars, restVars
<1> QED BY <1>1, <1>2, <1>3, <1>4, <1>5, <1>6, <1>7, <1>8, <1>9 DEF Main, Loop

LEMMA WorkerTypes == TypeOK /\ (Workers \/ Rest) => TypeOK'
<1> SUFFICES ASSUME TypeOK, Workers \/ Rest PROVE TypeOK'
  OBVIOUS
<1>1. CASE next_task
  BY <1>1, QueuePop DEF next_task, TypeOK, procVars, phyVars, restVars
<1>2. CASE ProcessCas
  BY <1>2, Processors DEF ProcessCas, TypeOK, restVars
<1>3. CASE \E p \in Mbsfn : ProcessMbsfn(p)
  BY <1>3, Processors DEF ProcessMbsfn, TypeOK, phyVars, restVars
<1>4. CASE Rest
  BY <1>4 DEF Rest, set_params, set_scan_mode, PutScanMode, TypeOK, procVars, phyVars, poolVars
<1> QED BY <1>1, <1>2, <1>3, <1>4 DEF Workers

\* Every step keeps the types.
LEMMA StepTypes == TypeOK /\ [Next]_vars => TypeOK'
<1>1. TypeOK /\ UNCHANGED vars => TypeOK'
  BY DEF TypeOK, vars, procVars, phyVars, poolVars, restVars
<1> QED BY <1>1, MainTypes, WorkerTypes DEF Next

-----------------------------------------------------------------------------
(* The steps of main                                                       *)

\* Steps that leave the mutexes, the buffers and the pool alone, and main with what it
\* held before.
LEMMA QuietStep ==
    ASSUME IndInv, TypeOK', UNCHANGED <<lock, rxTti, tasks, running>>,
           \A p \in Proc : HeldByMain(p)' <=> HeldByMain(p),
           mpc' = "dispatch" => mpc = "dispatch" /\ UNCHANGED <<tti, Target>>,
           mpc' = "search" => state' # "processing",
           state' = "processing" /\ mpc' # "lost" => state = "processing" /\ mpc # "lost"
    PROVE  IndInv'
<1>1. \A p \in Proc : Outstanding(p)' <=> Outstanding(p)
  BY DEF Outstanding
<1>2. Ownership'
  BY <1>1 DEF IndInv, Ownership, OwnedOnce, AtMostOneTask, Undisturbed
<1>3. BufferOK'
  BY DEF IndInv, BufferOK, Undisturbed
<1>4. NoLeak'
  BY <1>1, Processors DEF IndInv, NoLeak
<1> QED BY <1>2, <1>3, <1>4 DEF IndInv

\* The steps of main between two subframes.
LEMMA BetweenSubframes ==
    ASSUME IndInv, TypeOK',
           \/ SearchBegin \/ CellFound \/ NoCellFound \/ EnterProcessing
           \/ NextSubframe \/ LeaveProcessing \/ ExtendPrb \/ GoSearching
    PROVE  IndInv'
<1>1. /\ UNCHANGED <<lock, rxTti, tasks, running>>
      /\ mpc \notin {"receive", "dispatch"} /\ mpc' \notin {"receive", "dispatch"}
      /\ mpc' = "search" => state' = "searching"
      /\ state' = "processing" /\ mpc' # "lost" => state = "processing" /\ mpc # "lost"
  BY DEF SearchBegin, CellFound, NoCellFound, EnterProcessing, NextSubframe, LeaveProcessing,
     ExtendPrb, GoSearching, procVars, poolVars, IndInv, NoLeak
<1>2. \A p \in Proc : ~HeldByMain(p) /\ ~HeldByMain(p)'
  BY <1>1 DEF HeldByMain
<1> QED BY <1>1, <1>2, QuietStep

\* A synchronisation unlocks every MBSFN processor, when the workers are done with it.
LEMMA SynchronisedStep ==
    ASSUME IndInv, TypeOK', Synchronised
    PROVE  IndInv'
<1>1. /\ UNCHANGED <<rxTti, tasks, running, mpc>> /\ mpc = "top"
      /\ WorkersKeepUp => tasks = <<>> /\ running = {}
      /\ \A p \in Proc : lock'[p] = IF p \in Mbsfn THEN FALSE ELSE lock[p]
  BY DEF Synchronised, poolVars
<1>2. \A p \in Proc : ~HeldByMain(p)' /\ (Outstanding(p)' <=> Outstanding(p))
  BY <1>1 DEF HeldByMain, Outstanding
<1>3. WorkersKeepUp => \A p \in Proc : ~Outstanding(p)
  BY <1>1 DEF Outstanding
<1>4. Ownership'
  <2>1. SUFFICES ASSUME NEW p \in Proc, Undisturbed(p), Outstanding(p)
                 PROVE  lock'[p] /\ AtMostOneTask(p)'
    BY <1>2 DEF Ownership, OwnedOnce, Undisturbed
  <2>2. p = CAS /\ p \notin Mbsfn
    BY <1>3, <2>1, Processors DEF Undisturbed, IndInv
  <2>3. lock[p] /\ AtMostOneTask(p)
    BY <2>1 DEF IndInv, Ownership, OwnedOnce
  <2> QED BY <1>1, <2>2, <2>3 DEF AtMostOneTask
<1>5. BufferOK'
  BY <1>1 DEF IndInv, BufferOK, Undisturbed
<1>6. NoLeak'
  BY <1>1, Processors DEF IndInv, NoLeak
<1> QED BY <1>4, <1>5, <1>6 DEF IndInv

\* rx_buffer() and get_rx_buffer_and_lock(): a processor with an open task is locked,
\* so main gets none of those.
LEMMA LockStep ==
    ASSUME IndInv, TypeOK', LockProcessor
    PROVE  IndInv'
<1>1. /\ UNCHANGED <<rxTti, tasks, running, state>> /\ mpc = "lock" /\ mpc' = "receive"
      /\ ~lock[Target] /\ lock' = [lock EXCEPT ![Target] = TRUE] /\ Target' = Target
  BY TargetUnchanged DEF LockProcessor, poolVars, phyVars
<1>2. \A p \in Proc : /\ lock'[p] <=> lock[p] \/ p = Target
                      /\ HeldByMain(p)' <=> p = Target
                      /\ ~HeldByMain(p)
                      /\ Outstanding(p)' <=> Outstanding(p)
  BY <1>1 DEF HeldByMain, Outstanding, IndInv, TypeOK
<1>3. Ownership'
  BY <1>1, <1>2 DEF IndInv, Ownership, OwnedOnce, AtMostOneTask, Undisturbed
<1>4. BufferOK'
  BY <1>1 DEF IndInv, BufferOK, Undisturbed
<1>5. NoLeak'
  BY <1>1, <1>2, Processors DEF IndInv, NoLeak
<1> QED BY <1>3, <1>4, <1>5 DEF IndInv

\* phy.get_next_frame() writes to the buffer of a processor without an open task.
LEMMA ReceiveStep ==
    ASSUME IndInv, TypeOK', NEW ok \in BOOLEAN, get_next_frame(ok)
    PROVE  IndInv'
<1>1. /\ UNCHANGED <<lock, tasks, running, state, tti>> /\ mpc = "receive" /\ Target' = Target
      /\ mpc' = "dispatch" \/ mpc' = "lost"
      /\ mpc' = "dispatch" => rxTti'[Target] = tti
      /\ \A p \in Proc : p # Target => rxTti'[p] = rxTti[p]
  BY TargetUnchanged, Processors DEF get_next_frame, poolVars, phyVars, IndInv, TypeOK
<1>2. /\ HeldByMain(Target)
      /\ \A p \in Proc : /\ HeldByMain(p)' => HeldByMain(p)
                         /\ Outstanding(p)' <=> Outstanding(p)
                         /\ mpc' # "lost" => (HeldByMain(p)' <=> HeldByMain(p))
  BY <1>1 DEF HeldByMain, Outstanding
<1>3. Ownership'
  BY <1>1, <1>2 DEF IndInv, Ownership, OwnedOnce, AtMostOneTask, Undisturbed
<1>4. BufferOK'
  <2>1. Undisturbed(Target) => ~Outstanding(Target)
    BY <1>2, Processors DEF IndInv, Ownership, OwnedOnce
  <2>2. \A i \in DOMAIN tasks : tasks[i].proc \in Proc /\ Outstanding(tasks[i].proc)
    <3>1. \A i \in DOMAIN tasks : tasks[i] \in Task
      BY DEF IndInv, TypeOK
    <3> QED BY <3>1 DEF Task, Outstanding
  <2>3. \A t \in running : t.proc \in Proc /\ Outstanding(t.proc)
    BY DEF IndInv, TypeOK, Task, Outstanding
  <2> QED BY <1>1, <2>1, <2>2, <2>3 DEF IndInv, BufferOK, Undisturbed
<1>5. NoLeak'
  BY <1>1, <1>2, Processors DEF IndInv, NoLeak
<1> QED BY <1>3, <1>4, <1>5 DEF IndInv

\* The task of a subframe is pushed: what main held is now the task's.
LEMMA DispatchStep ==
    ASSUME IndInv, TypeOK', DispatchCas \/ DispatchMbsfn
    PROVE  IndInv'
<1>1. /\ UNCHANGED <<lock, rxTti, running, state, tti>> /\ mpc = "dispatch"
      /\ mpc' \in {"extend", "next"} /\ push(Target)
  BY Processors DEF DispatchCas, DispatchMbsfn, procVars, IndInv
<1> DEFINE new == [proc |-> Target, tti |-> tti]
<1>2. /\ DOMAIN tasks' = DOMAIN tasks \union {Len(tasks) + 1}
      /\ Len(tasks) + 1 \notin DOMAIN tasks
      /\ \A i \in DOMAIN tasks : tasks'[i] = tasks[i]
      /\ tasks'[Len(tasks) + 1] = new
  BY <1>1, Processors, QueuePush DEF IndInv
<1>3. \A p \in Proc : Outstanding(p)' <=> Outstanding(p) \/ p = Target
  BY <1>1, <1>2 DEF Outstanding
<1>4. \A p \in Proc : ~HeldByMain(p)' /\ (HeldByMain(p) <=> p = Target)
  BY <1>1 DEF HeldByMain
<1>5. Ownership'
  <2>1. SUFFICES ASSUME NEW p \in Proc, Undisturbed(p), Outstanding(p)'
                 PROVE  lock[p] /\ AtMostOneTask(p)'
    BY <1>1, <1>4 DEF Ownership, OwnedOnce, Undisturbed
  <2>2. CASE p = Target
    <3>1. lock[p] /\ ~Outstanding(p)
      BY <1>4, <2>1, <2>2 DEF IndInv, Ownership, OwnedOnce
    <3> QED BY <1>1, <1>2, <3>1 DEF Outstanding, AtMostOneTask
  <2>3. CASE p # Target
    <3>1. lock[p] /\ AtMostOneTask(p)
      BY <1>3, <2>1, <2>3 DEF IndInv, Ownership, OwnedOnce
    <3> QED BY <1>1, <1>2, <2>3, <3>1 DEF AtMostOneTask
  <2> QED BY <2>2, <2>3
<1>6. BufferOK'
  BY <1>1, <1>2 DEF IndInv, BufferOK, Undisturbed
<1>7. NoLeak'
  BY <1>1, <1>3, <1>4, Processors DEF IndInv, NoLeak
<1> QED BY <1>5, <1>6, <1>7 DEF IndInv

\* A subframe is discarded: main unlocks the processor it holds.
LEMMA DiscardStep ==
    ASSUME IndInv, TypeOK', DiscardMbsfn
    PROVE  IndInv'
<1>1. /\ UNCHANGED <<rxTti, tasks, running, state>> /\ mpc = "dispatch" /\ mpc' = "next"
      /\ lock' = [lock EXCEPT ![Target] = FALSE]
  BY Processors DEF DiscardMbsfn, poolVars, IndInv
<1>2. \A p \in Proc : /\ lock'[p] <=> lock[p] /\ p # Target
                      /\ ~HeldByMain(p)' /\ (HeldByMain(p) <=> p = Target)
                      /\ Outstanding(p)' <=> Outstanding(p)
  BY <1>1 DEF HeldByMain, Outstanding, IndInv, TypeOK
<1>3. Ownership'
  BY <1>1, <1>2 DEF IndInv, Ownership, OwnedOnce, AtMostOneTask, Undisturbed
<1>4. BufferOK'
  BY <1>1 DEF IndInv, BufferOK, Undisturbed
<1>5. NoLeak'
  BY <1>1, <1>2, Processors DEF IndInv, NoLeak
<1> QED BY <1>3, <1>4, <1>5 DEF IndInv

-----------------------------------------------------------------------------
(* The steps of the workers and of the REST threads                        *)

\* A worker takes the first task; the processor stays the task's.
LEMMA TakeStep ==
    ASSUME IndInv, TypeOK', next_task
    PROVE  IndInv'
<1>1. /\ UNCHANGED <<lock, rxTti, state, mpc, tti, mb_idx, cell>>
      /\ tasks # <<>> /\ tasks' = Tail(tasks) /\ running' = running \union {Head(tasks)}
  BY DEF next_task, procVars, phyVars
<1>2. /\ 1 \in DOMAIN tasks /\ Head(tasks) = tasks[1]
      /\ \A i \in DOMAIN tasks' : i + 1 \in DOMAIN tasks /\ i + 1 # 1 /\ tasks'[i] = tasks[i + 1]
      /\ \A i \in DOMAIN tasks : i = 1 \/ (i - 1 \in DOMAIN tasks' /\ tasks[i] = tasks'[i - 1])
      /\ \A i, j \in DOMAIN tasks' : i + 1 = j + 1 => i = j
  BY <1>1, QueuePop DEF IndInv
<1>3. \A p \in Proc : Outstanding(p)' <=> Outstanding(p)
  BY <1>1, <1>2 DEF Outstanding
<1>4. \A p \in Proc : HeldByMain(p)' <=> HeldByMain(p)
  BY <1>1, TargetUnchanged DEF HeldByMain
<1>5. ASSUME NEW p \in Proc, AtMostOneTask(p) PROVE AtMostOneTask(p)'
  BY <1>1, <1>2, <1>5 DEF AtMostOneTask
<1>6. Ownership'
  BY <1>1, <1>3, <1>4, <1>5 DEF IndInv, Ownership, OwnedOnce, Undisturbed
<1>7. BufferOK'
  BY <1>1, <1>2, TargetUnchanged DEF IndInv, BufferOK, Undisturbed
<1>8. NoLeak'
  BY <1>1, <1>3, <1>4, Processors DEF IndInv, NoLeak
<1> QED BY <1>6, <1>7, <1>8 DEF IndInv

\* process() ends: its only task is gone when the mutex is released.
LEMMA ProcessStep ==
    ASSUME IndInv, TypeOK', ProcessCas \/ \E p \in Mbsfn : ProcessMbsfn(p)
    PROVE  IndInv'
<1>1. PICK p \in Proc, t \in running :
        t.proc = p /\ running' = running \ {t} /\ lock' = [lock EXCEPT ![p] = FALSE]
  BY Processors DEF ProcessCas, ProcessMbsfn, IndInv
<1>2. UNCHANGED <<rxTti, state, mpc, tti, mb_idx, cell, tasks>>
  BY DEF ProcessCas, ProcessMbsfn, phyVars
<1>3. \A q \in Proc : /\ HeldByMain(q)' <=> HeldByMain(q)
                      /\ lock'[q] <=> lock[q] /\ q # p
                      /\ Outstanding(q)' => Outstanding(q)
                      /\ q # p => (Outstanding(q)' <=> Outstanding(q))
  BY <1>1, <1>2, TargetUnchanged DEF HeldByMain, Outstanding, IndInv, TypeOK
<1>4. Outstanding(p)
  BY <1>1 DEF Outstanding
<1>5. Undisturbed(p) => ~HeldByMain(p) /\ ~Outstanding(p)'
  BY <1>1, <1>2, <1>4 DEF IndInv, Ownership, OwnedOnce, AtMostOneTask, Outstanding
<1>6. \A q \in Proc : AtMostOneTask(q) => AtMostOneTask(q)'
  BY <1>1, <1>2 DEF AtMostOneTask
<1>7. Ownership'
  BY <1>3, <1>5, <1>6 DEF IndInv, Ownership, OwnedOnce, Undisturbed
<1>8. BufferOK'
  BY <1>1, <1>2, TargetUnchanged DEF IndInv, BufferOK, Undisturbed
<1>9. NoLeak'
  BY <1>2, <1>3, Processors DEF IndInv, NoLeak
<1> QED BY <1>7, <1>8, <1>9 DEF IndInv

\* The REST threads write two flags, and state, which they only set to searching.
LEMMA RestStep ==
    ASSUME IndInv, TypeOK', Rest \/ UNCHANGED vars
    PROVE  IndInv'
<1>1. /\ UNCHANGED <<lock, rxTti, tasks, running, mpc, tti, mb_idx, cell>>
      /\ state' = state \/ state' = "searching"
  BY DEF Rest, set_params, set_scan_mode, PutScanMode, vars, procVars, phyVars, poolVars
<1>2. \A p \in Proc : HeldByMain(p)' <=> HeldByMain(p)
  BY <1>1, TargetUnchanged DEF HeldByMain
<1> QED BY <1>1, <1>2, TargetUnchanged, QuietStep DEF IndInv, NoLeak

-----------------------------------------------------------------------------
\* Main, the workers and the REST threads keep who owns a processor, what its buffer
\* holds, and that no MBSFN mutex is leaked.
THEOREM Inductive == Spec => []IndInv
<1>1. Init => IndInv
  <2> SUFFICES ASSUME Init PROVE IndInv
    OBVIOUS
  <2>1. 0 \in Mbsfn /\ 0 \in Tti
    BY PipelineAssumption DEF Mbsfn, Tti
  <2>2. TypeOK
    BY <2>1 DEF Init, TypeOK, MPC
  <2>3. \A p \in Proc : ~HeldByMain(p) /\ ~Outstanding(p)
    BY DEF Init, HeldByMain, Outstanding
  <2> QED BY <2>2, <2>3 DEF Init, IndInv, Ownership, OwnedOnce, BufferOK, NoLeak
<1>2. IndInv /\ [Next]_vars => IndInv'
  <2> SUFFICES ASSUME IndInv, [Next]_vars PROVE IndInv'
    OBVIOUS
  <2>1. TypeOK'
    BY StepTypes DEF IndInv
  <2>2. CASE Main
    BY <2>1, <2>2, BetweenSubframes, SynchronisedStep, LockStep, ReceiveStep, DispatchStep,
       DiscardStep DEF Main, Loop
  <2>3. CASE Workers
    BY <2>1, <2>3, TakeStep, ProcessStep DEF Workers
  <2>4. CASE Rest \/ UNCHANGED vars
    BY <2>1, <2>4, RestStep
  <2> QED BY <2>2, <2>3, <2>4 DEF Next
<1> QED BY <1>1, <1>2, PTL DEF Spec

\* Types: mb_idx never leaves the processors, whatever the REST threads do.
THEOREM TypeCorrect == Spec => []TypeOK
<1>1. IndInv => TypeOK
  BY DEF IndInv
<1> QED BY <1>1, Inductive, PTL

\* A processor belongs to one thread at a time, for every number of processors and
\* workers, as long as no worker takes longer than a synchronisation.
THEOREM ProcessorsOwnedOnce == WorkersKeepUp => (Spec => []OneOwner)
<1>1. SUFFICES ASSUME WorkersKeepUp PROVE Spec => []OneOwner
  OBVIOUS
<1>2. IndInv => OneOwner
  BY <1>1 DEF IndInv, Ownership, OwnedOnce, AtMostOneTask, Undisturbed, OneOwner
<1> QED BY <1>2, Inductive, PTL

\* Under the same condition a worker decodes the samples of its own subframe.
THEOREM WorkersSeeTheirSamples == WorkersKeepUp => (Spec => []SamplesMatchTask)
<1>1. SUFFICES ASSUME WorkersKeepUp PROVE Spec => []SamplesMatchTask
  OBVIOUS
<1>2. IndInv => SamplesMatchTask
  BY <1>1 DEF IndInv, BufferOK, Undisturbed, SamplesMatchTask
<1> QED BY <1>2, Inductive, PTL

\* The CAS processor belongs to one thread at a time even when workers do not keep
\* up: main never unlocks it under its worker.
THEOREM CasOwnedOnce == Spec => []OwnedOnce(CAS)
<1>1. IndInv => OwnedOnce(CAS)
  BY Processors DEF IndInv, Ownership, Undisturbed
<1> QED BY <1>1, Inductive, PTL

\* While subframes are processed every MBSFN mutex that is held has a holder that is
\* going to release it, also when workers do not keep up.
THEOREM NoMbsfnLockLeaks == Spec => []NoLeakedMbsfnLock
<1>1. IndInv => NoLeakedMbsfnLock
  BY DEF IndInv, NoLeak, NoLeakedMbsfnLock, InLoop
<1> QED BY <1>1, Inductive, PTL
=============================================================================
