------------------------------ MODULE SampleFifo ------------------------------
(***************************************************************************)
(* What the sample ring promises its two users: a queue of the device's     *)
(* samples, numbered 1, 2, ... since the last tune().  Samples are put at   *)
(* the back in batches and taken from the front in batches; nothing in      *)
(* between changes.  They are lost in two ways only, both at a clear: those *)
(* in the queue, and those of one batch that was under way, in whose place  *)
(* the queue then starts with as many samples of unknown content.           *)
(***************************************************************************)
EXTENDS Integers

VARIABLES
    len,        \* number of samples in the queue
    q,          \* the samples, a function on 0 .. len - 1
    last,       \* number of the last sample that was put
    misplaced   \* the batch under way missed the queue

fifoVars == <<len, q, last, misplaced>>

Init ==
    /\ len = 0
    /\ q = [i \in 0 .. -1 |-> 0]
    /\ last = 0
    /\ misplaced = FALSE

\* The samples last + 1 .. last' are appended.
Put ==
    /\ ~misplaced /\ ~misplaced'
    /\ last' > last
    /\ len' = len + (last' - last)
    /\ q' = [i \in 0 .. len' - 1 |-> IF i < len THEN q[i] ELSE last + (i - len) + 1]

\* As many samples of unknown content as the lost batch had; possibly none.
PutMisplaced ==
    /\ misplaced /\ ~misplaced'
    /\ len = 0
    /\ last' >= last
    /\ len' = last' - last
    /\ q' = [i \in 0 .. len' - 1 |-> q'[i]]

Get ==
    /\ len' >= 0 /\ len' < len
    /\ q' = [i \in 0 .. len' - 1 |-> q[i + (len - len')]]
    /\ UNCHANGED <<last, misplaced>>

Clear ==
    /\ len' = 0
    /\ q' = [i \in 0 .. -1 |-> 0]
    /\ misplaced' \in BOOLEAN
    /\ UNCHANGED last

\* A new numbering, after a clear and with no batch under way.
Restart ==
    /\ len' = 0
    /\ q' = [i \in 0 .. -1 |-> 0]
    /\ last' = 0
    /\ ~misplaced /\ ~misplaced'

Next == Put \/ PutMisplaced \/ Get \/ Clear \/ Restart

Spec == Init /\ [][Next]_fifoVars
===============================================================================
