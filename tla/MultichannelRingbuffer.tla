----------------------- MODULE MultichannelRingbuffer -----------------------
(***************************************************************************)
(* The sample ring (src/src/MultichannelRingbuffer.{h,cpp}).  All channels  *)
(* are written, committed and read together, so one channel stands for all *)
(* of them, and the unit is one sample instead of one byte: every count the *)
(* callers pass is a multiple of sizeof(cf_t).  A slot holds the stamp of   *)
(* the sample stored in it; 0 is memory nobody has written since malloc.    *)
(*                                                                         *)
(* Each method runs under _mutex, so each is one operator on the state.     *)
(***************************************************************************)
EXTENDS Integers

VARIABLES
    size,   \* _size
    used,   \* _used
    head,   \* _head
    buf     \* _buffers[ch], as a function on 0 .. _size - 1

ringVars == <<size, used, head, buf>>

Uninitialised == 0

\* The constructor, malloc included.
Create(n) ==
    /\ size' = n
    /\ used' = 0
    /\ head' = 0
    /\ buf' = [i \in 0 .. n - 1 |-> Uninitialised]

free_size == size - used

clear ==
    /\ used' = 0
    /\ head' = 0
    /\ UNCHANGED <<size, buf>>

\* write_head(): where the next samples go ...
TailPos == (head + used) % size

\* Mutant: the free space, wherever it lies.
WriteableAcrossEnd == size - used

\* ... and how many fit there without wrapping around.
Writeable ==
    IF size = used THEN 0
    ELSE IF TailPos < head THEN head - TailPos
    ELSE size - TailPos

\* What the caller does with the pointer write_head() gave it: store n samples
\* stamped first, first + 1, ... from slot pos on, outside the mutex.
Store(pos, n, first) ==
    buf' = [i \in 0 .. size - 1 |->
              IF pos <= i /\ i < pos + n THEN first + (i - pos) ELSE buf[i]]

commit(n) ==
    /\ used' = used + n
    /\ UNCHANGED <<size, head, buf>>

\* Mutant: the second part does not start at the beginning of the memory.
CopiedSecondPartShifted(n, i) ==
    LET end == (head + n) % size
        first_part == size - head
    IN  IF end <= head
        THEN IF i < first_part THEN buf[head + i] ELSE buf[i]
        ELSE buf[head + i]

\* The i-th sample read(dest, n) copies: one memcpy, or two when the region
\* reaches the end of the memory.
Copied(n, i) ==
    LET end == (head + n) % size
        first_part == size - head
    IN  IF end <= head
        THEN IF i < first_part THEN buf[head + i] ELSE buf[i - first_part]
        ELSE buf[head + i]

\* Mutant: head is not reduced.
ReadNoWrap(n) ==
    /\ head' = head + n
    /\ used' = used - n
    /\ UNCHANGED <<size, buf>>

read(n) ==
    /\ head' = (head + n) % size
    /\ used' = used - n
    /\ UNCHANGED <<size, buf>>
=============================================================================
