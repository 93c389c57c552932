------------------------------- MODULE MCOutput -------------------------------
(* Output with words of four bits: headers whose sums have no carry, one to   *)
(* eight of them, and again one from the fold; and one with IP options.       *)
EXTENDS Output

Header(n, m, o) ==
    [words |-> [i \in 1 .. 9 |-> IF i < 9 THEN n ELSE m], options |-> o]

MCHeaders ==
    {Header(n, m, 0) : n \in {2, 15}, m \in {0, 1, 15}}
        \union {Header(0, 0, 0), Header(2, 15, 5)}
===============================================================================
