--------------------------- MODULE MchScheduleProofs ---------------------------
(***************************************************************************)
(* From MBSFN subframes to bearers, for every number of processors, every   *)
(* scheduling period and every carrier: the closed formula for sf_idx       *)
(* counts subframes as a transmitter does, and the reordering is bounded.   *)
(* For carriers with one PMCH: workers that keep their turn never mix the   *)
(* PDUs of two periods in a bearer, and no MTCH is stopped before its end.  *)
(***************************************************************************)
EXTENDS MchSchedule, FiniteSetTheorems, SequenceTheorems, TLAPS

-----------------------------------------------------------------------------
(* Arithmetic                                                              *)

\* Quotient and remainder are unique.
LEMMA DivModUnique ==
    ASSUME NEW b \in Nat \ {0}, NEW q \in Int, NEW r \in 0 .. b - 1
    PROVE  (q * b + r) % b = r /\ (q * b + r) \div b = q
OBVIOUS

\* Quotient and remainder give the number back.
LEMMA DivModDef ==
    ASSUME NEW b \in Nat \ {0}, NEW x \in Int
    PROVE  x = (x \div b) * b + (x % b) /\ x \div b \in Int /\ x % b \in 0 .. b - 1
OBVIOUS

\* A remainder one turn below, in, or above the range.
LEMMA ModSmall ==
    ASSUME NEW n \in Nat \ {0}, NEW x \in Int
    PROVE  /\ x \in 0 .. n - 1 => x % n = x
           /\ x \in -n .. -1 => x % n = x + n
           /\ x \in n .. 2 * n - 1 => x % n = x - n
<1>1. ASSUME x \in 0 .. n - 1 PROVE x % n = x
  BY <1>1
<1>2. ASSUME x \in -n .. -1 PROVE x % n = x + n
  <2>1. x = (-1) * n + (x + n) /\ x + n \in 0 .. n - 1
    BY <1>2
  <2> QED BY <2>1, DivModUnique
<1>3. ASSUME x \in n .. 2 * n - 1 PROVE x % n = x - n
  <2>1. x = 1 * n + (x - n) /\ x - n \in 0 .. n - 1
    BY <1>3
  <2> QED BY <2>1, DivModUnique
<1> QED BY <1>1, <1>2, <1>3

\* The next index of a ring.
LEMMA NextMod ==
    ASSUME NEW n \in Nat \ {0}, NEW i \in 0 .. n - 1
    PROVE  (i + 1) % n = IF i = n - 1 THEN 0 ELSE i + 1
<1>1. CASE i = n - 1
  <2>1. i + 1 = 1 * n + 0 /\ 0 \in 0 .. n - 1
    BY <1>1
  <2> QED BY <1>1, <2>1, DivModUnique
<1>2. CASE i # n - 1
  BY <1>2
<1> QED BY <1>1, <1>2

\* The difference of two indices of a ring.
LEMMA DiffMod ==
    ASSUME NEW n \in Nat \ {0}, NEW x \in -n .. n - 1
    PROVE  x % n = IF x < 0 THEN x + n ELSE x
<1>1. CASE x < 0
  <2>1. x = (-1) * n + (x + n) /\ x + n \in 0 .. n - 1
    BY <1>1
  <2> QED BY <1>1, <2>1, DivModUnique
<1>2. CASE ~(x < 0)
  BY <1>2
<1> QED BY <1>1, <1>2

\* Counting a set by numbering it.
LEMMA Numbered ==
    ASSUME NEW n \in Nat, NEW S, NEW f \in [1 .. n -> S],
           \A i, j \in 1 .. n : f[i] = f[j] => i = j,
           \A s \in S : \E i \in 1 .. n : f[i] = s
    PROVE  Cardinality(S) = n
<1>1. f \in Bijection(1 .. n, S)
  BY DEF Bijection, Injection, Surjection, IsInjective
<1>2. ExistsBijection(1 .. n, S)
  BY <1>1 DEF ExistsBijection
<1>3. IsFiniteSet(1 .. n) /\ Cardinality(1 .. n) = n
  BY FS_Interval
<1> QED BY <1>2, <1>3, FS_Bijection

-----------------------------------------------------------------------------
(* The number of a subframe                                                *)

\* Whole periods leave frame and subframe alone.
LEMMA InPeriod ==
    ASSUME NEW t \in Nat
    PROVE  LET u == t % (10 * Period)
           IN  /\ u \in 0 .. 10 * Period - 1
               /\ u \div 10 = fn_in_scheduling_period(t)
               /\ u % 10 = t % 10
               /\ u % 40 = t % 40
<1> DEFINE u == t % (10 * Period)
           q == t \div (10 * Period)
           k == Period \div 4
<1> SUFFICES /\ u \in 0 .. 10 * Period - 1
             /\ u \div 10 = fn_in_scheduling_period(t)
             /\ u % 10 = t % 10
             /\ u % 40 = t % 40
  OBVIOUS
<1>1. Period \in Nat \ {0} /\ k \in Nat /\ Period = 4 * k
  BY PeriodAssumption
<1>2. q \in Int /\ u \in 0 .. 10 * Period - 1 /\ t = q * (10 * Period) + u
  <2> DEFINE d == 10 * Period
  <2>1. d \in Nat \ {0} /\ t \in Int
    BY <1>1
  <2> HIDE DEF d
  <2>2. t = (t \div d) * d + (t % d) /\ t \div d \in Int /\ t % d \in 0 .. d - 1
    BY <2>1, DivModDef
  <2> QED BY <2>2 DEF d
<1>3. q * Period \in Int /\ q * (10 * Period) = 10 * (q * Period)
      /\ q * k \in Int /\ q * (10 * Period) = 40 * (q * k)
  BY <1>1, <1>2
<1> HIDE DEF u, q, k
<1>4. t % 10 = u % 10 /\ t \div 10 = q * Period + (u \div 10)
  BY <1>2, <1>3
<1>5. t % 40 = u % 40
  BY <1>2, <1>3
<1>6. u \div 10 \in 0 .. Period - 1
  BY <1>1, <1>2
<1>7. (t \div 10) % Period = u \div 10
  <2> DEFINE r == u \div 10
  <2>1. r \in 0 .. Period - 1
    BY <1>6
  <2> HIDE DEF r
  <2>2. (q * Period + r) % Period = r
    BY <1>1, <1>2, <2>1, DivModUnique
  <2> QED BY <1>4, <2>2 DEF r
<1> QED BY <1>2, <1>4, <1>5, <1>7 DEF fn_in_scheduling_period

\* A dedicated carrier: 39 of 40 subframes.
LEMMA DedicatedCount ==
    ASSUME NEW u \in Nat, is_mbsfn_subframe(TRUE, u)
    PROVE  /\ sf_idx(TRUE, u \div 10, u % 10) \in Nat
           /\ Cardinality({v \in 0 .. u - 1 : is_mbsfn_subframe(TRUE, v)}) =
                sf_idx(TRUE, u \div 10, u % 10)
<1> DEFINE n == u - (u \div 40) - 1
           S == {v \in 0 .. u - 1 : v % 40 # 0}
           f == [i \in 1 .. n |-> i + ((i - 1) \div 39)]
<1>1. u % 40 # 0
  BY DEF is_mbsfn_subframe, is_cas_subframe
<1>2. n \in Nat
  BY <1>1
<1>3. sf_idx(TRUE, u \div 10, u % 10) = n
  <2>1. (u \div 10) \div 4 = u \div 40
    OBVIOUS
  <2>2. (u \div 10) * 10 + (u % 10) = u
    OBVIOUS
  <2> QED BY <2>1, <2>2 DEF sf_idx
<1>4. S = {v \in 0 .. u - 1 : is_mbsfn_subframe(TRUE, v)}
  BY DEF is_mbsfn_subframe, is_cas_subframe
<1>5. ASSUME NEW i \in 1 .. n
      PROVE  i + ((i - 1) \div 39) \in S
  <2>1. i + ((i - 1) \div 39) \in 0 .. u - 1
    BY <1>1
  <2>2. (i + ((i - 1) \div 39)) % 40 # 0
    OBVIOUS
  <2> QED BY <2>1, <2>2
<1>6. ASSUME NEW i \in 1 .. n, NEW j \in 1 .. n, f[i] = f[j]
      PROVE  i = j
  <2>1. i + ((i - 1) \div 39) = j + ((j - 1) \div 39)
    BY <1>6
  <2> QED BY <2>1
<1>7. ASSUME NEW v \in S
      PROVE  \E i \in 1 .. n : f[i] = v
  <2>1. v - (v \div 40) \in 1 .. n
    BY <1>1
  <2>2. (v - (v \div 40)) + ((v - (v \div 40) - 1) \div 39) = v
    OBVIOUS
  <2> QED BY <2>1, <2>2
<1>8. f \in [1 .. n -> S]
  BY <1>5
<1> HIDE DEF n, S, f
<1>9. Cardinality(S) = n
  BY <1>2, <1>6, <1>7, <1>8, Numbered
<1> QED BY <1>2, <1>3, <1>4, <1>9

\* A mixed carrier: six of ten subframes.
LEMMA MixedCount ==
    ASSUME NEW u \in Nat, is_mbsfn_subframe(FALSE, u)
    PROVE  /\ sf_idx(FALSE, u \div 10, u % 10) \in Nat
           /\ Cardinality({v \in 0 .. u - 1 : is_mbsfn_subframe(FALSE, v)}) =
                sf_idx(FALSE, u \div 10, u % 10)
<1> DEFINE num(v) == (v \div 10) * 6 + (IF v % 10 < 6 THEN (v % 10) - 1 ELSE (v % 10) - 3)
           at(j) == (j \div 6) * 10 + (j % 6) + (IF j % 6 < 3 THEN 1 ELSE 3)
           n == num(u)
           S == {v \in 0 .. u - 1 : v % 10 \in {1, 2, 3, 6, 7, 8}}
           f == [i \in 1 .. n |-> at(i - 1)]
<1>1. u % 10 \in {1, 2, 3, 6, 7, 8}
  BY DEF is_mbsfn_subframe
<1>2. n \in Nat
  BY <1>1
<1>3. sf_idx(FALSE, u \div 10, u % 10) = n
  BY DEF sf_idx
<1>4. S = {v \in 0 .. u - 1 : is_mbsfn_subframe(FALSE, v)}
  BY DEF is_mbsfn_subframe, is_cas_subframe
<1>5. ASSUME NEW j \in Nat
      PROVE  at(j) \in Nat /\ at(j) % 10 \in {1, 2, 3, 6, 7, 8} /\ num(at(j)) = j
  <2>1. PICK a \in Nat, b \in 0 .. 5 : j = 6 * a + b
    <3>1. j \div 6 \in Nat /\ j % 6 \in 0 .. 5 /\ j = 6 * (j \div 6) + (j % 6)
      OBVIOUS
    <3> QED BY <3>1
  <2>2. j \div 6 = a /\ j % 6 = b
    BY <2>1
  <2>3. at(j) = 10 * a + (IF b < 3 THEN b + 1 ELSE b + 3)
    BY <2>2
  <2>4. at(j) \div 10 = a /\ at(j) % 10 = IF b < 3 THEN b + 1 ELSE b + 3
    BY <2>3
  <2> HIDE DEF at
  <2>5. CASE b < 3
    BY <2>1, <2>3, <2>4, <2>5
  <2>6. CASE ~(b < 3)
    BY <2>1, <2>3, <2>4, <2>6
  <2> QED BY <2>5, <2>6
<1>6. ASSUME NEW v \in Nat, v % 10 \in {1, 2, 3, 6, 7, 8}
      PROVE  num(v) \in Nat /\ at(num(v)) = v
  <2>1. PICK a \in Nat, b \in {1, 2, 3, 6, 7, 8} : v = 10 * a + b
    BY <1>6
  <2>2. v \div 10 = a /\ v % 10 = b
    BY <2>1
  <2>3. num(v) = 6 * a + (IF b < 6 THEN b - 1 ELSE b - 3)
    BY <2>2
  <2>4. num(v) \div 6 = a /\ num(v) % 6 = IF b < 6 THEN b - 1 ELSE b - 3
    BY <2>3
  <2> HIDE DEF num
  <2> QED BY <2>1, <2>3, <2>4
<1>7. ASSUME NEW v \in Nat, v % 10 \in {1, 2, 3, 6, 7, 8}
      PROVE  v < u <=> num(v) < num(u)
  BY <1>1, <1>7
<1> HIDE DEF num, at
<1>8. f \in [1 .. n -> S]
  <2> SUFFICES ASSUME NEW i \in 1 .. n PROVE at(i - 1) \in S
    OBVIOUS
  <2>1. i - 1 \in Nat /\ i - 1 < num(u)
    BY <1>2
  <2> QED BY <2>1, <1>5, <1>7
<1>9. ASSUME NEW i \in 1 .. n, NEW j \in 1 .. n, f[i] = f[j]
      PROVE  i = j
  <2>1. at(i - 1) = at(j - 1) /\ i - 1 \in Nat /\ j - 1 \in Nat
    BY <1>2, <1>9
  <2>2. i - 1 = j - 1
    BY <2>1, <1>5
  <2> QED BY <2>2
<1>10. ASSUME NEW v \in S
       PROVE  \E i \in 1 .. n : f[i] = v
  <2>1. num(v) \in Nat /\ num(v) < n /\ at(num(v)) = v
    BY <1>6, <1>7
  <2>2. num(v) + 1 \in 1 .. n /\ (num(v) + 1) - 1 = num(v)
    BY <1>2, <2>1
  <2> QED BY <2>1, <2>2
<1> HIDE DEF n, S, f
<1>11. Cardinality(S) = n
  BY <1>2, <1>8, <1>9, <1>10, Numbered
<1> QED BY <1>2, <1>3, <1>4, <1>11

\* sf_idx, as mbsfn_config_for_tti() computes it, is the number of MBSFN subframes the
\* period had before, on both kinds of carriers and for every scheduling period.
THEOREM ClosedFormula ==
    ASSUME NEW dedicated \in BOOLEAN, NEW t \in Nat, is_mbsfn_subframe(dedicated, t)
    PROVE  /\ IndexOf(dedicated, t) \in Nat
           /\ TxNumber[dedicated][t % (10 * Period)] = IndexOf(dedicated, t)
<1> DEFINE u == t % (10 * Period)
<1>1. /\ u \in 0 .. 10 * Period - 1
      /\ u \div 10 = fn_in_scheduling_period(t)
      /\ u % 10 = t % 10
      /\ u % 40 = t % 40
  BY InPeriod
<1>2. TxNumber[dedicated][u] =
        Cardinality({v \in 0 .. u - 1 : is_mbsfn_subframe(dedicated, v)})
  BY <1>1 DEF TxNumber
<1> HIDE DEF u
<1>3. is_mbsfn_subframe(dedicated, u) /\ u \in Nat
  BY <1>1, PeriodAssumption DEF is_mbsfn_subframe, is_cas_subframe
<1>4. IndexOf(dedicated, t) = sf_idx(dedicated, u \div 10, u % 10)
  BY <1>1 DEF IndexOf
<1>5. CASE dedicated = TRUE
  BY <1>2, <1>3, <1>4, <1>5, DedicatedCount DEF u
<1>6. CASE dedicated = FALSE
  BY <1>2, <1>3, <1>4, <1>6, MixedCount DEF u
<1> QED BY <1>5, <1>6

\* A period starts with number 0 in the second subframe of its first frame.
LEMMA FirstNumber ==
    ASSUME NEW dedicated \in BOOLEAN, NEW t \in Nat, is_mbsfn_subframe(dedicated, t)
    PROVE  IndexOf(dedicated, t) = 0 <=> fn_in_scheduling_period(t) = 0 /\ t % 10 = 1
<1> DEFINE u == t % (10 * Period)
<1>1. /\ u \in 0 .. 10 * Period - 1
      /\ u \div 10 = fn_in_scheduling_period(t)
      /\ u % 10 = t % 10
      /\ u % 40 = t % 40
  BY InPeriod
<1> HIDE DEF u
<1>2. is_mbsfn_subframe(dedicated, u) /\ u \in Nat
  BY <1>1, PeriodAssumption DEF is_mbsfn_subframe, is_cas_subframe
<1>3. IndexOf(dedicated, t) = sf_idx(dedicated, u \div 10, u % 10)
  BY <1>1 DEF IndexOf
<1>4. u \div 10 = 0 /\ u % 10 = 1 <=> u = 1
  BY <1>2
<1>5. CASE dedicated = TRUE
  <2>1. u % 40 # 0
    BY <1>2, <1>5 DEF is_mbsfn_subframe, is_cas_subframe
  <2>2. (u \div 10) \div 4 = u \div 40 /\ (u \div 10) * 10 + (u % 10) = u
    BY <1>2
  <2>3. sf_idx(TRUE, u \div 10, u % 10) = u - (u \div 40) - 1
    BY <1>2, <2>2 DEF sf_idx
  <2>4. u - (u \div 40) - 1 = 0 <=> u = 1
    BY <1>2, <2>1
  <2> QED BY <1>1, <1>3, <1>4, <1>5, <2>3, <2>4
<1>6. CASE dedicated = FALSE
  <2>1. u % 10 \in {1, 2, 3, 6, 7, 8}
    BY <1>2, <1>6 DEF is_mbsfn_subframe
  <2>2. PICK a \in Nat, b \in {1, 2, 3, 6, 7, 8} : u \div 10 = a /\ u % 10 = b
    BY <1>2, <2>1
  <2>3. sf_idx(FALSE, a, b) = 0 <=> a = 0 /\ b = 1
    BY DEF sf_idx
  <2>4. sf_idx(FALSE, u \div 10, u % 10) = 0 <=> u \div 10 = 0 /\ u % 10 = 1
    BY <2>2, <2>3
  <2> QED BY <1>1, <1>3, <1>6, <2>4
<1> QED BY <1>5, <1>6

-----------------------------------------------------------------------------
(* The PMCH of a subframe                                                  *)

\* A set of natural numbers has a least one.
LEMMA NatMin ==
    ASSUME NEW S, S \subseteq Nat, S # {}
    PROVE  \E m \in S : \A k \in S : m <= k
<1>1. PICK m \in S : \A k \in S : ~(<<k, m>> \in OpToRel(<, Nat))
  BY WFMin, NatLessThanWellFounded
<1>2. ASSUME NEW k \in S PROVE m <= k
  <2>1. ~(<<k, m>> \in {ss \in Nat \X Nat : ss[1] < ss[2]})
    BY <1>1 DEF OpToRel
  <2> QED BY <2>1
<1> QED BY <1>2

\* The subframes of two PMCHs are disjoint, and PmchFor() finds the one that has n.
LEMMA PmchAgrees ==
    ASSUME cell \in Cells, NEW n \in Nat
    PROVE  /\ PmchFor(cell.end, n) = PmchAt(cell, n)
           /\ PmchAt(cell, n) \in 0 .. Len(cell.end)
<1> DEFINE end == cell.end
           open == {i \in 1 .. Len(end) : n <= end[i]}
           has(i) == n \in TxFirst(cell, i) .. end[i]
<1>1. /\ end \in Seq(Nat) /\ Len(end) \in Nat /\ DOMAIN end = 1 .. Len(end)
      /\ \A i \in 1 .. Len(end) : end[i] \in Nat
      /\ \A i, j \in 1 .. Len(end) : i <= j => end[i] <= end[j]
  <2>1. end \in Seq(Nat) /\ \A i, j \in 1 .. Len(end) : i <= j => end[i] <= end[j]
    BY CellsAssumption
  <2>2. Len(end) \in Nat /\ DOMAIN end = 1 .. Len(end) /\ end \in [1 .. Len(end) -> Nat]
    BY <2>1, LenProperties
  <2> HIDE DEF end
  <2> QED BY <2>1, <2>2
<1>2. /\ PmchFor(end, n) =
           IF open = {} THEN 0 ELSE CHOOSE i \in open : \A j \in open : i <= j
      /\ PmchAt(cell, n) = IF \E i \in 1 .. Len(end) : has(i)
                     THEN CHOOSE i \in 1 .. Len(end) : has(i) ELSE 0
  BY <1>1 DEF PmchFor, PmchAt
<1>3. \A i \in 1 .. Len(end) : TxFirst(cell, i) = IF i <= 1 THEN 0 ELSE end[i - 1] + 1
  BY DEF TxFirst
<1> HIDE DEF end
<1>4. CASE open = {}
  <2>1. \A i \in 1 .. Len(end) : ~has(i)
    <3> SUFFICES ASSUME NEW i \in 1 .. Len(end), has(i) PROVE FALSE
      OBVIOUS
    <3>1. n <= end[i]
      BY <1>1, <1>3
    <3> QED BY <1>4, <3>1
  <2> QED BY <1>1, <1>2, <1>4, <2>1 DEF end
<1>5. CASE open # {}
  <2> DEFINE m == CHOOSE i \in open : \A j \in open : i <= j
  <2>1. m \in open /\ \A j \in open : m <= j
    <3>1. \E i \in open : \A j \in open : i <= j
      <4>1. open \subseteq Nat
        BY <1>1
      <4> HIDE DEF open
      <4> QED BY <1>5, <4>1, NatMin
    <3> QED BY <3>1
  <2> HIDE DEF m
  <2>2. has(m)
    <3>1. CASE m = 1
      BY <1>1, <1>3, <2>1, <3>1
    <3>2. CASE m # 1
      <4>1. m - 1 \in 1 .. Len(end) /\ m - 1 \notin open
        BY <1>1, <2>1, <3>2
      <4>2. end[m - 1] < n
        BY <1>1, <4>1
      <4> QED BY <1>1, <1>3, <2>1, <3>2, <4>1, <4>2
    <3> QED BY <3>1, <3>2
  <2>3. ASSUME NEW i \in 1 .. Len(end), has(i) PROVE i = m
    <3>1. i \in open /\ m <= i
      BY <1>1, <1>3, <2>1, <2>3
    <3>2. CASE m < i
      <4>1. i - 1 \in 1 .. Len(end) /\ m <= i - 1
        BY <1>1, <2>1, <3>2
      <4>2. end[m] <= end[i - 1]
        BY <1>1, <2>1, <4>1
      <4>3. end[i - 1] + 1 <= n
        BY <1>1, <1>3, <2>1, <2>3, <3>2, <4>1
      <4> QED BY <1>1, <2>1, <4>1, <4>2, <4>3
    <3> QED BY <1>1, <2>1, <3>1, <3>2
  <2>4. (CHOOSE i \in 1 .. Len(end) : has(i)) = m
    <3> HIDE DEF has
    <3>1. m \in 1 .. Len(end)
      BY <2>1
    <3> QED BY <2>2, <2>3, <3>1
  <2>5. PmchFor(end, n) = m
    BY <1>2, <1>5 DEF m
  <2>6. PmchAt(cell, n) = m
    BY <1>2, <2>1, <2>2, <2>4
  <2>7. m \in 0 .. Len(end)
    BY <1>1, <2>1
  <2> QED BY <2>5, <2>6, <2>7 DEF end
<1> QED BY <1>4, <1>5

\* The MCCH test of mbsfn_config_for_tti() finds the subframes of a sender that counts
\* the repetitions from the offset.
LEMMA McchAgrees ==
    ASSUME NEW c \in Cells, NEW t \in Nat
    PROVE  is_mcch(c.mcch, t) \in BOOLEAN /\ is_mcch(c.mcch, t) = TxIsMcch(c, t)
<1> DEFINE n == t \div 10
           p == c.mcch.repeat_period
           o == c.mcch.offset
<1>1. p \in Nat \ {0} /\ o \in 0 .. p - 1
  BY CellsAssumption
<1>2. n \in Nat /\ t % 10 \in 0 .. 9
  OBVIOUS
<1>3. is_mcch(c.mcch, t) <=> n % p = o /\ t % 10 \in c.mcch.sfs
  BY <1>2 DEF is_mcch, mcch_table
<1>4. TxIsMcch(c, t) <=> t % 10 \in c.mcch.sfs /\ \E k \in 0 .. n : n = o + k * p
  BY DEF TxIsMcch
<1> HIDE DEF n, p, o
<1>5. ASSUME n % p = o PROVE \E k \in 0 .. n : n = o + k * p
  <2> DEFINE k == n \div p
  <2>1. n = k * p + o /\ k \in Int
    BY <1>1, <1>2, <1>5, DivModDef
  <2> HIDE DEF k
  <2>2. k >= 0
    <3>1. SUFFICES ASSUME k <= -1 PROVE FALSE
      BY <2>1
    <3>2. k * p <= -p
      BY <1>1, <2>1, <3>1
    <3> QED BY <1>1, <1>2, <2>1, <3>2
  <2>3. k * p >= k
    BY <1>1, <2>1, <2>2
  <2>4. k <= n
    BY <1>1, <1>2, <2>1, <2>2, <2>3
  <2> QED BY <1>1, <1>2, <2>1, <2>2, <2>4
<1>6. ASSUME NEW k \in 0 .. n, n = o + k * p PROVE n % p = o
  <2>1. (k * p + o) % p = o
    BY <1>1, <1>2, DivModUnique
  <2>2. k * p + o = n
    BY <1>1, <1>2, <1>6
  <2> QED BY <2>1, <2>2
<1>7. is_mcch(c.mcch, t) <=> TxIsMcch(c, t)
  BY <1>3, <1>4, <1>5, <1>6
<1>8. is_mcch(c.mcch, t) \in BOOLEAN /\ TxIsMcch(c, t) \in BOOLEAN
  BY DEF is_mcch, TxIsMcch
<1> QED BY <1>7, <1>8, Zenon

\* mbsfn_config_for_tti(): the PMCH and the MCS it finds are the ones of the sender.
LEMMA ConfigAsSent ==
    ASSUME cell \in Cells, NEW t \in Nat, is_mbsfn_subframe(cell.dedicated, t)
    PROVE  LET idx == IndexOf(cell.dedicated, t)
               mch == PmchFor(cell.end, idx)
           IN  /\ mch = TxPmch(cell, t)
               /\ mch \in 0 .. Len(cell.end)
               /\ UsesSigMcs(cell.end, mch, t, idx) \in BOOLEAN
               /\ mch # 0 =>
                    UsesSigMcs(cell.end, mch, t, idx) = (TxIndex(cell, t) = TxFirst(cell, TxPmch(cell, t)))
<1> DEFINE idx == IndexOf(cell.dedicated, t)
           mch == PmchFor(cell.end, idx)
<1>1. cell.dedicated \in BOOLEAN /\ Len(cell.end) \in Nat
  BY CellsAssumption, LenProperties
<1>2. idx \in Nat /\ TxIndex(cell, t) = idx
  BY <1>1, ClosedFormula DEF TxIndex
<1>3. mch = TxPmch(cell, t) /\ mch \in 0 .. Len(cell.end)
  BY <1>2, PmchAgrees DEF TxPmch
<1>4. idx = 0 <=> fn_in_scheduling_period(t) = 0 /\ t % 10 = 1
  BY <1>1, FirstNumber
<1> HIDE DEF idx, mch
<1>5. mch # 0 => (UsesSigMcs(cell.end, mch, t, idx) <=> idx = TxFirst(cell, mch))
  <2>1. CASE mch = 1
    <3>1. TxFirst(cell, mch) = 0
      BY <2>1 DEF TxFirst
    <3>2. UsesSigMcs(cell.end, mch, t, idx) <=> fn_in_scheduling_period(t) = 0 /\ t % 10 = 1
      BY <2>1 DEF UsesSigMcs
    <3> QED BY <1>4, <3>1, <3>2
  <2>2. CASE mch > 1
    <3>1. TxFirst(cell, mch) = cell.end[mch - 1] + 1
      BY <1>3, <2>2 DEF TxFirst
    <3>2. UsesSigMcs(cell.end, mch, t, idx) <=> cell.end[mch - 1] + 1 = idx
      BY <1>3, <2>2 DEF UsesSigMcs
    <3> QED BY <3>1, <3>2
  <2> QED BY <1>1, <1>3, <2>1, <2>2
<1>6. UsesSigMcs(cell.end, mch, t, idx) \in BOOLEAN
  BY DEF UsesSigMcs
<1>7. mch # 0 => UsesSigMcs(cell.end, mch, t, idx) = (TxIndex(cell, t) = TxFirst(cell, TxPmch(cell, t)))
  BY <1>2, <1>3, <1>5, <1>6, Zenon
<1> QED BY <1>3, <1>6, <1>7 DEF idx, mch

-----------------------------------------------------------------------------
(* How far the workers are behind                                          *)

\* The MBSFN subframes after a and before b.
Between(dedicated, a, b) ==
    {k \in 1 .. (b - a - 1) % TtiCount : is_mbsfn_subframe(dedicated, (a + k) % TtiCount)}

\* The constants are positive.
LEMMA TtiCountPositive == TtiCount \in Nat \ {0} /\ thread_cnt \in Nat \ {0}
BY ScheduleAssumption

\* Main goes on to the next TTI: at most one subframe more, none for a CAS subframe.
LEMMA OneMore ==
    ASSUME NEW dedicated, NEW a \in 0 .. TtiCount - 1, NEW b \in 0 .. TtiCount - 1
    PROVE  /\ IsFiniteSet(Between(dedicated, a, b))
           /\ Cardinality(Between(dedicated, a, b)) \in Nat
           /\ Cardinality(Between(dedicated, a, (b + 1) % TtiCount)) \in Nat
           /\ Cardinality(Between(dedicated, a, (b + 1) % TtiCount))
                <= Cardinality(Between(dedicated, a, b)) + 1
           /\ ~is_mbsfn_subframe(dedicated, b) =>
                Cardinality(Between(dedicated, a, (b + 1) % TtiCount))
                  <= Cardinality(Between(dedicated, a, b))
<1> DEFINE T == TtiCount
           x == b - a - 1
           n == x % T
           c == (b + 1) % T
           m == (c - a - 1) % T
           B == Between(dedicated, a, b)
           C == Between(dedicated, a, c)
<1>1. T \in Nat \ {0} /\ a \in 0 .. T - 1 /\ b \in 0 .. T - 1 /\ x \in -T .. T - 2
  BY TtiCountPositive
<1>2. x >= 0 => n = x
  BY <1>1
<1>3. x < 0 => n = x + T
  <2> HIDE DEF T, x
  <2>1. x \in -T .. T - 1
    BY <1>1
  <2> QED BY <1>1, <2>1, DiffMod
<1>4. /\ b < T - 1 => c = b + 1
      /\ b = T - 1 => c = 0
  BY <1>1, NextMod
<1>5. n \in 0 .. T - 1 /\ c \in 0 .. T - 1 /\ x = b - a - 1
  BY <1>1, <1>2, <1>3, <1>4
<1>6. B \subseteq 1 .. n /\ C \subseteq 1 .. m
  BY DEF Between
<1>7. c - a - 1 \in Int /\ (c - a - 1 >= 0 => m = c - a - 1) /\ (c - a - 1 < 0 => m = c - a - 1 + T)
  <2> DEFINE y == c - a - 1
  <2>1. y \in -T .. T - 1
    BY <1>1, <1>5
  <2> HIDE DEF c, y
  <2>2. (y >= 0 => y % T = y) /\ (y < 0 => y % T = y + T)
    BY <1>1, <2>1, ModSmall
  <2> QED BY <2>1, <2>2 DEF y
<1> HIDE DEF T, n, c, m, x
<1>8. m = 0 \/ m = n + 1
  <2>1. CASE b < T - 1
    BY <1>1, <1>2, <1>3, <1>4, <1>5, <1>7, <2>1
  <2>2. CASE b = T - 1
    BY <1>1, <1>2, <1>3, <1>4, <1>5, <1>7, <2>2
  <2> QED BY <1>1, <2>1, <2>2
<1>9. (a + (n + 1)) % T = b
  <2>1. a + (n + 1) \in {b, b + T}
    BY <1>1, <1>2, <1>3, <1>5
  <2>2. b % T = b /\ (b + T) % T = b
    <3>1. b % T = b
      BY <1>1, ModSmall
    <3>2. (b + T) % T = (b + T) - T
      <4>1. b + T \in T .. 2 * T - 1 /\ b + T \in Int
        BY <1>1
      <4> QED BY <1>1, <4>1, ModSmall
    <3> QED BY <1>1, <3>1, <3>2
  <2> QED BY <2>1, <2>2
<1>10. IsFiniteSet(B) /\ Cardinality(B) \in Nat
  <2>1. IsFiniteSet(1 .. n)
    BY <1>5, FS_Interval
  <2> QED BY <1>6, <2>1, FS_Subset, FS_CardinalityType
<1>11. CASE m = 0
  <2>1. C = {}
    BY <1>6, <1>11
  <2>2. Cardinality(C) = 0
    BY <2>1, FS_EmptySet
  <2> QED BY <1>10, <2>2 DEF c, T
<1>12. CASE m = n + 1
  <2>1. C \subseteq B \union {n + 1}
    <3> SUFFICES ASSUME NEW k \in C, k # n + 1 PROVE k \in B
      OBVIOUS
    <3>1. k \in 1 .. m /\ is_mbsfn_subframe(dedicated, (a + k) % TtiCount)
      BY DEF Between, m, T
    <3>2. k \in 1 .. n
      BY <1>5, <1>12, <3>1
    <3> QED BY <3>1, <3>2 DEF Between, n, T, x
  <2>2. ~is_mbsfn_subframe(dedicated, b) => C \subseteq B
    <3> SUFFICES ASSUME ~is_mbsfn_subframe(dedicated, b), n + 1 \in C PROVE FALSE
      BY <2>1
    <3>1. is_mbsfn_subframe(dedicated, (a + (n + 1)) % TtiCount)
      BY DEF Between
    <3> QED BY <1>9, <3>1 DEF T
  <2>3. n + 1 \notin B
    BY <1>5, <1>6
  <2> HIDE DEF B, C
  <2>4. IsFiniteSet(B \union {n + 1}) /\ Cardinality(B \union {n + 1}) = Cardinality(B) + 1
    BY <1>10, <2>3, FS_AddElement
  <2>5. IsFiniteSet(C) /\ Cardinality(C) \in Nat /\ Cardinality(C) <= Cardinality(B) + 1
    <3>1. IsFiniteSet(C) /\ Cardinality(C) <= Cardinality(B \union {n + 1})
      BY <2>1, <2>4, FS_Subset
    <3> QED BY <2>4, <3>1, FS_CardinalityType
  <2>6. ~is_mbsfn_subframe(dedicated, b) => Cardinality(C) <= Cardinality(B)
    BY <1>10, <2>2, FS_Subset
  <2> QED BY <1>10, <2>5, <2>6 DEF B, C, c, T
<1> QED BY <1>8, <1>11, <1>12

\* The turn moves on: every processor but the one it passes is one further behind.
LEMMA TurnStep ==
    ASSUME NEW i \in Proc, NEW w \in Proc
    PROVE  /\ (i - 1 - w) % thread_cnt \in 0 .. thread_cnt - 1
           /\ (i + 1) % thread_cnt \in Proc
           /\ w # i => (((i + 1) % thread_cnt) - 1 - w) % thread_cnt =
                         ((i - 1 - w) % thread_cnt) + 1
<1> DEFINE N == thread_cnt
           j == (i + 1) % N
           x == i - 1 - w
           y == j - 1 - w
<1>1. N \in Nat \ {0} /\ i \in 0 .. N - 1 /\ w \in 0 .. N - 1 /\ x \in -N .. N - 2
  BY TtiCountPositive DEF Proc
<1>2. (x >= 0 => x % N = x) /\ (x < 0 => x % N = x + N)
  <2> HIDE DEF x, N
  <2>1. x \in -N .. N - 1
    BY <1>1
  <2>2. x % N = IF x < 0 THEN x + N ELSE x
    BY <1>1, <2>1, DiffMod
  <2> QED BY <1>1, <2>2
<1>3. (i < N - 1 => j = i + 1) /\ (i = N - 1 => j = 0)
  <2> HIDE DEF N
  <2>1. j = IF i = N - 1 THEN 0 ELSE i + 1
    BY <1>1, NextMod
  <2> QED BY <1>1, <2>1
<1>4. y \in -N .. N - 1 /\ j \in 0 .. N - 1
  BY <1>1, <1>3
<1>5. (y >= 0 => y % N = y) /\ (y < 0 => y % N = y + N)
  <2> HIDE DEF y, N
  <2>1. y % N = IF y < 0 THEN y + N ELSE y
    BY <1>1, <1>4, DiffMod
  <2> QED BY <1>4, <2>1
<1>6. x = i - 1 - w /\ y = j - 1 - w
  OBVIOUS
<1> HIDE DEF N, j, x, y
<1>7. x % N \in 0 .. N - 1
  BY <1>1, <1>2
<1>8. w # i => y % N = (x % N) + 1
  <2>1. CASE i < N - 1
    BY <1>1, <1>2, <1>3, <1>4, <1>5, <1>6, <2>1
  <2>2. CASE i = N - 1
    BY <1>1, <1>2, <1>3, <1>4, <1>5, <1>6, <2>2
  <2> QED BY <1>1, <2>1, <2>2
<1> QED BY <1>4, <1>7, <1>8 DEF N, j, x, y, Proc

-----------------------------------------------------------------------------
(* The inductive invariant                                                 *)

\* Only MBSFN subframes are given to the workers.
Dispatched ==
    \A w \in Proc : work[w].pc # "idle" => is_mbsfn_subframe(cell.dedicated, work[w].tti)

\* A worker is behind by no more than the processors the turn has passed since.
Rank ==
    \A w \in Proc : work[w].pc # "idle" => Behind(w) <= (mb_idx - 1 - w) % thread_cnt

IndInv == TypeOK /\ Dispatched /\ DecodesAsSent /\ Rank

Entry(c) == [ce : BOOLEAN, lcid : Lcids(c), stop : Nat]

\* The parts of a carrier.
LEMMA CellTypes ==
    ASSUME NEW c \in Cells
    PROVE  /\ c.dedicated \in BOOLEAN
           /\ Len(c.end) \in Nat \ {0} /\ DOMAIN c.end = 1 .. Len(c.end)
           /\ McchLcid \in Lcids(c)
           /\ \A p \in {0, 1}, i \in 1 .. Len(c.end) :
                /\ c.plan[p][i] \in Seq([lcid : Nat, stop : Nat])
                /\ \A k \in DOMAIN c.plan[p][i] : c.plan[p][i][k].lcid \in Lcids(c)
<1>1. /\ c.dedicated \in BOOLEAN
      /\ c.end \in Seq(Nat) /\ c.end # <<>>
      /\ \A p \in {0, 1}, i \in 1 .. Len(c.end) :
           c.plan[p][i] \in Seq([lcid : Nat, stop : Nat])
  BY CellsAssumption
<1>2. Len(c.end) \in Nat \ {0} /\ DOMAIN c.end = 1 .. Len(c.end)
  BY <1>1, LenProperties, EmptySeq
<1>3. McchLcid \in Lcids(c)
  BY DEF Lcids
<1>4. ASSUME NEW p \in {0, 1}, NEW i \in DOMAIN c.end, NEW k \in DOMAIN c.plan[p][i]
      PROVE  c.plan[p][i][k].lcid \in Lcids(c)
  <2> DEFINE X(q, j) == {c.plan[q][j][m].lcid : m \in DOMAIN c.plan[q][j]}
  <2>1. c.plan[p][i][k].lcid \in X(p, i)
    OBVIOUS
  <2>2. Lcids(c) = {McchLcid} \union UNION {X(q, j) : q \in {0, 1}, j \in DOMAIN c.end}
    BY DEF Lcids
  <2> HIDE DEF X
  <2> QED BY <2>1, <2>2
<1> QED BY <1>1, <1>2, <1>3, <1>4

\* What a subframe carries can be noted in stops and written to RLC.
LEMMA SentType ==
    ASSUME NEW c \in Cells, NEW t \in Nat
    PROVE  Sent(c, t) \in Seq(Entry(c))
<1> DEFINE i == TxPmch(c, t)
           n == TxIndex(c, t) - TxFirst(c, i)
           mtchs == IF i = 0 THEN <<>> ELSE SentMtchs(c, i, t)
           msi == [k \in DOMAIN mtchs |->
                     [ce |-> TRUE, lcid |-> mtchs[k].lcid, stop |-> mtchs[k].stop]]
           left == {k \in DOMAIN mtchs : n <= mtchs[k].stop}
           first == CHOOSE k \in left : \A j \in left : k <= j
           sdu(l) == <<[ce |-> FALSE, lcid |-> l, stop |-> 0]>>
           E == Entry(c)
           R == [lcid : Nat, stop : Nat]
<1>1. /\ Sent(c, t) = (IF i # 0 /\ n = 0 THEN msi ELSE <<>>) \o
                   (IF TxIsMcch(c, t) THEN sdu(McchLcid)
                    ELSE IF left = {} THEN <<>> ELSE sdu(mtchs[first].lcid))
  BY DEF Sent
<1>2. i = 0 \/ i \in 1 .. Len(c.end)
  BY CellTypes DEF TxPmch, PmchAt
<1>3. PeriodOf(t) \in {0, 1}
  BY PeriodAssumption DEF PeriodOf
<1>4. /\ mtchs \in Seq(R)
      /\ \A k \in DOMAIN mtchs : mtchs[k].lcid \in Lcids(c)
  <2>1. CASE i = 0
    BY <2>1, EmptySeq
  <2>2. CASE i # 0
    BY <1>2, <1>3, <2>2, CellTypes DEF SentMtchs
  <2> QED BY <2>1, <2>2
<1> HIDE DEF i, n, mtchs
<1>5. Len(mtchs) \in Nat /\ DOMAIN mtchs = 1 .. Len(mtchs) /\ mtchs \in [1 .. Len(mtchs) -> R]
  BY <1>4, LenProperties
<1>6. msi \in Seq(E)
  <2>1. msi \in [1 .. Len(mtchs) -> E]
    BY <1>4, <1>5 DEF Entry
  <2> HIDE DEF msi, E
  <2> QED BY <1>5, <2>1, SeqDef
<1>7. \A l \in Lcids(c) : sdu(l) \in Seq(E)
  BY DEF Entry
<1>8. left # {} => first \in DOMAIN mtchs
  <2>1. ASSUME left # {} PROVE \E k \in left : \A j \in left : k <= j
    <3>1. left \subseteq Nat
      BY <1>5
    <3> HIDE DEF left
    <3> QED BY <2>1, <3>1, NatMin
  <2>2. ASSUME left # {} PROVE first \in left
    <3> HIDE DEF left
    <3> QED BY <2>1, <2>2
  <2> QED BY <2>2
<1>9. left # {} => mtchs[first].lcid \in Lcids(c)
  BY <1>4, <1>8
<1>10. McchLcid \in Lcids(c) /\ <<>> \in Seq(E)
  BY CellTypes, EmptySeq
<1> DEFINE head == IF i # 0 /\ n = 0 THEN msi ELSE <<>>
           tail == IF TxIsMcch(c, t) THEN sdu(McchLcid)
                   ELSE IF left = {} THEN <<>> ELSE sdu(mtchs[first].lcid)
<1> HIDE DEF msi, left, first, sdu, E
<1>11. head \in Seq(E) /\ tail \in Seq(E)
  BY <1>6, <1>7, <1>9, <1>10
<1>12. Sent(c, t) = head \o tail
  BY <1>1
<1> HIDE DEF head, tail
<1> QED BY <1>11, <1>12, ConcatProperties DEF E

\* What DecodesAsSent says of a worker with record r.
AsSentTo(r) ==
    /\ r.is_mcch = TxIsMcch(cell, r.tti)
    /\ ~r.is_mcch =>
         /\ r.mch = TxPmch(cell, r.tti)
         /\ r.sig = (TxIndex(cell, r.tti) = TxFirst(cell, TxPmch(cell, r.tti)))

\* A step of worker w that leaves main's variables alone and starts no subframe.
LEMMA WorkerFrame ==
    ASSUME IndInv, NEW w \in Proc, NEW r \in WorkOf(cell),
           work' = [work EXCEPT ![w] = r], UNCHANGED mainVars,
           r.pc # "idle" => work[w].pc # "idle" /\ r.tti = work[w].tti,
           r.pc = "decode" => AsSentTo(r)
    PROVE  work' \in [Proc -> WorkOf(cell)] /\ Dispatched' /\ DecodesAsSent' /\ Rank'
<1>1. /\ work \in [Proc -> WorkOf(cell)] /\ cell' = cell /\ tti' = tti /\ mb_idx' = mb_idx
      /\ work' \in [Proc -> WorkOf(cell)]
      /\ \A v \in Proc : work'[v] = IF v = w THEN r ELSE work[v]
  BY DEF IndInv, TypeOK, mainVars
<1>2. Dispatched'
  BY <1>1 DEF IndInv, Dispatched
<1>3. Rank'
  BY <1>1 DEF IndInv, Rank, Behind
<1>4. DecodesAsSent'
  BY <1>1 DEF IndInv, DecodesAsSent, AsSentTo
<1> QED BY <1>1, <1>2, <1>3, <1>4

\* The three flags stay Booleans in every step of process().
LEMMA FlagsBoolean ==
    ASSUME TypeOK, NEW w \in Proc, Work(w)
    PROVE  decode_mcch' \in BOOLEAN /\ lost' \in BOOLEAN /\ overtaken' \in BOOLEAN
<1>1. decode_mcch \in BOOLEAN /\ lost \in BOOLEAN /\ overtaken \in BOOLEAN
  BY DEF TypeOK
<1>2. CASE mbsfn_config_for_tti(w)
  BY <1>1, <1>2, Zenon DEF mbsfn_config_for_tti
<1>3. CASE DecodeFails(w)
  BY <1>1, <1>3, Zenon DEF DecodeFails
<1>4. CASE Decode(w)
  BY <1>1, <1>4, Zenon DEF Decode
<1>5. CASE ScheduleStop(w)
  BY <1>1, <1>5, Zenon DEF ScheduleStop
<1>6. CASE WritePdu(w)
  BY <1>1, <1>6, Zenon DEF WritePdu
<1>7. CASE StopMcch(w)
  BY <1>1, <1>7, Zenon DEF StopMcch
<1>8. CASE StopLoop(w)
  BY <1>1, <1>8, Zenon DEF StopLoop
<1>9. CASE LockStops(w)
  BY <1>1, <1>9, Zenon DEF LockStops
<1>10. CASE StopBearer(w)
  BY <1>1, <1>10, Zenon DEF StopBearer
<1>11. CASE UnlockStops(w)
  BY <1>1, <1>11, Zenon DEF UnlockStops
<1> QED BY <1>2, <1>3, <1>4, <1>5, <1>6, <1>7, <1>8, <1>9, <1>10, <1>11 DEF Work

\* What is left of the invariant once WorkerFrame has the worker's part of it.
LEMMA WorkerRest ==
    ASSUME IndInv, NEW w \in Proc, Work(w), NEW r \in WorkOf(cell),
           work' = [work EXCEPT ![w] = r], UNCHANGED mainVars,
           r.pc # "idle" => work[w].pc # "idle" /\ r.tti = work[w].tti,
           r.pc = "decode" => AsSentTo(r),
           stops' \in [Lcids(cell) -> Nat \union {NoStop}],
           rlc' \in [(DOMAIN cell.end) \X Lcids(cell) -> SUBSET {0, 1}],
           \/ (r.pc = "stop" <=> work[w].pc = "stop") /\ UNCHANGED sched_mutex
           \/ r.pc = "stop" /\ sched_mutex = Nobody /\ sched_mutex' = w
           \/ r.pc # "stop" /\ work[w].pc = "stop" /\ sched_mutex' = Nobody
    PROVE  IndInv'
<1>1. work' \in [Proc -> WorkOf(cell)] /\ Dispatched' /\ DecodesAsSent' /\ Rank'
  BY WorkerFrame
<1>2. decode_mcch' \in BOOLEAN /\ lost' \in BOOLEAN /\ overtaken' \in BOOLEAN
  BY FlagsBoolean DEF IndInv
<1>3. /\ cell' = cell /\ tti' = tti /\ mb_idx' = mb_idx
      /\ cell \in Cells /\ tti \in 0 .. TtiCount - 1 /\ mb_idx \in Proc
      /\ work \in [Proc -> WorkOf(cell)] /\ sched_mutex \in Proc \union {Nobody}
      /\ \A v \in Proc : work[v].pc = "stop" <=> sched_mutex = v
      /\ \A v \in Proc : work'[v] = IF v = w THEN r ELSE work[v]
  BY DEF IndInv, TypeOK, mainVars
<1>4. Nobody \notin Proc
  BY TtiCountPositive DEF Nobody, Proc
<1>5. /\ sched_mutex' \in Proc \union {Nobody}
      /\ \A v \in Proc : work'[v].pc = "stop" <=> sched_mutex' = v
  BY <1>3, <1>4
<1> QED BY <1>1, <1>2, <1>3, <1>5 DEF IndInv, TypeOK

\* What the type invariant says of one worker.
LEMMA WorkTypes ==
    ASSUME IndInv, NEW w \in Proc
    PROVE  /\ cell \in Cells /\ Len(cell.end) \in Nat \ {0}
           /\ work \in [Proc -> WorkOf(cell)] /\ work[w] \in WorkOf(cell)
           /\ work[w].tti \in 0 .. TtiCount - 1 /\ work[w].tti \in Nat
           /\ work[w].todo \in Seq(Entry(cell))
           /\ Idle \in WorkOf(cell)
           /\ stops \in [Lcids(cell) -> Nat \union {NoStop}]
           /\ rlc \in [(DOMAIN cell.end) \X Lcids(cell) -> SUBSET {0, 1}]
<1>1. cell \in Cells /\ work \in [Proc -> WorkOf(cell)]
  BY DEF IndInv, TypeOK
<1>2. Len(cell.end) \in Nat \ {0}
  BY <1>1, CellTypes
<1>3. work[w] \in WorkOf(cell)
  BY <1>1
<1>4. work[w].tti \in 0 .. TtiCount - 1 /\ work[w].todo \in Seq(Entry(cell))
  BY <1>3 DEF WorkOf, Entry
<1>5. Idle \in WorkOf(cell)
  <2>1. <<>> \in Seq(Entry(cell))
    BY EmptySeq
  <2>2. 0 \in 0 .. TtiCount - 1 /\ 0 \in 0 .. Len(cell.end)
    BY <1>2, TtiCountPositive
  <2> QED BY <2>1, <2>2 DEF Idle, WorkOf, WorkPC, Entry
<1>6. work[w].tti \in Nat
  BY <1>4, TtiCountPositive
<1>7. stops \in [Lcids(cell) -> Nat \union {NoStop}] /\ rlc \in [(DOMAIN cell.end) \X Lcids(cell) -> SUBSET {0, 1}]
  BY DEF IndInv, TypeOK
<1> QED BY <1>1, <1>2, <1>3, <1>4, <1>5, <1>6, <1>7

\* Return() and the steps before the PDUs.
LEMMA ConfigStep ==
    ASSUME IndInv, NEW w \in Proc, mbsfn_config_for_tti(w) \/ DecodeFails(w) \/ Decode(w)
    PROVE  IndInv'
<1> DEFINE t == work[w].tti
<1>0. Work(w)
  BY DEF Work
<1>1. CASE mbsfn_config_for_tti(w)
  <2> DEFINE idx == IndexOf(cell.dedicated, t)
             mch == PmchFor(cell.end, idx)
             enabled == IF is_mcch(cell.mcch, t) THEN decode_mcch ELSE mch # 0
             mcch == is_mcch(cell.mcch, t)
             sig == UsesSigMcs(cell.end, mch, t, idx)
  <2>1. /\ work[w].pc = "config"
        /\ work' = [work EXCEPT ![w] =
             IF enabled
             THEN [work[w] EXCEPT !.pc = "decode", !.is_mcch = mcch,
                     !.mch = IF mcch THEN 1 ELSE mch, !.sig = mcch \/ sig]
             ELSE Idle]
        /\ UNCHANGED <<mainVars, stops, sched_mutex, rlc>>
    BY <1>1 DEF mbsfn_config_for_tti, Return
  <2>2. is_mbsfn_subframe(cell.dedicated, t)
    BY <2>1 DEF IndInv, Dispatched
  <2>3. /\ mch = TxPmch(cell, t) /\ mch \in 0 .. Len(cell.end)
        /\ sig \in BOOLEAN
        /\ mch # 0 => sig = (TxIndex(cell, t) = TxFirst(cell, TxPmch(cell, t)))
    BY <2>2, WorkTypes, ConfigAsSent
  <2>4. mcch \in BOOLEAN /\ mcch = TxIsMcch(cell, t)
    BY WorkTypes, McchAgrees
  <2> HIDE DEF idx, mch, mcch, sig, t
  <2>5. CASE enabled
    <3> DEFINE s == mcch \/ sig
               m == IF mcch THEN 1 ELSE mch
               r == [work[w] EXCEPT !.pc = "decode", !.is_mcch = mcch, !.mch = m, !.sig = s]
    <3>1. s \in BOOLEAN /\ (~mcch => s = sig)
      BY <2>3, <2>4, Zenon
    <3>2. m \in 0 .. Len(cell.end) /\ (~mcch => m = mch)
      BY <2>3, WorkTypes
    <3>3. ~mcch => mch # 0
      BY <2>5 DEF mcch
    <3>4. work' = [work EXCEPT ![w] = r]
      BY <2>1, <2>5
    <3> HIDE DEF s, m
    <3>5. r \in WorkOf(cell) /\ r.pc = "decode" /\ r.tti = t /\ r.is_mcch = mcch /\ r.mch = m /\ r.sig = s
      BY <2>4, <3>1, <3>2, WorkTypes DEF WorkOf, WorkPC, t
    <3>6. ~mcch => r.mch = TxPmch(cell, t) /\ r.sig = (TxIndex(cell, t) = TxFirst(cell, TxPmch(cell, t)))
      BY <2>3, <3>1, <3>2, <3>3, <3>5
    <3>7. AsSentTo(r)
      BY <2>4, <3>5, <3>6 DEF AsSentTo
    <3> HIDE DEF r
    <3> QED BY <1>0, <2>1, <3>4, <3>5, <3>7, WorkTypes, WorkerRest DEF t
  <2>6. CASE ~enabled
    <3>1. work' = [work EXCEPT ![w] = Idle]
      BY <2>1, <2>6
    <3> QED BY <1>0, <2>1, <3>1, WorkTypes, WorkerRest DEF Idle
  <2> QED BY <2>5, <2>6
<1>2. CASE DecodeFails(w)
  <2>1. /\ work[w].pc = "decode" /\ work' = [work EXCEPT ![w] = Idle]
        /\ UNCHANGED <<mainVars, stops, sched_mutex, rlc>>
    BY <1>2 DEF DecodeFails, Return
  <2> QED BY <1>0, <2>1, WorkTypes, WorkerRest DEF Idle
<1>3. CASE Decode(w)
  <2> DEFINE todo == Sent(cell, t)
             r == [work[w] EXCEPT !.pc = "pdu", !.todo = todo]
  <2>1. /\ work[w].pc = "decode" /\ work' = [work EXCEPT ![w] = r]
        /\ UNCHANGED <<mainVars, stops, sched_mutex, rlc>>
    BY <1>3, WorkTypes DEF Decode
  <2>2. todo \in Seq(Entry(cell))
    BY WorkTypes, SentType
  <2> HIDE DEF todo
  <2>3. r \in WorkOf(cell) /\ r.pc = "pdu" /\ r.tti = t
    BY <2>2, WorkTypes DEF WorkOf, WorkPC, Entry
  <2> HIDE DEF r
  <2> QED BY <1>0, <2>1, <2>3, WorkTypes, WorkerRest
<1> QED BY <1>1, <1>2, <1>3

\* The entries and SDUs of a PDU.
LEMMA PduStep ==
    ASSUME IndInv, NEW w \in Proc, ScheduleStop(w) \/ WritePdu(w)
    PROVE  IndInv'
<1> DEFINE e == Head(work[w].todo)
           todo == Tail(work[w].todo)
           r == [work[w] EXCEPT !.todo = todo]
<1>0. Work(w)
  BY DEF Work
<1>1. /\ work[w].pc = "pdu" /\ work[w].todo # <<>> /\ work' = [work EXCEPT ![w] = r]
      /\ UNCHANGED <<mainVars, sched_mutex>>
  BY WorkTypes DEF ScheduleStop, WritePdu
<1>2. e \in Entry(cell) /\ todo \in Seq(Entry(cell))
  BY <1>1, WorkTypes, HeadTailProperties
<1>3. e.stop \in Nat
  BY <1>2 DEF Entry
<1>4. stops' \in [Lcids(cell) -> Nat \union {NoStop}]
  <2>1. CASE ScheduleStop(w)
    <3>1. stops' = [stops EXCEPT ![e.lcid] = e.stop]
      BY <2>1 DEF ScheduleStop
    <3> HIDE DEF e
    <3> QED BY <1>3, <3>1, WorkTypes
  <2>2. CASE WritePdu(w)
    BY <2>2, WorkTypes DEF WritePdu
  <2> QED BY <2>1, <2>2
<1>5. rlc' \in [(DOMAIN cell.end) \X Lcids(cell) -> SUBSET {0, 1}]
  <2>1. CASE ScheduleStop(w)
    BY <2>1, WorkTypes DEF ScheduleStop
  <2>2. CASE WritePdu(w)
    <3> DEFINE p == PeriodOf(work[w].tti)
               b == <<work[w].mch, e.lcid>>
               D == (DOMAIN cell.end) \X Lcids(cell)
    <3>1. p \in {0, 1}
      BY WorkTypes, PeriodAssumption DEF PeriodOf
    <3>2. rlc' = [rlc EXCEPT ![b] = @ \union {p}]
      BY <2>2 DEF WritePdu
    <3>3. rlc \in [D -> SUBSET {0, 1}]
      BY WorkTypes
    <3> HIDE DEF p, b, D
    <3>4. rlc' \in [D -> SUBSET {0, 1}]
      BY <3>1, <3>2, <3>3
    <3> QED BY <3>4 DEF D
  <2> QED BY <2>1, <2>2
<1> HIDE DEF todo
<1>6. r \in WorkOf(cell) /\ r.pc = "pdu" /\ r.tti = work[w].tti
  BY <1>1, <1>2, WorkTypes DEF WorkOf, Entry
<1> HIDE DEF r
<1> QED BY <1>0, <1>1, <1>4, <1>5, <1>6, WorkTypes, WorkerRest

\* The end of process(): the MCCH, and the loop over the PMCHs.
LEMMA EndStep ==
    ASSUME IndInv, NEW w \in Proc,
           StopMcch(w) \/ StopLoop(w) \/ LockStops(w) \/ StopBearer(w) \/ UnlockStops(w)
    PROVE  IndInv'
<1> DEFINE D == (DOMAIN cell.end) \X Lcids(cell)
<1>0. Work(w)
  BY DEF Work
<1>00. rlc \in [D -> SUBSET {0, 1}]
  BY WorkTypes
<1> HIDE DEF D
<1>1. CASE StopMcch(w)
  <2>1. /\ work[w].pc = "pdu" /\ work' = [work EXCEPT ![w] = Idle]
        /\ rlc' = [rlc EXCEPT ![<<1, McchLcid>>] = {}]
        /\ UNCHANGED <<mainVars, stops, sched_mutex>>
    BY <1>1 DEF StopMcch, Return
  <2>2. rlc' \in [D -> SUBSET {0, 1}]
    BY <1>00, <2>1
  <2> QED BY <1>0, <2>1, <2>2, WorkTypes, WorkerRest DEF Idle, D
<1>2. CASE StopLoop(w)
  <2> DEFINE r == [work[w] EXCEPT !.pc = "lock", !.i = 1]
  <2>1. /\ work[w].pc = "pdu" /\ work' = [work EXCEPT ![w] = r]
        /\ UNCHANGED <<mainVars, stops, sched_mutex, rlc>>
    BY <1>2, WorkTypes DEF StopLoop
  <2>2. r \in WorkOf(cell) /\ r.pc = "lock" /\ r.tti = work[w].tti
    <3>1. 1 \in 0 .. Len(cell.end)
      BY WorkTypes
    <3> QED BY <3>1, WorkTypes DEF WorkOf, WorkPC
  <2> HIDE DEF r
  <2> QED BY <1>0, <2>1, <2>2, WorkTypes, WorkerRest
<1>3. CASE LockStops(w)
  <2> DEFINE r == [work[w] EXCEPT !.pc = "stop"]
  <2>1. /\ work[w].pc = "lock" /\ work' = [work EXCEPT ![w] = r]
        /\ sched_mutex = Nobody /\ sched_mutex' = w
        /\ UNCHANGED <<mainVars, stops, rlc>>
    BY <1>3, WorkTypes DEF LockStops
  <2>2. r \in WorkOf(cell) /\ r.pc = "stop" /\ r.tti = work[w].tti
    BY WorkTypes DEF WorkOf, WorkPC
  <2> HIDE DEF r
  <2> QED BY <1>0, <2>1, <2>2, WorkTypes, WorkerRest
<1>4. CASE StopBearer(w)
  <2> DEFINE l == CHOOSE l \in Due(w) : \A k \in Due(w) : l <= k
             b == <<work[w].i, l>>
             r == work[w]
  <2>1. /\ work[w].pc = "stop" /\ work' = work
        /\ stops' = [stops EXCEPT ![l] = NoStop]
        /\ rlc' = rlc \/ rlc' = [rlc EXCEPT ![b] = {}]
        /\ UNCHANGED <<mainVars, sched_mutex>>
    BY <1>4 DEF StopBearer
  <2> HIDE DEF l, b
  <2>2. stops' \in [Lcids(cell) -> Nat \union {NoStop}]
    BY <2>1, WorkTypes
  <2>3. rlc' \in [D -> SUBSET {0, 1}]
    BY <1>00, <2>1
  <2>4. work' = [work EXCEPT ![w] = r] /\ r \in WorkOf(cell)
    BY <2>1, WorkTypes
  <2> QED BY <1>0, <2>1, <2>2, <2>3, <2>4, WorkTypes, WorkerRest DEF D
<1>5. CASE UnlockStops(w)
  <2>0. /\ work[w].pc = "stop" /\ sched_mutex' = Nobody
        /\ UNCHANGED <<mainVars, stops, rlc>>
    BY <1>5 DEF UnlockStops
  <2>1. CASE work[w].i < Len(cell.end)
    <3> DEFINE r == [work[w] EXCEPT !.pc = "lock", !.i = @ + 1]
    <3>1. work' = [work EXCEPT ![w] = r]
      BY <1>5, <2>1, WorkTypes DEF UnlockStops
    <3>2. r \in WorkOf(cell) /\ r.pc = "lock" /\ r.tti = work[w].tti
      <4> DEFINE j == work[w].i + 1
      <4>1. j \in 0 .. Len(cell.end)
        BY <2>1, WorkTypes DEF WorkOf
      <4>2. r = [work[w] EXCEPT !.pc = "lock", !.i = j]
        OBVIOUS
      <4> HIDE DEF j, r
      <4> QED BY <4>1, <4>2, WorkTypes DEF WorkOf, WorkPC
    <3> HIDE DEF r
    <3> QED BY <1>0, <2>0, <3>1, <3>2, WorkTypes, WorkerRest
  <2>2. CASE ~(work[w].i < Len(cell.end))
    <3>1. work' = [work EXCEPT ![w] = Idle]
      BY <1>5, <2>2 DEF UnlockStops, Return
    <3> QED BY <1>0, <2>0, <3>1, WorkTypes, WorkerRest DEF Idle
  <2> QED BY <2>1, <2>2
<1> QED BY <1>1, <1>2, <1>3, <1>4, <1>5

\* Main goes on to the next subframe; every other worker falls behind by one at most,
\* and the turn has passed one processor more.
LEMMA DispatchMbsfnStep ==
    ASSUME IndInv, DispatchMbsfn
    PROVE  IndInv'
<1> DEFINE r == [Idle EXCEPT !.pc = "config", !.tti = tti]
<1>1. /\ is_mbsfn_subframe(cell.dedicated, tti) /\ work[mb_idx].pc = "idle"
      /\ work' = [work EXCEPT ![mb_idx] = r]
      /\ mb_idx' = (mb_idx + 1) % thread_cnt /\ tti' = (tti + 1) % TtiCount
      /\ UNCHANGED <<cell, decode_mcch, stops, sched_mutex, rlc, lost, overtaken>>
  BY DEF DispatchMbsfn
<1>2. /\ mb_idx \in Proc /\ tti \in 0 .. TtiCount - 1 /\ work \in [Proc -> WorkOf(cell)]
      /\ Idle \in WorkOf(cell)
  <2>1. mb_idx \in Proc
    BY DEF IndInv, TypeOK
  <2> QED BY <2>1, WorkTypes DEF IndInv, TypeOK
<1>3. r \in WorkOf(cell) /\ r.pc = "config" /\ r.tti = tti
  BY <1>2 DEF WorkOf, WorkPC, Idle
<1> HIDE DEF r
<1>4. /\ work' \in [Proc -> WorkOf(cell)]
      /\ \A v \in Proc : work'[v] = IF v = mb_idx THEN r ELSE work[v]
  BY <1>1, <1>2, <1>3
<1>5. mb_idx' \in Proc
  BY <1>1, <1>2, TurnStep
<1>6. tti' \in 0 .. TtiCount - 1
  BY <1>1, <1>2, TtiCountPositive, NextMod
<1>7. TypeOK'
  BY <1>1, <1>2, <1>3, <1>4, <1>5, <1>6 DEF IndInv, TypeOK
<1>8. Dispatched'
  BY <1>1, <1>3, <1>4 DEF IndInv, Dispatched
<1>9. DecodesAsSent'
  BY <1>1, <1>3, <1>4 DEF IndInv, DecodesAsSent
<1>10. ASSUME NEW v \in Proc, work'[v].pc # "idle"
       PROVE  Behind(v)' <= (mb_idx' - 1 - v) % thread_cnt
  <2>0. Behind(v)' = Cardinality(Between(cell.dedicated, work'[v].tti, tti'))
    BY <1>1 DEF Behind, Between
  <2>1. CASE v = mb_idx
    <3>1. work'[v].tti = tti
      BY <1>3, <1>4, <2>1
    <3>2. Between(cell.dedicated, tti, tti') = {}
      <4>1. (tti' - tti - 1) % TtiCount = 0
        <5>1. tti' = IF tti = TtiCount - 1 THEN 0 ELSE tti + 1
          BY <1>1, <1>2, TtiCountPositive, NextMod
        <5>2. CASE tti = TtiCount - 1
          <6>1. tti' - tti - 1 = (-1) * TtiCount + 0 /\ 0 \in 0 .. TtiCount - 1
            BY <1>2, <5>1, <5>2, TtiCountPositive
          <6> QED BY <6>1, TtiCountPositive, DivModUnique
        <5>3. CASE tti # TtiCount - 1
          <6>1. tti' - tti - 1 = 0
            BY <1>2, <5>1, <5>3, TtiCountPositive
          <6> QED BY <6>1, TtiCountPositive
        <5> QED BY <5>2, <5>3
      <4> QED BY <4>1 DEF Between
    <3>3. Behind(v)' = 0
      BY <2>0, <3>1, <3>2, FS_EmptySet
    <3>4. (mb_idx' - 1 - v) % thread_cnt \in 0 .. thread_cnt - 1
      BY <1>5, TurnStep
    <3> QED BY <3>3, <3>4, TtiCountPositive
  <2>2. CASE v # mb_idx
    <3>1. work'[v] = work[v] /\ work[v].pc # "idle" /\ work[v].tti \in 0 .. TtiCount - 1
      BY <1>4, <1>10, <2>2, WorkTypes
    <3>2. Behind(v) <= (mb_idx - 1 - v) % thread_cnt
      BY <3>1 DEF IndInv, Rank
    <3>3. Behind(v) = Cardinality(Between(cell.dedicated, work[v].tti, tti))
      BY DEF Behind, Between
    <3>4. Behind(v) \in Nat /\ Behind(v)' \in Nat /\ Behind(v)' <= Behind(v) + 1
      BY <1>1, <1>2, <2>0, <3>1, <3>3, OneMore
    <3>5. /\ (mb_idx - 1 - v) % thread_cnt \in 0 .. thread_cnt - 1
          /\ (mb_idx' - 1 - v) % thread_cnt = ((mb_idx - 1 - v) % thread_cnt) + 1
      BY <1>1, <1>2, <2>2, TurnStep
    <3> QED BY <3>2, <3>4, <3>5, TtiCountPositive
  <2> QED BY <2>1, <2>2
<1>11. Rank'
  BY <1>10 DEF Rank
<1> QED BY <1>7, <1>8, <1>9, <1>11 DEF IndInv

\* A CAS subframe moves no worker and counts for none.
LEMMA DispatchCasStep ==
    ASSUME IndInv, DispatchCas
    PROVE  IndInv'
<1>1. /\ ~is_mbsfn_subframe(cell.dedicated, tti)
      /\ decode_mcch' \in {decode_mcch, TRUE} /\ tti' = (tti + 1) % TtiCount
      /\ UNCHANGED <<cell, mb_idx, work, stops, sched_mutex, rlc, lost, overtaken>>
  BY DEF DispatchCas, is_mbsfn_subframe
<1>2. tti \in 0 .. TtiCount - 1
  BY DEF IndInv, TypeOK
<1>3. tti' \in 0 .. TtiCount - 1
  BY <1>1, <1>2, TtiCountPositive, NextMod
<1>4. decode_mcch' \in BOOLEAN
  BY <1>1, Zenon DEF IndInv, TypeOK
<1>5. TypeOK'
  BY <1>1, <1>3, <1>4 DEF IndInv, TypeOK
<1>6. Dispatched'
  BY <1>1 DEF IndInv, Dispatched
<1>7. DecodesAsSent'
  BY <1>1 DEF IndInv, DecodesAsSent
<1>8. ASSUME NEW v \in Proc, work[v].pc # "idle"
      PROVE  Behind(v)' <= (mb_idx' - 1 - v) % thread_cnt
  <2>1. Behind(v)' = Cardinality(Between(cell.dedicated, work[v].tti, tti'))
    BY <1>1 DEF Behind, Between
  <2>2. Behind(v) = Cardinality(Between(cell.dedicated, work[v].tti, tti))
    BY DEF Behind, Between
  <2>3. Behind(v) \in Nat /\ Behind(v)' \in Nat /\ Behind(v)' <= Behind(v)
    BY <1>1, <1>2, <2>1, <2>2, WorkTypes, OneMore
  <2>4. Behind(v) <= (mb_idx - 1 - v) % thread_cnt
    BY <1>8 DEF IndInv, Rank
  <2>5. (mb_idx - 1 - v) % thread_cnt \in 0 .. thread_cnt - 1 /\ mb_idx' = mb_idx
    BY <1>1, TurnStep DEF IndInv, TypeOK
  <2> QED BY <2>3, <2>4, <2>5, TtiCountPositive
<1>9. Rank'
  BY <1>1, <1>8 DEF Rank
<1> QED BY <1>5, <1>6, <1>7, <1>9 DEF IndInv

\* main() starts with idle processors and empty tables.
LEMMA InitIndInv == Init => IndInv
<1> SUFFICES ASSUME Init PROVE IndInv
  OBVIOUS
<1>1. /\ cell \in Cells /\ tti = 0 /\ mb_idx = 0 /\ decode_mcch = FALSE
      /\ work = [w \in Proc |-> Idle] /\ stops = [l \in Lcids(cell) |-> NoStop]
      /\ sched_mutex = Nobody
      /\ rlc = [b \in (DOMAIN cell.end) \X Lcids(cell) |-> {}]
      /\ lost = FALSE /\ overtaken = FALSE
  BY DEF Init
<1>2. Idle \in WorkOf(cell) /\ Idle.pc = "idle"
  <2>1. <<>> \in Seq([ce : BOOLEAN, lcid : Lcids(cell), stop : Nat])
    BY EmptySeq
  <2>2. 0 \in 0 .. TtiCount - 1 /\ 0 \in 0 .. Len(cell.end)
    BY <1>1, CellTypes, TtiCountPositive
  <2> QED BY <2>1, <2>2 DEF Idle, WorkOf, WorkPC
<1>3. \A w \in Proc : work[w].pc = "idle"
  BY <1>1, <1>2
<1>4. Nobody \notin Proc /\ 0 \in Proc /\ 0 \in 0 .. TtiCount - 1
  BY TtiCountPositive DEF Nobody, Proc
<1>5. TypeOK
  BY <1>1, <1>2, <1>3, <1>4 DEF TypeOK
<1>6. Dispatched /\ DecodesAsSent /\ Rank
  BY <1>3 DEF Dispatched, DecodesAsSent, Rank
<1> QED BY <1>5, <1>6 DEF IndInv

\* Every step keeps IndInv.
LEMMA StepIndInv ==
    ASSUME IndInv, [Next]_vars
    PROVE  IndInv'
<1>1. CASE Main
  BY <1>1, DispatchMbsfnStep, DispatchCasStep DEF Main
<1>2. ASSUME NEW w \in Proc, Work(w) PROVE IndInv'
  BY <1>2, ConfigStep, PduStep, EndStep DEF Work
<1>3. CASE UNCHANGED vars
  BY <1>3 DEF vars, IndInv, TypeOK, Dispatched, DecodesAsSent, Rank, Behind
<1> QED BY <1>1, <1>2, <1>3 DEF Next

\* IndInv is inductive.
THEOREM Inductive == Spec => []IndInv
<1>1. IndInv /\ [Next]_vars => IndInv'
  BY StepIndInv
<1> QED BY <1>1, InitIndInv, PTL DEF Spec

\* The variables keep their types and _sched_stop_mutex is held by the worker in the
\* loop that takes it, for every number of processors and every carrier.
THEOREM TypeCorrect == Spec => []TypeOK
BY Inductive, PTL DEF IndInv

\* Every worker takes its subframe for the MCCH's exactly if it is, and decodes others as
\* the PMCH they were sent in, with the MCS of the signalling exactly where it is used
\* (Phy::mbsfn_config_for_tti()), for every scheduling period, allocation, MCCH
\* repetition and kind of carrier.
THEOREM AlwaysDecodesAsSent == Spec => []DecodesAsSent
BY Inductive, PTL DEF IndInv

\* No PDU is overtaken by one that is thread_cnt subframes younger: main locks the
\* processors in turn, so a busy one stops it there.
THEOREM ReorderAlwaysBounded == Spec => []ReorderBounded
<1>1. IndInv => ReorderBounded
  <2> SUFFICES ASSUME IndInv, NEW w \in Proc, work[w].pc # "idle"
               PROVE  Behind(w) < thread_cnt
    BY DEF ReorderBounded
  <2>1. Behind(w) <= (mb_idx - 1 - w) % thread_cnt
    BY DEF IndInv, Rank
  <2>2. (mb_idx - 1 - w) % thread_cnt \in 0 .. thread_cnt - 1
    BY TurnStep DEF IndInv, TypeOK
  <2>3. Behind(w) \in Nat
    <3>1. Behind(w) = Cardinality(Between(cell.dedicated, work[w].tti, tti))
      BY DEF Behind, Between
    <3>2. tti \in 0 .. TtiCount - 1
      BY DEF IndInv, TypeOK
    <3> QED BY <3>1, <3>2, WorkTypes, OneMore
  <2> QED BY <2>1, <2>2, <2>3, TtiCountPositive
<1> QED BY <1>1, Inductive, PTL

-----------------------------------------------------------------------------
(* The order of the workers                                                *)

\* Processor x was given its subframe before w was, when mb is the next in turn.
Older(mb, x, w) == (x - mb) % thread_cnt < (w - mb) % thread_cnt

\* The order is a total one.
LEMMA OlderTotal ==
    ASSUME NEW i \in Proc, NEW x \in Proc, NEW y \in Proc
    PROVE  /\ x # y => Older(i, x, y) \/ Older(i, y, x)
           /\ ~(Older(i, x, y) /\ Older(i, y, x)) /\ ~Older(i, x, x)
           /\ \A z \in Proc : Older(i, x, y) /\ Older(i, y, z) => Older(i, x, z)
<1> DEFINE N == thread_cnt
           r(w) == (w - i) % N
<1>1. ASSUME NEW w \in Proc
      PROVE  r(w) \in Int /\ r(w) = IF w < i THEN w - i + N ELSE w - i
  <2>1. N \in Nat \ {0} /\ w - i \in -N .. N - 1
    BY TtiCountPositive DEF Proc
  <2> HIDE DEF N
  <2>2. (w - i) % N = IF w - i < 0 THEN (w - i) + N ELSE w - i
    BY <2>1, DiffMod
  <2> QED BY <2>1, <2>2 DEF Proc, N
<1>2. N \in Nat \ {0} /\ \A w \in Proc : w \in 0 .. N - 1
  BY TtiCountPositive DEF Proc
<1>3. \A a, b : Older(i, a, b) <=> r(a) < r(b)
  BY DEF Older
<1> HIDE DEF N, r
<1>4. x # y => r(x) # r(y)
  BY <1>1, <1>2
<1> QED BY <1>1, <1>3, <1>4

\* The turn moves on: the processor it passes is the youngest, the order of the others
\* is the same.
LEMMA OlderStep ==
    ASSUME NEW i \in Proc, NEW x \in Proc \ {i}
    PROVE  /\ Older((i + 1) % thread_cnt, x, i) /\ ~Older((i + 1) % thread_cnt, i, x)
           /\ \A y \in Proc \ {i} : Older((i + 1) % thread_cnt, x, y) <=> Older(i, x, y)
<1> DEFINE N == thread_cnt
           j == (i + 1) % N
           r(w) == (w - i) % N
           d(w) == (w - j) % N
<1>1. N \in Nat \ {0} /\ i \in 0 .. N - 1 /\ \A w \in Proc : w \in 0 .. N - 1
  BY TtiCountPositive DEF Proc
<1>2. j = IF i = N - 1 THEN 0 ELSE i + 1
  <2> HIDE DEF N
  <2> QED BY <1>1, NextMod
<1>3. ASSUME NEW w \in Proc
      PROVE  /\ r(w) = IF w < i THEN w - i + N ELSE w - i
             /\ d(w) = IF w < j THEN w - j + N ELSE w - j
  <2> HIDE DEF N, j
  <2>1. w - i \in -N .. N - 1 /\ w - j \in -N .. N - 1 /\ w \in Int /\ j \in Int
    BY <1>1, <1>2
  <2>2. /\ (w - i) % N = IF w - i < 0 THEN (w - i) + N ELSE w - i
        /\ (w - j) % N = IF w - j < 0 THEN (w - j) + N ELSE w - j
    BY <1>1, <2>1, DiffMod
  <2> QED BY <1>1, <2>1, <2>2
<1>4. \A a, b : /\ Older(i, a, b) <=> r(a) < r(b)
                /\ Older(j, a, b) <=> d(a) < d(b)
  BY DEF Older
<1> HIDE DEF N, j, r, d
<1>5. d(i) = N - 1
  BY <1>1, <1>2, <1>3
<1>6. \A w \in Proc \ {i} : r(w) \in Int /\ d(w) = r(w) - 1 /\ d(w) < N - 1
  BY <1>1, <1>2, <1>3
<1>7. Older(j, x, i) /\ ~Older(j, i, x)
  BY <1>1, <1>4, <1>5, <1>6
<1>8. \A y \in Proc \ {i} : Older(j, x, y) <=> Older(i, x, y)
  BY <1>4, <1>6
<1> QED BY <1>7, <1>8 DEF j, N

-----------------------------------------------------------------------------
(* The order of the subframes                                              *)

\* The number of a subframe is a natural one, and the one the code computes.
LEMMA IndexType ==
    ASSUME NEW c \in Cells, NEW t \in Nat
    PROVE  /\ TxIndex(c, t) \in Nat /\ PeriodOf(t) \in {0, 1}
           /\ is_mbsfn_subframe(c.dedicated, t) => IndexOf(c.dedicated, t) = TxIndex(c, t)
<1> DEFINE u == t % (10 * Period)
           S == {v \in 0 .. u - 1 : is_mbsfn_subframe(c.dedicated, v)}
<1>1. c.dedicated \in BOOLEAN
  BY CellsAssumption
<1>2. u \in 0 .. 10 * Period - 1 /\ u \in Nat
  BY InPeriod, PeriodAssumption
<1>3. TxIndex(c, t) = Cardinality(S)
  BY <1>1, <1>2 DEF TxIndex, TxNumber
<1> HIDE DEF u
<1>4. IsFiniteSet(0 .. u - 1) /\ S \subseteq 0 .. u - 1
  <2>1. IsFiniteSet(0 .. u - 1)
    <3>1. 0 \in Int /\ u - 1 \in Int
      BY <1>2
    <3> QED BY <3>1, FS_Interval
  <2> QED BY <2>1
<1> HIDE DEF S
<1>5. TxIndex(c, t) \in Nat
  BY <1>3, <1>4, FS_Subset, FS_CardinalityType
<1>6. PeriodOf(t) \in {0, 1}
  BY PeriodAssumption DEF PeriodOf
<1>7. is_mbsfn_subframe(c.dedicated, t) => IndexOf(c.dedicated, t) = TxIndex(c, t)
  BY <1>1, ClosedFormula DEF TxIndex
<1> QED BY <1>5, <1>6, <1>7

\* The next TTI starts a period, or it is in the same one and its number has grown by
\* one after an MBSFN subframe only.
LEMMA NextIndex ==
    ASSUME NEW c \in Cells, NEW t \in 0 .. TtiCount - 1
    PROVE  LET t2 == (t + 1) % TtiCount
           IN  \/ TxIndex(c, t2) = 0
               \/ /\ t2 = t + 1 /\ PeriodOf(t2) = PeriodOf(t)
                  /\ TxIndex(c, t2) = TxIndex(c, t) +
                       (IF is_mbsfn_subframe(c.dedicated, t) THEN 1 ELSE 0)
<1> DEFINE D == 10 * Period
           t2 == (t + 1) % TtiCount
           u == t % D
           S(x) == {v \in 0 .. x - 1 : is_mbsfn_subframe(c.dedicated, v)}
<1>1. D \in Nat \ {0} /\ t \in Nat /\ c.dedicated \in BOOLEAN /\ TtiCount \in Nat \ {0}
  BY PeriodAssumption, TtiCountPositive, CellsAssumption
<1>2. ASSUME NEW x \in Nat, NEW r, r = x % D
      PROVE  TxIndex(c, x) = Cardinality(S(r)) /\ r \in 0 .. D - 1
  <2>1. x % D \in 0 .. D - 1
    BY InPeriod
  <2> QED BY <1>1, <1>2, <2>1 DEF TxIndex, TxNumber
<1>3. Cardinality(S(0)) = 0
  <2>1. S(0) = {}
    OBVIOUS
  <2> HIDE DEF S
  <2> QED BY <2>1, FS_EmptySet
<1>4. CASE t = TtiCount - 1
  <2>1. t2 = 0
    BY <1>1, <1>4, NextMod
  <2>2. 0 % D = 0
    BY <1>1
  <2> HIDE DEF t2, D, S
  <2> QED BY <1>2, <1>3, <2>1, <2>2 DEF t2
<1>5. CASE t # TtiCount - 1
  <2>1. t2 = t + 1
    BY <1>1, <1>5, NextMod
  <2>2. t = (t \div D) * D + u /\ u \in 0 .. D - 1 /\ t \div D \in Int
    <3> HIDE DEF D
    <3> QED BY <1>1, DivModDef
  <2>3. CASE u = D - 1
    <3>1. t + 1 = ((t \div D) + 1) * D + 0 /\ 0 \in 0 .. D - 1 /\ (t \div D) + 1 \in Int
      <4> DEFINE a == t \div D
      <4> HIDE DEF a, D
      <4> QED BY <1>1, <2>2, <2>3
    <3>2. (t + 1) % D = 0
      <4> HIDE DEF D
      <4> QED BY <1>1, <3>1, DivModUnique
    <3>3. TxIndex(c, t + 1) = Cardinality(S(0))
      <4> HIDE DEF D, S
      <4> QED BY <1>1, <1>2, <3>2
    <3> QED BY <1>3, <2>1, <3>3
  <2>4. CASE u # D - 1
    <3>1. t + 1 = (t \div D) * D + (u + 1) /\ u + 1 \in 0 .. D - 1
      <4> DEFINE a == t \div D
      <4> HIDE DEF a, D, u
      <4> QED BY <1>1, <2>2, <2>4
    <3>2. (t + 1) % D = u + 1 /\ (t + 1) \div D = t \div D
      <4> DEFINE a == t \div D
                 x == u + 1
      <4>1. t + 1 = a * D + x /\ x \in 0 .. D - 1 /\ a \in Int
        BY <2>2, <3>1
      <4> HIDE DEF D, a, x
      <4>2. (t + 1) % D = x /\ (t + 1) \div D = a
        BY <1>1, <4>1, DivModUnique
      <4> QED BY <4>2 DEF a, x
    <3>3. PeriodOf(t + 1) = PeriodOf(t)
      BY <3>2 DEF PeriodOf
    <3>4. TxIndex(c, t) = Cardinality(S(u)) /\ TxIndex(c, t + 1) = Cardinality(S(u + 1))
      <4> HIDE DEF D, S
      <4> QED BY <1>1, <1>2, <3>2
    <3>5. is_mbsfn_subframe(c.dedicated, u) <=> is_mbsfn_subframe(c.dedicated, t)
      <4>1. u % 10 = t % 10 /\ u % 40 = t % 40
        BY <1>1, InPeriod
      <4> HIDE DEF u
      <4> QED BY <4>1 DEF is_mbsfn_subframe, is_cas_subframe
    <3>6. IsFiniteSet(S(u)) /\ u \in Nat /\ u \notin S(u) /\ Cardinality(S(u)) \in Nat
      <4>1. IsFiniteSet(0 .. u - 1) /\ S(u) \subseteq 0 .. u - 1 /\ u \in Nat
        <5>1. u \in Nat /\ 0 \in Int /\ u - 1 \in Int
          BY <1>1, <2>2
        <5> HIDE DEF u
        <5>2. IsFiniteSet(0 .. u - 1)
          BY <5>1, FS_Interval
        <5> QED BY <5>1, <5>2
      <4>2. u \notin 0 .. u - 1
        BY <4>1
      <4> HIDE DEF S, u
      <4> QED BY <4>1, <4>2, FS_Subset, FS_CardinalityType
    <3>7. S(u + 1) = IF is_mbsfn_subframe(c.dedicated, u) THEN S(u) \union {u} ELSE S(u)
      <4> HIDE DEF u
      <4>1. 0 .. (u + 1) - 1 = (0 .. u - 1) \union {u}
        BY <3>6
      <4> QED BY <4>1
    <3>8. Cardinality(S(u) \union {u}) = Cardinality(S(u)) + 1
      <4> HIDE DEF S, u
      <4> QED BY <3>6, FS_AddElement
    <3> HIDE DEF S, u
    <3>9. TxIndex(c, t + 1) = TxIndex(c, t) + (IF is_mbsfn_subframe(c.dedicated, t) THEN 1 ELSE 0)
      BY <3>4, <3>5, <3>6, <3>7, <3>8
    <3> QED BY <2>1, <3>3, <3>9
  <2> QED BY <2>3, <2>4
<1> QED BY <1>4, <1>5

\* A subframe after t that stops an MTCH is one from the next TTI on.
LEMMA EndsStep ==
    ASSUME NEW c \in Cells, NEW t \in 0 .. TtiCount - 1, NEW s \in Nat, Ends(c, t, s) # {},
           ~(HasMtch(c, t) /\ TxIndex(c, t) >= s)
    PROVE  LET t2 == (t + 1) % TtiCount
           IN  t2 = t + 1 /\ PeriodOf(t2) = PeriodOf(t) /\ Ends(c, t2, s) # {}
<1> DEFINE D == 10 * Period
           a == t \div D
<1>1. PICK u \in t .. TtiCount - 1 : SamePeriod(t, u) /\ HasMtch(c, u) /\ TxIndex(c, u) >= s
  BY DEF Ends
<1>2. u # t /\ u \in t + 1 .. TtiCount - 1 /\ t \in Nat /\ u \in Nat /\ TtiCount \in Nat \ {0}
  BY <1>1, TtiCountPositive
<1>3. D \in Nat \ {0}
  BY PeriodAssumption
<1>4. (t + 1) % TtiCount = t + 1
  <2>1. t # TtiCount - 1 /\ t \in 0 .. TtiCount - 1
    BY <1>2
  <2> QED BY <1>2, <2>1, NextMod
<1>5. u \div D = a
  BY <1>1 DEF SamePeriod
<1>6. /\ t = a * D + (t % D) /\ t % D \in 0 .. D - 1 /\ a \in Int
      /\ u = a * D + (u % D) /\ u % D \in 0 .. D - 1
  <2>1. /\ t = (t \div D) * D + (t % D) /\ t % D \in 0 .. D - 1 /\ t \div D \in Int
        /\ u = (u \div D) * D + (u % D) /\ u % D \in 0 .. D - 1
    <3> HIDE DEF D, a
    <3> QED BY <1>2, <1>3, DivModDef
  <2> HIDE DEF D
  <2> QED BY <2>1, <1>5
<1>7. t + 1 = a * D + ((t % D) + 1) /\ (t % D) + 1 \in 0 .. D - 1
  <2> DEFINE b == a * D
             x == t % D
             y == u % D
  <2>1. t = b + x /\ u = b + y /\ x \in 0 .. D - 1 /\ y \in 0 .. D - 1 /\ b \in Int
    BY <1>3, <1>6
  <2> HIDE DEF b, x, y, D, a
  <2>2. t + 1 = b + (x + 1) /\ x + 1 \in 0 .. D - 1
    BY <1>2, <1>3, <2>1
  <2> QED BY <2>2 DEF b, x
<1>8. (t + 1) \div D = a
  <2> DEFINE x == (t % D) + 1
  <2>1. t + 1 = a * D + x /\ x \in 0 .. D - 1
    BY <1>7
  <2> HIDE DEF D, a, x
  <2> QED BY <1>3, <1>6, <2>1, DivModUnique
<1>9. PeriodOf(t + 1) = PeriodOf(t) /\ SamePeriod(t + 1, u)
  BY <1>5, <1>8 DEF PeriodOf, SamePeriod
<1>10. u \in Ends(c, t + 1, s)
  BY <1>1, <1>2, <1>9 DEF Ends
<1> QED BY <1>4, <1>9, <1>10

-----------------------------------------------------------------------------
(* What a subframe of a carrier with one PMCH carries                      *)

\* The one PMCH of a carrier has the first subframes of every period.
LEMMA OnePmch ==
    ASSUME NEW c \in Cells, Len(c.end) = 1, NEW t \in Nat
    PROVE  /\ c.end[1] \in Nat /\ TxFirst(c, 1) = 0 /\ TxPmch(c, t) \in {0, 1}
           /\ TxPmch(c, t) = 1 <=> TxIndex(c, t) <= c.end[1]
<1>1. c.end \in Seq(Nat)
  BY CellsAssumption
<1>2. DOMAIN c.end = {1} /\ c.end[1] \in Nat
  BY <1>1, LenProperties
<1>3. TxFirst(c, 1) = 0
  BY DEF TxFirst
<1>4. TxIndex(c, t) \in Nat
  BY IndexType
<1> DEFINE n == TxIndex(c, t)
<1> HIDE DEF n
<1>5. PmchAt(c, n) = IF n \in 0 .. c.end[1] THEN 1 ELSE 0
  BY <1>2, <1>3 DEF PmchAt
<1>6. TxPmch(c, t) = PmchAt(c, n)
  BY DEF TxPmch, n
<1> QED BY <1>2, <1>3, <1>4, <1>5, <1>6 DEF n

MsiEntry(m) == [ce |-> TRUE, lcid |-> m.lcid, stop |-> m.stop]
Sdu(l) == [ce |-> FALSE, lcid |-> l, stop |-> 0]

\* The scheduling information in the first subframe, then one SDU at most.
LEMMA SentParts ==
    ASSUME NEW c \in Cells, Len(c.end) = 1, NEW t \in 0 .. TtiCount - 1
    PROVE  LET m == SentMtchs(c, 1, t)
               n == TxIndex(c, t)
           IN  \E A, B \in Seq(Entry(c)) :
                 /\ Sent(c, t) = A \o B /\ Len(B) <= 1
                 /\ Range(A) = IF n = 0 THEN {MsiEntry(m[k]) : k \in DOMAIN m} ELSE {}
                 /\ \/ TxIsMcch(c, t) /\ Range(B) = {Sdu(McchLcid)}
                    \/ /\ ~TxIsMcch(c, t) /\ TxPmch(c, t) = 1
                       /\ \E k \in DOMAIN m : n <= m[k].stop /\ Range(B) = {Sdu(m[k].lcid)}
                    \/ /\ ~TxIsMcch(c, t) /\ Range(B) = {}
                       /\ ~(TxPmch(c, t) = 1 /\ \E k \in DOMAIN m : n <= m[k].stop)
<1> DEFINE i == TxPmch(c, t)
           n == TxIndex(c, t)
           m == SentMtchs(c, 1, t)
           x == n - TxFirst(c, i)
           mtchs == IF i = 0 THEN <<>> ELSE SentMtchs(c, i, t)
           msi == [k \in DOMAIN mtchs |->
                     [ce |-> TRUE, lcid |-> mtchs[k].lcid, stop |-> mtchs[k].stop]]
           left == {k \in DOMAIN mtchs : x <= mtchs[k].stop}
           first == CHOOSE k \in left : \A j \in left : k <= j
           A == IF i # 0 /\ x = 0 THEN msi ELSE <<>>
           B == IF TxIsMcch(c, t) THEN <<Sdu(McchLcid)>>
                ELSE IF left = {} THEN <<>> ELSE <<Sdu(mtchs[first].lcid)>>
           R == [lcid : Nat, stop : Nat]
<1>0. t \in Nat /\ n \in Nat /\ PeriodOf(t) \in {0, 1}
  BY TtiCountPositive, IndexType
<1>1. Sent(c, t) = A \o B
  BY DEF Sent, Sdu
<1>2. /\ i \in {0, 1} /\ (i = 1 <=> n <= c.end[1]) /\ c.end[1] \in Nat
      /\ TxFirst(c, 1) = 0
  BY <1>0, OnePmch
<1>3. /\ m \in Seq(R) /\ \A k \in DOMAIN m : m[k].lcid \in Lcids(c)
      /\ McchLcid \in Lcids(c)
  <2>1. 1 \in 1 .. Len(c.end)
    OBVIOUS
  <2> QED BY <1>0, <2>1, CellTypes DEF SentMtchs
<1>4. i = 1 => mtchs = m /\ x = n
  BY <1>0, <1>2
<1>5. i = 0 => mtchs = <<>>
  OBVIOUS
<1>6. n = 0 => i = 1
  BY <1>2
<1> HIDE DEF i, n, m, x, mtchs
<1>7. Len(m) \in Nat /\ DOMAIN m = 1 .. Len(m) /\ m \in [1 .. Len(m) -> R]
  BY <1>3, LenProperties
<1>8. DOMAIN mtchs \subseteq Nat
  BY <1>2, <1>4, <1>5, <1>7
<1>9. left # {} => first \in left
  <2> SUFFICES ASSUME left # {} PROVE first \in left
    OBVIOUS
  <2>1. left \subseteq Nat
    BY <1>8
  <2> HIDE DEF left
  <2>2. \E k \in left : \A j \in left : k <= j
    BY <2>1, NatMin
  <2> QED BY <2>2
<1>10. /\ A \in Seq(Entry(c))
       /\ Range(A) = IF n = 0 THEN {MsiEntry(m[k]) : k \in DOMAIN m} ELSE {}
  <2>1. CASE n = 0
    <3>1. A = [k \in DOMAIN m |-> MsiEntry(m[k])]
      BY <1>2, <1>4, <1>6, <2>1 DEF MsiEntry
    <3>2. A \in [1 .. Len(m) -> Entry(c)]
      BY <1>3, <1>7, <3>1 DEF Entry, MsiEntry
    <3> HIDE DEF A
    <3>3. Range(A) = {MsiEntry(m[k]) : k \in DOMAIN m}
      <4>1. DOMAIN A = DOMAIN m /\ \A k \in DOMAIN m : A[k] = MsiEntry(m[k])
        BY <3>1
      <4> QED BY <4>1 DEF Range
    <3> QED BY <1>7, <2>1, <3>2, <3>3, SeqDef
  <2>2. CASE n # 0
    <3>1. A = <<>>
      BY <1>2, <1>4, <2>2
    <3> QED BY <2>2, <3>1, EmptySeq DEF Range
  <2> QED BY <2>1, <2>2
<1>11. \A l \in Lcids(c) : <<Sdu(l)>> \in Seq(Entry(c)) /\ Len(<<Sdu(l)>>) = 1 /\ Range(<<Sdu(l)>>) = {Sdu(l)}
  <2> SUFFICES ASSUME NEW l \in Lcids(c)
               PROVE  <<Sdu(l)>> \in Seq(Entry(c)) /\ Len(<<Sdu(l)>>) = 1 /\ Range(<<Sdu(l)>>) = {Sdu(l)}
    OBVIOUS
  <2>1. Sdu(l) \in Entry(c)
    BY DEF Sdu, Entry
  <2> QED BY <2>1 DEF Range
<1>12. CASE TxIsMcch(c, t)
  <2>1. B = <<Sdu(McchLcid)>>
    BY <1>12
  <2> HIDE DEF A, B
  <2>2. B \in Seq(Entry(c)) /\ Len(B) <= 1 /\ Range(B) = {Sdu(McchLcid)}
    BY <1>3, <1>11, <2>1
  <2> QED BY <1>1, <1>10, <1>12, <2>2 DEF n, m
<1>13. CASE ~TxIsMcch(c, t) /\ left # {}
  <2>1. first \in DOMAIN mtchs /\ x <= mtchs[first].stop /\ B = <<Sdu(mtchs[first].lcid)>>
    <3>1. first \in left
      BY <1>9, <1>13
    <3>2. B = <<Sdu(mtchs[first].lcid)>>
      BY <1>13
    <3> HIDE DEF first
    <3> QED BY <3>1, <3>2
  <2>2. i = 1
    BY <1>2, <1>5, <2>1
  <2> HIDE DEF first, left
  <2>3. first \in DOMAIN m /\ n <= m[first].stop /\ B = <<Sdu(m[first].lcid)>> /\ m[first].lcid \in Lcids(c)
    BY <1>3, <1>4, <2>1, <2>2
  <2>4. B \in Seq(Entry(c)) /\ Len(B) <= 1 /\ Range(B) = {Sdu(m[first].lcid)}
    BY <1>11, <2>3
  <2> HIDE DEF A, B
  <2> QED BY <1>1, <1>10, <1>13, <2>2, <2>3, <2>4 DEF n, m, i
<1>14. CASE ~TxIsMcch(c, t) /\ left = {}
  <2>1. B = <<>>
    BY <1>14
  <2>2. ~(i = 1 /\ \E k \in DOMAIN m : n <= m[k].stop)
    BY <1>4, <1>14
  <2> HIDE DEF A, B
  <2>3. B \in Seq(Entry(c)) /\ Len(B) <= 1 /\ Range(B) = {}
    <3>1. <<>> \in Seq(Entry(c)) /\ Len(<<>>) = 0
      BY EmptySeq
    <3>2. DOMAIN B = {}
      BY <2>1, <3>1, LenProperties
    <3> QED BY <2>1, <3>1, <3>2 DEF Range
  <2> QED BY <1>1, <1>10, <1>14, <2>2, <2>3 DEF n, m, i
<1> QED BY <1>12, <1>13, <1>14

\* What the steps of process() need of it.
LEMMA SentFacts ==
    ASSUME NEW c \in Cells, Len(c.end) = 1, NEW t \in 0 .. TtiCount - 1,
           is_mbsfn_subframe(c.dedicated, t)
    PROVE  LET m == SentMtchs(c, 1, t)
               n == TxIndex(c, t)
               S == Sent(c, t)
           IN  /\ \A e \in Range(S) :
                    /\ e.ce => n = 0 /\ \E k \in DOMAIN m : e.lcid = m[k].lcid /\ e.stop = m[k].stop
                    /\ ~e.ce /\ e.lcid # McchLcid =>
                         /\ HasMtch(c, t)
                         /\ \E k \in DOMAIN m : e.lcid = m[k].lcid /\ n <= m[k].stop
                    /\ ~e.ce /\ e.lcid = McchLcid => TxIsMcch(c, t)
                    /\ e.ce => e.lcid # McchLcid
               /\ n = 0 => \A k \in DOMAIN m : MsiEntry(m[k]) \in Range(S)
               /\ HasMtch(c, t) => \E e \in Range(S) : ~e.ce
               /\ HasMtch(c, t) => CarriesMtch(c, t)
               /\ (\E e \in Range(S) : e.ce) => CarriesMtch(c, t)
               /\ S \in Seq(Entry(c)) /\ \A j \in 1 .. Len(S) - 1 : S[j].ce
<1> DEFINE m == SentMtchs(c, 1, t)
           n == TxIndex(c, t)
           S == Sent(c, t)
<1>1. PICK A \in Seq(Entry(c)), B \in Seq(Entry(c)) :
        /\ S = A \o B /\ Len(B) <= 1
        /\ Range(A) = IF n = 0 THEN {MsiEntry(m[k]) : k \in DOMAIN m} ELSE {}
        /\ \/ TxIsMcch(c, t) /\ Range(B) = {Sdu(McchLcid)}
           \/ /\ ~TxIsMcch(c, t) /\ TxPmch(c, t) = 1
              /\ \E k \in DOMAIN m : n <= m[k].stop /\ Range(B) = {Sdu(m[k].lcid)}
           \/ /\ ~TxIsMcch(c, t) /\ Range(B) = {}
              /\ ~(TxPmch(c, t) = 1 /\ \E k \in DOMAIN m : n <= m[k].stop)
  BY SentParts
<1>2. \A k \in DOMAIN m : m[k].lcid # McchLcid
  BY PlanAssumption
<1>3. Range(S) = Range(A) \union Range(B)
  BY <1>1, RangeConcatenation
<1>4. HasMtch(c, t) <=> ~TxIsMcch(c, t) /\ TxPmch(c, t) = 1 /\ \E k \in DOMAIN m : n <= m[k].stop
  BY DEF HasMtch
<1>5. \A k \in DOMAIN m : /\ MsiEntry(m[k]).ce /\ MsiEntry(m[k]).lcid = m[k].lcid
                          /\ MsiEntry(m[k]).stop = m[k].stop
  BY DEF MsiEntry
<1>6. \A l : ~Sdu(l).ce /\ Sdu(l).lcid = l
  BY DEF Sdu
<1>7. /\ Range(S) = {S[k] : k \in DOMAIN S}
      /\ CarriesMtch(c, t) <=> \E k \in DOMAIN S : S[k].ce \/ S[k].lcid # McchLcid
  BY DEF CarriesMtch, Range
<1>8. /\ S \in Seq(Entry(c)) /\ Len(S) = Len(A) + Len(B) /\ Len(A) \in Nat /\ Len(B) \in Nat
      /\ \A j \in 1 .. Len(A) + Len(B) : S[j] = IF j <= Len(A) THEN A[j] ELSE B[j - Len(A)]
  BY <1>1, ConcatProperties, LenProperties
<1>9. Range(A) = {A[j] : j \in DOMAIN A} /\ DOMAIN A = 1 .. Len(A)
  BY LenProperties DEF Range
<1> HIDE DEF m, n, S
<1>10. \A e \in Range(A) : n = 0 /\ \E k \in DOMAIN m : e = MsiEntry(m[k])
  BY <1>1
<1>11. \A e \in Range(B) :
         \/ e = Sdu(McchLcid) /\ TxIsMcch(c, t)
         \/ \E k \in DOMAIN m : HasMtch(c, t) /\ n <= m[k].stop /\ e = Sdu(m[k].lcid)
  BY <1>1, <1>4
<1>12. \A j \in 1 .. Len(S) - 1 : S[j].ce
  <2> SUFFICES ASSUME NEW j \in 1 .. Len(S) - 1 PROVE S[j].ce
    OBVIOUS
  <2>1. j \in 1 .. Len(A) /\ S[j] = A[j]
    BY <1>1, <1>8
  <2>2. S[j] \in Range(A)
    BY <1>9, <2>1
  <2> QED BY <1>5, <1>10, <2>2
<1>13. ASSUME NEW e \in Range(S)
       PROVE  /\ e.ce => n = 0 /\ \E k \in DOMAIN m : e.lcid = m[k].lcid /\ e.stop = m[k].stop
              /\ ~e.ce /\ e.lcid # McchLcid =>
                   /\ HasMtch(c, t)
                   /\ \E k \in DOMAIN m : e.lcid = m[k].lcid /\ n <= m[k].stop
              /\ ~e.ce /\ e.lcid = McchLcid => TxIsMcch(c, t)
              /\ e.ce => e.lcid # McchLcid
  <2>1. CASE e \in Range(A)
    BY <1>2, <1>5, <1>10, <2>1
  <2>2. CASE e \in Range(B)
    BY <1>2, <1>6, <1>11, <2>2
  <2> QED BY <1>3, <2>1, <2>2
<1>14. n = 0 => \A k \in DOMAIN m : MsiEntry(m[k]) \in Range(S)
  BY <1>1, <1>3
<1>15. HasMtch(c, t) => \E e \in Range(S) : ~e.ce /\ e.lcid # McchLcid
  <2> SUFFICES ASSUME HasMtch(c, t) PROVE \E e \in Range(S) : ~e.ce /\ e.lcid # McchLcid
    OBVIOUS
  <2>1. PICK k \in DOMAIN m : Range(B) = {Sdu(m[k].lcid)}
    BY <1>1, <1>4
  <2> QED BY <1>2, <1>3, <1>6, <2>1
<1>16. (\E e \in Range(S) : e.ce \/ e.lcid # McchLcid) => CarriesMtch(c, t)
  BY <1>7
<1> QED BY <1>8, <1>12, <1>13, <1>14, <1>15, <1>16 DEF m, n, S

-----------------------------------------------------------------------------
(* What is still to come for an MTCH                                       *)

Busy(wk) == {w \in Proc : wk[w].pc # "idle"}

\* No busy worker has an older subframe.
First(wk, mb, w) == \A x \in Busy(wk) : ~Older(mb, x, w)

\* The entries and SDUs of its subframe that a worker has not handled yet.
Left(c, r) ==
    IF r.pc \in {"config", "decode"} THEN Range(Sent(c, r.tti))
    ELSE IF r.pc = "pdu" THEN Range(r.todo) ELSE {}

\* Subframe t is one of period q that stops an MTCH ending at s.
StopsAt(c, t, q, s) == HasMtch(c, t) /\ PeriodOf(t) = q /\ TxIndex(c, t) >= s

\* Among the workers B, or else after all of them, one stops an MTCH of period q that
\* ends at s, and no other period comes before it.
Coming(c, t, wk, mb, B, q, s) ==
    \/ \E v \in B : /\ StopsAt(c, wk[v].tti, q, s)
                    /\ \A x \in B : Older(mb, x, v) => PeriodOf(wk[x].tti) = q
    \/ PeriodOf(t) = q /\ Ends(c, t, s) # {} /\ \A x \in B : PeriodOf(wk[x].tti) = q

\* Worker x has a subframe of period p before the one with number n.
Earlier(c, wk, x, p, n) == PeriodOf(wk[x].tti) = p /\ TxIndex(c, wk[x].tti) < n

HasCe(c, r, l) == \E f \in Left(c, r) : f.ce /\ f.lcid = l

\* Of the workers B, one has still to note the end of MTCH l of period p, or it is
\* known; and only earlier subframes of the period come after that.
MsiSeen(c, wk, mb, known, B, p, n, l) ==
    \/ \E v \in B : /\ HasCe(c, wk[v], l)
                    /\ \A x \in B : ~Older(mb, x, v) => Earlier(c, wk, x, p, n)
    \/ known /\ \A x \in B : Earlier(c, wk, x, p, n)

\* A worker that does not stop the MTCH returns: the one that does is still to come.
LEMMA ComingKept ==
    ASSUME NEW c, NEW t, NEW mb, NEW wk, NEW wk2, NEW B, NEW B2, NEW q, NEW s,
           Coming(c, t, wk, mb, B, q, s),
           B2 \subseteq B, \A x \in B2 : wk2[x].tti = wk[x].tti,
           \A v \in B \ B2 : ~StopsAt(c, wk[v].tti, q, s)
    PROVE  Coming(c, t, wk2, mb, B2, q, s)
BY DEF Coming

\* Main gives its subframe to the next processor.
LEMMA ComingDispatch ==
    ASSUME NEW c \in Cells, NEW t \in 0 .. TtiCount - 1, NEW mb \in Proc, NEW wk, NEW wk2,
           NEW B \in SUBSET (Proc \ {mb}), NEW q, NEW s \in Nat,
           Coming(c, t, wk, mb, B, q, s),
           wk2[mb].tti = t, \A x \in B : wk2[x].tti = wk[x].tti
    PROVE  Coming(c, (t + 1) % TtiCount, wk2, (mb + 1) % thread_cnt, B \union {mb}, q, s)
<1> DEFINE t2 == (t + 1) % TtiCount
           mb2 == (mb + 1) % thread_cnt
<1>1. ASSUME NEW v \in B, StopsAt(c, wk[v].tti, q, s),
             \A x \in B : Older(mb, x, v) => PeriodOf(wk[x].tti) = q
      PROVE  Coming(c, t2, wk2, mb2, B \union {mb}, q, s)
  <2>1. StopsAt(c, wk2[v].tti, q, s)
    BY <1>1
  <2>2. ASSUME NEW x \in B \union {mb}, Older(mb2, x, v) PROVE PeriodOf(wk2[x].tti) = q
    <3>1. x # mb /\ x \in Proc \ {mb} /\ v \in Proc \ {mb}
      BY <2>2, OlderStep
    <3>2. Older(mb, x, v)
      BY <2>2, <3>1, OlderStep
    <3> QED BY <1>1, <3>1, <3>2
  <2> QED BY <2>1, <2>2 DEF Coming
<1>2. ASSUME PeriodOf(t) = q, Ends(c, t, s) # {}, \A x \in B : PeriodOf(wk[x].tti) = q
      PROVE  Coming(c, t2, wk2, mb2, B \union {mb}, q, s)
  <2>1. \A x \in B \union {mb} : PeriodOf(wk2[x].tti) = q
    BY <1>2
  <2>2. CASE HasMtch(c, t) /\ TxIndex(c, t) >= s
    BY <1>2, <2>1, <2>2 DEF Coming, StopsAt
  <2>3. CASE ~(HasMtch(c, t) /\ TxIndex(c, t) >= s)
    <3>1. PeriodOf(t2) = q /\ Ends(c, t2, s) # {}
      BY <1>2, <2>3, EndsStep
    <3> QED BY <2>1, <3>1 DEF Coming
  <2> QED BY <2>2, <2>3
<1> QED BY <1>1, <1>2 DEF Coming

\* Main passes a CAS subframe.
LEMMA ComingCas ==
    ASSUME NEW c \in Cells, NEW t \in 0 .. TtiCount - 1, NEW mb, NEW wk, NEW B, NEW q,
           NEW s \in Nat, Coming(c, t, wk, mb, B, q, s), ~is_mbsfn_subframe(c.dedicated, t)
    PROVE  Coming(c, (t + 1) % TtiCount, wk, mb, B, q, s)
<1>1. ~HasMtch(c, t)
  BY DEF HasMtch
<1>2. Ends(c, t, s) # {} =>
        PeriodOf((t + 1) % TtiCount) = PeriodOf(t) /\ Ends(c, (t + 1) % TtiCount, s) # {}
  BY <1>1, EndsStep
<1> QED BY <1>2 DEF Coming

\* The first of the workers has a subframe of the period of the one that is coming.
LEMMA ComingFirst ==
    ASSUME NEW c, NEW t, NEW mb \in Proc, NEW wk, NEW B \in SUBSET Proc, NEW q, NEW s,
           Coming(c, t, wk, mb, B, q, s), NEW w \in B, \A x \in B : ~Older(mb, x, w)
    PROVE  PeriodOf(wk[w].tti) = q
<1>1. ASSUME NEW v \in B, StopsAt(c, wk[v].tti, q, s),
             \A x \in B : Older(mb, x, v) => PeriodOf(wk[x].tti) = q
      PROVE  PeriodOf(wk[w].tti) = q
  <2>1. v = w \/ Older(mb, w, v)
    BY OlderTotal
  <2> QED BY <1>1, <2>1 DEF StopsAt
<1> QED BY <1>1 DEF Coming

\* Workers that had no entry for the MTCH left return.
LEMMA MsiSeenKept ==
    ASSUME NEW c, NEW mb, NEW wk, NEW wk2, NEW known, NEW known2, NEW B, NEW B2,
           NEW p, NEW n, NEW l, MsiSeen(c, wk, mb, known, B, p, n, l),
           B2 \subseteq B, \A x \in B2 : wk2[x].tti = wk[x].tti,
           \A v \in B : HasCe(c, wk[v], l) => v \in B2 /\ HasCe(c, wk2[v], l),
           known /\ (\A x \in B : Earlier(c, wk, x, p, n)) => known2
    PROVE  MsiSeen(c, wk2, mb, known2, B2, p, n, l)
<1>1. \A x \in B2 : Earlier(c, wk, x, p, n) => Earlier(c, wk2, x, p, n)
  BY DEF Earlier
<1> QED BY <1>1 DEF MsiSeen

\* The first worker notes the end of an MTCH.
LEMMA MsiSeenNoted ==
    ASSUME NEW c, NEW mb \in Proc, NEW wk, NEW wk2, NEW known, NEW known2,
           NEW B \in SUBSET Proc, NEW p, NEW n, NEW l, MsiSeen(c, wk, mb, known, B, p, n, l),
           \A x \in B : wk2[x].tti = wk[x].tti,
           NEW w \in B, \A x \in B : ~Older(mb, x, w),
           \A v \in B \ {w} : HasCe(c, wk[v], l) => HasCe(c, wk2[v], l),
           PeriodOf(wk[w].tti) = p => known2
    PROVE  MsiSeen(c, wk2, mb, known2, B, p, n, l)
<1>1. \A x \in B : Earlier(c, wk, x, p, n) => Earlier(c, wk2, x, p, n)
  BY DEF Earlier
<1>2. \A x \in B : Earlier(c, wk, x, p, n) => PeriodOf(wk[x].tti) = p
  BY DEF Earlier
<1>3. CASE known /\ \A x \in B : Earlier(c, wk, x, p, n)
  BY <1>1, <1>2, <1>3 DEF MsiSeen
<1>4. ASSUME NEW v \in B, HasCe(c, wk[v], l),
             \A x \in B : ~Older(mb, x, v) => Earlier(c, wk, x, p, n)
      PROVE  MsiSeen(c, wk2, mb, known2, B, p, n, l)
  <2>1. CASE v = w
    <3>1. \A x \in B : Earlier(c, wk, x, p, n)
      BY <1>4, <2>1
    <3> QED BY <1>1, <1>2, <3>1 DEF MsiSeen
  <2>2. CASE v # w
    BY <1>1, <1>4, <2>2 DEF MsiSeen
  <2> QED BY <2>1, <2>2
<1> QED BY <1>3, <1>4 DEF MsiSeen

\* Main goes on; the workers are the same.
LEMMA MsiSeenTurn ==
    ASSUME NEW c, NEW mb \in Proc, NEW wk, NEW wk2, NEW known,
           NEW B \in SUBSET (Proc \ {mb}), NEW p, NEW n, NEW l,
           MsiSeen(c, wk, mb, known, B, p, n, l), \A x \in B : wk2[x] = wk[x]
    PROVE  MsiSeen(c, wk2, (mb + 1) % thread_cnt, known, B, p, n, l)
<1>1. \A x, y \in B : Older((mb + 1) % thread_cnt, x, y) <=> Older(mb, x, y)
  BY OlderStep
<1>2. \A x \in B : /\ Earlier(c, wk, x, p, n) <=> Earlier(c, wk2, x, p, n)
                   /\ HasCe(c, wk[x], l) <=> HasCe(c, wk2[x], l)
  BY DEF Earlier, HasCe
<1> QED BY <1>1, <1>2 DEF MsiSeen

\* Main goes on, and gives the subframe with number n to the next processor.
LEMMA MsiSeenDispatch ==
    ASSUME NEW c \in Cells, NEW mb \in Proc, NEW wk, NEW wk2, NEW known,
           NEW B \in SUBSET (Proc \ {mb}), NEW p, NEW n \in Nat, NEW l,
           MsiSeen(c, wk, mb, known, B, p, n, l),
           \A x \in B : wk2[x] = wk[x] /\ wk[x].tti \in Nat,
           PeriodOf(wk2[mb].tti) = p, TxIndex(c, wk2[mb].tti) = n
    PROVE  MsiSeen(c, wk2, (mb + 1) % thread_cnt, known, B \union {mb}, p, n + 1, l)
<1> DEFINE mb2 == (mb + 1) % thread_cnt
<1>1. \A x, y \in B : Older(mb2, x, y) <=> Older(mb, x, y)
  BY OlderStep
<1>2. \A x \in B : HasCe(c, wk[x], l) <=> HasCe(c, wk2[x], l)
  BY DEF HasCe
<1>3. \A x \in B : Earlier(c, wk, x, p, n) => Earlier(c, wk2, x, p, n + 1)
  <2> SUFFICES ASSUME NEW x \in B, Earlier(c, wk, x, p, n)
               PROVE  Earlier(c, wk2, x, p, n + 1)
    OBVIOUS
  <2>1. TxIndex(c, wk[x].tti) \in Nat
    BY IndexType
  <2> QED BY <2>1 DEF Earlier
<1>4. Earlier(c, wk2, mb, p, n + 1)
  BY DEF Earlier
<1> HIDE DEF mb2
<1>5. MsiSeen(c, wk2, mb2, known, B \union {mb}, p, n + 1, l)
  BY <1>1, <1>2, <1>3, <1>4 DEF MsiSeen
<1> QED BY <1>5 DEF mb2

-----------------------------------------------------------------------------
(* Workers that are not overtaken                                          *)

\* The MTCHs of the one PMCH in period q, and the end of MTCH l in it.
Plan(c, q) == c.plan[q][1]
EndIn(c, q, l, s) == \E k \in DOMAIN Plan(c, q) : Plan(c, q)[k].lcid = l /\ Plan(c, q)[k].stop = s

\* A worker knows whether its subframe is the MCCH's, has handled a part of what the
\* subframe carries from its start, and the loop over the PMCHs starts with the first.
AsSent(c, r) ==
    /\ r.pc \notin {"idle", "config"} => (r.is_mcch <=> TxIsMcch(c, r.tti))
    /\ r.pc = "pdu" => /\ Range(r.todo) \subseteq Range(Sent(c, r.tti))
                       /\ \A k \in 1 .. Len(r.todo) - 1 : r.todo[k].ce
    /\ r.pc \in {"lock", "stop"} => r.i >= 1 /\ ~r.is_mcch

Faithful == Len(cell.end) = 1 => \A w \in Proc : AsSent(cell, work[w])

\* A worker that has written its MTCH was the first of those at work.
WroteInTurn ==
    \A w \in Busy(work) :
        HasMtch(cell, work[w].tti) /\ (\A e \in Left(cell, work[w]) : e.ce)
          => First(work, mb_idx, w)

\* An entry of _sched_stops is of the period whose PDUs its bearer has, and a worker
\* that erases it comes before the next period; a bearer without an entry is empty.
StopKnown ==
    \A l \in DOMAIN stops :
        /\ stops[l] = NoStop =>
             allow_rrc_sn_across_periods \/ l = McchLcid \/ rlc[<<1, l>>] = {}
        /\ stops[l] # NoStop =>
             /\ l # McchLcid
             /\ \E q \in {0, 1} :
                  /\ EndIn(cell, q, l, stops[l])
                  /\ Coming(cell, tti, work, mb_idx, Busy(work), q, stops[l])
                  /\ allow_rrc_sn_across_periods \/ rlc[<<1, l>>] \subseteq {q}

\* After an entry of the scheduling information comes the end of its MTCH.
MsiThenEnd ==
    \A w \in Busy(work) : \A e \in Left(cell, work[w]) : e.ce =>
        Coming(cell, tti, work, mb_idx, {x \in Busy(work) : ~Older(mb_idx, x, w)},
               PeriodOf(work[w].tti), e.stop)

\* Before an SDU of an MTCH comes its entry of the scheduling information.
MsiThenData ==
    \A w \in Busy(work) : \A e \in Left(cell, work[w]) : ~e.ce /\ e.lcid # McchLcid =>
        \/ HasCe(cell, work[w], e.lcid)
        \/ MsiSeen(cell, work, mb_idx, EndIn(cell, PeriodOf(work[w].tti), e.lcid, stops[e.lcid]),
                   {x \in Busy(work) : Older(mb_idx, x, w)}, PeriodOf(work[w].tti),
                   TxIndex(cell, work[w].tti), e.lcid)

\* The same for the SDUs of the subframes main has not received yet.
MsiBeforeMain ==
    \A k \in DOMAIN Plan(cell, PeriodOf(tti)) :
        LET m == Plan(cell, PeriodOf(tti))[k]
        IN  TxIndex(cell, tti) > 0 /\ TxIndex(cell, tti) <= m.stop =>
              MsiSeen(cell, work, mb_idx, EndIn(cell, PeriodOf(tti), m.lcid, stops[m.lcid]),
                      Busy(work), PeriodOf(tti), TxIndex(cell, tti), m.lcid)

\* A PDU in the MCCH's bearer is of a worker that is about to stop it.
McchInTurn ==
    \A q \in rlc[<<1, McchLcid>>] : \E w \in Busy(work) :
        /\ First(work, mb_idx, w) /\ PeriodOf(work[w].tti) = q
        /\ work[w].pc = "pdu" /\ work[w].todo = <<>> /\ work[w].is_mcch

InTurn == ~lost /\ ~overtaken /\ Len(cell.end) = 1

TurnInv ==
    InTurn => /\ WroteInTurn /\ StopKnown /\ MsiThenEnd /\ MsiThenData /\ MsiBeforeMain
              /\ McchInTurn

\* The MTCHs of a subframe are those of its period.
LEMMA PlanOf ==
    ASSUME NEW c, NEW t
    PROVE  SentMtchs(c, 1, t) = Plan(c, PeriodOf(t))
BY DEF SentMtchs, Plan

\* An MTCH has one end in a period.
LEMMA EndUnique ==
    ASSUME NEW c \in Cells, Len(c.end) = 1, NEW t \in 0 .. TtiCount - 1, NEW l, NEW s, NEW s2,
           EndIn(c, PeriodOf(t), l, s), EndIn(c, PeriodOf(t), l, s2)
    PROVE  s = s2 /\ s \in Nat /\ s # NoStop /\ l # McchLcid
<1> DEFINE m == Plan(c, PeriodOf(t))
<1>1. /\ \A j, k \in DOMAIN m : m[j].lcid = m[k].lcid => j = k
      /\ \A k \in DOMAIN m : m[k].lcid # McchLcid
  BY PlanAssumption, PlanOf
<1>2. \A k \in DOMAIN m : m[k].stop \in Nat
  <2>1. t \in Nat /\ PeriodOf(t) \in {0, 1} /\ 1 \in 1 .. Len(c.end)
    BY TtiCountPositive, IndexType
  <2>2. m \in Seq([lcid : Nat, stop : Nat])
    BY <2>1, CellTypes DEF Plan
  <2> HIDE DEF m
  <2>3. m \in [DOMAIN m -> [lcid : Nat, stop : Nat]]
    BY <2>2, LenProperties
  <2> QED BY <2>3
<1>3. \A n \in Nat : n # NoStop
  BY DEF NoStop
<1> QED BY <1>1, <1>2, <1>3 DEF EndIn

\* The frame of every step of a worker.
LEMMA WorkShape ==
    ASSUME IndInv, NEW w \in Proc, Work(w)
    PROVE  /\ cell' = cell /\ tti' = tti /\ mb_idx' = mb_idx
           /\ w \in Busy(work)
           /\ \A x \in Proc \ {w} : work'[x] = work[x]
           /\ work'[w].pc = "idle" \/ work'[w].tti = work[w].tti
           /\ (lost => lost') /\ (overtaken => overtaken')
<1>1. work \in [Proc -> WorkOf(cell)]
  BY WorkTypes
<1>2. /\ cell' = cell /\ tti' = tti /\ mb_idx' = mb_idx
      /\ (lost => lost') /\ (overtaken => overtaken')
  <2>1. CASE mbsfn_config_for_tti(w)
    BY <2>1, Zenon DEF mainVars, mbsfn_config_for_tti
  <2>2. CASE DecodeFails(w)
    BY <2>2, Zenon DEF mainVars, DecodeFails
  <2>3. CASE Decode(w)
    BY <2>3, Zenon DEF mainVars, Decode
  <2>4. CASE ScheduleStop(w)
    BY <2>4, Zenon DEF mainVars, ScheduleStop
  <2>5. CASE WritePdu(w)
    BY <2>5, Zenon DEF mainVars, WritePdu
  <2>6. CASE StopMcch(w)
    BY <2>6, Zenon DEF mainVars, StopMcch
  <2>7. CASE StopLoop(w)
    BY <2>7, Zenon DEF mainVars, StopLoop
  <2>8. CASE LockStops(w)
    BY <2>8, Zenon DEF mainVars, LockStops
  <2>9. CASE StopBearer(w)
    BY <2>9, Zenon DEF mainVars, StopBearer
  <2>10. CASE UnlockStops(w)
    BY <2>10, Zenon DEF mainVars, UnlockStops
  <2> QED BY <2>1, <2>2, <2>3, <2>4, <2>5, <2>6, <2>7, <2>8, <2>9, <2>10 DEF Work
<1>3. w \in Busy(work)
  BY DEF Busy, Work, mbsfn_config_for_tti, DecodeFails, Decode, ScheduleStop, WritePdu,
         StopMcch, StopLoop, LockStops, StopBearer, UnlockStops
<1>4. \E r : work' = [work EXCEPT ![w] = r] /\ (r.pc = "idle" \/ r.tti = work[w].tti)
  <2>1. CASE mbsfn_config_for_tti(w)
    <3> DEFINE t == work[w].tti
               mch == PmchFor(cell.end, IndexOf(cell.dedicated, t))
               mcch == is_mcch(cell.mcch, t)
               m == IF mcch THEN 1 ELSE mch
               sig == mcch \/ UsesSigMcs(cell.end, mch, t, IndexOf(cell.dedicated, t))
               r == [work[w] EXCEPT !.pc = "decode", !.is_mcch = mcch, !.mch = m, !.sig = sig]
    <3>1. work' = [work EXCEPT ![w] = Idle] \/ work' = [work EXCEPT ![w] = r]
      BY <2>1 DEF mbsfn_config_for_tti, Return
    <3> HIDE DEF mcch, m, sig
    <3> QED BY <3>1, WorkTypes DEF Idle, WorkOf
  <2>2. CASE DecodeFails(w) \/ StopMcch(w)
    BY <2>2 DEF DecodeFails, StopMcch, Return, Idle
  <2>3. CASE Decode(w)
    <3> DEFINE S == Sent(cell, work[w].tti)
               r == [work[w] EXCEPT !.pc = "pdu", !.todo = S]
    <3>1. work' = [work EXCEPT ![w] = r]
      BY <1>1, <2>3 DEF Decode
    <3> HIDE DEF S
    <3>2. r.tti = work[w].tti
      BY WorkTypes DEF WorkOf
    <3> QED BY <3>1, <3>2
  <2>4. CASE ScheduleStop(w) \/ WritePdu(w)
    BY <2>4, WorkTypes DEF ScheduleStop, WritePdu, WorkOf
  <2>5. CASE StopLoop(w) \/ LockStops(w)
    BY <2>5, WorkTypes DEF StopLoop, LockStops, WorkOf
  <2>6. CASE StopBearer(w)
    <3>1. work' = [work EXCEPT ![w] = work[w]]
      BY <1>1, <2>6 DEF StopBearer
    <3> QED BY <3>1
  <2>7. CASE UnlockStops(w)
    <3> DEFINE r == [work[w] EXCEPT !.pc = "lock", !.i = @ + 1]
    <3>1. work' = [work EXCEPT ![w] = Idle] \/ work' = [work EXCEPT ![w] = r]
      BY <1>1, <2>7 DEF UnlockStops, Return
    <3>2. r.tti = work[w].tti
      BY WorkTypes DEF WorkOf
    <3> QED BY <3>1, <3>2 DEF Idle
  <2> QED BY <2>1, <2>2, <2>3, <2>4, <2>5, <2>6, <2>7 DEF Work
<1>5. PICK r : work' = [work EXCEPT ![w] = r] /\ (r.pc = "idle" \/ r.tti = work[w].tti)
  BY <1>4
<1>6. work'[w] = r /\ \A x \in Proc \ {w} : work'[x] = work[x]
  BY <1>1, <1>5
<1> QED BY <1>2, <1>3, <1>5, <1>6

\* A step of a worker makes no other worker busy, and keeps who is first.
LEMMA BusyShrinks ==
    ASSUME IndInv, NEW w \in Proc, Work(w)
    PROVE  /\ Busy(work') \subseteq Busy(work) /\ Busy(work) \ Busy(work') \subseteq {w}
           /\ Busy(work) \in SUBSET Proc /\ mb_idx \in Proc
           /\ \A x \in Busy(work') : work'[x].tti = work[x].tti
           /\ \A x \in Proc : First(work, mb_idx, x) => First(work', mb_idx', x)
           /\ \A x \in Busy(work) : work[x].tti \in 0 .. TtiCount - 1 /\ work[x].tti \in Nat
                                    /\ is_mbsfn_subframe(cell.dedicated, work[x].tti)
<1>1. /\ cell' = cell /\ tti' = tti /\ mb_idx' = mb_idx
      /\ w \in Busy(work) /\ \A x \in Proc \ {w} : work'[x] = work[x]
      /\ work'[w].pc = "idle" \/ work'[w].tti = work[w].tti
  BY WorkShape
<1>2. /\ Busy(work') \subseteq Busy(work) /\ Busy(work) \ Busy(work') \subseteq {w}
      /\ \A x \in Busy(work') : work'[x].tti = work[x].tti
      /\ Busy(work) \in SUBSET Proc
  BY <1>1 DEF Busy
<1>3. \A x \in Proc : First(work, mb_idx, x) => First(work', mb_idx', x)
  BY <1>1, <1>2 DEF First
<1>4. ASSUME NEW x \in Busy(work)
      PROVE  /\ work[x].tti \in 0 .. TtiCount - 1 /\ work[x].tti \in Nat
             /\ is_mbsfn_subframe(cell.dedicated, work[x].tti)
  BY <1>2, WorkTypes DEF Busy, IndInv, Dispatched
<1>5. mb_idx \in Proc
  BY DEF IndInv, TypeOK
<1> QED BY <1>2, <1>3, <1>4, <1>5

\* Head and tail of a sequence, and what is in it.
LEMMA RangeHeadTail ==
    ASSUME NEW S, NEW s \in Seq(S), s # <<>>
    PROVE  /\ Range(s) = {Head(s)} \union Range(Tail(s))
           /\ Len(s) \in Nat \ {0} /\ Tail(s) \in Seq(S) /\ Len(Tail(s)) = Len(s) - 1
           /\ \A i \in 1 .. Len(s) - 1 : Tail(s)[i] = s[i + 1]
           /\ Head(s) = s[1]
<1>1. /\ Len(s) \in Nat /\ DOMAIN s = 1 .. Len(s)
      /\ Tail(s) \in Seq(S) /\ Len(Tail(s)) = Len(s) - 1
      /\ \A i \in 1 .. Len(Tail(s)) : Tail(s)[i] = s[i + 1]
      /\ Head(s) = s[1] /\ Len(s) # 0
  BY HeadTailProperties, LenProperties, EmptySeq
<1>2. DOMAIN Tail(s) = 1 .. Len(s) - 1
  BY <1>1, LenProperties
<1>3. \A i \in DOMAIN s : i = 1 \/ (i - 1 \in DOMAIN Tail(s) /\ Tail(s)[i - 1] = s[i])
  <2> SUFFICES ASSUME NEW i \in DOMAIN s, i # 1
               PROVE  i - 1 \in DOMAIN Tail(s) /\ Tail(s)[i - 1] = s[i]
    OBVIOUS
  <2>1. i - 1 \in 1 .. Len(s) - 1 /\ (i - 1) + 1 = i
    BY <1>1
  <2> QED BY <1>1, <1>2, <2>1
<1>4. \A i \in DOMAIN Tail(s) : i + 1 \in DOMAIN s /\ Tail(s)[i] = s[i + 1]
  BY <1>1, <1>2
<1>5. Range(s) \subseteq {Head(s)} \union Range(Tail(s))
  BY <1>1, <1>3 DEF Range
<1>6. {Head(s)} \union Range(Tail(s)) \subseteq Range(s)
  <2>1. 1 \in DOMAIN s
    BY <1>1
  <2> QED BY <1>1, <1>4, <2>1 DEF Range
<1> QED BY <1>1, <1>5, <1>6

\* One entry or SDU is handled.
LEMMA PduShape ==
    ASSUME IndInv, NEW w \in Proc, ScheduleStop(w) \/ WritePdu(w)
    PROVE  LET e == Head(work[w].todo)
           IN  /\ work[w].pc = "pdu" /\ work'[w].pc = "pdu"
               /\ work[w].todo # <<>> /\ work'[w].todo = Tail(work[w].todo)
               /\ work'[w].is_mcch = work[w].is_mcch /\ work'[w].tti = work[w].tti
               /\ e \in Left(cell, work[w])
               /\ Left(cell, work[w]) = {e} \union Left(cell, work'[w])
               /\ Busy(work') = Busy(work)
<1> DEFINE e == Head(work[w].todo)
           s == work[w].todo
           r == [work[w] EXCEPT !.todo = Tail(s)]
<1>0. Work(w)
  BY DEF Work
<1>1. work[w].pc = "pdu" /\ s # <<>> /\ work' = [work EXCEPT ![w] = r]
  BY WorkTypes DEF ScheduleStop, WritePdu
<1>2. work'[w] = r
  BY <1>1, WorkTypes
<1>3. s \in Seq(Entry(cell))
  BY WorkTypes
<1>4. r.pc = "pdu" /\ r.todo = Tail(s) /\ r.is_mcch = work[w].is_mcch /\ r.tti = work[w].tti
  BY <1>1, WorkTypes DEF WorkOf
<1> HIDE DEF r
<1>5. Range(s) = {e} \union Range(Tail(s))
  BY <1>1, <1>3, RangeHeadTail
<1>6. Left(cell, work[w]) = Range(s) /\ Left(cell, work'[w]) = Range(Tail(s))
  BY <1>1, <1>2, <1>4 DEF Left
<1>7. Busy(work') = Busy(work)
  <2>1. \A x \in Proc \ {w} : work'[x] = work[x]
    BY <1>0, WorkShape
  <2> QED BY <1>1, <1>2, <1>4, <2>1 DEF Busy
<1> QED BY <1>1, <1>2, <1>4, <1>5, <1>6, <1>7

\* process() handles what its subframe carries, in that order.
LEMMA FaithfulWork ==
    ASSUME IndInv, Faithful, NEW w \in Proc, Work(w)
    PROVE  Faithful'
<1> SUFFICES ASSUME Len(cell.end) = 1
             PROVE  \A x \in Proc : AsSent(cell, work'[x])
  <2>1. cell' = cell
    BY WorkShape
  <2> QED BY <2>1 DEF Faithful
<1>1. \A x \in Proc : AsSent(cell, work[x])
  BY DEF Faithful
<1>2. \A x \in Proc \ {w} : work'[x] = work[x]
  BY WorkShape
<1> DEFINE t == work[w].tti
<1>3. work \in [Proc -> WorkOf(cell)] /\ work[w] \in WorkOf(cell) /\ cell \in Cells /\ t \in 0 .. TtiCount - 1
      /\ is_mbsfn_subframe(cell.dedicated, t) /\ work[w].is_mcch \in BOOLEAN
  <2>1. w \in Busy(work)
    BY WorkShape
  <2> QED BY <2>1, WorkTypes DEF IndInv, Dispatched, Busy, WorkOf
<1> SUFFICES AsSent(cell, work'[w])
  BY <1>1, <1>2
<1>5. AsSent(cell, Idle)
  BY DEF AsSent, Idle
<1>6. CASE mbsfn_config_for_tti(w)
  <2> DEFINE mch == PmchFor(cell.end, IndexOf(cell.dedicated, t))
             mcch == is_mcch(cell.mcch, t)
             m == IF mcch THEN 1 ELSE mch
             sig == mcch \/ UsesSigMcs(cell.end, mch, t, IndexOf(cell.dedicated, t))
             r == [work[w] EXCEPT !.pc = "decode", !.is_mcch = mcch, !.mch = m, !.sig = sig]
  <2>1. work' = [work EXCEPT ![w] = Idle] \/ work' = [work EXCEPT ![w] = r]
    BY <1>6 DEF mbsfn_config_for_tti, Return
  <2> HIDE DEF m, sig, mcch
  <2>2. r.pc = "decode" /\ r.is_mcch = mcch /\ r.tti = t
    BY <1>3 DEF WorkOf
  <2> HIDE DEF r
  <2>3. mcch <=> TxIsMcch(cell, t)
    <3>1. t \in Nat
      BY <1>3, TtiCountPositive
    <3> HIDE DEF t
    <3> QED BY <1>3, <3>1, McchAgrees DEF mcch
  <2>4. AsSent(cell, r)
    BY <2>2, <2>3 DEF AsSent
  <2> QED BY <1>3, <1>5, <2>1, <2>4
<1>7. CASE DecodeFails(w) \/ StopMcch(w)
  <2>1. work' = [work EXCEPT ![w] = Idle]
    BY <1>7 DEF DecodeFails, StopMcch, Return
  <2> QED BY <1>3, <1>5, <2>1
<1>8. CASE Decode(w)
  <2> DEFINE S == Sent(cell, t)
             r == [work[w] EXCEPT !.pc = "pdu", !.todo = S]
  <2>1. work' = [work EXCEPT ![w] = r] /\ work[w].pc = "decode"
    BY <1>8, <1>3 DEF Decode
  <2>2. \A j \in 1 .. Len(S) - 1 : S[j].ce
    BY <1>3, SentFacts
  <2>3. work[w].is_mcch <=> TxIsMcch(cell, t)
    BY <1>1, <2>1 DEF AsSent
  <2> HIDE DEF S
  <2>4. r.pc = "pdu" /\ r.todo = S /\ r.tti = t /\ r.is_mcch = work[w].is_mcch
    BY <1>3 DEF WorkOf
  <2>5. work'[w] = r
    BY <1>3, <2>1
  <2> HIDE DEF r
  <2> QED BY <2>2, <2>3, <2>4, <2>5 DEF AsSent, S
<1>9. CASE ScheduleStop(w) \/ WritePdu(w)
  <2> DEFINE s == work[w].todo
             r == work'[w]
  <2>1. /\ work[w].pc = "pdu" /\ r.pc = "pdu" /\ s # <<>> /\ r.todo = Tail(s)
        /\ r.is_mcch = work[w].is_mcch /\ r.tti = t
    BY <1>9, PduShape
  <2>2. /\ work[w].is_mcch <=> TxIsMcch(cell, t)
        /\ Range(s) \subseteq Range(Sent(cell, t))
        /\ \A k \in 1 .. Len(s) - 1 : s[k].ce
    BY <1>1, <2>1 DEF AsSent
  <2>3. s \in Seq(Entry(cell))
    BY WorkTypes
  <2>4. /\ Range(s) = {Head(s)} \union Range(Tail(s)) /\ Len(s) \in Nat \ {0}
        /\ Len(Tail(s)) = Len(s) - 1 /\ \A i \in 1 .. Len(s) - 1 : Tail(s)[i] = s[i + 1]
    BY <2>1, <2>3, RangeHeadTail
  <2> HIDE DEF s, r
  <2>5. \A k \in 1 .. Len(Tail(s)) - 1 : Tail(s)[k].ce
    <3> SUFFICES ASSUME NEW k \in 1 .. Len(Tail(s)) - 1 PROVE Tail(s)[k].ce
      OBVIOUS
    <3>1. k \in 1 .. Len(s) - 1 /\ k + 1 \in 1 .. Len(s) - 1
      BY <2>4
    <3> QED BY <2>2, <2>4, <3>1
  <2>6. AsSent(cell, r)
    BY <2>1, <2>2, <2>4, <2>5 DEF AsSent
  <2> QED BY <2>6 DEF r
<1>10. CASE StopLoop(w)
  <2> DEFINE r == [work[w] EXCEPT !.pc = "lock", !.i = 1]
  <2>1. work' = [work EXCEPT ![w] = r] /\ work[w].pc = "pdu" /\ ~work[w].is_mcch
    BY <1>10, <1>3 DEF StopLoop
  <2>2. r.pc = "lock" /\ r.i = 1 /\ r.tti = t /\ r.is_mcch = work[w].is_mcch
    BY <1>3 DEF WorkOf
  <2>3. work'[w] = r
    BY <1>3, <2>1
  <2> HIDE DEF r
  <2>4. work[w].is_mcch <=> TxIsMcch(cell, t)
    BY <1>1, <2>1 DEF AsSent
  <2> QED BY <2>1, <2>2, <2>3, <2>4 DEF AsSent
<1>11. CASE LockStops(w)
  <2> DEFINE r == [work[w] EXCEPT !.pc = "stop"]
  <2>1. work' = [work EXCEPT ![w] = r] /\ work[w].pc = "lock"
    BY <1>11, <1>3 DEF LockStops
  <2>2. r.pc = "stop" /\ r.i = work[w].i /\ r.tti = t /\ r.is_mcch = work[w].is_mcch
    BY <1>3 DEF WorkOf
  <2>3. work'[w] = r
    BY <1>3, <2>1
  <2> HIDE DEF r
  <2> QED BY <1>1, <2>1, <2>2, <2>3 DEF AsSent
<1>12. CASE StopBearer(w)
  BY <1>1, <1>12 DEF StopBearer
<1>13. CASE UnlockStops(w)
  <2>1. CASE ~(work[w].i < Len(cell.end))
    <3>1. work' = [work EXCEPT ![w] = Idle]
      BY <1>13, <2>1 DEF UnlockStops, Return
    <3> QED BY <1>3, <1>5, <3>1
  <2>2. CASE work[w].i < Len(cell.end)
    <3>1. work[w].pc = "stop"
      BY <1>13 DEF UnlockStops
    <3>2. work[w].i >= 1 /\ work[w].i \in Int
      <4>1. Len(cell.end) \in Nat
        BY WorkTypes
      <4> QED BY <1>1, <1>3, <3>1, <4>1 DEF AsSent, WorkOf
    <3> QED BY <2>2, <3>2
  <2> QED BY <2>1, <2>2
<1> QED BY <1>6, <1>7, <1>8, <1>9, <1>10, <1>11, <1>12, <1>13 DEF Work

-----------------------------------------------------------------------------
(* The steps of workers that are not overtaken                            *)

\* The steps that note no end, write no SDU and stop no MTCH.
Quiet(w) ==
    \/ mbsfn_config_for_tti(w) \/ DecodeFails(w) \/ Decode(w)
    \/ StopMcch(w) \/ StopLoop(w) \/ LockStops(w) \/ UnlockStops(w)

\* They leave an MTCH alone, and a worker that returns had nothing to do for one.
LEMMA QuietFacts ==
    ASSUME IndInv, Faithful, Len(cell.end) = 1, NEW w \in Proc, Quiet(w), ~lost'
    PROVE  /\ stops' = stops
           /\ \A l \in Lcids(cell) \ {McchLcid} : rlc'[<<1, l>>] = rlc[<<1, l>>]
           /\ rlc' = rlc \/ rlc'[<<1, McchLcid>>] = {}
           /\ work[w].pc = "pdu" /\ work[w].todo = <<>> /\ work[w].is_mcch
                => rlc'[<<1, McchLcid>>] = {}
           /\ work'[w].pc # "idle" => Left(cell, work'[w]) = Left(cell, work[w])
           /\ work'[w].pc = "idle" =>
                /\ \A e \in Left(cell, work[w]) : ~e.ce
                /\ HasMtch(cell, work[w].tti) => Left(cell, work[w]) = {} /\ Due(w) = {}
<1> DEFINE t == work[w].tti
           P == /\ stops' = stops
                /\ \A l \in Lcids(cell) \ {McchLcid} : rlc'[<<1, l>>] = rlc[<<1, l>>]
                /\ rlc' = rlc \/ rlc'[<<1, McchLcid>>] = {}
                /\ work[w].pc = "pdu" /\ work[w].todo = <<>> /\ work[w].is_mcch
                     => rlc'[<<1, McchLcid>>] = {}
                /\ work'[w].pc # "idle" => Left(cell, work'[w]) = Left(cell, work[w])
                /\ work'[w].pc = "idle" =>
                     /\ \A e \in Left(cell, work[w]) : ~e.ce
                     /\ HasMtch(cell, t) => Left(cell, work[w]) = {} /\ Due(w) = {}
<1> SUFFICES P
  OBVIOUS
<1>0. Work(w)
  BY DEF Quiet, Work
<1>1. /\ work \in [Proc -> WorkOf(cell)] /\ work[w] \in WorkOf(cell) /\ cell \in Cells
      /\ t \in 0 .. TtiCount - 1 /\ is_mbsfn_subframe(cell.dedicated, t)
      /\ rlc \in [(DOMAIN cell.end) \X Lcids(cell) -> SUBSET {0, 1}]
      /\ DOMAIN cell.end = 1 .. 1 /\ McchLcid \in Lcids(cell)
  <2>1. w \in Busy(work)
    BY <1>0, WorkShape
  <2>2. cell \in Cells
    BY WorkTypes
  <2> QED BY <2>1, <2>2, WorkTypes, CellTypes DEF IndInv, Dispatched, Busy
<1>2. AsSent(cell, work[w])
  BY DEF Faithful
<1>3. /\ \A e \in Range(Sent(cell, t)) : e.ce => CarriesMtch(cell, t)
      /\ HasMtch(cell, t) => CarriesMtch(cell, t)
  BY <1>1, SentFacts
<1>4. CASE mbsfn_config_for_tti(w)
  <2> DEFINE mch == PmchFor(cell.end, IndexOf(cell.dedicated, t))
             mcch == is_mcch(cell.mcch, t)
             m == IF mcch THEN 1 ELSE mch
             sig == mcch \/ UsesSigMcs(cell.end, mch, t, IndexOf(cell.dedicated, t))
             r == [work[w] EXCEPT !.pc = "decode", !.is_mcch = mcch, !.mch = m, !.sig = sig]
             enabled == IF mcch THEN decode_mcch ELSE mch # 0
  <2>1. /\ work[w].pc = "config" /\ stops' = stops /\ rlc' = rlc
        /\ lost' = (lost \/ (~enabled /\ CarriesMtch(cell, t)))
        /\ IF enabled THEN work' = [work EXCEPT ![w] = r] ELSE work' = [work EXCEPT ![w] = Idle]
    BY <1>4 DEF mbsfn_config_for_tti, Return
  <2> HIDE DEF m, sig, mcch, enabled
  <2>2. r.pc = "decode" /\ r.tti = t
    BY <1>1 DEF WorkOf
  <2> HIDE DEF r
  <2>3. CASE enabled
    <3>1. work'[w] = r
      BY <1>1, <2>1, <2>3
    <3>2. Left(cell, r) = Left(cell, work[w])
      BY <2>1, <2>2 DEF Left
    <3> QED BY <2>1, <2>2, <3>1, <3>2
  <2>4. CASE ~enabled
    <3>1. work'[w] = Idle /\ Idle.pc = "idle"
      BY <1>1, <2>1, <2>4 DEF Idle
    <3>2. ~CarriesMtch(cell, t)
      BY <2>1, <2>4
    <3>3. Left(cell, work[w]) = Range(Sent(cell, t))
      BY <2>1 DEF Left
    <3> QED BY <1>3, <2>1, <3>1, <3>2, <3>3
  <2> QED BY <2>3, <2>4
<1>5. CASE DecodeFails(w)
  <2>1. /\ work[w].pc = "decode" /\ stops' = stops /\ rlc' = rlc /\ ~CarriesMtch(cell, t)
        /\ work' = [work EXCEPT ![w] = Idle]
    BY <1>5 DEF DecodeFails, Return
  <2>2. work'[w] = Idle /\ Idle.pc = "idle" /\ Left(cell, work[w]) = Range(Sent(cell, t))
    BY <1>1, <2>1 DEF Idle, Left
  <2> QED BY <1>3, <2>1, <2>2
<1>6. CASE Decode(w)
  <2> DEFINE S == Sent(cell, t)
             r == [work[w] EXCEPT !.pc = "pdu", !.todo = S]
  <2>1. work' = [work EXCEPT ![w] = r] /\ work[w].pc = "decode" /\ stops' = stops /\ rlc' = rlc
    BY <1>6, <1>1 DEF Decode
  <2> HIDE DEF S
  <2>3. r.pc = "pdu" /\ r.todo = S /\ work'[w] = r
    BY <1>1, <2>1 DEF WorkOf
  <2> HIDE DEF r
  <2>4. Left(cell, r) = Range(S) /\ Left(cell, work[w]) = Range(S)
    BY <2>1, <2>3 DEF Left, S
  <2> QED BY <2>1, <2>3, <2>4
<1>7. CASE StopMcch(w)
  <2>1. /\ work[w].pc = "pdu" /\ work[w].todo = <<>> /\ work[w].is_mcch
        /\ rlc' = [rlc EXCEPT ![<<1, McchLcid>>] = {}] /\ stops' = stops
        /\ work' = [work EXCEPT ![w] = Idle]
    BY <1>7 DEF StopMcch, Return
  <2>2. work'[w] = Idle /\ Idle.pc = "idle"
    BY <1>1, <2>1 DEF Idle
  <2>3. Left(cell, work[w]) = {}
    <3>1. DOMAIN <<>> = {}
      OBVIOUS
    <3> QED BY <2>1, <3>1 DEF Left, Range
  <2>4. ~HasMtch(cell, t)
    BY <1>2, <2>1 DEF AsSent, HasMtch
  <2>5. /\ rlc'[<<1, McchLcid>>] = {}
        /\ \A l \in Lcids(cell) \ {McchLcid} : rlc'[<<1, l>>] = rlc[<<1, l>>]
    BY <1>1, <2>1
  <2> QED BY <2>1, <2>2, <2>3, <2>4, <2>5
<1>8. CASE StopLoop(w)
  <2> DEFINE r == [work[w] EXCEPT !.pc = "lock", !.i = 1]
  <2>1. /\ work' = [work EXCEPT ![w] = r] /\ work[w].pc = "pdu" /\ ~work[w].is_mcch
        /\ work[w].todo = <<>> /\ stops' = stops /\ rlc' = rlc
    BY <1>8, <1>1 DEF StopLoop
  <2>2. r.pc = "lock" /\ work'[w] = r
    BY <1>1, <2>1 DEF WorkOf
  <2> HIDE DEF r
  <2>3. Left(cell, work[w]) = {} /\ Left(cell, r) = {}
    <3>1. DOMAIN <<>> = {}
      OBVIOUS
    <3> QED BY <2>1, <2>2, <3>1 DEF Left, Range
  <2> QED BY <2>1, <2>2, <2>3
<1>9. CASE LockStops(w)
  <2> DEFINE r == [work[w] EXCEPT !.pc = "stop"]
  <2>1. work' = [work EXCEPT ![w] = r] /\ work[w].pc = "lock" /\ stops' = stops /\ rlc' = rlc
    BY <1>9, <1>1 DEF LockStops
  <2>2. r.pc = "stop" /\ work'[w] = r
    BY <1>1, <2>1 DEF WorkOf
  <2> HIDE DEF r
  <2>3. Left(cell, work[w]) = {} /\ Left(cell, r) = {}
    BY <2>1, <2>2 DEF Left
  <2> QED BY <2>1, <2>2, <2>3
<1>10. CASE UnlockStops(w)
  <2>1. work[w].pc = "stop" /\ Due(w) = {} /\ stops' = stops /\ rlc' = rlc
    BY <1>10 DEF UnlockStops
  <2>2. Left(cell, work[w]) = {}
    BY <2>1 DEF Left
  <2>3. ~(work[w].i < Len(cell.end))
    <3>1. work[w].i >= 1 /\ work[w].i \in Int
      BY <1>1, <1>2, <2>1 DEF AsSent, WorkOf
    <3> QED BY <3>1
  <2>4. work' = [work EXCEPT ![w] = Idle]
    BY <1>10, <2>3 DEF UnlockStops, Return
  <2>5. work'[w] = Idle /\ Idle.pc = "idle"
    BY <1>1, <2>4 DEF Idle
  <2> QED BY <2>1, <2>2, <2>5
<1> QED BY <1>4, <1>5, <1>6, <1>7, <1>8, <1>9, <1>10 DEF Quiet

\* An entry the loop leaves is after the subframe of the worker.
LEMMA DueFacts ==
    ASSUME IndInv, NEW w \in Busy(work), NEW l \in DOMAIN stops
    PROVE  l \in Due(w) <=> stops[l] # NoStop /\ TxIndex(cell, work[w].tti) >= stops[l]
<1>1. w \in Proc /\ is_mbsfn_subframe(cell.dedicated, work[w].tti)
  BY DEF Busy, IndInv, Dispatched
<1>2. IndexOf(cell.dedicated, work[w].tti) = TxIndex(cell, work[w].tti)
  BY <1>1, WorkTypes, IndexType
<1> QED BY <1>2 DEF Due

\* The quiet steps keep the turn.
LEMMA QuietStep ==
    ASSUME IndInv, Faithful, TurnInv, NEW w \in Proc, Quiet(w), InTurn'
    PROVE  TurnInv'
<1>0. Work(w)
  BY DEF Quiet, Work
<1>1. /\ cell' = cell /\ tti' = tti /\ mb_idx' = mb_idx /\ w \in Busy(work)
      /\ \A x \in Proc \ {w} : work'[x] = work[x]
      /\ (lost => lost') /\ (overtaken => overtaken')
  BY <1>0, WorkShape
<1>2. /\ Busy(work') \subseteq Busy(work) /\ Busy(work) \ Busy(work') \subseteq {w}
      /\ Busy(work) \in SUBSET Proc /\ mb_idx \in Proc
      /\ \A x \in Busy(work') : work'[x].tti = work[x].tti
      /\ \A x \in Proc : First(work, mb_idx, x) => First(work', mb_idx', x)
  BY <1>0, BusyShrinks
<1>3. InTurn /\ Len(cell.end) = 1 /\ ~lost'
  BY <1>1 DEF InTurn
<1>4. WroteInTurn /\ StopKnown /\ MsiThenEnd /\ MsiThenData /\ MsiBeforeMain /\ McchInTurn
  BY <1>3 DEF TurnInv
<1>5. /\ stops' = stops
      /\ \A l \in Lcids(cell) \ {McchLcid} : rlc'[<<1, l>>] = rlc[<<1, l>>]
      /\ rlc' = rlc \/ rlc'[<<1, McchLcid>>] = {}
      /\ work[w].pc = "pdu" /\ work[w].todo = <<>> /\ work[w].is_mcch
           => rlc'[<<1, McchLcid>>] = {}
      /\ work'[w].pc # "idle" => Left(cell, work'[w]) = Left(cell, work[w])
      /\ work'[w].pc = "idle" =>
           /\ \A e \in Left(cell, work[w]) : ~e.ce
           /\ HasMtch(cell, work[w].tti) => Left(cell, work[w]) = {} /\ Due(w) = {}
  BY <1>3, QuietFacts
<1>6. \A x \in Busy(work') : Left(cell, work'[x]) = Left(cell, work[x])
  BY <1>1, <1>2, <1>5 DEF Busy
<1>7. \A x \in Busy(work) \ Busy(work') : x = w /\ work'[w].pc = "idle"
  BY <1>2 DEF Busy
<1>8. DOMAIN stops = Lcids(cell)
  BY WorkTypes
<1>9. WroteInTurn'
  BY <1>1, <1>2, <1>4, <1>6 DEF WroteInTurn
<1>10. StopKnown'
  <2> SUFFICES ASSUME NEW l \in DOMAIN stops
               PROVE  /\ stops[l] = NoStop =>
                           allow_rrc_sn_across_periods \/ l = McchLcid \/ rlc'[<<1, l>>] = {}
                      /\ stops[l] # NoStop =>
                           /\ l # McchLcid
                           /\ \E q \in {0, 1} :
                                /\ EndIn(cell, q, l, stops[l])
                                /\ Coming(cell, tti, work', mb_idx, Busy(work'), q, stops[l])
                                /\ allow_rrc_sn_across_periods \/ rlc'[<<1, l>>] \subseteq {q}
    BY <1>1, <1>5 DEF StopKnown
  <2>1. CASE stops[l] = NoStop
    BY <1>4, <1>5, <1>8, <2>1 DEF StopKnown
  <2>2. CASE stops[l] # NoStop
    <3>1. PICK q \in {0, 1} :
            /\ EndIn(cell, q, l, stops[l])
            /\ Coming(cell, tti, work, mb_idx, Busy(work), q, stops[l])
            /\ allow_rrc_sn_across_periods \/ rlc[<<1, l>>] \subseteq {q}
      BY <1>4, <2>2 DEF StopKnown
    <3>2. l # McchLcid
      BY <1>4, <2>2 DEF StopKnown
    <3>3. \A v \in Busy(work) \ Busy(work') : ~StopsAt(cell, work[v].tti, q, stops[l])
      BY <1>1, <1>5, <1>7, <2>2, DueFacts DEF StopsAt
    <3>4. Coming(cell, tti, work', mb_idx, Busy(work'), q, stops[l])
      BY <1>2, <3>1, <3>3, ComingKept
    <3> QED BY <1>5, <1>8, <2>2, <3>1, <3>2, <3>4
  <2> QED BY <2>1, <2>2
<1>11. MsiThenEnd'
  <2> SUFFICES ASSUME NEW x \in Busy(work'), NEW e \in Left(cell, work'[x]), e.ce
               PROVE  Coming(cell, tti, work', mb_idx, {y \in Busy(work') : ~Older(mb_idx, y, x)},
                             PeriodOf(work'[x].tti), e.stop)
    BY <1>1 DEF MsiThenEnd
  <2> DEFINE B == {y \in Busy(work) : ~Older(mb_idx, y, x)}
             B2 == {y \in Busy(work') : ~Older(mb_idx, y, x)}
             p == PeriodOf(work[x].tti)
  <2>1. Coming(cell, tti, work, mb_idx, B, p, e.stop) /\ PeriodOf(work'[x].tti) = p
    BY <1>2, <1>4, <1>6 DEF MsiThenEnd
  <2>2. ASSUME NEW v \in B \ B2 PROVE ~StopsAt(cell, work[v].tti, p, e.stop)
    <3>1. v = w /\ work'[w].pc = "idle" /\ x # w /\ x \in Busy(work) /\ ~Older(mb_idx, w, x)
      BY <1>2, <1>7, <2>2 DEF Busy
    <3> SUFFICES ASSUME HasMtch(cell, work[w].tti) PROVE FALSE
      BY <3>1 DEF StopsAt
    <3>2. First(work, mb_idx, w)
      BY <1>1, <1>4, <1>5, <3>1 DEF WroteInTurn
    <3>3. ~Older(mb_idx, x, w)
      BY <3>1, <3>2 DEF First
    <3> QED BY <1>1, <1>2, <3>1, <3>3, OlderTotal
  <2>3. B2 \subseteq B /\ \A y \in B2 : work'[y].tti = work[y].tti
    BY <1>2
  <2> HIDE DEF B, B2, p
  <2>4. Coming(cell, tti, work', mb_idx, B2, p, e.stop)
    BY <2>1, <2>2, <2>3, ComingKept
  <2> QED BY <2>1, <2>4 DEF B2
<1>12. \A v \in Busy(work), l \in Lcids(cell) :
         HasCe(cell, work[v], l) => v \in Busy(work') /\ HasCe(cell, work'[v], l)
  BY <1>5, <1>6, <1>7 DEF HasCe
<1>13. MsiThenData'
  <2> SUFFICES ASSUME NEW x \in Busy(work'), NEW e \in Left(cell, work'[x]),
                      ~e.ce, e.lcid # McchLcid
               PROVE  \/ HasCe(cell, work'[x], e.lcid)
                      \/ MsiSeen(cell, work', mb_idx,
                                 EndIn(cell, PeriodOf(work'[x].tti), e.lcid, stops[e.lcid]),
                                 {y \in Busy(work') : Older(mb_idx, y, x)},
                                 PeriodOf(work'[x].tti), TxIndex(cell, work'[x].tti), e.lcid)
    BY <1>1, <1>5 DEF MsiThenData
  <2> DEFINE B == {y \in Busy(work) : Older(mb_idx, y, x)}
             B2 == {y \in Busy(work') : Older(mb_idx, y, x)}
             p == PeriodOf(work[x].tti)
             n == TxIndex(cell, work[x].tti)
             known == EndIn(cell, p, e.lcid, stops[e.lcid])
  <2>1. HasCe(cell, work[x], e.lcid) \/ MsiSeen(cell, work, mb_idx, known, B, p, n, e.lcid)
    BY <1>2, <1>4, <1>6 DEF MsiThenData
  <2>2. PeriodOf(work'[x].tti) = p /\ TxIndex(cell, work'[x].tti) = n
    BY <1>2
  <2>3. HasCe(cell, work[x], e.lcid) => HasCe(cell, work'[x], e.lcid)
    BY <1>6 DEF HasCe
  <2>4. /\ B2 \subseteq B /\ \A y \in B2 : work'[y].tti = work[y].tti
        /\ \A v \in B : HasCe(cell, work[v], e.lcid) => v \in B2 /\ HasCe(cell, work'[v], e.lcid)
    BY <1>2, <1>5, <1>6, <1>7 DEF HasCe
  <2> HIDE DEF B, B2, p, n, known
  <2>5. MsiSeen(cell, work, mb_idx, known, B, p, n, e.lcid) =>
          MsiSeen(cell, work', mb_idx, known, B2, p, n, e.lcid)
    BY <2>4, MsiSeenKept
  <2> QED BY <2>1, <2>2, <2>3, <2>5 DEF B2, known
<1>14. MsiBeforeMain'
  <2> SUFFICES ASSUME NEW k \in DOMAIN Plan(cell, PeriodOf(tti)), NEW m,
                      m = Plan(cell, PeriodOf(tti))[k],
                      TxIndex(cell, tti) > 0, TxIndex(cell, tti) <= m.stop
               PROVE  MsiSeen(cell, work', mb_idx, EndIn(cell, PeriodOf(tti), m.lcid, stops[m.lcid]),
                              Busy(work'), PeriodOf(tti), TxIndex(cell, tti), m.lcid)
    BY <1>1, <1>5 DEF MsiBeforeMain
  <2> DEFINE known == EndIn(cell, PeriodOf(tti), m.lcid, stops[m.lcid])
  <2>1. MsiSeen(cell, work, mb_idx, known, Busy(work), PeriodOf(tti), TxIndex(cell, tti), m.lcid)
    BY <1>4 DEF MsiBeforeMain
  <2>2. \A v \in Busy(work) : HasCe(cell, work[v], m.lcid) =>
          v \in Busy(work') /\ HasCe(cell, work'[v], m.lcid)
    BY <1>5, <1>6, <1>7 DEF HasCe
  <2> HIDE DEF known
  <2>3. MsiSeen(cell, work', mb_idx, known, Busy(work'), PeriodOf(tti), TxIndex(cell, tti), m.lcid)
    BY <1>2, <2>1, <2>2, MsiSeenKept
  <2> QED BY <2>3 DEF known
<1>15. McchInTurn'
  <2> SUFFICES ASSUME NEW q \in rlc'[<<1, McchLcid>>]
               PROVE  \E x \in Busy(work') :
                        /\ First(work', mb_idx', x) /\ PeriodOf(work'[x].tti) = q
                        /\ work'[x].pc = "pdu" /\ work'[x].todo = <<>> /\ work'[x].is_mcch
    BY DEF McchInTurn
  <2>1. rlc' = rlc
    BY <1>5
  <2>2. PICK x \in Busy(work) :
          /\ First(work, mb_idx, x) /\ PeriodOf(work[x].tti) = q
          /\ work[x].pc = "pdu" /\ work[x].todo = <<>> /\ work[x].is_mcch
    BY <1>4, <2>1 DEF McchInTurn
  <2>3. x # w
    BY <1>5, <2>2
  <2>4. work'[x] = work[x] /\ x \in Busy(work') /\ First(work', mb_idx', x)
    BY <1>1, <1>2, <2>2, <2>3 DEF Busy
  <2> QED BY <2>2, <2>4
<1> QED BY <1>9, <1>10, <1>11, <1>13, <1>14, <1>15 DEF TurnInv

\* A worker that writes, notes or stops is the first one, or the turn is broken.
LEMMA TurnFirst ==
    ASSUME NEW w \in Proc, ~Overtakes(w)
    PROVE  First(work, mb_idx, w)
BY DEF Overtakes, Turn, First, Older, Busy

\* What a worker has still to handle is of the plan of its period.
LEMMA LeftFacts ==
    ASSUME IndInv, Faithful, Len(cell.end) = 1, NEW x \in Busy(work),
           NEW f \in Left(cell, work[x])
    PROVE  LET t == work[x].tti
               p == PeriodOf(t)
           IN  /\ f.lcid \in Lcids(cell) /\ f.stop \in Nat /\ f.ce \in BOOLEAN /\ p \in {0, 1}
               /\ f.ce => /\ TxIndex(cell, t) = 0 /\ f.lcid # McchLcid
                          /\ EndIn(cell, p, f.lcid, f.stop)
               /\ ~f.ce /\ f.lcid # McchLcid =>
                    /\ HasMtch(cell, t)
                    /\ \E s \in Nat : EndIn(cell, p, f.lcid, s) /\ TxIndex(cell, t) <= s
               /\ ~f.ce /\ f.lcid = McchLcid => TxIsMcch(cell, t)
<1> DEFINE t == work[x].tti
           p == PeriodOf(t)
           m == SentMtchs(cell, 1, t)
           S == Sent(cell, t)
<1>1. /\ x \in Proc /\ t \in 0 .. TtiCount - 1 /\ t \in Nat /\ cell \in Cells
      /\ is_mbsfn_subframe(cell.dedicated, t) /\ p \in {0, 1}
  BY WorkTypes, IndexType DEF Busy, IndInv, Dispatched
<1>2. Left(cell, work[x]) \subseteq Range(S)
  BY <1>1 DEF Faithful, AsSent, Left
<1>3. /\ S \in Seq(Entry(cell))
      /\ f.ce => /\ TxIndex(cell, t) = 0 /\ f.lcid # McchLcid
                 /\ \E k \in DOMAIN m : f.lcid = m[k].lcid /\ f.stop = m[k].stop
      /\ ~f.ce /\ f.lcid # McchLcid =>
           HasMtch(cell, t) /\ \E k \in DOMAIN m : f.lcid = m[k].lcid /\ TxIndex(cell, t) <= m[k].stop
      /\ ~f.ce /\ f.lcid = McchLcid => TxIsMcch(cell, t)
  <2>1. f \in Range(S)
    BY <1>2
  <2> QED BY <1>1, <2>1, SentFacts
<1>4. m = Plan(cell, p) /\ \A k \in DOMAIN m : EndIn(cell, p, m[k].lcid, m[k].stop)
  BY PlanOf DEF EndIn
<1>5. \A k \in DOMAIN m : m[k].stop \in Nat
  <2> HIDE DEF m, p
  <2>1. \A k \in DOMAIN m : EndIn(cell, PeriodOf(t), m[k].lcid, m[k].stop)
    BY <1>4 DEF p
  <2> QED BY <1>1, <2>1, EndUnique
<1>6. f \in Entry(cell)
  <2> HIDE DEF S
  <2>1. S \in [1 .. Len(S) -> Entry(cell)] /\ DOMAIN S = 1 .. Len(S)
    BY <1>3, LenProperties
  <2> QED BY <1>2, <2>1 DEF Range
<1>7. f.lcid \in Lcids(cell) /\ f.stop \in Nat /\ f.ce \in BOOLEAN
  BY <1>6 DEF Entry
<1> HIDE DEF m, S
<1> QED BY <1>1, <1>3, <1>4, <1>5, <1>7

\* The first worker notes where an MTCH ends: what was noted before was of the same
\* period, so the bearer has PDUs of that period only.
LEMMA ScheduleStopStep ==
    ASSUME IndInv, Faithful, TurnInv, NEW w \in Proc, ScheduleStop(w), InTurn'
    PROVE  TurnInv'
<1> DEFINE e == Head(work[w].todo)
           p == PeriodOf(work[w].tti)
<1>0. Work(w)
  BY DEF Work
<1>1. /\ cell' = cell /\ tti' = tti /\ mb_idx' = mb_idx /\ w \in Busy(work)
      /\ \A x \in Proc \ {w} : work'[x] = work[x]
      /\ (lost => lost') /\ (overtaken => overtaken')
  BY <1>0, WorkShape
<1>2. /\ Busy(work) \in SUBSET Proc /\ mb_idx \in Proc
      /\ \A x \in Busy(work) : work[x].tti \in 0 .. TtiCount - 1
                               /\ is_mbsfn_subframe(cell.dedicated, work[x].tti)
      /\ \A x \in Proc : First(work, mb_idx, x) => First(work', mb_idx', x)
  BY <1>0, BusyShrinks
<1>3. /\ work[w].pc = "pdu" /\ work'[w].tti = work[w].tti /\ work[w].todo # <<>>
      /\ e \in Left(cell, work[w]) /\ Left(cell, work[w]) = {e} \union Left(cell, work'[w])
      /\ Busy(work') = Busy(work)
  BY PduShape
<1>4. InTurn /\ Len(cell.end) = 1 /\ ~overtaken'
  BY <1>1 DEF InTurn
<1>5. WroteInTurn /\ StopKnown /\ MsiThenEnd /\ MsiThenData /\ MsiBeforeMain /\ McchInTurn
  BY <1>4 DEF TurnInv
<1>6. /\ e.ce /\ stops' = [stops EXCEPT ![e.lcid] = e.stop] /\ rlc' = rlc
      /\ ~Overtakes(w)
  BY <1>4 DEF ScheduleStop
<1>7. First(work, mb_idx, w)
  BY <1>6, TurnFirst
<1>8. stops \in [Lcids(cell) -> Nat \union {NoStop}] /\ cell \in Cells
  BY WorkTypes
<1>9. e.lcid \in Lcids(cell) /\ e.stop \in Nat /\ e.lcid # McchLcid /\ EndIn(cell, p, e.lcid, e.stop)
      /\ p \in {0, 1}
  <2> HIDE DEF e
  <2> QED BY <1>1, <1>3, <1>4, <1>6, LeftFacts
<1> HIDE DEF e, p
<1>10. DOMAIN stops' = DOMAIN stops /\ DOMAIN stops = Lcids(cell) /\ stops'[e.lcid] = e.stop
       /\ \A l \in DOMAIN stops \ {e.lcid} : stops'[l] = stops[l]
  BY <1>6, <1>8, <1>9
<1>11. \A x \in Busy(work) : /\ work'[x].tti = work[x].tti
                             /\ Left(cell, work'[x]) \subseteq Left(cell, work[x])
                             /\ x # w => work'[x] = work[x]
  BY <1>1, <1>2, <1>3
<1>12. \A x \in Busy(work), l \in DOMAIN stops :
         HasCe(cell, work[x], l) /\ (x # w \/ l # e.lcid) => HasCe(cell, work'[x], l)
  BY <1>3, <1>11 DEF HasCe
<1>13. ASSUME NEW B \in SUBSET Busy(work), NEW q, NEW s, Coming(cell, tti, work, mb_idx, B, q, s)
       PROVE  Coming(cell, tti, work', mb_idx, B, q, s)
  BY <1>11, <1>13, ComingKept
<1>14. WroteInTurn'
  <2> SUFFICES ASSUME NEW x \in Busy(work), HasMtch(cell, work'[x].tti),
                      \A f \in Left(cell, work'[x]) : f.ce
               PROVE  First(work', mb_idx', x)
    BY <1>1, <1>3 DEF WroteInTurn
  <2>1. \A f \in Left(cell, work[x]) : f.ce
    BY <1>3, <1>6, <1>11
  <2> QED BY <1>2, <1>5, <1>11, <2>1 DEF WroteInTurn
<1>15. StopKnown'
  <2> SUFFICES ASSUME NEW l \in DOMAIN stops
               PROVE  /\ stops'[l] = NoStop =>
                           allow_rrc_sn_across_periods \/ l = McchLcid \/ rlc[<<1, l>>] = {}
                      /\ stops'[l] # NoStop =>
                           /\ l # McchLcid
                           /\ \E q \in {0, 1} :
                                /\ EndIn(cell, q, l, stops'[l])
                                /\ Coming(cell, tti, work', mb_idx, Busy(work), q, stops'[l])
                                /\ allow_rrc_sn_across_periods \/ rlc[<<1, l>>] \subseteq {q}
    BY <1>1, <1>3, <1>6, <1>10 DEF StopKnown
  <2>1. CASE l # e.lcid
    <3>1. stops'[l] = stops[l]
      BY <1>10, <2>1
    <3>2. CASE stops[l] = NoStop
      BY <1>5, <3>1, <3>2 DEF StopKnown
    <3>3. CASE stops[l] # NoStop
      <4>1. PICK q \in {0, 1} :
              /\ EndIn(cell, q, l, stops[l])
              /\ Coming(cell, tti, work, mb_idx, Busy(work), q, stops[l])
              /\ allow_rrc_sn_across_periods \/ rlc[<<1, l>>] \subseteq {q}
        BY <1>5, <3>3 DEF StopKnown
      <4>2. l # McchLcid
        BY <1>5, <3>3 DEF StopKnown
      <4>3. Coming(cell, tti, work', mb_idx, Busy(work), q, stops[l])
        BY <1>13, <4>1
      <4> QED BY <3>1, <3>3, <4>1, <4>2, <4>3
    <3> QED BY <3>2, <3>3
  <2>2. CASE l = e.lcid
    <3>1. stops'[l] = e.stop /\ l # McchLcid /\ EndIn(cell, p, l, stops'[l])
      BY <1>9, <1>10, <2>2
    <3>2. Coming(cell, tti, work, mb_idx, Busy(work), p, e.stop)
      <4>1. {x \in Busy(work) : ~Older(mb_idx, x, w)} = Busy(work)
        BY <1>7 DEF First
      <4>2. Coming(cell, tti, work, mb_idx, {x \in Busy(work) : ~Older(mb_idx, x, w)}, p, e.stop)
        BY <1>1, <1>3, <1>5, <1>6 DEF MsiThenEnd, p
      <4> QED BY <4>1, <4>2
    <3>3. Coming(cell, tti, work', mb_idx, Busy(work), p, stops'[l])
      BY <1>13, <3>1, <3>2
    <3>4. allow_rrc_sn_across_periods \/ rlc[<<1, l>>] \subseteq {p}
      <4>1. CASE stops[l] = NoStop
        BY <1>5, <3>1, <4>1 DEF StopKnown
      <4>2. CASE stops[l] # NoStop
        <5>1. PICK q \in {0, 1} :
                /\ Coming(cell, tti, work, mb_idx, Busy(work), q, stops[l])
                /\ allow_rrc_sn_across_periods \/ rlc[<<1, l>>] \subseteq {q}
          BY <1>5, <4>2 DEF StopKnown
        <5>2. p = q
          BY <1>1, <1>2, <1>7, <5>1, ComingFirst DEF First, p
        <5> QED BY <5>1, <5>2
      <4> QED BY <4>1, <4>2
    <3>5. e.stop # NoStop
      BY <1>9 DEF NoStop
    <3> QED BY <1>9, <3>1, <3>3, <3>4, <3>5
  <2> QED BY <2>1, <2>2
<1>16. MsiThenEnd'
  <2> SUFFICES ASSUME NEW x \in Busy(work), NEW f \in Left(cell, work'[x]), f.ce
               PROVE  Coming(cell, tti, work', mb_idx, {y \in Busy(work) : ~Older(mb_idx, y, x)},
                             PeriodOf(work'[x].tti), f.stop)
    BY <1>1, <1>3 DEF MsiThenEnd
  <2> DEFINE B == {y \in Busy(work) : ~Older(mb_idx, y, x)}
  <2>1. Coming(cell, tti, work, mb_idx, B, PeriodOf(work[x].tti), f.stop)
    BY <1>5, <1>11 DEF MsiThenEnd
  <2>2. PeriodOf(work'[x].tti) = PeriodOf(work[x].tti) /\ B \in SUBSET Busy(work)
    BY <1>11
  <2> HIDE DEF B
  <2>3. Coming(cell, tti, work', mb_idx, B, PeriodOf(work[x].tti), f.stop)
    BY <1>13, <2>1, <2>2
  <2> QED BY <2>2, <2>3 DEF B
<1>17. ASSUME NEW B \in SUBSET Busy(work), w \in B, NEW q, NEW n, NEW l \in DOMAIN stops,
              MsiSeen(cell, work, mb_idx, EndIn(cell, q, l, stops[l]), B, q, n, l)
       PROVE  MsiSeen(cell, work', mb_idx, EndIn(cell, q, l, stops'[l]), B, q, n, l)
  <2> DEFINE known == EndIn(cell, q, l, stops[l])
             known2 == EndIn(cell, q, l, stops'[l])
  <2>1. CASE l # e.lcid
    <3>1. known2 <=> known
      BY <1>10, <2>1
    <3>2. /\ \A y \in B : work'[y].tti = work[y].tti
          /\ \A v \in B : HasCe(cell, work[v], l) => HasCe(cell, work'[v], l)
      BY <1>11, <1>12, <2>1
    <3> HIDE DEF known, known2
    <3>3. MsiSeen(cell, work, mb_idx, known, B, q, n, l)
      BY <1>17 DEF known
    <3>4. MsiSeen(cell, work', mb_idx, known2, B, q, n, l)
      BY <3>1, <3>2, <3>3, MsiSeenKept
    <3> QED BY <3>4 DEF known2
  <2>2. CASE l = e.lcid
    <3>1. PeriodOf(work[w].tti) = q => known2
      BY <1>9, <1>10, <2>2 DEF p
    <3>2. /\ \A y \in B : work'[y].tti = work[y].tti
          /\ \A v \in B \ {w} : HasCe(cell, work[v], l) => HasCe(cell, work'[v], l)
          /\ \A x \in B : ~Older(mb_idx, x, w)
          /\ B \in SUBSET Proc
      BY <1>2, <1>7, <1>11, <1>12 DEF First
    <3> HIDE DEF known, known2
    <3>3. MsiSeen(cell, work, mb_idx, known, B, q, n, l)
      BY <1>17 DEF known
    <3>4. MsiSeen(cell, work', mb_idx, known2, B, q, n, l)
      BY <1>2, <1>17, <3>1, <3>2, <3>3, MsiSeenNoted
    <3> QED BY <3>4 DEF known2
  <2> QED BY <2>1, <2>2
<1>18. \A x \in Busy(work) : x = w \/ Older(mb_idx, w, x)
  BY <1>1, <1>2, <1>7, OlderTotal DEF First
<1>19. MsiThenData'
  <2> SUFFICES ASSUME NEW x \in Busy(work), NEW f \in Left(cell, work'[x]),
                      ~f.ce, f.lcid # McchLcid
               PROVE  \/ HasCe(cell, work'[x], f.lcid)
                      \/ MsiSeen(cell, work', mb_idx,
                                 EndIn(cell, PeriodOf(work'[x].tti), f.lcid, stops'[f.lcid]),
                                 {y \in Busy(work) : Older(mb_idx, y, x)},
                                 PeriodOf(work'[x].tti), TxIndex(cell, work'[x].tti), f.lcid)
    BY <1>1, <1>3 DEF MsiThenData
  <2> DEFINE B == {y \in Busy(work) : Older(mb_idx, y, x)}
             q == PeriodOf(work[x].tti)
             n == TxIndex(cell, work[x].tti)
             l == f.lcid
  <2>0. l \in DOMAIN stops
    <3>1. f \in Left(cell, work[x])
      BY <1>11
    <3> QED BY <1>4, <1>10, <3>1, LeftFacts
  <2>1. HasCe(cell, work[x], l) \/ MsiSeen(cell, work, mb_idx, EndIn(cell, q, l, stops[l]), B, q, n, l)
    BY <1>5, <1>11 DEF MsiThenData
  <2>2. PeriodOf(work'[x].tti) = q /\ TxIndex(cell, work'[x].tti) = n
    BY <1>11
  <2>3. CASE x # w
    <3>1. w \in B /\ B \in SUBSET Busy(work)
      BY <1>1, <1>18, <2>3
    <3>2. HasCe(cell, work[x], l) => HasCe(cell, work'[x], l)
      BY <1>12, <2>0, <2>3
    <3> HIDE DEF B, q, n, l
    <3>3. HasCe(cell, work'[x], l) \/ MsiSeen(cell, work', mb_idx, EndIn(cell, q, l, stops'[l]), B, q, n, l)
      BY <1>17, <2>0, <2>1, <3>1, <3>2
    <3> QED BY <2>2, <3>3 DEF B, l
  <2>4. CASE x = w
    <3>1. B = {} /\ q = p
      BY <1>7, <2>4 DEF First, p
    <3>2. CASE l = e.lcid
      <4>1. EndIn(cell, q, l, stops'[l])
        BY <1>9, <1>10, <3>1, <3>2
      <4> HIDE DEF B, q, n, l
      <4>2. MsiSeen(cell, work', mb_idx, EndIn(cell, q, l, stops'[l]), B, q, n, l)
        BY <3>1, <4>1 DEF MsiSeen
      <4> QED BY <2>2, <4>2 DEF B, l
    <3>3. CASE l # e.lcid
      <4>1. HasCe(cell, work[x], l) => HasCe(cell, work'[x], l)
        BY <1>12, <2>0, <3>3
      <4>2. stops'[l] = stops[l]
        BY <1>10, <2>0, <3>3
      <4> HIDE DEF B, q, n, l
      <4>3. MsiSeen(cell, work, mb_idx, EndIn(cell, q, l, stops[l]), B, q, n, l) =>
              MsiSeen(cell, work', mb_idx, EndIn(cell, q, l, stops'[l]), B, q, n, l)
        BY <3>1, <4>2 DEF MsiSeen
      <4>4. HasCe(cell, work'[x], l) \/ MsiSeen(cell, work', mb_idx, EndIn(cell, q, l, stops'[l]), B, q, n, l)
        BY <2>1, <4>1, <4>3
      <4> QED BY <2>2, <4>4 DEF B, l
    <3> QED BY <3>2, <3>3
  <2> QED BY <2>3, <2>4
<1>20. MsiBeforeMain'
  <2> SUFFICES ASSUME NEW k \in DOMAIN Plan(cell, PeriodOf(tti)), NEW m,
                      m = Plan(cell, PeriodOf(tti))[k],
                      TxIndex(cell, tti) > 0, TxIndex(cell, tti) <= m.stop
               PROVE  MsiSeen(cell, work', mb_idx, EndIn(cell, PeriodOf(tti), m.lcid, stops'[m.lcid]),
                              Busy(work), PeriodOf(tti), TxIndex(cell, tti), m.lcid)
    BY <1>1, <1>3 DEF MsiBeforeMain
  <2>1. MsiSeen(cell, work, mb_idx, EndIn(cell, PeriodOf(tti), m.lcid, stops[m.lcid]),
                Busy(work), PeriodOf(tti), TxIndex(cell, tti), m.lcid)
    BY <1>5 DEF MsiBeforeMain
  <2>2. m.lcid \in DOMAIN stops
    <3>1. tti \in Nat /\ 1 \in 1 .. Len(cell.end)
      BY <1>4, TtiCountPositive DEF IndInv, TypeOK
    <3>2. PeriodOf(tti) \in {0, 1}
      BY <1>8, <3>1, IndexType
    <3> QED BY <1>8, <1>10, <3>1, <3>2, CellTypes DEF Plan
  <2> QED BY <1>1, <1>17, <2>1, <2>2
<1>21. McchInTurn'
  <2> SUFFICES ASSUME NEW q \in rlc[<<1, McchLcid>>]
               PROVE  \E x \in Busy(work) :
                        /\ First(work', mb_idx', x) /\ PeriodOf(work'[x].tti) = q
                        /\ work'[x].pc = "pdu" /\ work'[x].todo = <<>> /\ work'[x].is_mcch
    BY <1>3, <1>6 DEF McchInTurn
  <2>1. PICK x \in Busy(work) :
          /\ First(work, mb_idx, x) /\ PeriodOf(work[x].tti) = q
          /\ work[x].pc = "pdu" /\ work[x].todo = <<>> /\ work[x].is_mcch
    BY <1>5 DEF McchInTurn
  <2>2. x # w
    BY <1>3, <2>1
  <2> QED BY <1>2, <1>11, <2>1, <2>2
<1> QED BY <1>14, <1>15, <1>16, <1>19, <1>20, <1>21 DEF TurnInv

\* The first worker writes an SDU: the entry of its MTCH is known, and of its period.
LEMMA WritePduStep ==
    ASSUME IndInv, Faithful, TurnInv, NEW w \in Proc, WritePdu(w), InTurn'
    PROVE  TurnInv'
<1> DEFINE e == Head(work[w].todo)
           p == PeriodOf(work[w].tti)
<1>0. Work(w)
  BY DEF Work
<1>1. /\ cell' = cell /\ tti' = tti /\ mb_idx' = mb_idx /\ w \in Busy(work)
      /\ \A x \in Proc \ {w} : work'[x] = work[x]
      /\ (lost => lost') /\ (overtaken => overtaken')
  BY <1>0, WorkShape
<1>2. /\ Busy(work) \in SUBSET Proc /\ mb_idx \in Proc
      /\ \A x \in Busy(work) : work[x].tti \in 0 .. TtiCount - 1
                               /\ is_mbsfn_subframe(cell.dedicated, work[x].tti)
      /\ \A x \in Proc : First(work, mb_idx, x) => First(work', mb_idx', x)
  BY <1>0, BusyShrinks
<1>3. /\ work[w].pc = "pdu" /\ work'[w].tti = work[w].tti /\ work[w].todo # <<>>
      /\ work'[w].pc = "pdu" /\ work'[w].todo = Tail(work[w].todo)
      /\ work'[w].is_mcch = work[w].is_mcch
      /\ e \in Left(cell, work[w]) /\ Left(cell, work[w]) = {e} \union Left(cell, work'[w])
      /\ Busy(work') = Busy(work)
  BY PduShape
<1>4. InTurn /\ Len(cell.end) = 1 /\ ~overtaken'
  BY <1>1 DEF InTurn
<1>5. WroteInTurn /\ StopKnown /\ MsiThenEnd /\ MsiThenData /\ MsiBeforeMain /\ McchInTurn
  BY <1>4 DEF TurnInv
<1>6. /\ ~e.ce /\ stops' = stops /\ ~Overtakes(w)
      /\ rlc' = [rlc EXCEPT ![<<work[w].mch, e.lcid>>] = @ \union {p}]
  BY <1>4 DEF WritePdu
<1>7. First(work, mb_idx, w)
  BY <1>6, TurnFirst
<1>8. stops \in [Lcids(cell) -> Nat \union {NoStop}] /\ cell \in Cells
      /\ rlc \in [(DOMAIN cell.end) \X Lcids(cell) -> SUBSET {0, 1}]
      /\ work[w].todo \in Seq(Entry(cell))
  BY WorkTypes
<1>9. AsSent(cell, work[w])
  BY <1>4 DEF Faithful
<1>10. work'[w].todo = <<>> /\ Left(cell, work'[w]) = {}
  <2> DEFINE s == work[w].todo
  <2>1. \A k \in 1 .. Len(s) - 1 : s[k].ce
    BY <1>3, <1>9 DEF AsSent
  <2>2. Len(s) \in Nat \ {0} /\ Tail(s) \in Seq(Entry(cell)) /\ Len(Tail(s)) = Len(s) - 1 /\ Head(s) = s[1]
    BY <1>3, <1>8, RangeHeadTail
  <2>3. Len(s) = 1
    <3>1. ~(1 \in 1 .. Len(s) - 1)
      BY <1>6, <2>1, <2>2
    <3> HIDE DEF s
    <3> QED BY <2>2, <3>1
  <2>4. Tail(s) = <<>>
    <3> DEFINE z == Tail(s)
    <3>1. z \in Seq(Entry(cell)) /\ Len(z) = 0
      BY <2>2, <2>3
    <3> HIDE DEF s, z
    <3>2. z = <<>>
      BY <3>1, EmptySeq
    <3> QED BY <3>2 DEF z
  <2>5. DOMAIN <<>> = {}
    OBVIOUS
  <2> QED BY <1>3, <2>4, <2>5 DEF Left, Range
<1> HIDE DEF e
<1>11. /\ e.lcid \in Lcids(cell) /\ p \in {0, 1}
       /\ e.lcid = McchLcid => TxIsMcch(cell, work[w].tti)
  BY <1>1, <1>3, <1>4, <1>6, LeftFacts
<1>12. ASSUME NEW l \in Lcids(cell)
       PROVE  /\ l # e.lcid => rlc'[<<1, l>>] = rlc[<<1, l>>]
              /\ rlc'[<<1, l>>] \subseteq rlc[<<1, l>>] \union {p}
  <2>1. <<1, l>> \in (DOMAIN cell.end) \X Lcids(cell)
    BY <1>4, <1>8, CellTypes
  <2> DEFINE D == (DOMAIN cell.end) \X Lcids(cell)
             b == <<work[w].mch, e.lcid>>
             c == <<1, l>>
  <2>2. l # e.lcid => c # b
    OBVIOUS
  <2>3. rlc \in [D -> SUBSET {0, 1}] /\ c \in D /\ rlc' = [rlc EXCEPT ![b] = @ \union {p}]
    BY <1>6, <1>8, <2>1
  <2> HIDE DEF D, b, c, p
  <2>4. rlc'[c] = IF c = b THEN rlc[c] \union {p} ELSE rlc[c]
    BY <2>3
  <2> QED BY <2>2, <2>4 DEF c
<1> HIDE DEF p
<1>13. \A x \in Busy(work) : /\ work'[x].tti = work[x].tti
                             /\ Left(cell, work'[x]) \subseteq Left(cell, work[x])
                             /\ x # w => work'[x] = work[x]
  BY <1>1, <1>2, <1>3
<1>14. \A x \in Busy(work) : \A l : HasCe(cell, work[x], l) => HasCe(cell, work'[x], l)
  BY <1>3, <1>6, <1>13 DEF HasCe
<1>15. ASSUME NEW B \in SUBSET Busy(work), NEW q, NEW s, Coming(cell, tti, work, mb_idx, B, q, s)
       PROVE  Coming(cell, tti, work', mb_idx, B, q, s)
  BY <1>13, <1>15, ComingKept
<1>16. ASSUME NEW B \in SUBSET Busy(work), NEW q, NEW n, NEW l, NEW known,
              MsiSeen(cell, work, mb_idx, known, B, q, n, l)
       PROVE  MsiSeen(cell, work', mb_idx, known, B, q, n, l)
  <2>1. /\ \A y \in B : work'[y].tti = work[y].tti
        /\ \A v \in B : HasCe(cell, work[v], l) => HasCe(cell, work'[v], l)
    BY <1>13, <1>14
  <2> QED BY <1>16, <2>1, MsiSeenKept
<1>17. WroteInTurn'
  <2> SUFFICES ASSUME NEW x \in Busy(work), HasMtch(cell, work'[x].tti),
                      \A f \in Left(cell, work'[x]) : f.ce
               PROVE  First(work', mb_idx', x)
    BY <1>1, <1>3 DEF WroteInTurn
  <2>1. CASE x = w
    BY <1>2, <1>7, <2>1
  <2>2. CASE x # w
    BY <1>2, <1>5, <1>13, <2>2 DEF WroteInTurn
  <2> QED BY <2>1, <2>2
<1>18. StopKnown'
  <2> SUFFICES ASSUME NEW l \in DOMAIN stops
               PROVE  /\ stops[l] = NoStop =>
                           allow_rrc_sn_across_periods \/ l = McchLcid \/ rlc'[<<1, l>>] = {}
                      /\ stops[l] # NoStop =>
                           /\ l # McchLcid
                           /\ \E q \in {0, 1} :
                                /\ EndIn(cell, q, l, stops[l])
                                /\ Coming(cell, tti, work', mb_idx, Busy(work), q, stops[l])
                                /\ allow_rrc_sn_across_periods \/ rlc'[<<1, l>>] \subseteq {q}
    BY <1>1, <1>3, <1>6 DEF StopKnown
  <2>0. l \in Lcids(cell)
    BY <1>8
  <2>1. l = e.lcid /\ l # McchLcid => stops[l] # NoStop
    <3> SUFFICES ASSUME l = e.lcid, l # McchLcid PROVE stops[l] # NoStop
      OBVIOUS
    <3>1. ~HasCe(cell, work[w], l)
      BY <1>3, <1>6, <1>10 DEF HasCe
    <3>2. MsiSeen(cell, work, mb_idx, EndIn(cell, p, l, stops[l]),
                  {x \in Busy(work) : Older(mb_idx, x, w)}, p, TxIndex(cell, work[w].tti), l)
      BY <1>1, <1>3, <1>5, <1>6, <3>1 DEF MsiThenData, p
    <3>3. {x \in Busy(work) : Older(mb_idx, x, w)} = {}
      BY <1>7 DEF First
    <3>4. EndIn(cell, p, l, stops[l])
      BY <3>2, <3>3 DEF MsiSeen
    <3> QED BY <1>1, <1>2, <1>4, <1>8, <3>4, EndUnique DEF p
  <2>2. CASE stops[l] = NoStop
    BY <1>5, <1>12, <2>0, <2>1, <2>2 DEF StopKnown
  <2>3. CASE stops[l] # NoStop
    <3>1. PICK q \in {0, 1} :
            /\ EndIn(cell, q, l, stops[l])
            /\ Coming(cell, tti, work, mb_idx, Busy(work), q, stops[l])
            /\ allow_rrc_sn_across_periods \/ rlc[<<1, l>>] \subseteq {q}
      BY <1>5, <2>3 DEF StopKnown
    <3>2. l # McchLcid
      BY <1>5, <2>3 DEF StopKnown
    <3>3. Coming(cell, tti, work', mb_idx, Busy(work), q, stops[l])
      BY <1>15, <3>1
    <3>4. p = q
      BY <1>1, <1>2, <1>7, <3>1, ComingFirst DEF First, p
    <3>5. allow_rrc_sn_across_periods \/ rlc'[<<1, l>>] \subseteq {q}
      BY <1>12, <2>0, <3>1, <3>4
    <3> QED BY <2>3, <3>1, <3>2, <3>3, <3>5
  <2> QED BY <2>2, <2>3
<1>19. MsiThenEnd'
  <2> SUFFICES ASSUME NEW x \in Busy(work), NEW f \in Left(cell, work'[x]), f.ce
               PROVE  Coming(cell, tti, work', mb_idx, {y \in Busy(work) : ~Older(mb_idx, y, x)},
                             PeriodOf(work'[x].tti), f.stop)
    BY <1>1, <1>3 DEF MsiThenEnd
  <2> DEFINE B == {y \in Busy(work) : ~Older(mb_idx, y, x)}
  <2>1. Coming(cell, tti, work, mb_idx, B, PeriodOf(work[x].tti), f.stop)
    BY <1>5, <1>13 DEF MsiThenEnd
  <2>2. PeriodOf(work'[x].tti) = PeriodOf(work[x].tti) /\ B \in SUBSET Busy(work)
    BY <1>13
  <2> HIDE DEF B
  <2>3. Coming(cell, tti, work', mb_idx, B, PeriodOf(work[x].tti), f.stop)
    BY <1>15, <2>1, <2>2
  <2> QED BY <2>2, <2>3 DEF B
<1>20. MsiThenData'
  <2> SUFFICES ASSUME NEW x \in Busy(work), NEW f \in Left(cell, work'[x]),
                      ~f.ce, f.lcid # McchLcid
               PROVE  \/ HasCe(cell, work'[x], f.lcid)
                      \/ MsiSeen(cell, work', mb_idx,
                                 EndIn(cell, PeriodOf(work'[x].tti), f.lcid, stops[f.lcid]),
                                 {y \in Busy(work) : Older(mb_idx, y, x)},
                                 PeriodOf(work'[x].tti), TxIndex(cell, work'[x].tti), f.lcid)
    BY <1>1, <1>3, <1>6 DEF MsiThenData
  <2> DEFINE B == {y \in Busy(work) : Older(mb_idx, y, x)}
             known == EndIn(cell, PeriodOf(work[x].tti), f.lcid, stops[f.lcid])
             q == PeriodOf(work[x].tti)
             n == TxIndex(cell, work[x].tti)
  <2>1. HasCe(cell, work[x], f.lcid) \/ MsiSeen(cell, work, mb_idx, known, B, q, n, f.lcid)
    BY <1>5, <1>13 DEF MsiThenData
  <2>2. PeriodOf(work'[x].tti) = q /\ TxIndex(cell, work'[x].tti) = n /\ B \in SUBSET Busy(work)
    BY <1>13
  <2>3. HasCe(cell, work[x], f.lcid) => HasCe(cell, work'[x], f.lcid)
    BY <1>14
  <2> HIDE DEF B, q, n, known
  <2>4. HasCe(cell, work'[x], f.lcid) \/ MsiSeen(cell, work', mb_idx, known, B, q, n, f.lcid)
    BY <1>16, <2>1, <2>2, <2>3
  <2> QED BY <2>2, <2>4 DEF B, known, q
<1>21. MsiBeforeMain'
  <2> SUFFICES ASSUME NEW k \in DOMAIN Plan(cell, PeriodOf(tti)), NEW m,
                      m = Plan(cell, PeriodOf(tti))[k],
                      TxIndex(cell, tti) > 0, TxIndex(cell, tti) <= m.stop
               PROVE  MsiSeen(cell, work', mb_idx, EndIn(cell, PeriodOf(tti), m.lcid, stops[m.lcid]),
                              Busy(work), PeriodOf(tti), TxIndex(cell, tti), m.lcid)
    BY <1>1, <1>3, <1>6 DEF MsiBeforeMain
  <2>1. MsiSeen(cell, work, mb_idx, EndIn(cell, PeriodOf(tti), m.lcid, stops[m.lcid]),
                Busy(work), PeriodOf(tti), TxIndex(cell, tti), m.lcid)
    BY <1>5 DEF MsiBeforeMain
  <2> DEFINE known == EndIn(cell, PeriodOf(tti), m.lcid, stops[m.lcid])
  <2> HIDE DEF known
  <2>2. MsiSeen(cell, work', mb_idx, known, Busy(work), PeriodOf(tti), TxIndex(cell, tti), m.lcid)
    BY <1>16, <2>1 DEF known
  <2> QED BY <2>2 DEF known
<1>22. McchInTurn'
  <2> SUFFICES ASSUME NEW q \in rlc'[<<1, McchLcid>>]
               PROVE  \E x \in Busy(work) :
                        /\ First(work', mb_idx', x) /\ PeriodOf(work'[x].tti) = q
                        /\ work'[x].pc = "pdu" /\ work'[x].todo = <<>> /\ work'[x].is_mcch
    BY <1>3 DEF McchInTurn
  <2>0. McchLcid \in Lcids(cell)
    BY <1>8, CellTypes
  <2>1. CASE q \in rlc[<<1, McchLcid>>]
    <3>1. PICK x \in Busy(work) :
            /\ First(work, mb_idx, x) /\ PeriodOf(work[x].tti) = q
            /\ work[x].pc = "pdu" /\ work[x].todo = <<>> /\ work[x].is_mcch
      BY <1>5, <2>1 DEF McchInTurn
    <3>2. x # w
      BY <1>3, <3>1
    <3> QED BY <1>2, <1>13, <3>1, <3>2
  <2>2. CASE q \notin rlc[<<1, McchLcid>>]
    <3>1. e.lcid = McchLcid /\ q = p
      BY <1>12, <2>0, <2>2
    <3>2. work'[w].is_mcch
      BY <1>3, <1>9, <1>11, <3>1 DEF AsSent
    <3>3. First(work', mb_idx', w) /\ PeriodOf(work'[w].tti) = q
      BY <1>2, <1>3, <1>7, <3>1 DEF p
    <3> QED BY <1>1, <1>3, <1>10, <3>2, <3>3
  <2> QED BY <2>1, <2>2
<1> QED BY <1>17, <1>18, <1>19, <1>20, <1>21, <1>22 DEF TurnInv

\* What the step stops: an entry that is due.
LEMMA StopBearerFacts ==
    ASSUME IndInv, NEW w \in Proc, StopBearer(w)
    PROVE  \E l \in Due(w) :
             /\ l \in DOMAIN stops /\ DOMAIN stops = Lcids(cell)
             /\ stops' = [stops EXCEPT ![l] = NoStop]
             /\ rlc' = IF allow_rrc_sn_across_periods THEN rlc
                       ELSE [rlc EXCEPT ![<<work[w].i, l>>] = {}]
<1> DEFINE l == CHOOSE l \in Due(w) : \A k \in Due(w) : l <= k
<1>1. cell \in Cells /\ DOMAIN stops = Lcids(cell)
  BY WorkTypes
<1>2. Lcids(cell) \subseteq Nat
  <2>1. \A p \in {0, 1}, i \in DOMAIN cell.end : \A k \in DOMAIN cell.plan[p][i] :
          cell.plan[p][i][k].lcid \in Nat
    <3> SUFFICES ASSUME NEW p \in {0, 1}, NEW i \in DOMAIN cell.end, NEW k \in DOMAIN cell.plan[p][i]
                 PROVE  cell.plan[p][i][k].lcid \in Nat
      OBVIOUS
    <3> DEFINE m == cell.plan[p][i]
    <3>1. m \in Seq([lcid : Nat, stop : Nat])
      BY <1>1, CellTypes
    <3> HIDE DEF m
    <3>2. m \in [DOMAIN m -> [lcid : Nat, stop : Nat]]
      BY <3>1, LenProperties
    <3> QED BY <3>2 DEF m
  <2> QED BY <2>1 DEF Lcids, McchLcid
<1>3. Due(w) # {} /\ Due(w) \subseteq Nat /\ Due(w) \subseteq DOMAIN stops
  BY <1>1, <1>2 DEF Due, StopBearer
<1>4. l \in Due(w)
  <2> DEFINE S == Due(w)
  <2> HIDE DEF S
  <2>1. \E x \in S : \A k \in S : x <= k
    BY <1>3, NatMin DEF S
  <2> QED BY <2>1 DEF S
<1>5. /\ stops' = [stops EXCEPT ![l] = NoStop]
      /\ rlc' = IF allow_rrc_sn_across_periods THEN rlc ELSE [rlc EXCEPT ![<<work[w].i, l>>] = {}]
  BY DEF StopBearer
<1> HIDE DEF l
<1> QED BY <1>1, <1>3, <1>4, <1>5

\* The first worker stops an MTCH: the entry is of its period or of none that has begun,
\* and nothing of it is left to write.
LEMMA StopBearerStep ==
    ASSUME IndInv, Faithful, TurnInv, NEW w \in Proc, StopBearer(w), InTurn'
    PROVE  TurnInv'
<1>0. Work(w)
  BY DEF Work
<1>1. /\ cell' = cell /\ tti' = tti /\ mb_idx' = mb_idx /\ w \in Busy(work)
      /\ (lost => lost') /\ (overtaken => overtaken')
  BY <1>0, WorkShape
<1>2. /\ Busy(work) \in SUBSET Proc /\ mb_idx \in Proc
      /\ \A x \in Busy(work) : work[x].tti \in 0 .. TtiCount - 1
  BY <1>0, BusyShrinks
<1>3. InTurn /\ Len(cell.end) = 1 /\ ~overtaken'
  BY <1>1 DEF InTurn
<1>4. WroteInTurn /\ StopKnown /\ MsiThenEnd /\ MsiThenData /\ MsiBeforeMain /\ McchInTurn
  BY <1>3 DEF TurnInv
<1>5. work' = work /\ work[w].pc = "stop" /\ ~Overtakes(w)
  BY <1>3 DEF StopBearer
<1>6. First(work, mb_idx, w)
  BY <1>5, TurnFirst
<1>7. stops \in [Lcids(cell) -> Nat \union {NoStop}] /\ cell \in Cells /\ tti \in 0 .. TtiCount - 1
      /\ rlc \in [(DOMAIN cell.end) \X Lcids(cell) -> SUBSET {0, 1}]
  BY WorkTypes DEF IndInv, TypeOK
<1>8. work[w].i = 1
  <2>1. AsSent(cell, work[w]) /\ work[w] \in WorkOf(cell)
    BY <1>3, WorkTypes DEF Faithful
  <2> QED BY <1>3, <1>5, <2>1 DEF AsSent, WorkOf
<1>9. PICK l \in Due(w) :
        /\ l \in DOMAIN stops /\ DOMAIN stops = Lcids(cell)
        /\ stops' = [stops EXCEPT ![l] = NoStop]
        /\ rlc' = IF allow_rrc_sn_across_periods THEN rlc
                  ELSE [rlc EXCEPT ![<<work[w].i, l>>] = {}]
  BY StopBearerFacts
<1>10. stops[l] # NoStop /\ TxIndex(cell, work[w].tti) >= stops[l]
  BY <1>1, <1>9, DueFacts
<1>11. /\ DOMAIN stops' = DOMAIN stops /\ stops'[l] = NoStop
       /\ \A k \in DOMAIN stops \ {l} : stops'[k] = stops[k]
  BY <1>7, <1>9
<1>12. ASSUME NEW k \in Lcids(cell)
       PROVE  /\ k # l => rlc'[<<1, k>>] = rlc[<<1, k>>]
              /\ k = l => allow_rrc_sn_across_periods \/ rlc'[<<1, k>>] = {}
  <2> DEFINE D == (DOMAIN cell.end) \X Lcids(cell)
             b == <<1, l>>
             c == <<1, k>>
  <2>1. c \in D /\ (k = l <=> c = b) /\ rlc \in [D -> SUBSET {0, 1}]
    BY <1>3, <1>7, CellTypes
  <2>2. rlc' = IF allow_rrc_sn_across_periods THEN rlc ELSE [rlc EXCEPT ![b] = {}]
    BY <1>8, <1>9
  <2> HIDE DEF D, b, c
  <2>3. rlc' = rlc \/ rlc'[c] = IF c = b THEN {} ELSE rlc[c]
    BY <2>1, <2>2
  <2>4. ~allow_rrc_sn_across_periods => rlc'[c] = IF c = b THEN {} ELSE rlc[c]
    BY <2>1, <2>2
  <2> QED BY <2>1, <2>3, <2>4 DEF c
<1>13. WroteInTurn' /\ MsiThenEnd'
  BY <1>1, <1>4, <1>5 DEF WroteInTurn, MsiThenEnd
<1>14. StopKnown'
  <2> SUFFICES ASSUME NEW k \in DOMAIN stops
               PROVE  /\ stops'[k] = NoStop =>
                           allow_rrc_sn_across_periods \/ k = McchLcid \/ rlc'[<<1, k>>] = {}
                      /\ stops'[k] # NoStop =>
                           /\ k # McchLcid
                           /\ \E q \in {0, 1} :
                                /\ EndIn(cell, q, k, stops'[k])
                                /\ Coming(cell, tti, work, mb_idx, Busy(work), q, stops'[k])
                                /\ allow_rrc_sn_across_periods \/ rlc'[<<1, k>>] \subseteq {q}
    BY <1>1, <1>5, <1>11 DEF StopKnown
  <2>1. CASE k = l
    BY <1>9, <1>11, <1>12, <2>1
  <2>2. CASE k # l
    <3>1. stops'[k] = stops[k] /\ rlc'[<<1, k>>] = rlc[<<1, k>>]
      BY <1>9, <1>11, <1>12, <2>2
    <3> QED BY <1>4, <3>1 DEF StopKnown
  <2> QED BY <2>1, <2>2
<1>15. ASSUME NEW B \in SUBSET Busy(work), w \in B, NEW u \in 0 .. TtiCount - 1, NEW k \in DOMAIN stops,
              NEW s \in Nat, EndIn(cell, PeriodOf(u), k, s), TxIndex(cell, u) <= s,
              MsiSeen(cell, work, mb_idx, EndIn(cell, PeriodOf(u), k, stops[k]), B, PeriodOf(u),
                      TxIndex(cell, u), k)
       PROVE  MsiSeen(cell, work, mb_idx, EndIn(cell, PeriodOf(u), k, stops'[k]), B, PeriodOf(u),
                      TxIndex(cell, u), k)
  <2> DEFINE q == PeriodOf(u)
             n == TxIndex(cell, u)
             known == EndIn(cell, q, k, stops[k])
             known2 == EndIn(cell, q, k, stops'[k])
  <2>1. known /\ (\A x \in B : Earlier(cell, work, x, q, n)) => known2
    <3> SUFFICES ASSUME known, \A x \in B : Earlier(cell, work, x, q, n) PROVE known2
      OBVIOUS
    <3>1. CASE k # l
      BY <1>11, <3>1
    <3>2. CASE k = l
      <4>1. TxIndex(cell, work[w].tti) < n
        BY <1>15 DEF Earlier
      <4>2. s = stops[k]
        BY <1>3, <1>7, <1>15, EndUnique
      <4>3. n \in Nat /\ TxIndex(cell, work[w].tti) \in Nat
        <5>1. u \in Nat /\ work[w].tti \in Nat
          BY TtiCountPositive, WorkTypes
        <5> QED BY <1>7, <5>1, IndexType
      <4> HIDE DEF n
      <4>4. n <= s
        BY <1>15 DEF n
      <4> QED BY <1>10, <3>2, <4>1, <4>2, <4>3, <4>4
    <3> QED BY <3>1, <3>2
  <2> HIDE DEF q, n, known, known2
  <2>2. MsiSeen(cell, work, mb_idx, known, B, q, n, k)
    BY <1>15 DEF q, n, known
  <2>3. MsiSeen(cell, work, mb_idx, known2, B, q, n, k)
    BY <2>1, <2>2, MsiSeenKept
  <2> QED BY <2>3 DEF q, n, known2
<1>16. MsiThenData'
  <2> SUFFICES ASSUME NEW x \in Busy(work), NEW f \in Left(cell, work[x]),
                      ~f.ce, f.lcid # McchLcid, ~HasCe(cell, work[x], f.lcid)
               PROVE  MsiSeen(cell, work, mb_idx,
                                 EndIn(cell, PeriodOf(work[x].tti), f.lcid, stops'[f.lcid]),
                                 {y \in Busy(work) : Older(mb_idx, y, x)},
                                 PeriodOf(work[x].tti), TxIndex(cell, work[x].tti), f.lcid)
    BY <1>1, <1>5 DEF MsiThenData
  <2> DEFINE B == {y \in Busy(work) : Older(mb_idx, y, x)}
             u == work[x].tti
  <2>1. MsiSeen(cell, work, mb_idx, EndIn(cell, PeriodOf(u), f.lcid, stops[f.lcid]), B,
                PeriodOf(u), TxIndex(cell, u), f.lcid)
    BY <1>4 DEF MsiThenData
  <2>2. x # w
    BY <1>5 DEF Left
  <2>3. w \in B /\ B \in SUBSET Busy(work)
    BY <1>1, <1>2, <1>6, <2>2, OlderTotal DEF First
  <2>4. f.lcid \in DOMAIN stops /\ \E s \in Nat : EndIn(cell, PeriodOf(u), f.lcid, s) /\ TxIndex(cell, u) <= s
    BY <1>3, <1>7, LeftFacts
  <2>5. u \in 0 .. TtiCount - 1
    BY <1>2
  <2> HIDE DEF B, u
  <2>6. MsiSeen(cell, work, mb_idx, EndIn(cell, PeriodOf(u), f.lcid, stops'[f.lcid]), B,
                PeriodOf(u), TxIndex(cell, u), f.lcid)
    BY <1>15, <2>1, <2>3, <2>4, <2>5
  <2> QED BY <2>6 DEF B, u
<1>17. MsiBeforeMain'
  <2> SUFFICES ASSUME NEW k \in DOMAIN Plan(cell, PeriodOf(tti)), NEW m,
                      m = Plan(cell, PeriodOf(tti))[k],
                      TxIndex(cell, tti) > 0, TxIndex(cell, tti) <= m.stop
               PROVE  MsiSeen(cell, work, mb_idx, EndIn(cell, PeriodOf(tti), m.lcid, stops'[m.lcid]),
                              Busy(work), PeriodOf(tti), TxIndex(cell, tti), m.lcid)
    BY <1>1, <1>5 DEF MsiBeforeMain
  <2>1. MsiSeen(cell, work, mb_idx, EndIn(cell, PeriodOf(tti), m.lcid, stops[m.lcid]),
                Busy(work), PeriodOf(tti), TxIndex(cell, tti), m.lcid)
    BY <1>4 DEF MsiBeforeMain
  <2>2. EndIn(cell, PeriodOf(tti), m.lcid, m.stop)
    BY DEF EndIn
  <2>3. m.stop \in Nat
    BY <1>3, <1>7, <2>2, EndUnique
  <2>4. m.lcid \in DOMAIN stops
    <3>1. tti \in Nat /\ 1 \in 1 .. Len(cell.end)
      BY <1>3, <1>7, TtiCountPositive
    <3>2. PeriodOf(tti) \in {0, 1}
      BY <1>7, <3>1, IndexType
    <3> QED BY <1>7, <3>1, <3>2, CellTypes DEF Plan
  <2> QED BY <1>1, <1>7, <1>15, <2>1, <2>2, <2>3, <2>4
<1>18. McchInTurn'
  <2>1. l # McchLcid
    BY <1>4, <1>9, <1>10 DEF StopKnown
  <2>2. rlc'[<<1, McchLcid>>] = rlc[<<1, McchLcid>>]
    BY <1>7, <1>12, <2>1, CellTypes
  <2> QED BY <1>1, <1>4, <1>5, <2>2 DEF McchInTurn
<1> QED BY <1>13, <1>14, <1>16, <1>17, <1>18 DEF TurnInv

-----------------------------------------------------------------------------
(* Main, and the theorem                                                   *)

\* Main gives the next MBSFN subframe to a processor, which is then the youngest.
LEMMA DispatchMbsfnTurn ==
    ASSUME IndInv, Faithful, TurnInv, DispatchMbsfn
    PROVE  Faithful' /\ TurnInv'
<1> DEFINE r == [Idle EXCEPT !.pc = "config", !.tti = tti]
           S == Sent(cell, tti)
           p == PeriodOf(tti)
           n == TxIndex(cell, tti)
           B == Busy(work)
<1>1. /\ is_mbsfn_subframe(cell.dedicated, tti) /\ work[mb_idx].pc = "idle"
      /\ work' = [work EXCEPT ![mb_idx] = r]
      /\ mb_idx' = (mb_idx + 1) % thread_cnt /\ tti' = (tti + 1) % TtiCount
      /\ UNCHANGED <<cell, stops, rlc, lost, overtaken>>
  BY DEF DispatchMbsfn
<1>2. /\ mb_idx \in Proc /\ tti \in 0 .. TtiCount - 1 /\ tti \in Nat /\ cell \in Cells
      /\ work \in [Proc -> WorkOf(cell)] /\ DOMAIN stops = Lcids(cell)
      /\ stops \in [Lcids(cell) -> Nat \union {NoStop}]
  BY TtiCountPositive DEF IndInv, TypeOK
<1>3. r.pc = "config" /\ r.tti = tti
  BY DEF Idle
<1> HIDE DEF r
<1>4. work'[mb_idx] = r /\ \A x \in Proc \ {mb_idx} : work'[x] = work[x]
  BY <1>1, <1>2
<1>5. /\ Busy(work') = B \union {mb_idx} /\ B \in SUBSET (Proc \ {mb_idx})
      /\ \A x \in B : work'[x] = work[x] /\ work[x].tti \in Nat
      /\ Left(cell, r) = Range(S)
  <2>1. \A x \in Proc : work[x].tti \in Nat
    BY WorkTypes
  <2> QED BY <1>1, <1>2, <1>3, <1>4, <2>1 DEF Busy, Left
<1>6. Faithful'
  <2>1. AsSent(cell, r)
    BY <1>3 DEF AsSent
  <2> QED BY <1>1, <1>2, <1>4, <2>1 DEF Faithful
<1> SUFFICES ASSUME InTurn' PROVE TurnInv'
  BY <1>6 DEF TurnInv
<1>7. InTurn /\ Len(cell.end) = 1
  BY <1>1 DEF InTurn
<1>8. WroteInTurn /\ StopKnown /\ MsiThenEnd /\ MsiThenData /\ MsiBeforeMain /\ McchInTurn
  BY <1>7 DEF TurnInv
<1>9. /\ \A x \in B : Older(mb_idx', x, mb_idx) /\ ~Older(mb_idx', mb_idx, x)
      /\ \A x, y \in B : Older(mb_idx', x, y) <=> Older(mb_idx, x, y)
      /\ ~Older(mb_idx', mb_idx, mb_idx)
  <2>1. mb_idx' \in Proc
    BY <1>1, <1>2, TurnStep
  <2> QED BY <1>1, <1>2, <1>5, <2>1, OlderStep, OlderTotal
<1>10. \A x \in B : First(work, mb_idx, x) => First(work', mb_idx', x)
  BY <1>5, <1>9 DEF First
<1>11. ASSUME NEW f \in Range(S)
       PROVE  /\ f.ce => n = 0 /\ Ends(cell, tti, f.stop) # {} /\ f.stop \in Nat
              /\ ~f.ce /\ f.lcid # McchLcid =>
                   \E k \in DOMAIN Plan(cell, p) : f.lcid = Plan(cell, p)[k].lcid /\ n <= Plan(cell, p)[k].stop
  <2> DEFINE m == Plan(cell, p)
  <2>1. /\ f.ce => n = 0 /\ \E k \in DOMAIN m : f.lcid = m[k].lcid /\ f.stop = m[k].stop
        /\ ~f.ce /\ f.lcid # McchLcid => \E k \in DOMAIN m : f.lcid = m[k].lcid /\ n <= m[k].stop
    BY <1>1, <1>2, <1>7, <1>11, SentFacts, PlanOf
  <2>2. n = 0 => \A k \in DOMAIN m : Ends(cell, tti, m[k].stop) # {}
    BY <1>1, <1>2, <1>7, PlanAssumption, PlanOf
  <2>3. \A k \in DOMAIN m : m[k].stop \in Nat
    <3>1. \A k \in DOMAIN m : EndIn(cell, p, m[k].lcid, m[k].stop)
      BY DEF EndIn
    <3> HIDE DEF m
    <3> QED BY <1>2, <1>7, <3>1, EndUnique DEF p
  <2> HIDE DEF m, n
  <2> QED BY <2>1, <2>2, <2>3 DEF m
<1>12. /\ n = 0 => \A k \in DOMAIN Plan(cell, p) : HasCe(cell, r, Plan(cell, p)[k].lcid)
       /\ HasMtch(cell, tti) => \E f \in Range(S) : ~f.ce
  <2>1. /\ n = 0 => \A k \in DOMAIN Plan(cell, p) : MsiEntry(Plan(cell, p)[k]) \in Range(S)
        /\ HasMtch(cell, tti) => \E f \in Range(S) : ~f.ce
    BY <1>1, <1>2, <1>7, SentFacts, PlanOf
  <2>2. \A m : MsiEntry(m).ce /\ MsiEntry(m).lcid = m.lcid
    BY DEF MsiEntry
  <2> QED BY <1>5, <2>1, <2>2 DEF HasCe
<1>13. n \in Nat /\ p \in {0, 1}
  BY <1>2, IndexType
<1>14. ASSUME NEW A \in SUBSET B, NEW q, NEW s \in Nat, Coming(cell, tti, work, mb_idx, A, q, s)
       PROVE  Coming(cell, tti', work', mb_idx', A \union {mb_idx}, q, s)
  <2>1. /\ A \in SUBSET (Proc \ {mb_idx}) /\ work'[mb_idx].tti = tti
        /\ \A x \in A : work'[x].tti = work[x].tti
    BY <1>3, <1>4, <1>5, <1>14
  <2> QED BY <1>1, <1>2, <1>14, <2>1, ComingDispatch
<1>15. ASSUME NEW A \in SUBSET B, NEW known, NEW q, NEW k, NEW l,
              MsiSeen(cell, work, mb_idx, known, A, q, k, l)
       PROVE  MsiSeen(cell, work', mb_idx', known, A, q, k, l)
  <2>1. A \in SUBSET (Proc \ {mb_idx}) /\ \A x \in A : work'[x] = work[x]
    BY <1>5, <1>15
  <2> QED BY <1>1, <1>2, <1>15, <2>1, MsiSeenTurn
<1> HIDE DEF S, p, n, B
<1>16. WroteInTurn'
  <2> SUFFICES ASSUME NEW x \in B \union {mb_idx}, HasMtch(cell, work'[x].tti),
                      \A f \in Left(cell, work'[x]) : f.ce
               PROVE  First(work', mb_idx', x)
    BY <1>1, <1>5 DEF WroteInTurn
  <2>1. x # mb_idx
    BY <1>3, <1>4, <1>5, <1>12
  <2> QED BY <1>5, <1>8, <1>10, <2>1 DEF WroteInTurn, B
<1>17. StopKnown'
  <2> SUFFICES ASSUME NEW l \in DOMAIN stops
               PROVE  /\ stops[l] = NoStop =>
                           allow_rrc_sn_across_periods \/ l = McchLcid \/ rlc[<<1, l>>] = {}
                      /\ stops[l] # NoStop =>
                           /\ l # McchLcid
                           /\ \E q \in {0, 1} :
                                /\ EndIn(cell, q, l, stops[l])
                                /\ Coming(cell, tti', work', mb_idx', B \union {mb_idx}, q, stops[l])
                                /\ allow_rrc_sn_across_periods \/ rlc[<<1, l>>] \subseteq {q}
    BY <1>1, <1>5 DEF StopKnown
  <2>1. CASE stops[l] = NoStop
    BY <1>8, <2>1 DEF StopKnown
  <2>2. CASE stops[l] # NoStop
    <3>1. PICK q \in {0, 1} :
            /\ EndIn(cell, q, l, stops[l])
            /\ Coming(cell, tti, work, mb_idx, B, q, stops[l])
            /\ allow_rrc_sn_across_periods \/ rlc[<<1, l>>] \subseteq {q}
      BY <1>8, <2>2 DEF StopKnown, B
    <3>2. l # McchLcid /\ stops[l] \in Nat
      BY <1>2, <1>8, <2>2 DEF StopKnown
    <3>3. Coming(cell, tti', work', mb_idx', B \union {mb_idx}, q, stops[l])
      BY <1>14, <3>1, <3>2
    <3> QED BY <2>2, <3>1, <3>2, <3>3
  <2> QED BY <2>1, <2>2
<1>18. MsiThenEnd'
  <2> SUFFICES ASSUME NEW x \in B \union {mb_idx}, NEW f \in Left(cell, work'[x]), f.ce
               PROVE  Coming(cell, tti', work', mb_idx',
                             {y \in B \union {mb_idx} : ~Older(mb_idx', y, x)},
                             PeriodOf(work'[x].tti), f.stop)
    BY <1>1, <1>5 DEF MsiThenEnd
  <2> DEFINE C == {y \in B \union {mb_idx} : ~Older(mb_idx', y, x)}
  <2>1. CASE x \in B
    <3> DEFINE A == {y \in B : ~Older(mb_idx, y, x)}
               q == PeriodOf(work[x].tti)
    <3>1. C = A \union {mb_idx} /\ A \in SUBSET B
      BY <1>9, <2>1
    <3>2. Coming(cell, tti, work, mb_idx, A, q, f.stop) /\ PeriodOf(work'[x].tti) = q
          /\ f \in Left(cell, work[x])
      BY <1>5, <1>8, <2>1 DEF MsiThenEnd, B
    <3>3. f.stop \in Nat
      BY <1>7, <2>1, <3>2, LeftFacts DEF B
    <3> HIDE DEF A, C, q
    <3>4. Coming(cell, tti', work', mb_idx', C, q, f.stop)
      BY <1>14, <3>1, <3>2, <3>3
    <3> QED BY <3>2, <3>4 DEF C
  <2>2. CASE x = mb_idx
    <3>1. C = {} \union {mb_idx}
      BY <1>9, <2>2
    <3>2. PeriodOf(work'[x].tti) = p /\ f \in Range(S)
      BY <1>3, <1>4, <1>5, <2>2 DEF p
    <3>3. f.stop \in Nat /\ Ends(cell, tti, f.stop) # {}
      BY <1>11, <3>2
    <3>4. Coming(cell, tti, work, mb_idx, {}, p, f.stop)
      BY <3>3 DEF Coming, p
    <3> HIDE DEF C
    <3>5. Coming(cell, tti', work', mb_idx', C, p, f.stop)
      BY <1>14, <3>1, <3>3, <3>4
    <3> QED BY <3>2, <3>5 DEF C
  <2> QED BY <2>1, <2>2
<1>19. \A k \in DOMAIN Plan(cell, p) :
         n > 0 /\ n <= Plan(cell, p)[k].stop =>
           MsiSeen(cell, work, mb_idx, EndIn(cell, p, Plan(cell, p)[k].lcid, stops[Plan(cell, p)[k].lcid]),
                   B, p, n, Plan(cell, p)[k].lcid)
  BY <1>8 DEF MsiBeforeMain, p, n, B
<1>20. MsiThenData'
  <2> SUFFICES ASSUME NEW x \in B \union {mb_idx}, NEW f \in Left(cell, work'[x]),
                      ~f.ce, f.lcid # McchLcid
               PROVE  \/ HasCe(cell, work'[x], f.lcid)
                      \/ MsiSeen(cell, work', mb_idx',
                                 EndIn(cell, PeriodOf(work'[x].tti), f.lcid, stops[f.lcid]),
                                 {y \in B \union {mb_idx} : Older(mb_idx', y, x)},
                                 PeriodOf(work'[x].tti), TxIndex(cell, work'[x].tti), f.lcid)
    BY <1>1, <1>5 DEF MsiThenData
  <2> DEFINE C == {y \in B \union {mb_idx} : Older(mb_idx', y, x)}
  <2>1. CASE x \in B
    <3> DEFINE A == {y \in B : Older(mb_idx, y, x)}
               q == PeriodOf(work[x].tti)
               k == TxIndex(cell, work[x].tti)
               known == EndIn(cell, q, f.lcid, stops[f.lcid])
    <3>1. C = A /\ A \in SUBSET B /\ work'[x] = work[x]
      BY <1>5, <1>9, <2>1
    <3>2. HasCe(cell, work[x], f.lcid) \/ MsiSeen(cell, work, mb_idx, known, A, q, k, f.lcid)
      BY <1>5, <1>8, <2>1, <3>1 DEF MsiThenData, B
    <3> HIDE DEF A, C, q, k, known
    <3>3. HasCe(cell, work[x], f.lcid) \/ MsiSeen(cell, work', mb_idx', known, C, q, k, f.lcid)
      BY <1>15, <3>1, <3>2
    <3> QED BY <3>1, <3>3 DEF C, q, k, known
  <2>2. CASE x = mb_idx
    <3>1. C = B /\ work'[x] = r /\ f \in Range(S)
      BY <1>4, <1>5, <1>9, <2>2
    <3>2. PICK k \in DOMAIN Plan(cell, p) : f.lcid = Plan(cell, p)[k].lcid /\ n <= Plan(cell, p)[k].stop
      BY <1>11, <3>1
    <3>3. CASE n = 0
      BY <1>12, <3>1, <3>2, <3>3
    <3>4. CASE n # 0
      <4> DEFINE known == EndIn(cell, p, f.lcid, stops[f.lcid])
      <4>1. MsiSeen(cell, work, mb_idx, known, B, p, n, f.lcid)
        BY <1>13, <1>19, <3>2, <3>4
      <4> HIDE DEF known, C
      <4>2. MsiSeen(cell, work', mb_idx', known, C, p, n, f.lcid)
        BY <1>15, <3>1, <4>1
      <4> QED BY <1>3, <3>1, <4>2 DEF C, known, p, n
    <3> QED BY <3>3, <3>4
  <2> QED BY <2>1, <2>2
<1>21. MsiBeforeMain'
  <2> DEFINE t2 == tti'
  <2> SUFFICES ASSUME NEW k \in DOMAIN Plan(cell, PeriodOf(t2)), NEW m,
                      m = Plan(cell, PeriodOf(t2))[k],
                      TxIndex(cell, t2) > 0, TxIndex(cell, t2) <= m.stop
               PROVE  MsiSeen(cell, work', mb_idx', EndIn(cell, PeriodOf(t2), m.lcid, stops[m.lcid]),
                              B \union {mb_idx}, PeriodOf(t2), TxIndex(cell, t2), m.lcid)
    BY <1>1, <1>5 DEF MsiBeforeMain
  <2>1. PeriodOf(t2) = p /\ TxIndex(cell, t2) = n + 1
    BY <1>1, <1>2, NextIndex DEF p, n
  <2>2. k \in DOMAIN Plan(cell, p) /\ m = Plan(cell, p)[k] /\ n + 1 <= m.stop /\ m.stop \in Nat
    <3>1. k \in DOMAIN Plan(cell, p) /\ m = Plan(cell, p)[k] /\ n + 1 <= m.stop
      BY <2>1
    <3>2. EndIn(cell, p, m.lcid, m.stop)
      BY <3>1 DEF EndIn
    <3>3. m.stop \in Nat
      BY <1>2, <1>7, <3>2, EndUnique DEF p
    <3> QED BY <3>1, <3>3
  <2> DEFINE known == EndIn(cell, p, m.lcid, stops[m.lcid])
  <2>3. CASE n = 0
    <3>1. HasCe(cell, work'[mb_idx], m.lcid)
      BY <1>4, <1>12, <2>2, <2>3
    <3>2. Earlier(cell, work', mb_idx, p, n + 1)
      BY <1>3, <1>4, <2>3 DEF Earlier, p, n
    <3> HIDE DEF known
    <3>3. MsiSeen(cell, work', mb_idx', known, B \union {mb_idx}, p, n + 1, m.lcid)
      BY <1>9, <3>1, <3>2 DEF MsiSeen
    <3> QED BY <2>1, <3>3 DEF known
  <2>4. CASE n # 0
    <3>1. MsiSeen(cell, work, mb_idx, known, B, p, n, m.lcid)
      BY <1>13, <1>19, <2>2, <2>4
    <3>2. PeriodOf(work'[mb_idx].tti) = p /\ TxIndex(cell, work'[mb_idx].tti) = n
      BY <1>3, <1>4 DEF p, n
    <3> HIDE DEF known
    <3>3. MsiSeen(cell, work', mb_idx', known, B \union {mb_idx}, p, n + 1, m.lcid)
      BY <1>1, <1>2, <1>5, <1>13, <3>1, <3>2, MsiSeenDispatch
    <3> QED BY <2>1, <3>3 DEF known
  <2> QED BY <2>3, <2>4
<1>22. McchInTurn'
  <2> SUFFICES ASSUME NEW q \in rlc[<<1, McchLcid>>]
               PROVE  \E x \in B \union {mb_idx} :
                        /\ First(work', mb_idx', x) /\ PeriodOf(work'[x].tti) = q
                        /\ work'[x].pc = "pdu" /\ work'[x].todo = <<>> /\ work'[x].is_mcch
    BY <1>1, <1>5 DEF McchInTurn
  <2>1. PICK x \in B :
          /\ First(work, mb_idx, x) /\ PeriodOf(work[x].tti) = q
          /\ work[x].pc = "pdu" /\ work[x].todo = <<>> /\ work[x].is_mcch
    BY <1>8 DEF McchInTurn, B
  <2> QED BY <1>5, <1>10, <2>1
<1> QED BY <1>16, <1>17, <1>18, <1>20, <1>21, <1>22 DEF TurnInv

\* Main passes a CAS subframe: no number and no worker changes.
LEMMA DispatchCasTurn ==
    ASSUME IndInv, Faithful, TurnInv, DispatchCas
    PROVE  Faithful' /\ TurnInv'
<1>1. /\ ~is_mbsfn_subframe(cell.dedicated, tti) /\ tti' = (tti + 1) % TtiCount
      /\ UNCHANGED <<cell, mb_idx, work, stops, rlc, lost, overtaken>>
  BY DEF DispatchCas, is_mbsfn_subframe
<1>2. /\ tti \in 0 .. TtiCount - 1 /\ tti \in Nat /\ cell \in Cells
      /\ stops \in [Lcids(cell) -> Nat \union {NoStop}]
  BY TtiCountPositive DEF IndInv, TypeOK
<1>3. Faithful'
  BY <1>1 DEF Faithful
<1> SUFFICES ASSUME InTurn' PROVE TurnInv'
  BY <1>3 DEF TurnInv
<1>4. InTurn /\ Len(cell.end) = 1
  BY <1>1 DEF InTurn
<1>5. WroteInTurn /\ StopKnown /\ MsiThenEnd /\ MsiThenData /\ MsiBeforeMain /\ McchInTurn
  BY <1>4 DEF TurnInv
<1>6. ASSUME NEW B, NEW q, NEW s \in Nat, Coming(cell, tti, work, mb_idx, B, q, s)
      PROVE  Coming(cell, tti', work, mb_idx, B, q, s)
  BY <1>1, <1>2, <1>6, ComingCas
<1>7. WroteInTurn' /\ MsiThenData' /\ McchInTurn'
  BY <1>1, <1>5 DEF WroteInTurn, MsiThenData, McchInTurn
<1>8. StopKnown'
  <2> SUFFICES ASSUME NEW l \in DOMAIN stops, stops[l] # NoStop
               PROVE  \E q \in {0, 1} :
                        /\ EndIn(cell, q, l, stops[l])
                        /\ Coming(cell, tti', work, mb_idx, Busy(work), q, stops[l])
                        /\ allow_rrc_sn_across_periods \/ rlc[<<1, l>>] \subseteq {q}
    BY <1>1, <1>5 DEF StopKnown
  <2>1. PICK q \in {0, 1} :
          /\ EndIn(cell, q, l, stops[l])
          /\ Coming(cell, tti, work, mb_idx, Busy(work), q, stops[l])
          /\ allow_rrc_sn_across_periods \/ rlc[<<1, l>>] \subseteq {q}
    BY <1>5 DEF StopKnown
  <2>2. stops[l] \in Nat
    BY <1>2
  <2> QED BY <1>6, <2>1, <2>2
<1>9. MsiThenEnd'
  <2> SUFFICES ASSUME NEW x \in Busy(work), NEW f \in Left(cell, work[x]), f.ce
               PROVE  Coming(cell, tti', work, mb_idx, {y \in Busy(work) : ~Older(mb_idx, y, x)},
                             PeriodOf(work[x].tti), f.stop)
    BY <1>1 DEF MsiThenEnd
  <2>1. f.stop \in Nat
    BY <1>4, LeftFacts
  <2> QED BY <1>5, <1>6, <2>1 DEF MsiThenEnd
<1>10. MsiBeforeMain'
  <2> DEFINE t2 == tti'
  <2>1. TxIndex(cell, t2) = 0 \/ (PeriodOf(t2) = PeriodOf(tti) /\ TxIndex(cell, t2) = TxIndex(cell, tti))
    <3>1. TxIndex(cell, tti) \in Nat
      BY <1>2, IndexType
    <3> QED BY <1>1, <1>2, <3>1, NextIndex
  <2>2. CASE TxIndex(cell, t2) = 0
    BY <1>1, <2>2 DEF MsiBeforeMain
  <2>3. CASE PeriodOf(t2) = PeriodOf(tti) /\ TxIndex(cell, t2) = TxIndex(cell, tti)
    BY <1>1, <1>5, <2>3 DEF MsiBeforeMain
  <2> QED BY <2>1, <2>2, <2>3
<1> QED BY <1>7, <1>8, <1>9, <1>10 DEF TurnInv

\* Before the first subframe nothing is noted and nothing is written.
LEMMA InitTurn == Init => Faithful /\ TurnInv
<1> SUFFICES ASSUME Init PROVE Faithful /\ TurnInv
  OBVIOUS
<1>1. /\ cell \in Cells /\ tti = 0 /\ work = [w \in Proc |-> Idle]
      /\ stops = [l \in Lcids(cell) |-> NoStop]
      /\ rlc = [b \in (DOMAIN cell.end) \X Lcids(cell) |-> {}]
  BY DEF Init
<1>2. Idle.pc = "idle" /\ \A w \in Proc : work[w] = Idle
  BY <1>1 DEF Idle
<1>3. Busy(work) = {}
  BY <1>2 DEF Busy
<1>4. Faithful
  BY <1>2 DEF Faithful, AsSent
<1> SUFFICES ASSUME Len(cell.end) = 1 PROVE TurnInv
  BY <1>4 DEF TurnInv, InTurn
<1>5. \A l \in Lcids(cell) : stops[l] = NoStop /\ rlc[<<1, l>>] = {} /\ DOMAIN stops = Lcids(cell)
      /\ McchLcid \in Lcids(cell)
  <2>1. DOMAIN cell.end = 1 .. 1 /\ McchLcid \in Lcids(cell)
    BY <1>1, CellTypes
  <2>2. \A l \in Lcids(cell) : <<1, l>> \in (DOMAIN cell.end) \X Lcids(cell)
    BY <2>1
  <2> QED BY <1>1, <2>1, <2>2
<1>6. WroteInTurn /\ MsiThenEnd /\ MsiThenData
  BY <1>3 DEF WroteInTurn, MsiThenEnd, MsiThenData
<1>7. StopKnown /\ McchInTurn
  <2>1. McchLcid \in Lcids(cell)
    BY <1>1, CellTypes
  <2> QED BY <1>1, <1>5, <2>1 DEF StopKnown, McchInTurn
<1>8. MsiBeforeMain
  <2> DEFINE S == {v \in 0 .. 0 - 1 : is_mbsfn_subframe(cell.dedicated, v)}
  <2>1. TxIndex(cell, 0) = 0
    <3>1. 0 % (10 * Period) = 0 /\ 0 \in 0 .. 10 * Period - 1 /\ cell.dedicated \in BOOLEAN
      BY <1>1, PeriodAssumption, CellsAssumption
    <3>2. TxIndex(cell, 0) = Cardinality(S) /\ S = {}
      BY <3>1 DEF TxIndex, TxNumber
    <3> HIDE DEF S
    <3> QED BY <3>2, FS_EmptySet
  <2> QED BY <1>1, <2>1 DEF MsiBeforeMain
<1> QED BY <1>6, <1>7, <1>8 DEF TurnInv

\* The invariant of workers that keep their turn: as long as nothing is lost and nobody
\* overtakes, _sched_stops, RLC and the subframes still at work agree on the period.
THEOREM TurnInductive == Spec => [](IndInv /\ Faithful /\ TurnInv)
<1>1. Init => IndInv /\ Faithful /\ TurnInv
  BY InitIndInv, InitTurn
<1>2. IndInv /\ Faithful /\ TurnInv /\ [Next]_vars => (Faithful /\ TurnInv)'
  <2> SUFFICES ASSUME IndInv, Faithful, TurnInv, [Next]_vars PROVE Faithful' /\ TurnInv'
    OBVIOUS
  <2>1. CASE Main
    BY <2>1, DispatchMbsfnTurn, DispatchCasTurn DEF Main
  <2>2. ASSUME NEW w \in Proc, Work(w) PROVE Faithful' /\ TurnInv'
    <3>1. Faithful'
      BY <2>2, FaithfulWork
    <3>2. ASSUME InTurn' PROVE TurnInv'
      <4>1. CASE Quiet(w)
        BY <3>2, <4>1, QuietStep
      <4>2. CASE ScheduleStop(w)
        BY <3>2, <4>2, ScheduleStopStep
      <4>3. CASE WritePdu(w)
        BY <3>2, <4>3, WritePduStep
      <4>4. CASE StopBearer(w)
        BY <3>2, <4>4, StopBearerStep
      <4> QED BY <2>2, <4>1, <4>2, <4>3, <4>4 DEF Work, Quiet
    <3> QED BY <3>1, <3>2 DEF TurnInv
  <2>3. CASE UNCHANGED vars
    BY <2>3 DEF vars, Faithful, TurnInv, InTurn, WroteInTurn, StopKnown, MsiThenEnd, MsiThenData,
                MsiBeforeMain, McchInTurn
  <2> QED BY <2>1, <2>2, <2>3 DEF Next
<1>3. IndInv /\ Faithful /\ TurnInv /\ [Next]_vars => (IndInv /\ Faithful /\ TurnInv)'
  BY <1>2, StepIndInv
<1> QED BY <1>1, <1>3, PTL DEF Spec

\* With one PMCH, no losses and no overtaking, the PDUs of two scheduling periods never
\* meet in a bearer (process() stops an MTCH before the next period's data comes), for
\* every number of processors, every plan and every length of the period.
THEOREM PeriodsAlwaysSeparate == Spec => []PeriodsSeparate
<1>1. IndInv /\ Faithful /\ TurnInv => PeriodsSeparate
  <2> SUFFICES ASSUME IndInv, Faithful, TurnInv, InTurn, ~allow_rrc_sn_across_periods,
                      NEW l \in DOMAIN stops
               PROVE  Cardinality(rlc[<<1, l>>]) <= 1
    BY DEF PeriodsSeparate, InTurn
  <2>1. StopKnown /\ McchInTurn /\ mb_idx \in Proc
    BY DEF TurnInv, IndInv, TypeOK
  <2>2. \E q : rlc[<<1, l>>] \subseteq {q}
    <3> DEFINE S == rlc[<<1, l>>]
    <3>1. CASE l # McchLcid
      <4>1. S = {} \/ \E q \in {0, 1} : S \subseteq {q}
        BY <2>1, <3>1 DEF StopKnown
      <4> QED BY <4>1
    <3>2. ASSUME l = McchLcid, NEW a \in rlc[<<1, l>>], NEW b \in rlc[<<1, l>>] PROVE a = b
      <4>1. PICK x \in Busy(work) : First(work, mb_idx, x) /\ PeriodOf(work[x].tti) = a
        BY <2>1, <3>2 DEF McchInTurn
      <4>2. PICK y \in Busy(work) : First(work, mb_idx, y) /\ PeriodOf(work[y].tti) = b
        BY <2>1, <3>2 DEF McchInTurn
      <4>3. x = y
        <5>1. x \in Proc /\ y \in Proc /\ ~Older(mb_idx, x, y) /\ ~Older(mb_idx, y, x)
          BY <4>1, <4>2 DEF First, Busy
        <5> QED BY <2>1, <5>1, OlderTotal
      <4> QED BY <4>1, <4>2, <4>3
    <3> HIDE DEF S
    <3>3. CASE l = McchLcid
      <4>1. S = {} \/ \E q \in S : S \subseteq {q}
        BY <3>2, <3>3 DEF S
      <4>2. \E q : S \subseteq {q}
        BY <4>1
      <4> QED BY <4>2 DEF S
    <3> QED BY <3>1, <3>3
  <2>3. PICK q : rlc[<<1, l>>] \subseteq {q}
    BY <2>2
  <2>4. IsFiniteSet({q}) /\ Cardinality({q}) = 1
    BY FS_Singleton
  <2> DEFINE S == rlc[<<1, l>>]
  <2> HIDE DEF S
  <2>5. S \subseteq {q}
    BY <2>3 DEF S
  <2>6. Cardinality(S) <= 1
    BY <2>4, <2>5, FS_Subset
  <2> QED BY <2>6 DEF S
<1> QED BY <1>1, TurnInductive, PTL

-----------------------------------------------------------------------------
(* Carriers that leave room for workers that overtake                      *)

\* Division keeps the order.
LEMMA DivMonotone ==
    ASSUME NEW d \in Nat \ {0}, NEW a \in Nat, NEW b \in Nat, a <= b
    PROVE  a \div d <= b \div d /\ a \div d \in Int /\ b \div d \in Int
<1> DEFINE p == a \div d
           q == b \div d
           r == a % d
           s == b % d
<1>1. /\ a = p * d + r /\ p \in Int /\ r \in 0 .. d - 1
      /\ b = q * d + s /\ q \in Int /\ s \in 0 .. d - 1
  BY DivModDef
<1> HIDE DEF p, q, r, s
<1>2. ~(q <= p - 1)
  <2> SUFFICES ASSUME q <= p - 1 PROVE FALSE
    OBVIOUS
  <2>1. q * d <= (p - 1) * d /\ (p - 1) * d = p * d - d /\ q * d \in Int /\ p * d \in Int
    BY <1>1
  <2> DEFINE x == q * d
             y == p * d
  <2> HIDE DEF x, y
  <2>2. x <= y - d /\ x \in Int /\ y \in Int /\ a = y + r /\ b = x + s
    BY <1>1, <2>1 DEF x, y
  <2> QED BY <1>1, <2>2
<1>3. p <= q
  BY <1>1, <1>2
<1> QED BY <1>1, <1>3 DEF p, q

\* Later subframes of a period have higher numbers.
LEMMA IndexGrows ==
    ASSUME NEW c \in Cells, NEW t \in Nat, NEW u \in Nat, t < u, SamePeriod(t, u),
           is_mbsfn_subframe(c.dedicated, t)
    PROVE  TxIndex(c, t) < TxIndex(c, u) /\ PeriodOf(t) = PeriodOf(u)
<1> DEFINE D == 10 * Period
           x == t % D
           y == u % D
           S(z) == {v \in 0 .. z - 1 : is_mbsfn_subframe(c.dedicated, v)}
<1>1. D \in Nat \ {0} /\ c.dedicated \in BOOLEAN
  BY PeriodAssumption, CellsAssumption
<1>2. t \div D = u \div D /\ PeriodOf(t) = PeriodOf(u)
  BY DEF SamePeriod, PeriodOf
<1>3. x \in 0 .. D - 1 /\ y \in 0 .. D - 1 /\ x < y
  <2> DEFINE a == t \div D
             b == a * D
  <2>1. /\ t = (t \div D) * D + x /\ x \in 0 .. D - 1 /\ t \div D \in Int
        /\ u = (u \div D) * D + y /\ y \in 0 .. D - 1
    <3> HIDE DEF D
    <3>1. t \in Int /\ u \in Int
      OBVIOUS
    <3>2. t = (t \div D) * D + (t % D) /\ t % D \in 0 .. D - 1 /\ t \div D \in Int
      BY <1>1, <3>1, DivModDef
    <3>3. u = (u \div D) * D + (u % D) /\ u % D \in 0 .. D - 1
      BY <1>1, <3>1, DivModDef
    <3> QED BY <3>2, <3>3
  <2>2. t = b + x /\ u = b + y /\ b \in Int
    BY <1>1, <1>2, <2>1
  <2> HIDE DEF x, y, D, a, b
  <2> QED BY <1>1, <2>1, <2>2
<1>4. TxIndex(c, t) = Cardinality(S(x)) /\ TxIndex(c, u) = Cardinality(S(y))
  BY <1>1, <1>3 DEF TxIndex, TxNumber
<1>5. is_mbsfn_subframe(c.dedicated, x)
  <2>1. x % 10 = t % 10 /\ x % 40 = t % 40
    BY InPeriod
  <2> HIDE DEF x
  <2> QED BY <2>1 DEF is_mbsfn_subframe, is_cas_subframe
<1> HIDE DEF x, y, D
<1>6. /\ S(x) \union {x} \subseteq S(y) /\ x \notin S(x)
      /\ S(x) \subseteq 0 .. x - 1 /\ S(y) \subseteq 0 .. y - 1
  <2>1. 0 .. x - 1 \subseteq 0 .. y - 1 /\ x \in 0 .. y - 1 /\ x \notin 0 .. x - 1
    BY <1>1, <1>3
  <2> QED BY <1>5, <2>1
<1>7. IsFiniteSet(0 .. x - 1) /\ IsFiniteSet(0 .. y - 1)
  <2>1. 0 \in Int /\ x - 1 \in Int /\ y - 1 \in Int
    BY <1>1, <1>3
  <2> QED BY <2>1, FS_Interval
<1> HIDE DEF S
<1>8. /\ IsFiniteSet(S(x)) /\ IsFiniteSet(S(y))
      /\ Cardinality(S(x)) \in Nat /\ Cardinality(S(y)) \in Nat
  BY <1>6, <1>7, FS_Subset, FS_CardinalityType
<1>9. Cardinality(S(x) \union {x}) = Cardinality(S(x)) + 1
  BY <1>6, <1>8, FS_AddElement
<1>10. Cardinality(S(x) \union {x}) <= Cardinality(S(y))
  BY <1>6, <1>8, FS_Subset
<1> QED BY <1>2, <1>4, <1>8, <1>9, <1>10

\* Main is beyond the subframes of the period it has left, and beyond u when it is later.
LEMMA GapBehind ==
    ASSUME NEW c \in Cells, NEW t \in 0 .. TtiCount - 1, NEW t2 \in 0 .. TtiCount - 1,
           NEW u \in t .. TtiCount - 1, t2 <= t \/ u < t2 \/ ~SamePeriod(t, t2)
    PROVE  Gap(c, t, u) <= Cardinality(Between(c.dedicated, t, t2))
<1> DEFINE A == {v \in t + 1 .. u : SamePeriod(t, v) /\ is_mbsfn_subframe(c.dedicated, v)}
           B == Between(c.dedicated, t, t2)
           n == (t2 - t - 1) % TtiCount
           f == [v \in A |-> v - t]
<1>1. TtiCount \in Nat \ {0} /\ t \in Nat /\ t2 \in Nat /\ u \in Nat /\ A \subseteq Nat
  BY TtiCountPositive
<1>2. n = IF t2 <= t THEN t2 - t - 1 + TtiCount ELSE t2 - t - 1
  <2>1. t2 - t - 1 \in -TtiCount .. TtiCount - 1
    BY <1>1
  <2>2. n = IF t2 - t - 1 < 0 THEN (t2 - t - 1) + TtiCount ELSE t2 - t - 1
    BY <1>1, <2>1, DiffMod
  <2> HIDE DEF n
  <2> QED BY <1>1, <2>2
<1> HIDE DEF n
<1>3. ASSUME NEW v \in A PROVE v - t \in 1 .. n /\ (t + (v - t)) % TtiCount = v /\ v - t \in Nat
  <2>1. v \in t + 1 .. u /\ SamePeriod(t, v) /\ v \in 0 .. TtiCount - 1 /\ v \in Nat
    BY <1>1
  <2>2. v % TtiCount = v /\ t + (v - t) = v
    BY <1>1, <2>1
  <2>3. v - t \in 1 .. n
    <3>1. CASE t2 <= t
      BY <1>1, <1>2, <2>1, <3>1
    <3>2. CASE t < t2 /\ u < t2
      BY <1>1, <1>2, <2>1, <3>2
    <3>3. CASE t < t2 /\ ~SamePeriod(t, t2)
      <4>1. v < t2
        <5> SUFFICES ASSUME t2 <= v PROVE FALSE
          BY <1>1, <2>1
        <5> DEFINE D == 10 * Period
        <5>1. D \in Nat \ {0} /\ t \div D = v \div D /\ t \div D # t2 \div D
          BY <2>1, <3>3, PeriodAssumption DEF SamePeriod
        <5> HIDE DEF D
        <5>2. t \div D <= t2 \div D /\ t2 \div D <= v \div D /\ t \div D \in Int /\ t2 \div D \in Int
          <6>1. t <= t2 /\ t2 <= v
            BY <1>1, <2>1, <3>3
          <6>2. t \div D <= t2 \div D /\ t \div D \in Int /\ t2 \div D \in Int
            BY <1>1, <5>1, <6>1, DivMonotone
          <6>3. t2 \div D <= v \div D
            BY <1>1, <2>1, <5>1, <6>1, DivMonotone
          <6> QED BY <6>2, <6>3
        <5> QED BY <5>1, <5>2
      <4> QED BY <1>1, <1>2, <2>1, <3>3, <4>1
    <3> QED BY <1>1, <3>1, <3>2, <3>3
  <2> QED BY <1>1, <2>1, <2>2, <2>3
<1>4. \A v \in A : v - t \in B
  <2> SUFFICES ASSUME NEW v \in A PROVE v - t \in B
    OBVIOUS
  <2>1. v - t \in 1 .. n /\ (t + (v - t)) % TtiCount = v
    BY <1>3
  <2>2. is_mbsfn_subframe(c.dedicated, (t + (v - t)) % TtiCount)
    BY <2>1
  <2> DEFINE k == v - t
  <2> HIDE DEF k
  <2> QED BY <2>1, <2>2 DEF Between, n, k
<1>5. \A v, x \in A : v - t = x - t => v = x
  BY <1>1
<1>6. IsFiniteSet(B)
  BY OneMore
<1>7. Gap(c, t, u) = Cardinality(A)
  BY DEF Gap
<1> HIDE DEF A, B
<1>8. f \in Injection(A, B)
  BY <1>4, <1>5 DEF Injection, IsInjective
<1> HIDE DEF f
<1> QED BY <1>6, <1>7, <1>8, FS_Injection DEF B

\* A carrier that leaves room: main is still in the period of a worker with a subframe
\* of the PMCH, and has not come to the last subframe of an MTCH whose end the worker notes.
LEMMA InRoom ==
    ASSUME IndInv, Spaced(cell), NEW w \in Busy(work), TxPmch(cell, work[w].tti) = 1
    PROVE  /\ work[w].tti < tti /\ SamePeriod(work[w].tti, tti)
           /\ PeriodOf(work[w].tti) = PeriodOf(tti)
           /\ TxIndex(cell, work[w].tti) = 0 =>
                \A k \in DOMAIN SentMtchs(cell, 1, work[w].tti) :
                  Ends(cell, tti, SentMtchs(cell, 1, work[w].tti)[k].stop) # {}
<1> DEFINE t == work[w].tti
           b == Cardinality(Between(cell.dedicated, t, tti))
<1>1. /\ w \in Proc /\ t \in 0 .. TtiCount - 1 /\ tti \in 0 .. TtiCount - 1
      /\ t \in Nat /\ tti \in Nat /\ TtiCount \in Nat \ {0} /\ thread_cnt \in Nat
      /\ is_mbsfn_subframe(cell.dedicated, t) /\ cell \in Cells /\ work[w].pc # "idle"
  BY WorkTypes, TtiCountPositive DEF Busy, IndInv, Dispatched, TypeOK
<1>2. b < thread_cnt /\ b \in Nat
  <2>1. Behind(w) = b
    BY DEF Behind, Between
  <2>2. Behind(w) <= (mb_idx - 1 - w) % thread_cnt
    BY <1>1 DEF IndInv, Rank
  <2>3. (mb_idx - 1 - w) % thread_cnt \in 0 .. thread_cnt - 1
    BY <1>1, TurnStep DEF IndInv, TypeOK
  <2>4. b \in Nat
    BY <1>1, OneMore
  <2> HIDE DEF b
  <2> QED BY <1>1, <2>1, <2>2, <2>3, <2>4
<1>3. ASSUME NEW u \in t .. TtiCount - 1, Gap(cell, t, u) >= thread_cnt
      PROVE  t < tti /\ tti <= u /\ SamePeriod(t, tti)
  <2>1. Gap(cell, t, u) \in Nat
    <3> DEFINE A == {v \in t + 1 .. u : SamePeriod(t, v) /\ is_mbsfn_subframe(cell.dedicated, v)}
    <3>1. t + 1 \in Int /\ u \in Int /\ A \subseteq t + 1 .. u
      BY <1>1
    <3>2. Gap(cell, t, u) = Cardinality(A)
      BY DEF Gap
    <3> HIDE DEF A, t
    <3>3. IsFiniteSet(t + 1 .. u)
      BY <3>1, FS_Interval
    <3> QED BY <3>1, <3>2, <3>3, FS_Subset, FS_CardinalityType
  <2>2. ~(Gap(cell, t, u) <= b)
    BY <1>1, <1>2, <1>3, <2>1
  <2>3. ~(tti <= t \/ u < tti \/ ~SamePeriod(t, tti))
    <3> HIDE DEF t
    <3> QED BY <1>1, <1>3, <2>2, GapBehind
  <2> QED BY <1>1, <2>3
<1>4. /\ Gap(cell, t, TtiCount - 1) >= thread_cnt
      /\ TxIndex(cell, t) = 0 =>
           \A k \in DOMAIN SentMtchs(cell, 1, t) :
             \E u \in Ends(cell, t, SentMtchs(cell, 1, t)[k].stop) : Gap(cell, t, u) >= thread_cnt
  BY <1>1 DEF Spaced
<1>5. t < tti /\ SamePeriod(t, tti)
  <2>1. TtiCount - 1 \in t .. TtiCount - 1
    BY <1>1
  <2> QED BY <1>3, <1>4, <2>1
<1>6. PeriodOf(t) = PeriodOf(tti)
  BY <1>5 DEF SamePeriod, PeriodOf
<1>7. ASSUME NEW s, NEW u \in Ends(cell, t, s), Gap(cell, t, u) >= thread_cnt
      PROVE  Ends(cell, tti, s) # {}
  <2>1. u \in t .. TtiCount - 1 /\ SamePeriod(t, u) /\ HasMtch(cell, u) /\ TxIndex(cell, u) >= s
    BY <1>7 DEF Ends
  <2>2. tti <= u
    BY <1>3, <1>7, <2>1
  <2>3. u \in tti .. TtiCount - 1 /\ SamePeriod(tti, u)
    BY <1>1, <1>5, <2>1, <2>2 DEF SamePeriod
  <2>4. u \in Ends(cell, tti, s)
    BY <2>1, <2>3 DEF Ends
  <2> QED BY <2>4
<1>8. TxIndex(cell, t) = 0 =>
        \A k \in DOMAIN SentMtchs(cell, 1, t) : Ends(cell, tti, SentMtchs(cell, 1, t)[k].stop) # {}
  BY <1>4, <1>7
<1> QED BY <1>5, <1>6, <1>8

\* One of the workers B, or main, has still to come to a subframe of period q that stops
\* an MTCH ending at s.
Ahead(c, t, wk, B, q, s) ==
    (\E v \in B : StopsAt(c, wk[v].tti, q, s)) \/ (PeriodOf(t) = q /\ Ends(c, t, s) # {})

\* On a carrier that leaves room, with workers that may overtake one another, an entry
\* of _sched_stops is of a period that has not ended for its MTCH.
RoomInv ==
    ~lost /\ Len(cell.end) = 1 /\ Spaced(cell) =>
        \A l \in DOMAIN stops : stops[l] # NoStop =>
            \E q \in {0, 1} : /\ EndIn(cell, q, l, stops[l])
                              /\ Ahead(cell, tti, work, Busy(work), q, stops[l])

\* Main goes on, with or without a subframe for a processor.
LEMMA AheadMain ==
    ASSUME NEW c \in Cells, NEW t \in 0 .. TtiCount - 1, NEW wk, NEW wk2, NEW B, NEW B2,
           NEW q, NEW s \in Nat, Ahead(c, t, wk, B, q, s),
           B \subseteq B2, \A x \in B : wk2[x].tti = wk[x].tti,
           HasMtch(c, t) => \E v \in B2 : wk2[v].tti = t
    PROVE  Ahead(c, (t + 1) % TtiCount, wk2, B2, q, s)
<1>1. CASE \E v \in B : StopsAt(c, wk[v].tti, q, s)
  BY <1>1 DEF Ahead
<1>2. CASE PeriodOf(t) = q /\ Ends(c, t, s) # {}
  <2>1. CASE HasMtch(c, t) /\ TxIndex(c, t) >= s
    BY <1>2, <2>1 DEF Ahead, StopsAt
  <2>2. CASE ~(HasMtch(c, t) /\ TxIndex(c, t) >= s)
    BY <1>2, <2>2, EndsStep DEF Ahead
  <2> QED BY <2>1, <2>2
<1> QED BY <1>1, <1>2 DEF Ahead

\* Main keeps RoomInv.
LEMMA RoomMain ==
    ASSUME IndInv, RoomInv, Main
    PROVE  RoomInv'
<1>1. tti' = (tti + 1) % TtiCount /\ UNCHANGED <<cell, stops, lost>>
  BY DEF Main, DispatchMbsfn, DispatchCas
<1>2. /\ tti \in 0 .. TtiCount - 1 /\ cell \in Cells /\ mb_idx \in Proc
      /\ stops \in [Lcids(cell) -> Nat \union {NoStop}] /\ work \in [Proc -> WorkOf(cell)]
  BY DEF IndInv, TypeOK
<1>3. /\ Busy(work) \subseteq Busy(work') /\ \A x \in Busy(work) : work'[x].tti = work[x].tti
      /\ HasMtch(cell, tti) => \E v \in Busy(work') : work'[v].tti = tti
  <2>1. CASE DispatchMbsfn
    <3> DEFINE r == [Idle EXCEPT !.pc = "config", !.tti = tti]
    <3>1. work[mb_idx].pc = "idle" /\ work' = [work EXCEPT ![mb_idx] = r]
      BY <2>1 DEF DispatchMbsfn
    <3>2. r.pc = "config" /\ r.tti = tti
      BY DEF Idle
    <3> HIDE DEF r
    <3>3. work'[mb_idx] = r /\ \A x \in Proc \ {mb_idx} : work'[x] = work[x]
      BY <1>2, <3>1
    <3> QED BY <1>2, <3>1, <3>2, <3>3 DEF Busy
  <2>2. CASE DispatchCas
    BY <2>2 DEF DispatchCas, HasMtch, is_mbsfn_subframe
  <2> QED BY <2>1, <2>2 DEF Main
<1> SUFFICES ASSUME ~lost, Len(cell.end) = 1, Spaced(cell),
                    NEW l \in DOMAIN stops, stops[l] # NoStop
             PROVE  \E q \in {0, 1} : /\ EndIn(cell, q, l, stops[l])
                                      /\ Ahead(cell, tti', work', Busy(work'), q, stops[l])
  BY <1>1 DEF RoomInv
<1>4. PICK q \in {0, 1} : /\ EndIn(cell, q, l, stops[l])
                          /\ Ahead(cell, tti, work, Busy(work), q, stops[l])
  BY DEF RoomInv
<1>5. stops[l] \in Nat
  BY <1>2
<1>6. Ahead(cell, tti', work', Busy(work'), q, stops[l])
  BY <1>1, <1>2, <1>3, <1>4, <1>5, AheadMain
<1> QED BY <1>4, <1>6

\* Every step of process() keeps RoomInv: an entry is noted before main has come to
\* the last subframe of its MTCH, because no worker is thread_cnt subframes behind.
LEMMA RoomWork ==
    ASSUME IndInv, Faithful, RoomInv, NEW w \in Proc, Work(w)
    PROVE  RoomInv'
<1>1. /\ cell' = cell /\ tti' = tti /\ w \in Busy(work) /\ (lost => lost')
  BY WorkShape
<1>2. /\ Busy(work') \subseteq Busy(work) /\ Busy(work) \ Busy(work') \subseteq {w}
      /\ \A x \in Busy(work') : work'[x].tti = work[x].tti
  BY BusyShrinks
<1>3. cell \in Cells /\ stops \in [Lcids(cell) -> Nat \union {NoStop}] /\ DOMAIN stops = Lcids(cell)
  BY WorkTypes
<1> SUFFICES ASSUME ~lost', Len(cell.end) = 1, Spaced(cell)
             PROVE  \A l \in DOMAIN stops' : stops'[l] # NoStop =>
                      \E q \in {0, 1} : /\ EndIn(cell, q, l, stops'[l])
                                        /\ Ahead(cell, tti, work', Busy(work'), q, stops'[l])
  BY <1>1 DEF RoomInv
<1>4. ASSUME NEW l \in DOMAIN stops, stops[l] # NoStop,
             \A v \in Busy(work) \ Busy(work') : HasMtch(cell, work[v].tti) => Due(v) = {}
      PROVE  \E q \in {0, 1} : /\ EndIn(cell, q, l, stops[l])
                               /\ Ahead(cell, tti, work', Busy(work'), q, stops[l])
  <2>1. PICK q \in {0, 1} : /\ EndIn(cell, q, l, stops[l])
                            /\ Ahead(cell, tti, work, Busy(work), q, stops[l])
    BY <1>1, <1>4 DEF RoomInv
  <2>2. \A v \in Busy(work) : StopsAt(cell, work[v].tti, q, stops[l]) =>
          v \in Busy(work') /\ StopsAt(cell, work'[v].tti, q, stops[l])
    BY <1>2, <1>4, DueFacts DEF StopsAt
  <2>3. Ahead(cell, tti, work', Busy(work'), q, stops[l])
    BY <2>1, <2>2 DEF Ahead
  <2> QED BY <2>1, <2>3
<1>5. CASE Quiet(w)
  <2>1. /\ stops' = stops
        /\ work'[w].pc = "idle" => (HasMtch(cell, work[w].tti) => Due(w) = {})
    BY <1>5, QuietFacts
  <2>2. \A v \in Busy(work) \ Busy(work') : HasMtch(cell, work[v].tti) => Due(v) = {}
    BY <1>2, <2>1 DEF Busy
  <2> QED BY <1>4, <2>1, <2>2
<1>6. CASE WritePdu(w)
  <2>1. stops' = stops
    BY <1>6 DEF WritePdu
  <2>2. Busy(work') = Busy(work)
    BY <1>6, PduShape
  <2> QED BY <1>4, <2>1, <2>2
<1>7. CASE StopBearer(w)
  <2>1. PICK k \in Due(w) : k \in DOMAIN stops /\ stops' = [stops EXCEPT ![k] = NoStop]
    BY <1>7, StopBearerFacts
  <2>2. work' = work
    BY <1>7 DEF StopBearer
  <2>3. DOMAIN stops' = DOMAIN stops /\ \A l \in DOMAIN stops : stops'[l] # NoStop => stops'[l] = stops[l]
    BY <1>3, <2>1
  <2> QED BY <1>4, <2>2, <2>3
<1>8. CASE ScheduleStop(w)
  <2> DEFINE e == Head(work[w].todo)
             t == work[w].tti
             p == PeriodOf(t)
             m == SentMtchs(cell, 1, t)
  <2>1. e.ce /\ stops' = [stops EXCEPT ![e.lcid] = e.stop]
    BY <1>8 DEF ScheduleStop
  <2>2. e \in Left(cell, work[w]) /\ Busy(work') = Busy(work)
    BY <1>8, PduShape
  <2> HIDE DEF e
  <2>3. /\ e.lcid \in Lcids(cell) /\ p \in {0, 1} /\ TxIndex(cell, t) = 0
        /\ EndIn(cell, p, e.lcid, e.stop)
    BY <1>1, <2>1, <2>2, LeftFacts
  <2>4. PICK k \in DOMAIN m : e.stop = m[k].stop
    BY <2>3, PlanOf DEF EndIn
  <2>5. TxPmch(cell, t) = 1
    <3>1. t \in Nat
      BY WorkTypes
    <3> QED BY <1>3, <2>3, <3>1, OnePmch
  <2>6. PeriodOf(tti) = p /\ Ends(cell, tti, e.stop) # {}
    BY <1>1, <2>3, <2>4, <2>5, InRoom
  <2>7. Ahead(cell, tti, work', Busy(work'), p, e.stop)
    BY <2>6 DEF Ahead
  <2> SUFFICES ASSUME NEW l \in DOMAIN stops, stops'[l] # NoStop
               PROVE  \E q \in {0, 1} : /\ EndIn(cell, q, l, stops'[l])
                                        /\ Ahead(cell, tti, work', Busy(work'), q, stops'[l])
    BY <1>3, <2>1
  <2>8. CASE l = e.lcid
    <3>1. stops'[l] = e.stop
      BY <1>3, <2>1, <2>3, <2>8
    <3> QED BY <2>3, <2>7, <2>8, <3>1
  <2>9. CASE l # e.lcid
    <3>1. stops'[l] = stops[l]
      BY <1>3, <2>1, <2>9
    <3> QED BY <1>4, <2>2, <3>1
  <2> QED BY <2>8, <2>9
<1> QED BY <1>5, <1>6, <1>7, <1>8 DEF Work, Quiet

\* Nothing is noted at first.
LEMMA InitRoom == Init => RoomInv
BY DEF Init, RoomInv

\* The invariant of a carrier that leaves room for workers that overtake one another.
THEOREM RoomInductive == Spec => [](IndInv /\ Faithful /\ RoomInv)
<1>1. Init => IndInv /\ Faithful /\ RoomInv
  BY InitIndInv, InitTurn, InitRoom
<1>2. IndInv /\ Faithful /\ RoomInv /\ [Next]_vars => RoomInv'
  <2> SUFFICES ASSUME IndInv, Faithful, RoomInv, [Next]_vars PROVE RoomInv'
    OBVIOUS
  <2>1. CASE Main
    BY <2>1, RoomMain
  <2>2. ASSUME NEW w \in Proc, Work(w) PROVE RoomInv'
    BY <2>2, RoomWork
  <2>3. CASE UNCHANGED vars
    BY <2>3 DEF vars, RoomInv
  <2> QED BY <2>1, <2>2, <2>3 DEF Next
<1>3. RoomInv /\ UNCHANGED vars => RoomInv'
  BY DEF vars, RoomInv
<1> QED BY <1>1, <1>2, TurnInductive, PTL DEF Spec

\* An entry goes away only in the loop that stops what is due.
LEMMA Erased ==
    ASSUME IndInv, Faithful, [Next]_vars, NEW l \in DOMAIN stops, stops[l] # NoStop, stops'[l] = NoStop,
           Len(cell.end) = 1
    PROVE  /\ sched_mutex \in Busy(work) /\ l \in Due(sched_mutex)
           /\ overtaken' = (overtaken \/ Overtakes(sched_mutex))
<1>1. stops' # stops
  OBVIOUS
<1>2. ~(Main \/ UNCHANGED vars)
  BY <1>1 DEF Main, DispatchMbsfn, DispatchCas, vars
<1>3. PICK w \in Proc : Work(w)
  BY <1>2 DEF Next
<1>4. w \in Busy(work) /\ stops \in [Lcids(cell) -> Nat \union {NoStop}]
  BY <1>3, WorkShape, WorkTypes
<1>5. CASE ScheduleStop(w)
  <2> DEFINE e == Head(work[w].todo)
  <2>1. e.ce /\ stops' = [stops EXCEPT ![e.lcid] = e.stop] /\ e \in Left(cell, work[w])
    BY <1>5, PduShape DEF ScheduleStop
  <2> HIDE DEF e
  <2>2. e.stop \in Nat
    BY <1>4, <2>1, LeftFacts
  <2>3. e.stop # NoStop
    BY <2>2 DEF NoStop
  <2> QED BY <1>4, <2>1, <2>3
<1>6. CASE StopBearer(w)
  <2>1. PICK k \in Due(w) : k \in DOMAIN stops /\ stops' = [stops EXCEPT ![k] = NoStop]
    BY <1>6, StopBearerFacts
  <2>2. k = l
    BY <2>1
  <2>3. w = sched_mutex
    BY <1>6 DEF StopBearer, IndInv, TypeOK
  <2>4. overtaken' = (overtaken \/ Overtakes(w))
    BY <1>6, Zenon DEF StopBearer
  <2> QED BY <1>4, <2>1, <2>2, <2>3, <2>4
<1>7. CASE ~ScheduleStop(w) /\ ~StopBearer(w)
  <2>1. stops' = stops
    BY <1>3, <1>7 DEF Work, mbsfn_config_for_tti, DecodeFails, Decode, WritePdu, StopMcch,
                      StopLoop, LockStops, UnlockStops
  <2> QED BY <1>1, <2>1
<1> QED BY <1>5, <1>6, <1>7

\* An entry of the worker's own period is not due while its MTCH has data to come.
LEMMA NotDueYet ==
    ASSUME IndInv, Len(cell.end) = 1, NEW w \in Busy(work), NEW l \in DOMAIN stops,
           EndIn(cell, PeriodOf(work[w].tti), l, stops[l]), MoreToCome(l, work[w].tti)
    PROVE  l \notin Due(w)
<1> DEFINE t == work[w].tti
<1>1. /\ w \in Proc /\ t \in 0 .. TtiCount - 1 /\ t \in Nat /\ cell \in Cells
      /\ is_mbsfn_subframe(cell.dedicated, t) /\ TtiCount \in Nat \ {0}
  BY WorkTypes, TtiCountPositive DEF Busy, IndInv, Dispatched
<1>2. PICK u \in t + 1 .. TtiCount - 1 :
        /\ u \div (10 * Period) = t \div (10 * Period)
        /\ is_mbsfn_subframe(cell.dedicated, u)
        /\ \E k \in DOMAIN Sent(cell, u) : ~Sent(cell, u)[k].ce /\ Sent(cell, u)[k].lcid = l
  BY DEF MoreToCome
<1>3. u \in 0 .. TtiCount - 1 /\ u \in Nat /\ t < u /\ SamePeriod(t, u)
  BY <1>1, <1>2 DEF SamePeriod
<1>4. TxIndex(cell, t) < TxIndex(cell, u) /\ PeriodOf(t) = PeriodOf(u)
  BY <1>1, <1>3, IndexGrows
<1>5. l # McchLcid /\ stops[l] \in Nat
  BY <1>1, EndUnique
<1>6. PICK f \in Range(Sent(cell, u)) : ~f.ce /\ f.lcid = l
  BY <1>2 DEF Range
<1>7. PICK k \in DOMAIN SentMtchs(cell, 1, u) :
        l = SentMtchs(cell, 1, u)[k].lcid /\ TxIndex(cell, u) <= SentMtchs(cell, 1, u)[k].stop
  BY <1>1, <1>2, <1>3, <1>5, <1>6, SentFacts
<1> DEFINE s == SentMtchs(cell, 1, u)[k].stop
<1>8. EndIn(cell, PeriodOf(t), l, s)
  BY <1>4, <1>7, PlanOf DEF EndIn
<1>9. s = stops[l]
  BY <1>1, <1>8, EndUnique
<1>10. TxIndex(cell, t) \in Nat /\ TxIndex(cell, u) \in Nat
  BY <1>1, <1>3, IndexType
<1>11. TxIndex(cell, u) <= stops[l]
  BY <1>7, <1>9
<1>12. ~(TxIndex(cell, t) >= stops[l])
  BY <1>4, <1>5, <1>10, <1>11
<1> QED BY <1>12, DueFacts

\* With data of an MTCH still to come in its period, a worker's own subframe is of the PMCH.
LEMMA BeforeMore ==
    ASSUME IndInv, Len(cell.end) = 1, NEW w \in Busy(work), NEW l, MoreToCome(l, work[w].tti)
    PROVE  TxPmch(cell, work[w].tti) = 1
<1> DEFINE t == work[w].tti
<1>1. /\ t \in 0 .. TtiCount - 1 /\ t \in Nat /\ cell \in Cells
      /\ is_mbsfn_subframe(cell.dedicated, t) /\ TtiCount \in Nat \ {0}
  BY WorkTypes, TtiCountPositive DEF Busy, IndInv, Dispatched
<1>2. PICK u \in t + 1 .. TtiCount - 1 :
        u \div (10 * Period) = t \div (10 * Period) /\ TxPmch(cell, u) = 1
  BY DEF MoreToCome
<1>3. u \in Nat /\ t < u /\ SamePeriod(t, u)
  BY <1>1, <1>2 DEF SamePeriod
<1>4. TxIndex(cell, t) < TxIndex(cell, u)
  BY <1>1, <1>3, IndexGrows
<1>5. TxIndex(cell, t) \in Nat /\ TxIndex(cell, u) \in Nat
  BY <1>1, <1>3, IndexType
<1>6. /\ cell.end[1] \in Nat
      /\ TxPmch(cell, t) = 1 <=> TxIndex(cell, t) <= cell.end[1]
      /\ TxPmch(cell, u) = 1 <=> TxIndex(cell, u) <= cell.end[1]
  BY <1>1, <1>3, OnePmch
<1> QED BY <1>2, <1>4, <1>5, <1>6

\* With one PMCH and no losses, no worker stops an MTCH that has data in a later subframe
\* of its period (the loop over _sched_stops): in turn on every carrier, and out of turn
\* on those that leave room.
THEOREM NeverCutsShort == Spec => NeverCutShort
<1> DEFINE A == \A l \in DOMAIN stops :
                  /\ stops[l] # NoStop /\ stops'[l] = NoStop /\ ~lost /\ Len(cell.end) = 1
                  /\ MoreToCome(l, work[sched_mutex].tti)
                  => overtaken' /\ ~Spaced(cell)
<1>1. IndInv /\ Faithful /\ TurnInv /\ RoomInv /\ [Next]_vars => A
  <2> SUFFICES ASSUME IndInv, Faithful, TurnInv, RoomInv, [Next]_vars,
                      NEW l \in DOMAIN stops, stops[l] # NoStop, stops'[l] = NoStop,
                      ~lost, Len(cell.end) = 1, MoreToCome(l, work[sched_mutex].tti)
               PROVE  overtaken' /\ ~Spaced(cell)
    OBVIOUS
  <2> DEFINE w == sched_mutex
             p == PeriodOf(work[w].tti)
  <2>1. w \in Busy(work) /\ l \in Due(w) /\ overtaken' = (overtaken \/ Overtakes(w))
    BY Erased
  <2>2. w \in Proc /\ Busy(work) \in SUBSET Proc /\ mb_idx \in Proc
    BY <2>1 DEF Busy, IndInv, TypeOK
  <2>3. ~EndIn(cell, p, l, stops[l])
    BY <2>1, NotDueYet
  <2>4. ASSUME ~overtaken' PROVE FALSE
    <3>1. InTurn /\ First(work, mb_idx, w)
      BY <2>1, <2>2, <2>4, TurnFirst DEF InTurn
    <3>2. PICK q \in {0, 1} : /\ EndIn(cell, q, l, stops[l])
                              /\ Coming(cell, tti, work, mb_idx, Busy(work), q, stops[l])
      BY <3>1 DEF TurnInv, StopKnown
    <3>3. p = q
      BY <2>1, <2>2, <3>1, <3>2, ComingFirst DEF First
    <3> QED BY <2>3, <3>2, <3>3
  <2>5. ASSUME Spaced(cell) PROVE FALSE
    <3>1. PICK q \in {0, 1} : /\ EndIn(cell, q, l, stops[l])
                              /\ Ahead(cell, tti, work, Busy(work), q, stops[l])
      BY <2>5 DEF RoomInv
    <3>2. p = PeriodOf(tti)
      <4>1. TxPmch(cell, work[w].tti) = 1
        BY <2>1, BeforeMore
      <4> QED BY <2>1, <2>5, <4>1, InRoom
    <3>3. \A v \in Busy(work) : StopsAt(cell, work[v].tti, q, stops[l]) => PeriodOf(tti) = q
      <4> SUFFICES ASSUME NEW v \in Busy(work), StopsAt(cell, work[v].tti, q, stops[l])
                   PROVE  PeriodOf(tti) = q
        OBVIOUS
      <4>1. TxPmch(cell, work[v].tti) = 1 /\ PeriodOf(work[v].tti) = q
        BY DEF StopsAt, HasMtch
      <4> QED BY <2>5, <4>1, InRoom
    <3>4. PeriodOf(tti) = q
      BY <3>1, <3>3 DEF Ahead
    <3> QED BY <2>3, <3>1, <3>2, <3>4
  <2> QED BY <2>4, <2>5
<1>2. IndInv /\ Faithful /\ TurnInv /\ RoomInv /\ [Next]_vars => [A]_vars
  BY <1>1
<1> QED BY <1>2, TurnInductive, RoomInductive, PTL DEF Spec, NeverCutShort
===============================================================================
