----------------------------- MODULE OutputProofs -----------------------------
(***************************************************************************)
(* What leaves the modem, for every number of workers, every width of a     *)
(* word and all headers: the block error rates are finite, and which IP     *)
(* headers verify.                                                          *)
(***************************************************************************)
EXTENDS Output, TLAPS

-----------------------------------------------------------------------------
(* The checksum                                                            *)

\* v is the one's complement sum of words that add up to s: a word, congruent to s
\* modulo Base - 1, and 0 only for 0.
SumsTo(v, s) ==
    /\ v \in Word /\ s \in Nat
    /\ \E k \in Nat : s = v + k * (Base - 1)
    /\ v = 0 => s = 0

\* One more word: the carry that comes in at the other end is worth Base - 1.
LEMMA OnesAddSums ==
    ASSUME NEW v, NEW s, SumsTo(v, s), NEW w \in Word
    PROVE  SumsTo(OnesAdd(w, v), s + w)
<1> DEFINE M == Base - 1
<1>1. /\ Base \in Nat /\ Base >= 9 /\ M \in Nat /\ v \in 0 .. M /\ w \in 0 .. M /\ s \in Nat
      /\ M = Base - 1
  BY HeaderAssumption DEF SumsTo, Word
<1>2. PICK k \in Nat : s = v + k * M
  BY DEF SumsTo
<1>3. k * M \in Nat /\ (k + 1) * M = k * M + M
  BY <1>1
<1> HIDE DEF M
<1>4. CASE w + v >= Base
  <2>1. OnesAdd(w, v) = w + v - M /\ OnesAdd(w, v) \in 1 .. M
    BY <1>1, <1>4 DEF OnesAdd
  <2>2. s + w = OnesAdd(w, v) + (k + 1) * M
    BY <1>1, <1>2, <1>3, <2>1
  <2>3. k + 1 \in Nat /\ s + w \in Nat
    BY <1>1
  <2>4. \E j \in Nat : s + w = OnesAdd(w, v) + j * (Base - 1)
    BY <1>1, <2>2, <2>3
  <2>5. OnesAdd(w, v) \in Word /\ OnesAdd(w, v) # 0
    BY <1>1, <2>1 DEF Word
  <2> QED BY <2>3, <2>4, <2>5 DEF SumsTo
<1>5. CASE ~(w + v >= Base)
  <2>1. OnesAdd(w, v) = w + v /\ OnesAdd(w, v) \in 0 .. M
    BY <1>1, <1>5 DEF OnesAdd
  <2>2. s + w = OnesAdd(w, v) + k * M
    BY <1>1, <1>2, <1>3, <2>1
  <2>3. OnesAdd(w, v) = 0 => s + w = 0
    BY <1>1, <2>1 DEF SumsTo
  <2> QED BY <1>1, <2>1, <2>2, <2>3 DEF SumsTo, Word
<1> QED BY <1>4, <1>5

\* A multiple of a positive number that is at most that number.
LEMMA SmallMultiple ==
    ASSUME NEW m \in Nat \ {0}, NEW n \in Int, n * m >= 0, n * m <= m
    PROVE  n * m = 0 \/ n * m = m
<1>1. CASE n < 0
  <2>1. n * m <= -m
    BY <1>1
  <2> QED BY <2>1
<1>2. CASE n > 1
  <2>1. n * m >= 2 * m
    BY <1>2
  <2> QED BY <2>1
<1>3. CASE n = 0 \/ n = 1
  BY <1>3
<1> QED BY <1>1, <1>2, <1>3

Header == [words : [1 .. 9 -> Word], options : Word]

\* The sum of nine words has a carry below nine.
LEMMA SumBounds ==
    ASSUME NEW h \in Header
    PROVE  /\ sum(h) \in 0 .. 9 * (Base - 1)
           /\ LET w == h.words
              IN  /\ \A i \in 1 .. 9 : w[i] \in Word
                  /\ w[1] \in Nat /\ w[2] \in Nat /\ w[3] \in Nat /\ w[4] \in Nat /\ w[5] \in Nat
                  /\ w[6] \in Nat /\ w[7] \in Nat /\ w[8] \in Nat /\ w[9] \in Nat
<1> DEFINE w == h.words
<1>1. \A i \in 1 .. 9 : w[i] \in Word
  BY DEF Header
<1>2. Base \in Nat /\ Base >= 9
  BY HeaderAssumption
<1>a. sum(h) = w[1] + w[2] + w[3] + w[4] + w[5] + w[6] + w[7] + w[8] + w[9]
  BY DEF sum
<1> HIDE DEF w
<1>3. /\ w[1] \in 0 .. Base - 1 /\ w[2] \in 0 .. Base - 1 /\ w[3] \in 0 .. Base - 1
      /\ w[4] \in 0 .. Base - 1 /\ w[5] \in 0 .. Base - 1 /\ w[6] \in 0 .. Base - 1
      /\ w[7] \in 0 .. Base - 1 /\ w[8] \in 0 .. Base - 1 /\ w[9] \in 0 .. Base - 1
  BY <1>1 DEF Word
<1>4. sum(h) \in 0 .. 9 * (Base - 1)
  BY <1>a, <1>2, <1>3
<1>5. /\ w[1] \in Nat /\ w[2] \in Nat /\ w[3] \in Nat /\ w[4] \in Nat /\ w[5] \in Nat
      /\ w[6] \in Nat /\ w[7] \in Nat /\ w[8] \in Nat /\ w[9] \in Nat
  BY <1>2, <1>3
<1> QED BY <1>1, <1>4, <1>5 DEF w

\* Two folds take away a multiple of Base - 1 and leave a word that is 0 only for 0.
LEMMA TwoFolds ==
    ASSUME NEW s \in 0 .. 9 * (Base - 1)
    PROVE  LET fold == Folded(s)
               again == fold + (fold \div Base)
           IN  \E c \in Word : \E k \in Nat :
                 /\ (Base - 1 - again) % Base = c
                 /\ c + s = (k + 1) * (Base - 1)
                 /\ s = 0 => c = Base - 1
<1> DEFINE fold == Folded(s)
           again == fold + (fold \div Base)
           q == s \div Base
           r == s % Base
           M == Base - 1
<1> SUFFICES \E c \in Word : \E k \in Nat :
               /\ (Base - 1 - again) % Base = c
               /\ c + s = (k + 1) * (Base - 1)
               /\ s = 0 => c = Base - 1
  OBVIOUS
<1>1. Base \in Nat /\ Base >= 9 /\ M \in Nat /\ M = Base - 1 /\ s \in 0 .. 9 * M
  BY HeaderAssumption
<1>2. q \in Int /\ r \in 0 .. M /\ s = q * Base + r
  BY <1>1
<1>3. q \in 0 .. 8
  BY <1>1, <1>2
<1>4. fold = q + r
  BY DEF Folded
<1>5. q * Base = q * M + q /\ q * M \in Nat /\ (q + 1) * M = q * M + M
      /\ (q + 1 + 1) * M = q * M + M + M
  BY <1>1, <1>2, <1>3
<1>a. again = fold + (fold \div Base)
  OBVIOUS
<1> HIDE DEF q, r, M, fold, again
<1>6. s = fold + q * M
  BY <1>1, <1>2, <1>3, <1>4, <1>5
<1>7. CASE fold < Base
  <2>1. fold \div Base = 0 /\ fold \in 0 .. M
    BY <1>1, <1>2, <1>3, <1>4, <1>7
  <2>2. again = fold
    BY <1>a, <2>1
  <2>3. (Base - 1 - again) % Base = M - fold /\ M - fold \in Word
    <3>1. Base - 1 - again = M - fold /\ M - fold \in 0 .. Base - 1
      BY <1>1, <2>1, <2>2
    <3> QED BY <1>1, <3>1 DEF Word
  <2>4. (M - fold) + s = (q + 1) * (Base - 1)
    BY <1>1, <1>5, <1>6, <2>1
  <2>5. s = 0 => M - fold = Base - 1
    BY <1>1, <1>5, <1>6, <2>1
  <2>6. q \in Nat
    BY <1>3
  <2> QED BY <2>3, <2>4, <2>5, <2>6
<1>8. CASE fold >= Base
  <2>1. fold \div Base = 1 /\ fold \in Base .. Base + 8
    BY <1>1, <1>2, <1>3, <1>4, <1>8
  <2>2. again = fold + 1
    BY <1>a, <2>1
  <2>3. fold + 1 < Base + Base
    BY <1>1, <1>2, <1>3, <1>4
  <2>4. (Base - 1 - again) % Base = M + M - fold /\ M + M - fold \in Word
    <3>1. /\ Base - 1 - again = (M + M - fold) + (-1) * Base
          /\ M + M - fold \in 0 .. Base - 1
      BY <1>1, <2>1, <2>2, <2>3
    <3> QED BY <1>1, <3>1 DEF Word
  <2>5. (M + M - fold) + s = (q + 1 + 1) * (Base - 1)
    BY <1>1, <1>5, <1>6, <2>1
  <2>6. s # 0
    BY <1>1, <1>5, <1>6, <2>1
  <2>7. q + 1 \in Nat
    BY <1>3
  <2> QED BY <2>4, <2>5, <2>6, <2>7
<1> QED BY <1>1, <1>2, <1>3, <1>4, <1>7, <1>8

\* The checksum of checksum() is right for the first 20 bytes, whatever they are.
LEMMA WordsVerify ==
    ASSUME NEW h \in Header
    PROVE  checksum(h) \in Word /\ WordsSum(h.words, checksum(h)) = Base - 1
<1> DEFINE S == sum(h)
           M == Base - 1
           w == h.words
           v == WordsSum(w, checksum(h))
<1>1. S \in 0 .. 9 * (Base - 1) /\ S \in Nat
  BY SumBounds, HeaderAssumption
<1>2. PICK c \in Word, k \in Nat :
        checksum(h) = c /\ c + S = (k + 1) * (Base - 1) /\ (S = 0 => c = Base - 1)
  BY <1>1, TwoFolds DEF checksum
<1>3. SumsTo(v, S + c)
  <2> DEFINE s1 == c + w[1]
             s2 == s1 + w[2]
             s3 == s2 + w[3]
             s4 == s3 + w[4]
             s5 == s4 + w[5]
             s6 == s5 + w[6]
             s7 == s6 + w[7]
             s8 == s7 + w[8]
             s9 == s8 + w[9]
             v1 == OnesAdd(w[1], c)
             v2 == OnesAdd(w[2], v1)
             v3 == OnesAdd(w[3], v2)
             v4 == OnesAdd(w[4], v3)
             v5 == OnesAdd(w[5], v4)
             v6 == OnesAdd(w[6], v5)
             v7 == OnesAdd(w[7], v6)
             v8 == OnesAdd(w[8], v7)
             v9 == OnesAdd(w[9], v8)
  <2>0. SumsTo(c, c)
    <3>1. c \in Nat /\ Base \in Nat /\ c = c + 0 * (Base - 1)
      BY HeaderAssumption DEF Word
    <3> QED BY <3>1 DEF SumsTo
  <2>w. /\ w[1] \in Word /\ w[2] \in Word /\ w[3] \in Word /\ w[4] \in Word /\ w[5] \in Word
        /\ w[6] \in Word /\ w[7] \in Word /\ w[8] \in Word /\ w[9] \in Word
    BY SumBounds
  <2>9. s9 = S + c
    <3>1. c \in Nat
      BY HeaderAssumption DEF Word
    <3> QED BY <3>1, SumBounds DEF sum
  <2>10. v9 = v
    BY <1>2 DEF WordsSum
  <2> HIDE DEF s1, s2, s3, s4, s5, s6, s7, s8, s9, v1, v2, v3, v4, v5, v6, v7, v8, v9, S, v, w
  <2>1. SumsTo(v1, s1)
    BY <2>0, <2>w, OnesAddSums DEF s1, v1
  <2>2. SumsTo(v2, s2)
    BY <2>1, <2>w, OnesAddSums DEF s2, v2
  <2>3. SumsTo(v3, s3)
    BY <2>2, <2>w, OnesAddSums DEF s3, v3
  <2>4. SumsTo(v4, s4)
    BY <2>3, <2>w, OnesAddSums DEF s4, v4
  <2>5. SumsTo(v5, s5)
    BY <2>4, <2>w, OnesAddSums DEF s5, v5
  <2>6. SumsTo(v6, s6)
    BY <2>5, <2>w, OnesAddSums DEF s6, v6
  <2>7. SumsTo(v7, s7)
    BY <2>6, <2>w, OnesAddSums DEF s7, v7
  <2>8. SumsTo(v8, s8)
    BY <2>7, <2>w, OnesAddSums DEF s8, v8
  <2>11. SumsTo(v9, s9)
    BY <2>8, <2>w, OnesAddSums DEF s9, v9
  <2> QED BY <2>9, <2>10, <2>11
<1>4. PICK j \in Nat : S + c = v + j * (Base - 1)
  BY <1>3 DEF SumsTo
<1>5. /\ Base \in Nat /\ Base >= 9 /\ M \in Nat \ {0} /\ c \in 0 .. M /\ v \in 0 .. M
      /\ M = Base - 1
  BY <1>3, HeaderAssumption DEF SumsTo, Word
<1>6. k + 1 - j \in Int /\ (k + 1 - j) * M = (k + 1) * M - j * M /\ (k + 1) * M \in Int /\ j * M \in Int
  BY <1>5
<1> HIDE DEF M, v, S
<1>7. v = (k + 1 - j) * M
  BY <1>1, <1>2, <1>4, <1>5, <1>6
<1>8. v = 0 \/ v = M
  BY <1>5, <1>6, <1>7, SmallMultiple
<1>9. v # 0
  <2>1. v = 0 => S + c = 0
    BY <1>3 DEF SumsTo
  <2> QED BY <1>1, <1>2, <1>5, <2>1
<1> QED BY <1>2, <1>5, <1>8, <1>9 DEF v

\* A header verifies with the checksum of checksum() exactly if its IP options add up
\* to zero, which has two forms in one's complement: always without options.
THEOREM ChecksumVerifies ==
    ASSUME NEW h \in Header
    PROVE  /\ checksum(h) \in Word
           /\ Verifies(h, checksum(h)) <=> h.options \in {0, Base - 1}
<1>1. checksum(h) \in Word /\ WordsSum(h.words, checksum(h)) = Base - 1
  BY WordsVerify
<1>2. h.options \in 0 .. Base - 1 /\ Base \in Nat /\ Base >= 9
  BY HeaderAssumption DEF Header, Word
<1>3. OnesAdd(h.options, Base - 1) = Base - 1 <=> h.options \in {0, Base - 1}
  BY <1>2 DEF OnesAdd
<1> QED BY <1>1, <1>3 DEF Verifies

-----------------------------------------------------------------------------
(* The inductive invariant                                                 *)

\* A UDP packet leaves with the checksum of its own header.
Checked ==
    written.udp => written.hdr \in Headers /\ written.check = checksum(written.hdr)

IndInv == TypeOK /\ BlerFinite /\ Checked

LEMMA IncrementedPositive ==
    ASSUME NEW n \in 0 .. MaxCount
    PROVE  Incremented(n) \in 0 .. MaxCount /\ Incremented(n) # 0
BY StatsAssumption DEF Incremented

\* The counters of the CAS worker: only "count" follows the reset to 0.
LEMMA CasWorkerPreserves ==
    ASSUME TypeOK, BlerFinite, CasWorker, UNCHANGED <<gwVars, air, listed>>
    PROVE  TypeOK' /\ BlerFinite'
<1> USE DEF TypeOK, BlerFinite, gwVars
<1>1. CASE PdschReset
  BY <1>1, StatsAssumption DEF PdschReset
<1>2. CASE PdschCount
  BY <1>2, IncrementedPositive DEF PdschCount
<1>3. CASE CasReturn
  BY <1>3 DEF CasReturn
<1> QED BY <1>1, <1>2, <1>3 DEF CasWorker

\* The counters of an MBSFN worker: a store is of a value above what was loaded.
LEMMA MbsfnCountsPreserves ==
    ASSUME TypeOK, BlerFinite, NEW p \in Proc, MbsfnCounts(p), UNCHANGED <<gwVars, air, listed>>
    PROVE  TypeOK' /\ BlerFinite'
<1> USE DEF TypeOK, BlerFinite, gwVars, Goto
<1>1. CASE MchReset(p)
  BY <1>1, StatsAssumption DEF MchReset
<1>2. CASE MchSkip(p)
  BY <1>2 DEF MchSkip
<1>3. CASE MchLoadTotal(p)
  BY <1>3 DEF MchLoadTotal
<1>4. CASE MchStoreTotal(p)
  <2>1. Incremented(reg[p]) \in 0 .. MaxCount /\ Incremented(reg[p]) # 0
    BY IncrementedPositive
  <2> QED BY <1>4, <2>1, StatsAssumption DEF MchStoreTotal
<1> QED BY <1>1, <1>2, <1>3, <1>4 DEF MbsfnCounts

\* A worker that is done leaves the counters alone.
LEMMA DecodedPreserves ==
    ASSUME TypeOK, BlerFinite, NEW p \in Proc, Decoded(p)
    PROVE  /\ wpc' \in [Proc -> {"idle", "reset", "store", "decode"}]
           /\ UNCHANGED <<pdsch_total, mch_total, cas, reg>>
BY DEF TypeOK, Decoded, Goto

\* A destination that is read, in the right place or not.
LEMMA DestReadType ==
    ASSUME TypeOK, NEW dest \in DestRead
    PROVE  dest \in Dests \union {StaleDest}
BY DEF TypeOK, DestRead

\* What goes to the device is a packet as it came, or one with its checksum.
LEMMA PacketPreserves ==
    ASSUME TypeOK, Checked, NEW pdu \in Pdu, NEW dest \in DestRead, write_pdu_mch(pdu, dest)
    PROVE  /\ written' \in [udp : BOOLEAN, hdr : Headers, check : Word] \union {NoHeader}
           /\ Checked'
           /\ tun_fd' = tun_fd /\ dests' \in Dests \union {NoDest, StaleDest}
<1>0. Base \in Nat /\ Base >= 9 /\ Headers \subseteq Header
  BY HeaderAssumption DEF Header
<1>1. CASE UNCHANGED gwVars
  BY <1>1 DEF TypeOK, Checked, gwVars
<1>2. CASE ~UNCHANGED gwVars
  <2> DEFINE fixed == [pdu EXCEPT !.check = checksum(pdu.hdr)]
             P == [udp : BOOLEAN, hdr : Headers, check : Word]
  <2>1. /\ written' \in {written, IF pdu.udp THEN fixed ELSE pdu}
        /\ tun_fd' = tun_fd
        /\ dests' = IF pdu.udp THEN dest ELSE dests
    BY <1>2 DEF write_pdu_mch, set_dest_for_lcid
  <2>2. pdu \in P /\ pdu.hdr \in Headers
    BY <1>0 DEF Pdu, Word
  <2>3. checksum(pdu.hdr) \in Word
    BY <1>0, <2>2, ChecksumVerifies
  <2>4. fixed \in P /\ fixed.hdr = pdu.hdr /\ fixed.check = checksum(pdu.hdr)
    BY <2>2, <2>3
  <2>5. dests' \in Dests \union {NoDest, StaleDest}
    BY <2>1, DestReadType DEF TypeOK
  <2> HIDE DEF fixed
  <2>6. CASE written' = written
    BY <2>1, <2>5, <2>6 DEF TypeOK, Checked
  <2>7. CASE written' = fixed
    BY <2>1, <2>2, <2>4, <2>5, <2>7 DEF Checked
  <2>8. CASE written' = pdu /\ ~pdu.udp
    BY <2>1, <2>2, <2>5, <2>8 DEF Checked
  <2> QED BY <2>1, <2>6, <2>7, <2>8
<1> QED BY <1>1, <1>2

\* IndInv is inductive.
THEOREM Inductive == Spec => []IndInv
<1>1. Init => IndInv
  <2> SUFFICES ASSUME Init PROVE IndInv
    OBVIOUS
  <2>1. TypeOK
    BY StatsAssumption DEF Init, ChannelInfoInit, init, TypeOK
  <2>2. BlerFinite
    BY DEF Init, ChannelInfoInit, BlerFinite
  <2>3. Checked
    BY DEF Init, Checked, NoHeader
  <2> QED BY <2>1, <2>2, <2>3 DEF IndInv
<1>2. IndInv /\ [Next]_vars => IndInv'
  <2> SUFFICES ASSUME TypeOK, BlerFinite, Checked, [Next]_vars
               PROVE  TypeOK' /\ BlerFinite' /\ Checked'
    BY DEF IndInv
  <2>1. CASE Counting /\ UNCHANGED <<gwVars, air, listed>>
    <3>1. TypeOK' /\ BlerFinite'
      BY <2>1, CasWorkerPreserves, MbsfnCountsPreserves DEF Counting
    <3>2. Checked'
      BY <2>1 DEF gwVars, Checked
    <3> QED BY <3>1, <3>2
  <2>2. CASE SenderMoves
    BY <2>2 DEF SenderMoves, TypeOK, BlerFinite, Checked, statVars, gwVars
  <2>3. ASSUME NEW p \in Proc, NEW pdu \in Pdu, DeliverPacket(p, pdu)
        PROVE  TypeOK' /\ BlerFinite' /\ Checked'
    <3>1. /\ wpc' \in [Proc -> {"idle", "reset", "store", "decode"}]
          /\ UNCHANGED <<pdsch_total, mch_total, cas, reg>>
      BY <2>3, DecodedPreserves DEF DeliverPacket
    <3>2. /\ written' \in [udp : BOOLEAN, hdr : Headers, check : Word] \union {NoHeader}
          /\ Checked'
          /\ tun_fd' = tun_fd /\ dests' \in Dests \union {NoDest, StaleDest}
          /\ UNCHANGED <<air, listed>>
      BY <2>3, PacketPreserves DEF DeliverPacket
    <3> QED BY <3>1, <3>2 DEF TypeOK, BlerFinite
  <2>4. ASSUME NEW p \in Proc, DeliverMcch(p) \/ DeliverNothing(p)
        PROVE  TypeOK' /\ BlerFinite' /\ Checked'
    <3>1. /\ wpc' \in [Proc -> {"idle", "reset", "store", "decode"}]
          /\ UNCHANGED <<pdsch_total, mch_total, cas, reg>>
      BY <2>4, DecodedPreserves DEF DeliverMcch, DeliverNothing
    <3>2. listed' \in {listed, dests} /\ UNCHANGED <<gwVars, air>>
      BY <2>4 DEF DeliverMcch, DeliverNothing
    <3> QED BY <3>1, <3>2 DEF TypeOK, BlerFinite, Checked, gwVars
  <2>5. ASSUME NEW p \in Proc, DeliverRunt(p)
        PROVE  TypeOK' /\ BlerFinite' /\ Checked'
    <3>1. /\ wpc' \in [Proc -> {"idle", "reset", "store", "decode"}]
          /\ UNCHANGED <<pdsch_total, mch_total, cas, reg>>
      BY <2>5, DecodedPreserves DEF DeliverRunt
    <3>2. PICK dest \in DestRead : WriteRunt(dest)
      BY <2>5 DEF DeliverRunt
    <3>3. /\ written' \in {written, NoHeader} /\ dests' \in {dests, dest}
          /\ UNCHANGED <<tun_fd, air, listed>>
      BY <2>5, <3>2 DEF DeliverRunt, WriteRunt, gwVars
    <3>4. dest \in Dests \union {StaleDest}
      BY DestReadType
    <3>5. Checked'
      BY <3>3 DEF Checked, NoHeader
    <3>6. TypeOK' /\ BlerFinite'
      BY <3>1, <3>3, <3>4 DEF TypeOK, BlerFinite
    <3> QED BY <3>5, <3>6
  <2>6. CASE UNCHANGED vars
    BY <2>6 DEF vars, TypeOK, BlerFinite, Checked, statVars, gwVars
  <2> QED BY <2>1, <2>2, <2>3, <2>4, <2>5, <2>6 DEF Next
<1> QED BY <1>1, <1>2, PTL DEF Spec

\* The variables keep their types, for every number of workers and of counts.
THEOREM TypeCorrect == Spec => []TypeOK
BY Inductive, PTL DEF IndInv

\* However many workers reset and count, a request never divides the errors of an MCH
\* by 0 (RestHandler.cpp), and those of the PDSCH only between reset and count.
THEOREM RatesAlwaysFinite == Spec => []BlerFinite
BY Inductive, PTL DEF IndInv

\* Every UDP packet without IP options that the modem writes to the TUN device
\* (Gw::write_pdu_mch()) has a checksum a receiver accepts, for every width of a word.
THEOREM HeadersAlwaysVerify == Spec => []HeadersVerify
<1>1. IndInv => HeadersVerify
  BY HeaderAssumption, ChecksumVerifies DEF IndInv, Checked, HeadersVerify, Header
<1> QED BY <1>1, Inductive, PTL
===============================================================================
