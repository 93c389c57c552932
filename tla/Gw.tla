---------------------------------- MODULE Gw ----------------------------------
(***************************************************************************)
(* The gateway (src/src/Gw.cpp): IP packets from RLC go to a TUN device.    *)
(* The header checksum of a UDP packet is computed again, and corrected if  *)
(* it is wrong; the destination of each bearer is noted for the REST API.   *)
(*                                                                         *)
(* A header has nine words without the checksum, and options behind them if *)
(* ihl is above 5; of the options only the one's complement sum of their    *)
(* words is kept, 0 without any.  Base is the number of values of a word,   *)
(* 2^16 in the code.                                                        *)
(***************************************************************************)
EXTENDS Integers

CONSTANTS
    Base,       \* values of a word
    Headers,    \* the headers of the packets that arrive
    Dests       \* destinations: address and port

Word == 0 .. Base - 1

\* More values than a header has words; 2^16 in the code.
ASSUME HeaderAssumption ==
    /\ Base \in Nat /\ Base >= 9
    /\ Headers \subseteq [words : [1 .. 9 -> Word], options : Word]

VARIABLES
    tun_fd,     \* _tun_fd: a descriptor, or -1
    dests,      \* Phy::_dests of one bearer
    written     \* the last packet that went to the device, NoHeader for a runt

gwVars == <<tun_fd, dests, written>>

NoDest == "no destination"
StaleDest == "left over in the buffer"
NoHeader == [udp |-> FALSE, hdr |-> <<>>, check |-> 0]

\* The TUN device cannot be opened, or not configured: -1.
init == tun_fd \in {-1, 3}

-----------------------------------------------------------------------------
\* int32_t sum, far from its limit: always of the first 20 bytes.
sum(h) ==
    LET w == h.words
    IN  w[1] + w[2] + w[3] + w[4] + w[5] + w[6] + w[7] + w[8] + w[9]

\* sum = (sum >> 16) + (sum & 0xffff)
Folded(s) == (s \div Base) + (s % Base)

\* Mutant: the carry of the first fold is dropped.
ChecksumOneFold(h) == (Base - 1 - Folded(sum(h))) % Base

\* Mutant: the complement is not cut to a word.
ChecksumUncut(h) ==
    LET fold == Folded(sum(h))
    IN  Base - 1 - (fold + (fold \div Base))

\* Behind the fold: sum += sum >> 16; uint16_t chk = ~sum
checksum(h) ==
    LET fold == Folded(sum(h))
        again == fold + (fold \div Base)
    IN  (Base - 1 - again) % Base

\* Mutant: the destination is only noted once, as map::emplace() would.
SetDestOnce(dest) == dests' = IF dests = NoDest THEN dest ELSE dests

set_dest_for_lcid(dest) == dests' = dest

\* Called by RLC, under _rlc_mutex, for a packet with a whole header.  Without a
\* device it is dropped.  write() may fail, which is logged.
write_pdu_mch(pdu, dest) ==
    IF tun_fd = -1 THEN UNCHANGED gwVars
    ELSE /\ IF pdu.udp THEN set_dest_for_lcid(dest) ELSE UNCHANGED dests
         /\ written' \in {written,
                IF pdu.udp THEN [pdu EXCEPT !.check = checksum(pdu.hdr)] ELSE pdu}
         /\ UNCHANGED tun_fd

\* The same for 3 to 19 bytes: protocol and destination are looked for behind their
\* end, in what the buffer held before.  What is written has no whole header.
WriteRunt(dest) ==
    IF tun_fd = -1 THEN UNCHANGED gwVars
    ELSE /\ dests' \in {dests, dest}
         /\ written' \in {written, NoHeader}
         /\ UNCHANGED tun_fd

-----------------------------------------------------------------------------
\* One's complement addition: the carry comes in again at the other end.
OnesAdd(a, b) == IF a + b >= Base THEN a + b - Base + 1 ELSE a + b

\* What a receiver adds up, one word after the other.
WordsSum(w, check) ==
    OnesAdd(w[9], OnesAdd(w[8], OnesAdd(w[7], OnesAdd(w[6], OnesAdd(w[5],
    OnesAdd(w[4], OnesAdd(w[3], OnesAdd(w[2], OnesAdd(w[1], check)))))))))

\* A receiver accepts a header when the sum over all words is all ones.
Verifies(h, check) == OnesAdd(h.options, WordsSum(h.words, check)) = Base - 1

\* The header of a UDP packet without IP options that the modem puts on the TUN device
\* passes the check of the IP stack behind it: two folds are enough for all carries.
\* With options it does not, since sum() leaves them out (Gw.cpp:52).
HeadersVerify ==
    written.udp /\ written.hdr.options = 0 => Verifies(written.hdr, written.check)
===============================================================================
