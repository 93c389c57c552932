-------------------------------- MODULE Output --------------------------------
(***************************************************************************)
(* What leaves the modem: workers count their subframes (ChannelStats) and  *)
(* give what they decode to RLC, which hands IP packets to the gateway (Gw) *)
(* and MCCH messages to RRC.  RRC lists the sessions and their destinations *)
(* in Phy::_mch_info, which GET mch_info shows.                             *)
(*                                                                         *)
(* Both ends of RLC run under _rlc_mutex, so a delivery is one step.  There *)
(* is one session; its sender may move to another destination, or send PDUs *)
(* in which the destination is not found.                                   *)
(***************************************************************************)
EXTENDS ChannelStats, Gw

VARIABLES
    air,       \* the destination of the packets that are sent, or NoUdpHeader
    listed     \* the destination in _mch_info

vars == <<statVars, gwVars, air, listed>>

\* Later fragments of a packet, which have no UDP header, and runts.
NoUdpHeader == "no UDP header"

Pdu == [udp : BOOLEAN, hdr : Headers, check : {0}]

-----------------------------------------------------------------------------
SenderMoves ==
    /\ air' \in (Dests \union {NoUdpHeader}) \ {air}
    /\ UNCHANGED <<statVars, gwVars, listed>>

\* A worker is done with its subframe and returns.
Decoded(p) ==
    /\ wpc[p] = "decode"
    /\ Goto(p, "idle")
    /\ UNCHANGED <<pdsch_total, mch_total, cas, reg>>

\* What is read as the destination of a packet.
DestRead == IF air = NoUdpHeader THEN Dests \union {StaleDest} ELSE {air}

\* The subframe completes a packet ...
DeliverPacket(p, pdu) ==
    /\ Decoded(p)
    /\ \E dest \in DestRead : write_pdu_mch(pdu, dest)
    /\ UNCHANGED <<air, listed>>

\* ... or something shorter than a header ...
DeliverRunt(p) ==
    /\ Decoded(p)
    /\ air = NoUdpHeader
    /\ \E dest \in DestRead : WriteRunt(dest)
    /\ UNCHANGED <<air, listed>>

\* ... or an MCCH message: set_mbsfn_config() lists the sessions anew ...
DeliverMcch(p) ==
    /\ Decoded(p)
    /\ listed' = dests
    /\ UNCHANGED <<gwVars, air>>

\* ... or nothing for them: an error, a part of a packet, or one of two bytes or less.
DeliverNothing(p) == Decoded(p) /\ UNCHANGED <<gwVars, air, listed>>

-----------------------------------------------------------------------------
Init ==
    /\ ChannelInfoInit
    /\ init /\ dests = NoDest /\ written = NoHeader
    /\ air \in Dests /\ listed = NoDest

Counting == CasWorker \/ \E p \in Proc : MbsfnCounts(p)

Next ==
    \/ Counting /\ UNCHANGED <<gwVars, air, listed>>
    \/ SenderMoves
    \/ \E p \in Proc :
         \/ \E pdu \in Pdu : DeliverPacket(p, pdu)
         \/ DeliverRunt(p) \/ DeliverMcch(p) \/ DeliverNothing(p)

UdpArrives(p) == \E pdu \in {q \in Pdu : q.udp} : DeliverPacket(p, pdu)

\* Among the subframes that are decoded there are, again and again, some with a
\* packet of the session and some with the MCCH: the carrier repeats both.
Spec ==
    /\ Init /\ [][Next]_vars
    /\ SF_vars(\E p \in Proc : UdpArrives(p))
    /\ SF_vars(\E p \in Proc : DeliverMcch(p))

-----------------------------------------------------------------------------
(* Properties                                                              *)

\* Every variable keeps its type; checksums are words.
TypeOK ==
    /\ mch_total \in 0 .. MaxCount /\ pdsch_total \in 0 .. MaxCount
    /\ cas \in {"idle", "count", "decode"}
    /\ wpc \in [Proc -> {"idle", "reset", "store", "decode"}]
    /\ reg \in [Proc -> 0 .. MaxCount]
    /\ tun_fd \in {-1, 3}
    /\ air \in Dests \union {NoUdpHeader}
    /\ {dests, listed} \subseteq Dests \union {NoDest, StaleDest}
    /\ written \in [udp : BOOLEAN, hdr : Headers, check : Word] \union {NoHeader}

Receiving == \E p \in Proc : wpc[p] = "decode"

\* With a TUN device and as long as subframes are decoded, a destination that stays
\* the same is the one GET mch_info shows in the end, also after the sender moved and
\* after PDUs without a UDP header left a wrong one.
DestListed ==
    tun_fd # -1 /\ []<>Receiving =>
        \A d \in Dests : <>[](air = d) => <>[](listed = d)
===============================================================================
