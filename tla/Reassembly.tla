----------------------------- MODULE Reassembly -----------------------------
(***************************************************************************)
(* The receiving half of the framing layer: Connection::read_framed        *)
(* (thp/connection.rs) driving a fresh Reassembler (thp/framing.rs) for    *)
(* every transport payload, on a link that may lose or truncate reports.   *)
(*                                                                         *)
(* The device segments the messages of each of its channels in order; the  *)
(* reports of different channels may interleave.                           *)
(***************************************************************************)
EXTENDS Framing, ThpControl, FiniteSets

CONSTANTS
    PacketSizes,    \* report sizes to choose from
    Cids,           \* channels the device writes on
    Controls,       \* control bytes of its messages
    Lengths,        \* payload lengths
    MaxLength,      \* limit of the 16-bit length field
    MaxMessages,    \* bound: messages written
    MaxDamage       \* bound: reports lost, truncated or empty

ASSUME ReassemblyAssumption ==
    /\ \A ps \in PacketSizes : ps \in Nat /\ ps > INIT_HEADER
    /\ Controls \subseteq 0 .. 127 /\ Lengths \subseteq Nat
    /\ MaxMessages \in Nat /\ MaxDamage \in Nat /\ MaxLength \in Nat

VARIABLES
    packet_size,
    \* the device
    written,        \* messages it has segmented, in order
    outbox,         \* outbox[c]: reports of channel c not sent yet
    \* the link
    lost, cut, hurt,    \* reports lost, reports truncated, messages they belonged to
    \* read_framed and its Reassembler
    ctrl,
    active, control_byte, cid, expected_len, buf,
    delivered,      \* what read_framed has returned so far
    error           \* "none", or why it returned Err

reasmVars == <<ctrl, active, control_byte, cid, expected_len, buf>>
vars == <<packet_size, written, outbox, lost, cut, hurt, reasmVars, delivered, error>>

\* The n bytes of message number m.
PayloadOf(m, n) == [i \in 1 .. n |-> <<"b", m, i>>]

Fresh ==
    /\ ctrl' = 0 /\ active' = FALSE /\ control_byte' = 0 /\ cid' = 0
    /\ expected_len' = 0 /\ buf' = <<>>

Init ==
    /\ packet_size \in PacketSizes
    /\ written = <<>> /\ outbox = [c \in Cids |-> <<>>]
    /\ lost = 0 /\ cut = 0 /\ hurt = {}
    /\ ctrl = 0 /\ active = FALSE /\ control_byte = 0 /\ cid = 0 /\ expected_len = 0 /\ buf = <<>>
    /\ delivered = <<>> /\ error = "none"

\* The device segments its next message; reports carry its number as a ghost.
Write(c, k, n) ==
    LET m == Len(written) + 1
        packets == segment(packet_size, c, k, PayloadOf(m, n))
    IN  /\ m <= MaxMessages /\ outbox[c] = <<>>
        /\ CanSegment(packet_size, MaxLength, PayloadOf(m, n))
        /\ written' = Append(written, [ctrl |-> k, cid |-> c, payload |-> PayloadOf(m, n)])
        /\ outbox' = [outbox EXCEPT ![c] = [i \in 1 .. Len(packets) |-> [p |-> packets[i], m |-> m]]]
        /\ UNCHANGED <<packet_size, lost, cut, hurt, reasmVars, delivered, error>>

----------------------------------------------------------------------------
\* push_packet and read_framed around it, for one report.

Fails(why) == error' = why /\ UNCHANGED <<reasmVars, delivered>>

\* Mutant: the CRC is not compared.
finishMutant(k, b, c, len, data) ==
    IF k = TRANSPORT_ERROR
    THEN Fails("device")
    ELSE /\ delivered' = Append(delivered, [ctrl |-> k, payload |-> SubSeq(data, 1, len - CRC_LEN)])
         /\ Fresh
         /\ UNCHANGED error

\* finish: compare the CRC, hand out the payload; read_framed returns it
\* with the control byte it captured, or the error a transport_error carries.
finish(k, b, c, len, data) ==
    LET payload == SubSeq(data, 1, len - CRC_LEN)
        received == SubSeq(data, len - CRC_LEN + 1, len)
    IN  IF received # crc32_ieee(CrcInput(b, c, len, payload))
        THEN Fails("crc")
        ELSE IF k = TRANSPORT_ERROR
        THEN Fails("device")
        ELSE /\ delivered' = Append(delivered, [ctrl |-> k, payload |-> payload])
             /\ Fresh
             /\ UNCHANGED error

\* Mutant: one byte too many is waited for.
CollectedMutant(k, b, c, len, data) ==
    IF Len(data) > len
    THEN finish(k, b, c, len, data)
    ELSE /\ ctrl' = k /\ active' = TRUE /\ control_byte' = b /\ cid' = c
         /\ expected_len' = len /\ buf' = data
         /\ UNCHANGED <<delivered, error>>

\* The reassembly goes on with data in buf, or is complete.
Collected(k, b, c, len, data) ==
    IF Len(data) >= len
    THEN finish(k, b, c, len, data)
    ELSE /\ ctrl' = k /\ active' = TRUE /\ control_byte' = b /\ cid' = c
         /\ expected_len' = len /\ buf' = data
         /\ UNCHANGED <<delivered, error>>

push_continuation(p) ==
    IF ~active
    THEN UNCHANGED <<reasmVars, delivered, error>>      \* dropped
    ELSE IF p.size <= CONT_HEADER
    THEN Fails("short")
    ELSE LET take == MinOf(expected_len - Len(buf), p.size - CONT_HEADER)
         IN  Collected(ctrl, control_byte, cid, expected_len, buf \o SubSeq(p.data, 1, take))

\* Mutants: a reassembly in progress is not reset; or goes on.
push_initiation_mutant(p) ==
    IF p.size < INIT_HEADER \/ p.length < CRC_LEN
    THEN Fails("short")
    ELSE LET take == MinOf(p.length, p.size - INIT_HEADER)
         IN  Collected(p.ctrl, p.ctrl, p.cid, p.length, buf \o SubSeq(p.data, 1, take))

push_initiation_busy_mutant(p) ==
    IF active
    THEN UNCHANGED <<reasmVars, delivered, error>>
    ELSE push_initiation_mutant(p)

push_initiation(p) ==
    IF p.size < INIT_HEADER \/ p.length < CRC_LEN
    THEN Fails("short")
    ELSE LET take == MinOf(p.length, p.size - INIT_HEADER)
         IN  Collected(p.ctrl, p.ctrl, p.cid, p.length, SubSeq(p.data, 1, take))

push_packet(p) == IF p.cont THEN push_continuation(p) ELSE push_initiation(p)

----------------------------------------------------------------------------
Next1(c) == outbox' = [outbox EXCEPT ![c] = Tail(@)]

\* read_chunk returns the next report of some channel.
Read(c) ==
    /\ error = "none" /\ outbox[c] # <<>>
    /\ push_packet(Head(outbox[c]).p)
    /\ Next1(c)
    /\ UNCHANGED <<packet_size, written, lost, cut, hurt>>

\* The report never arrives.
Lose(c) ==
    /\ error = "none" /\ outbox[c] # <<>> /\ lost + cut < MaxDamage
    /\ lost' = lost + 1 /\ hurt' = hurt \cup {Head(outbox[c]).m}
    /\ Next1(c)
    /\ UNCHANGED <<packet_size, written, cut, reasmVars, delivered, error>>

\* The report arrives shortened to n bytes; an empty one is skipped.
ReadCut(c, n) ==
    LET p == Head(outbox[c]).p
        keep == IF n < HeaderOf(p) THEN 0 ELSE n - HeaderOf(p)
    IN  /\ error = "none" /\ outbox[c] # <<>> /\ lost + cut < MaxDamage
        /\ n < p.size
        /\ IF n = 0 THEN UNCHANGED <<reasmVars, delivered, error>>
           ELSE push_packet([p EXCEPT !.size = n, !.data = SubSeq(@, 1, keep)])
        /\ cut' = cut + 1 /\ hurt' = hurt \cup {Head(outbox[c]).m}
        /\ Next1(c)
        /\ UNCHANGED <<packet_size, written, lost>>

Next == \E c \in Cids :
            \/ \E k \in Controls, n \in Lengths : Write(c, k, n)
            \/ Read(c)
            \/ Lose(c)
            \/ \E n \in 0 .. packet_size - 1 : ReadCut(c, n)

Spec == Init /\ [][Next]_vars

----------------------------------------------------------------------------
(* Properties.                                                             *)

MessageOf(m) == [ctrl |-> written[m].ctrl, payload |-> written[m].payload]

\* The type invariant: a reassembly in progress holds fewer bytes than it
\* expects, so remaining in push_packet never underflows.
TypeOK ==
    /\ packet_size \in PacketSizes
    /\ active \in BOOLEAN /\ ctrl \in Byte /\ control_byte \in Byte
    /\ active => expected_len >= CRC_LEN /\ Len(buf) < expected_len /\ control_byte = ctrl
    /\ ~active => buf = <<>>
    /\ error \in {"none", "crc", "short", "device"}

\* Whatever is lost, truncated or interleaved, read_framed returns only
\* messages that were written, with their own control byte and payload, each
\* at most once, and those of one channel in the order they were written.
Integrity ==
    \E f \in [1 .. Len(delivered) -> 1 .. Len(written)] :
        /\ \A i \in 1 .. Len(delivered) : delivered[i] = MessageOf(f[i])
        /\ \A i, j \in 1 .. Len(delivered) : i < j =>
            /\ f[i] # f[j]
            /\ written[f[i]].cid = written[f[j]].cid => f[i] < f[j]

\* Only one channel has been written on.
OneChannel == Cardinality({written[m].cid : m \in 1 .. Len(written)}) <= 1

\* Reassembly resynchronises on the next initiation packet: a message all of
\* whose reports arrived whole has been returned, however the messages before
\* it on its channel were damaged.
Resynchronises ==
    OneChannel /\ error = "none" =>
        \A m \in 1 .. Len(written) :
            \/ m \in hurt
            \/ \E c \in Cids : outbox[c] # <<>> /\ Head(outbox[c]).m = m
            \/ \E i \in 1 .. Len(delivered) : delivered[i] = MessageOf(m)

\* Losing one report of a channel is never an error: it takes a second loss, of the next
\* initiation packet, before continuation packets of another message can be
\* appended and the CRC fails.
OneLossIsSilent == OneChannel /\ error \in {"crc", "short"} => lost >= 2 \/ cut >= 1

\* "unexpected continuation packets are dropped" (framing.rs:186-187): a
\* continuation of a channel other than the one being reassembled leaves the
\* reassembly alone.
ForeignContinuationDropped ==
    [][\A c \in Cids :
         outbox[c] # <<>> /\ Head(outbox[c]).p.cont /\ outbox'[c] # outbox[c] /\ active /\ c # cid
            => UNCHANGED <<reasmVars, delivered, error>>]_vars
============================================================================
