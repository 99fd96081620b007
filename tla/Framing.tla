------------------------------ MODULE Framing ------------------------------
(***************************************************************************)
(* Segmentation of a transport payload into packets (thp/framing.rs).      *)
(*                                                                         *)
(* A byte is an opaque unit.  A packet keeps its header fields and the     *)
(* units behind them, padded to the report size.  The CRC-32 is ideal: its *)
(* four bytes name exactly the header and payload they were computed over, *)
(* so a check succeeds only on the very same bytes.                        *)
(***************************************************************************)
EXTENDS Integers, Sequences

INIT_HEADER == 5
CONT_HEADER == 3
CRC_LEN == 4

PAD == <<"pad">>
crc32_ieee(input) == [i \in 1 .. CRC_LEN |-> <<"crc", i, input>>]

CrcInput(ctrl, cid, length, payload) ==
    [ctrl |-> ctrl, cid |-> cid, length |-> length, payload |-> payload]

\* segment refuses a report that cannot hold an initiation header, and a
\* payload whose length with its CRC does not fit the 16-bit field.
CanSegment(packet_size, max_length, payload) ==
    packet_size > INIT_HEADER /\ Len(payload) + CRC_LEN <= max_length

Padded(s, n) == s \o [i \in 1 .. n - Len(s) |-> PAD]
MinOf(a, b) == IF a < b THEN a ELSE b

segment(packet_size, cid, ctrl, payload) ==
    LET length == Len(payload) + CRC_LEN
        data == payload \o crc32_ieee(CrcInput(ctrl, cid, length, payload))
        first == packet_size - INIT_HEADER
        room == packet_size - CONT_HEADER
        conts == IF length <= first THEN 0 ELSE (length - first + room - 1) \div room
        from(k) == first + (k - 1) * room
    IN  <<[cont |-> FALSE, ctrl |-> ctrl, cid |-> cid, length |-> length, size |-> packet_size,
           data |-> Padded(SubSeq(data, 1, MinOf(first, length)), first)]>>
        \o [k \in 1 .. conts |->
              [cont |-> TRUE, ctrl |-> 128, cid |-> cid, length |-> 0, size |-> packet_size,
               data |-> Padded(SubSeq(data, from(k) + 1, MinOf(from(k) + room, length)), room)]]

\* Bytes of a packet in front of its data, as its first byte announces them.
HeaderOf(p) == IF p.cont THEN CONT_HEADER ELSE INIT_HEADER
============================================================================
