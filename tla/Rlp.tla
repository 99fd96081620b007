-------------------------------- MODULE Rlp --------------------------------
(***************************************************************************)
(* Decoding the host's EIP-1559 envelope (chains/ethereum.rs): the loop of *)
(* rlp_decode_list on its local state, one rlp_read per step. A machine    *)
(* word has WORD bytes, eight in the code; a length prefix has at most as  *)
(* many. Positions are counted from 0, as in the code.                     *)
(***************************************************************************)
EXTENDS Integers, Sequences, SequencesExt

CONSTANT WORD

\* TLC's integers hold words of up to three bytes.
ASSUME WordAssumption == WORD \in 1 .. 3

MODULUS == 256 ^ WORD

\* What shifting the bytes into a word leaves of a big-endian number.
be_to_u64(bytes) ==
    LET v[i \in 0 .. Len(bytes)] ==
            IF i = 0 THEN 0 ELSE (v[i - 1] % (MODULUS \div 256)) * 256 + bytes[i]
    IN  v[Len(bytes)]

Refused == [ok |-> FALSE]

\* Mutant: the sum of position and length may wrap around.
take_mutant(buf, pos, len) ==
    LET end == (pos + len) % MODULUS IN
    IF end > Len(buf) THEN Refused
    ELSE [ok |-> TRUE, payload |-> SubSeq(buf, pos + 1, end), pos |-> end]

\* The next len bytes of buf: refused when the sum overflows a word or
\* passes the end of the buffer.
take(buf, pos, len) ==
    IF pos + len >= MODULUS \/ pos + len > Len(buf) THEN Refused
    ELSE [ok |-> TRUE, payload |-> SubSeq(buf, pos + 1, pos + len), pos |-> pos + len]

\* A payload whose length is itself the next n bytes.
take_long(buf, pos, n) ==
    LET prefix == take(buf, pos, n) IN
    IF prefix.ok THEN take(buf, prefix.pos, be_to_u64(prefix.payload)) ELSE Refused

\* Mutant: 0x80 counts as a byte of its own.
rlp_read_mutant(buf, pos) ==
    LET b == buf[pos + 1]
        read == CASE pos = Len(buf) -> Refused
                  [] b <= 128 -> [ok |-> TRUE, payload |-> <<b>>, pos |-> pos + 1]
                  [] b \in 129 .. 183 -> take(buf, pos + 1, b - 128)
                  [] b \in 184 .. 191 -> take_long(buf, pos + 1, b - 183)
                  [] b \in 192 .. 247 -> take(buf, pos + 1, b - 192)
                  [] OTHER -> take_long(buf, pos + 1, b - 247)
    IN  IF read.ok THEN [is_list |-> b >= 192] @@ read ELSE Refused

\* One item: a byte below 0x80 is its own payload.
rlp_read(buf, pos) ==
    LET b == buf[pos + 1]
        read == CASE pos = Len(buf) -> Refused
                  [] b <= 127 -> [ok |-> TRUE, payload |-> <<b>>, pos |-> pos + 1]
                  [] b \in 128 .. 183 -> take(buf, pos + 1, b - 128)
                  [] b \in 184 .. 191 -> take_long(buf, pos + 1, b - 183)
                  [] b \in 192 .. 247 -> take(buf, pos + 1, b - 192)
                  [] OTHER -> take_long(buf, pos + 1, b - 247)
    IN  IF read.ok THEN [is_list |-> b >= 192] @@ read ELSE Refused

\* The loop's state: the list's payload, how much of it is read, its items.
Reading(payload) == [payload |-> payload, pos |-> 0, items |-> <<>>]

\* The checks up to the loop: a type byte, and behind it one list.
open_envelope(envelope) ==
    IF envelope = <<>> \/ Head(envelope) # 2 THEN Refused
    ELSE LET body == rlp_read(Tail(envelope), 0) IN
         IF body.ok /\ body.is_list THEN [ok |-> TRUE, loop |-> Reading(body.payload)] ELSE Refused

more_items(loop) == loop.pos < Len(loop.payload)

next_item(loop) ==
    LET read == rlp_read(loop.payload, loop.pos) IN
    IF read.ok THEN [ok |-> TRUE, loop |-> [loop EXCEPT !.pos = read.pos, !.items = Append(@, read.payload)]]
    ELSE Refused

\* The transaction: the chain id as a number, seven fields as they are. What
\* follows them, the access list, is ignored.
decode_eip1559_envelope(items) ==
    IF Len(items) < 8 THEN Refused
    ELSE [ok |-> TRUE, chain_id |-> be_to_u64(items[1]), fields |-> SubSeq(items, 2, 8)]

----------------------------------------------------------------------------
(* The host's encoder, as the tests of ethereum.rs restate it.             *)

minimal_be(n) ==
    LET bytes[w \in 0 .. WORD] == IF w = 0 THEN <<>>
                                  ELSE (IF n < 256 ^ (w - 1) THEN <<>> ELSE <<(n \div 256 ^ (w - 1)) % 256>>)
                                       \o bytes[w - 1]
    IN  bytes[WORD]

prefixed(short, data) ==
    LET lb == minimal_be(Len(data)) IN
    (IF Len(data) < 56 THEN <<short + Len(data)>> ELSE <<short + 55 + Len(lb)>> \o lb) \o data

rlp_bytes(data) == IF Len(data) = 1 /\ data[1] < 128 THEN data ELSE prefixed(128, data)

rlp_list(items) == prefixed(192, FlattenSeq(items))

\* The envelope of a transaction: its chain id, seven fields, no access list.
envelope_of(chain_id, fields) ==
    <<2>> \o rlp_list(<<rlp_bytes(minimal_be(chain_id))>>
                      \o [i \in 1 .. 7 |-> rlp_bytes(fields[i])] \o <<rlp_list(<<>>)>>)
============================================================================
