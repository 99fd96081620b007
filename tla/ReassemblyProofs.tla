-------------------------- MODULE ReassemblyProofs --------------------------
(***************************************************************************)
(* Theorems about Reassembly, for any report sizes, channels, control      *)
(* bytes and payload lengths, and any number of messages, losses and       *)
(* truncations.                                                            *)
(*                                                                         *)
(* The argument for Integrity: the byte that completes a payload comes     *)
(* from the report just read, and every report carries bytes of one        *)
(* message only.  When the CRC matches, that byte is the last of the CRC   *)
(* of the message the report belongs to, so what was collected is that     *)
(* message, whatever was mixed into it on the way; and the last byte of a  *)
(* CRC is in the last report of its message, so no message comes twice.    *)
(***************************************************************************)
EXTENDS Reassembly, SequenceTheorems, TLAPS

----------------------------------------------------------------------------
(* Sequences of anything.                                                  *)

\* A sequence, of whatever it holds.
IsSeq(s) == s \in Seq({s[i] : i \in DOMAIN s})

\* Every sequence is one of its own elements.
LEMMA SeqIs ==
    ASSUME NEW S, NEW s \in Seq(S)
    PROVE  IsSeq(s)
<1>1. Len(s) \in Nat /\ s \in [1 .. Len(s) -> S]
  BY LenProperties
<1>2. s \in [1 .. Len(s) -> {s[i] : i \in DOMAIN s}]
  BY <1>1
<1> QED
  BY <1>1, <1>2, SeqDef DEF IsSeq

\* Length, domain and elements of a sequence.
LEMMA IsSeqFacts ==
    ASSUME NEW s, IsSeq(s)
    PROVE  /\ Len(s) \in Nat /\ DOMAIN s = 1 .. Len(s)
           /\ s = [i \in 1 .. Len(s) |-> s[i]]
           /\ (s = <<>> <=> Len(s) = 0)
  BY LenProperties, EmptySeq DEF IsSeq

\* A function on 1 .. n is a sequence.
LEMMA FunctionIsSeq ==
    ASSUME NEW n \in Nat, NEW s, s = [i \in 1 .. n |-> s[i]]
    PROVE  IsSeq(s) /\ Len(s) = n
<1>1. s \in [1 .. n -> {s[i] : i \in 1 .. n}] /\ DOMAIN s = 1 .. n
  OBVIOUS
<1>2. s \in Seq({s[i] : i \in 1 .. n})
  BY <1>1, SeqDef
<1> QED
  BY <1>1, <1>2, LenProperties DEF IsSeq

\* Concatenation, element by element.
LEMMA ConcatIs ==
    ASSUME NEW a, NEW b, IsSeq(a), IsSeq(b)
    PROVE  /\ IsSeq(a \o b) /\ Len(a \o b) = Len(a) + Len(b)
           /\ \A i \in 1 .. Len(a) : (a \o b)[i] = a[i]
           /\ \A i \in Len(a) + 1 .. Len(a) + Len(b) : (a \o b)[i] = b[i - Len(a)]
<1> DEFINE S == {a[i] : i \in DOMAIN a} \cup {b[i] : i \in DOMAIN b}
<1>1. a \in Seq(S) /\ b \in Seq(S)
  BY SeqMonotonic DEF IsSeq
<1>2. Len(a) \in Nat /\ Len(b) \in Nat
  BY IsSeqFacts
<1> HIDE DEF S
<1>3. /\ a \o b \in Seq(S) /\ Len(a \o b) = Len(a) + Len(b)
      /\ \A i \in 1 .. Len(a) + Len(b) : (a \o b)[i] = IF i <= Len(a) THEN a[i] ELSE b[i - Len(a)]
  BY <1>1, ConcatProperties
<1>4. IsSeq(a \o b)
  BY <1>3, SeqIs
<1> QED
  BY <1>2, <1>3, <1>4

\* SubSeq, element by element.
LEMMA SubSeqIs ==
    ASSUME NEW s, IsSeq(s), NEW m \in Nat \ {0}, NEW n \in Nat, n <= Len(s), m <= n + 1
    PROVE  /\ IsSeq(SubSeq(s, m, n)) /\ Len(SubSeq(s, m, n)) = n - m + 1
           /\ \A i \in 1 .. n - m + 1 : SubSeq(s, m, n)[i] = s[m + i - 1]
<1> DEFINE S == {s[i] : i \in DOMAIN s}
<1>1. \A i \in m .. n : s[i] \in S
  BY IsSeqFacts
<1> HIDE DEF S
<1>2. m \in Int /\ n \in Int
  OBVIOUS
<1>3. /\ SubSeq(s, m, n) \in Seq(S) /\ Len(SubSeq(s, m, n)) = IF m <= n THEN n - m + 1 ELSE 0
      /\ \A i \in 1 .. n - m + 1 : SubSeq(s, m, n)[i] = s[m + i - 1]
  BY <1>1, <1>2, SubSeqProperties
<1>4. IsSeq(SubSeq(s, m, n))
  BY <1>3, SeqIs
<1> QED
  BY <1>3, <1>4

\* A prefix of a sequence.
LEMMA PrefixIs ==
    ASSUME NEW s, IsSeq(s), NEW t \in Nat, t <= Len(s)
    PROVE  /\ IsSeq(SubSeq(s, 1, t)) /\ Len(SubSeq(s, 1, t)) = t
           /\ \A i \in 1 .. t : SubSeq(s, 1, t)[i] = s[i]
<1>1. PICK one \in Nat \ {0} : one = 1
  OBVIOUS
<1>2. /\ IsSeq(SubSeq(s, one, t)) /\ Len(SubSeq(s, one, t)) = t - one + 1
      /\ \A i \in 1 .. t - one + 1 : SubSeq(s, one, t)[i] = s[one + i - 1]
  BY <1>1, SubSeqIs
<1> QED
  BY <1>1, <1>2

\* Append, element by element.
LEMMA AppendIs ==
    ASSUME NEW s, IsSeq(s), NEW e
    PROVE  /\ IsSeq(Append(s, e)) /\ Len(Append(s, e)) = Len(s) + 1
           /\ \A i \in 1 .. Len(s) : Append(s, e)[i] = s[i]
           /\ Append(s, e)[Len(s) + 1] = e
<1> DEFINE S == {s[i] : i \in DOMAIN s} \cup {e}
<1>1. s \in Seq(S) /\ e \in S
  BY SeqMonotonic DEF IsSeq
<1> HIDE DEF S
<1>2. /\ Append(s, e) \in Seq(S) /\ Len(Append(s, e)) = Len(s) + 1
      /\ \A i \in 1 .. Len(s) : Append(s, e)[i] = s[i]
      /\ Append(s, e)[Len(s) + 1] = e
  BY <1>1, AppendProperties
<1>3. IsSeq(Append(s, e))
  BY <1>2, SeqIs
<1> QED
  BY <1>2, <1>3

\* Head and Tail, element by element.
LEMMA TailIs ==
    ASSUME NEW s, IsSeq(s), s # <<>>
    PROVE  /\ IsSeq(Tail(s)) /\ Len(Tail(s)) = Len(s) - 1
           /\ \A i \in 1 .. Len(s) - 1 : Tail(s)[i] = s[i + 1]
           /\ Head(s) = s[1]
<1> DEFINE S == {s[i] : i \in DOMAIN s}
<1>1. s \in Seq(S)
  BY DEF IsSeq
<1> HIDE DEF S
<1>2. /\ Tail(s) \in Seq(S) /\ Len(Tail(s)) = Len(s) - 1
      /\ \A i \in 1 .. Len(Tail(s)) : Tail(s)[i] = s[i + 1]
  BY <1>1, HeadTailProperties
<1>3. IsSeq(Tail(s))
  BY <1>2, SeqIs
<1>4. Head(s) = s[1]
  OBVIOUS
<1> QED
  BY <1>2, <1>3, <1>4

----------------------------------------------------------------------------
(* The inductive invariant.                                                *)

\* What the CRC of message w is computed over, and the last byte of that CRC.
Input(w) == CrcInput(w.ctrl, w.cid, Len(w.payload) + CRC_LEN, w.payload)
EndOf(w) == <<"crc", CRC_LEN, Input(w)>>

\* The bytes a report of message w, number m, may carry.
UnitOf(u, m, w) ==
    \/ u = PAD
    \/ \E i \in 1 .. Len(w.payload) : u = <<"b", m, i>>
    \/ \E i \in 1 .. CRC_LEN : u = <<"crc", i, Input(w)>>

BytesOf(s, m, w) == IsSeq(s) /\ \A i \in 1 .. Len(s) : UnitOf(s[i], m, w)
HasEnd(s, w) == \E i \in 1 .. Len(s) : s[i] = EndOf(w)

\* A report of that message, of n bytes or shortened to them.
Carries(p, m, w, n) ==
    /\ p = [cont |-> p.cont, ctrl |-> p.ctrl, cid |-> p.cid, length |-> p.length, size |-> p.size,
            data |-> p.data]
    /\ p.cont \in BOOLEAN /\ p.length \in Nat /\ p.size = n
    /\ ~p.cont => p.ctrl \in Controls
    /\ BytesOf(p.data, m, w) /\ Len(p.data) = (IF n < HeaderOf(p) THEN 0 ELSE n - HeaderOf(p))

\* out holds the reports of message w, number m, that have not been sent; the
\* last byte of its CRC is in the last one.
Waiting(out, m, w, n) ==
    \A i \in 1 .. Len(out) :
        /\ out[i].m = m /\ Carries(out[i].p, m, w, n)
        /\ HasEnd(out[i].p.data, w) => i = Len(out)

\* The reports of channel c are those of the last message written on it.
Unsent(out, c, w, n) ==
    /\ IsSeq(out)
    /\ out # <<>> =>
        /\ out[1].m \in 1 .. Len(w) /\ w[out[1].m].cid = c
        /\ Waiting(out, out[1].m, w[out[1].m], n)
        /\ \A l \in 1 .. Len(w) : w[l].cid = c => l <= out[1].m

Outboxes == \A c \in Cids : Unsent(outbox[c], c, written, packet_size)

\* The messages delivered are the written ones f numbers, none of them twice,
\* those of a channel in order, and none still has a report to come.
Numbers(f, out, w, o) ==
    /\ IsSeq(out) /\ f \in [1 .. Len(out) -> 1 .. Len(w)]
    /\ \A i \in 1 .. Len(out) : out[i] = [ctrl |-> w[f[i]].ctrl, payload |-> w[f[i]].payload]
    /\ \A i, j \in 1 .. Len(out) : i < j =>
        f[i] # f[j] /\ (w[f[i]].cid = w[f[j]].cid => f[i] < f[j])
    /\ \A c \in Cids : o[c] # <<>> => \A i \in 1 .. Len(out) : f[i] # o[c][1].m

Deliveries == \E f \in [1 .. Len(delivered) -> 1 .. Len(written)] :
                  Numbers(f, delivered, written, outbox)

Reassembling ==
    /\ active \in BOOLEAN /\ ctrl \in Byte /\ control_byte \in Byte
    /\ expected_len \in Nat /\ IsSeq(buf)
    /\ active => expected_len >= CRC_LEN /\ Len(buf) < expected_len /\ control_byte = ctrl
    /\ ~active => buf = <<>>
    /\ error \in {"none", "crc", "short", "device"}

Inv == /\ packet_size \in PacketSizes
       /\ IsSeq(written) /\ outbox = [c \in Cids |-> outbox[c]]
       /\ Outboxes /\ Deliveries /\ Reassembling

----------------------------------------------------------------------------
(* Segmentation.                                                           *)

\* The k-th continuation packet begins inside the message.
LEMMA Rooms ==
    ASSUME NEW x \in Nat \ {0}, NEW room \in Nat \ {0}, NEW k \in 1 .. ((x + room - 1) \div room)
    PROVE  (k - 1) * room < x
<1>1. PICK q : q = (x + room - 1) \div room
  OBVIOUS
<1>2. q \in Int /\ room * q <= x + room - 1
  BY <1>1
<1>3. k - 1 <= q - 1 /\ k \in Int
  BY <1>1, <1>2
<1>4. \A a, b \in Int : a <= b => a * room <= b * room
  OBVIOUS
<1>5. (k - 1) * room <= (q - 1) * room
  BY <1>2, <1>3, <1>4
<1>6. (q - 1) * room = room * q - room
  BY <1>2
<1> QED
  BY <1>2, <1>3, <1>5, <1>6

\* A byte of a CRC names its place and what the CRC is of.
LEMMA CrcByte == \A i, x, j, y : <<"crc", i, x>> = <<"crc", j, y>> => i = j /\ x = y
  OBVIOUS

\* A payload with its CRC, and the part of it that a packet carries from byte a
\* on, padded to r bytes.
Framed(m, n, w) == PayloadOf(m, n) \o crc32_ieee(Input(w))
EndsOnce(s, w) == \A i \in 1 .. Len(s) : s[i] = EndOf(w) => i = Len(s)
ChunkOf(s, a, r) == Padded(SubSeq(s, a + 1, MinOf(a + r, Len(s))), r)

\* A payload with its CRC: its bytes, the last of them at its end only.
LEMMA FramedBytes ==
    ASSUME NEW m, NEW n \in Nat, NEW w, w.payload = PayloadOf(m, n)
    PROVE  LET s == Framed(m, n, w) IN
           /\ Len(PayloadOf(m, n)) = n /\ BytesOf(s, m, w) /\ Len(s) = n + CRC_LEN
           /\ EndsOnce(s, w)
<1>0. PICK s : s = Framed(m, n, w)
  OBVIOUS
<1>1. IsSeq(PayloadOf(m, n)) /\ Len(PayloadOf(m, n)) = n
  BY FunctionIsSeq DEF PayloadOf
<1> DEFINE x == Input(w)
<1> HIDE DEF x
<1>2. CRC_LEN \in Nat /\ IsSeq(crc32_ieee(x)) /\ Len(crc32_ieee(x)) = CRC_LEN
  <2>1. crc32_ieee(x) = [i \in 1 .. 4 |-> <<"crc", i, x>>]
    BY DEF crc32_ieee, CRC_LEN
  <2>2. crc32_ieee(x) = [i \in 1 .. 4 |-> crc32_ieee(x)[i]]
    BY <2>1
  <2> QED
    BY <2>2, FunctionIsSeq DEF CRC_LEN
<1>3. s = PayloadOf(m, n) \o crc32_ieee(x)
  BY <1>0 DEF x, Framed
<1>4. /\ IsSeq(s) /\ Len(s) = n + CRC_LEN
      /\ \A i \in 1 .. n : s[i] = PayloadOf(m, n)[i]
      /\ \A i \in n + 1 .. n + CRC_LEN : s[i] = crc32_ieee(x)[i - n]
  BY <1>1, <1>2, <1>3, ConcatIs, SMTT(30)
<1>5. ASSUME NEW i \in 1 .. n PROVE UnitOf(s[i], m, w) /\ s[i] # EndOf(w)
  <2>1. s[i] = <<"b", m, i>>
    BY <1>4 DEF PayloadOf
  <2> QED
    BY <2>1, <1>1 DEF UnitOf, EndOf
<1>6. ASSUME NEW i \in n + 1 .. n + CRC_LEN
      PROVE  UnitOf(s[i], m, w) /\ (s[i] = EndOf(w) => i = n + CRC_LEN)
  <2>1. PICK j \in 1 .. CRC_LEN : j = i - n
    BY <1>2
  <2>2. s[i] = <<"crc", j, x>>
    <3>1. s[i] = crc32_ieee(x)[j]
      BY <1>4, <2>1
    <3> QED
      BY <3>1 DEF crc32_ieee
  <2>3. s[i] = <<"crc", j, Input(w)>> /\ EndOf(w) = <<"crc", CRC_LEN, Input(w)>>
    BY <2>2 DEF EndOf, x
  <2>4. UnitOf(s[i], m, w)
    BY <2>3 DEF UnitOf
  <2>5. s[i] = EndOf(w) => j = CRC_LEN
    BY <2>3, CrcByte
  <2>6. j = CRC_LEN => i = n + CRC_LEN
    BY <2>1 DEF CRC_LEN
  <2> QED
    BY <2>4, <2>5, <2>6
<1> QED
  BY <1>0, <1>1, <1>2, <1>4, <1>5, <1>6 DEF BytesOf, EndsOnce

\* Such a part.
LEMMA Chunk ==
    ASSUME NEW m, NEW w, NEW s, BytesOf(s, m, w), EndsOnce(s, w),
           NEW a \in Nat, a <= Len(s), NEW r \in Nat
    PROVE  LET t == ChunkOf(s, a, r) IN
           BytesOf(t, m, w) /\ Len(t) = r /\ (HasEnd(t, w) => Len(s) <= a + r)
<1>0. PICK t : t = ChunkOf(s, a, r)
  OBVIOUS
<1>1. IsSeq(s) /\ Len(s) \in Nat
  BY IsSeqFacts DEF BytesOf
<1>2. PICK b \in Nat : b = MinOf(a + r, Len(s))
  BY <1>1 DEF MinOf
<1>3. a <= b /\ b <= Len(s) /\ b <= a + r /\ (b < a + r => b = Len(s))
  BY <1>1, <1>2 DEF MinOf
<1>4. PICK u : u = SubSeq(s, a + 1, b)
  OBVIOUS
<1>5. /\ IsSeq(u) /\ Len(u) = b - a
      /\ \A i \in 1 .. b - a : u[i] = s[a + i]
  <2>1. a + 1 \in Nat \ {0} /\ a + 1 <= b + 1
    BY <1>3
  <2>2. /\ IsSeq(u) /\ Len(u) = b - (a + 1) + 1
        /\ \A i \in 1 .. b - (a + 1) + 1 : u[i] = s[(a + 1) + i - 1]
    <3>1. PICK l \in Nat \ {0} : l = a + 1
      BY <2>1
    <3>2. /\ IsSeq(SubSeq(s, l, b)) /\ Len(SubSeq(s, l, b)) = b - l + 1
          /\ \A i \in 1 .. b - l + 1 : SubSeq(s, l, b)[i] = s[l + i - 1]
      BY <1>1, <1>3, <2>1, <3>1, SubSeqIs, SMTT(30)
    <3> QED
      BY <1>4, <3>1, <3>2
  <2> QED
    BY <2>2, <1>3
<1>6. PICK v : v = [i \in 1 .. r - (b - a) |-> PAD]
  OBVIOUS
<1>7. r - (b - a) \in Nat /\ IsSeq(v) /\ Len(v) = r - (b - a)
  <2>1. r - (b - a) \in Nat
    BY <1>3
  <2>2. v = [i \in 1 .. r - (b - a) |-> v[i]]
    BY <1>6
  <2> QED
    BY <2>1, <2>2, FunctionIsSeq
<1>8. t = u \o v
  BY <1>0, <1>2, <1>4, <1>5, <1>6 DEF Padded, ChunkOf
<1>9. /\ IsSeq(t) /\ Len(t) = r
      /\ \A i \in 1 .. b - a : t[i] = u[i]
      /\ \A i \in b - a + 1 .. r : t[i] = v[i - (b - a)]
  <2>1. /\ IsSeq(t) /\ Len(t) = Len(u) + Len(v)
        /\ \A i \in 1 .. Len(u) : t[i] = u[i]
        /\ \A i \in Len(u) + 1 .. Len(u) + Len(v) : t[i] = v[i - Len(u)]
    <3>1. /\ IsSeq(u \o v) /\ Len(u \o v) = Len(u) + Len(v)
          /\ \A i \in 1 .. Len(u) : (u \o v)[i] = u[i]
          /\ \A i \in Len(u) + 1 .. Len(u) + Len(v) : (u \o v)[i] = v[i - Len(u)]
      <4>1. IsSeq(u) /\ IsSeq(v)
        BY <1>5, <1>7
      <4> QED
        BY <4>1, ConcatIs
    <3> QED
      BY <1>8, <3>1
  <2> QED
    BY <2>1, <1>3, <1>5, <1>7
<1>10. ASSUME NEW i \in 1 .. b - a
       PROVE  UnitOf(t[i], m, w) /\ (t[i] = EndOf(w) => Len(s) <= a + r)
  <2>1. t[i] = s[a + i] /\ a + i \in 1 .. Len(s)
    BY <1>1, <1>3, <1>5, <1>9
  <2> QED
    BY <2>1, <1>3 DEF BytesOf, EndsOnce
<1>11. ASSUME NEW i \in b - a + 1 .. r
       PROVE  UnitOf(t[i], m, w) /\ t[i] # EndOf(w)
  <2>1. i - (b - a) \in 1 .. r - (b - a)
    BY <1>3
  <2>2. t[i] = PAD
    BY <1>6, <1>9, <2>1
  <2>3. PAD # EndOf(w)
    BY DEF PAD, EndOf
  <2> QED
    BY <2>2, <2>3 DEF UnitOf
<1> QED
  BY <1>0, <1>3, <1>9, <1>10, <1>11 DEF BytesOf, HasEnd

\* Every packet of a message carries bytes of it only, and the last byte of the
\* CRC is in the last packet.
LEMMA Segments ==
    ASSUME NEW n \in Nat, n > INIT_HEADER, NEW c, NEW k \in Controls, NEW m, NEW l \in Nat,
           NEW w, w.ctrl = k, w.cid = c, w.payload = PayloadOf(m, l)
    PROVE  LET packets == segment(n, c, k, PayloadOf(m, l)) IN
           /\ IsSeq(packets) /\ Len(packets) > 0
           /\ \A i \in 1 .. Len(packets) :
                Carries(packets[i], m, w, n) /\ (HasEnd(packets[i].data, w) => i = Len(packets))
<1> DEFINE payload == PayloadOf(m, l)
           length == Len(payload) + CRC_LEN
           data == payload \o crc32_ieee(CrcInput(k, c, length, payload))
           first == n - INIT_HEADER
           room == n - CONT_HEADER
           conts == IF length <= first THEN 0 ELSE (length - first + room - 1) \div room
           from(j) == first + (j - 1) * room
           head == [cont |-> FALSE, ctrl |-> k, cid |-> c, length |-> length, size |-> n,
                    data |-> Padded(SubSeq(data, 1, MinOf(first, length)), first)]
           next(j) == [cont |-> TRUE, ctrl |-> 128, cid |-> c, length |-> 0, size |-> n,
                       data |-> Padded(SubSeq(data, from(j) + 1, MinOf(from(j) + room, length)), room)]
           rest == [j \in 1 .. conts |-> next(j)]
<1>1. PICK packets : packets = segment(n, c, k, payload)
  OBVIOUS
<1>2. packets = <<head>> \o rest
  BY <1>1 DEF segment
<1>3. data = Framed(m, l, w)
  BY DEF Framed, Input
<1>4. BytesOf(data, m, w) /\ EndsOnce(data, w) /\ Len(payload) = l /\ Len(data) = l + CRC_LEN
  <2>1. PICK s : s = Framed(m, l, w)
    OBVIOUS
  <2>2. Len(PayloadOf(m, l)) = l /\ BytesOf(s, m, w) /\ Len(s) = l + CRC_LEN /\ EndsOnce(s, w)
    BY <2>1, FramedBytes
  <2>3. s = data
    BY <1>3, <2>1
  <2> HIDE DEF data
  <2> QED
    BY <2>2, <2>3
<1>5. Len(data) = length /\ length \in Nat
  BY <1>4 DEF CRC_LEN
<1>6. first \in Nat /\ room \in Nat \ {0}
  BY DEF INIT_HEADER, CONT_HEADER
<1> HIDE DEF data, length, first, room, payload
<1>7. conts \in Nat /\ (length <= first <=> conts = 0)
  <2>1. CASE length <= first
    BY <2>1
  <2>2. CASE ~(length <= first)
    <3>1. PICK x \in Nat \ {0} : x = length - first
      BY <2>2, <1>5, <1>6
    <3>2. conts = (x + room - 1) \div room
      BY <2>2, <3>1
    <3> HIDE DEF conts
    <3>3. conts \in Int /\ x + room - 1 < room * conts + room
      BY <3>2, <1>6
    <3>4. conts > 0
      <4>1. ASSUME conts <= 0 PROVE room * conts <= 0
        BY <3>3, <4>1, <1>6
      <4> QED
        BY <3>1, <3>3, <4>1, <1>6
    <3> QED
      BY <2>2, <3>3, <3>4
  <2> QED
    BY <2>1, <2>2
<1>8. Carries(head, m, w, n) /\ (HasEnd(head.data, w) => length <= first)
  <2>1. PICK t : t = ChunkOf(data, 0, first)
    OBVIOUS
  <2>2. head.data = t
    BY <2>1, <1>5, <1>6 DEF ChunkOf
  <2>3. 0 \in Nat /\ 0 <= Len(data)
    BY <1>5
  <2>4. BytesOf(t, m, w) /\ Len(t) = first /\ (HasEnd(t, w) => Len(data) <= 0 + first)
    BY <2>1, <2>3, <1>4, <1>6, Chunk
  <2>5. PICK p : p = head
    OBVIOUS
  <2>6. /\ p = [cont |-> p.cont, ctrl |-> p.ctrl, cid |-> p.cid, length |-> p.length,
                size |-> p.size, data |-> p.data]
        /\ p.cont = FALSE /\ p.ctrl = k /\ p.length = length /\ p.size = n /\ p.data = t
    BY <2>2, <2>5
  <2> HIDE DEF head
  <2>7. HeaderOf(p) = INIT_HEADER
    BY <2>6 DEF HeaderOf
  <2>8. first = IF n < INIT_HEADER THEN 0 ELSE n - INIT_HEADER
    BY DEF INIT_HEADER, first
  <2>9. Carries(p, m, w, n)
    BY <1>5, <2>4, <2>6, <2>7, <2>8 DEF Carries
  <2> QED
    BY <1>5, <1>6, <2>4, <2>5, <2>6, <2>9
<1>9. ASSUME NEW j \in 1 .. conts
      PROVE  Carries(rest[j], m, w, n) /\ (HasEnd(rest[j].data, w) => j = conts)
  <2>1. PICK x \in Nat \ {0} : x = length - first
    BY <1>5, <1>6, <1>7
  <2>2. conts = (x + room - 1) \div room
    BY <1>7, <2>1
  <2>3. rest[j] = next(j)
    OBVIOUS
  <2> HIDE DEF conts, rest
  <2>4. PICK a \in Nat : a = from(j)
    <3>1. j - 1 \in Nat
      BY <1>7
    <3>2. (j - 1) * room \in Nat
      BY <3>1, <1>6
    <3> QED
      BY <3>2, <1>6
  <2>5. a < length
    <3>1. (j - 1) * room < x
      BY <2>1, <2>2, <1>6, Rooms
    <3> QED
      BY <2>1, <2>4, <3>1, <1>5, <1>6, <1>7
  <2>6. PICK t : t = ChunkOf(data, a, room)
    OBVIOUS
  <2>7. BytesOf(t, m, w) /\ Len(t) = room /\ (HasEnd(t, w) => Len(data) <= a + room)
    <3>1. a <= Len(data) /\ room \in Nat
      BY <2>5, <1>5, <1>6
    <3> QED
      BY <2>6, <3>1, <1>4, Chunk
  <2>8. PICK p : p = rest[j]
    OBVIOUS
  <2>9. /\ p = [cont |-> p.cont, ctrl |-> p.ctrl, cid |-> p.cid, length |-> p.length,
                size |-> p.size, data |-> p.data]
        /\ p.cont = TRUE /\ p.length = 0 /\ p.size = n /\ p.data = t
    <3>1. p.data = Padded(SubSeq(data, from(j) + 1, MinOf(from(j) + room, length)), room)
      BY <2>3, <2>8
    <3>2. p.data = t
      BY <2>4, <2>6, <3>1, <1>5 DEF ChunkOf
    <3> QED
      BY <2>3, <2>8, <3>2
  <2>10. HeaderOf(p) = CONT_HEADER
    BY <2>9 DEF HeaderOf
  <2>11. room = IF n < CONT_HEADER THEN 0 ELSE n - CONT_HEADER
    BY DEF CONT_HEADER, INIT_HEADER, room
  <2>12. Carries(p, m, w, n)
    <3>1. p.cont \in BOOLEAN /\ p.cont
      BY <2>9, Zenon
    <3>4. p.length \in Nat /\ p.size = n
      BY <2>9, SMT
    <3>2. BytesOf(p.data, m, w)
      BY <2>7, <2>9
    <3>3. Len(p.data) = IF n < HeaderOf(p) THEN 0 ELSE n - HeaderOf(p)
      BY <2>7, <2>9, <2>10, <2>11
    <3> QED
      BY <2>9, <3>1, <3>2, <3>3, <3>4 DEF Carries
  <2>13. ASSUME j # conts PROVE a + room < length
    <3>1. PICK i \in 1 .. conts : i = j + 1
      BY <1>7, <2>13
    <3>2. (i - 1) * room < x
      BY <2>1, <2>2, <3>1, <1>6, Rooms
    <3>3. (i - 1) * room = (j - 1) * room + room
      BY <1>6, <1>7, <3>1
    <3> QED
      BY <2>1, <2>4, <3>2, <3>3, <1>5, <1>6, <1>7
  <2> QED
    BY <1>5, <1>6, <2>7, <2>8, <2>9, <2>12, <2>13
<1>10. /\ IsSeq(packets) /\ Len(packets) = 1 + conts /\ packets[1] = head
       /\ \A i \in 2 .. 1 + conts : packets[i] = rest[i - 1]
  <2>1. PICK h : h = <<head>>
    OBVIOUS
  <2>2. IsSeq(h) /\ Len(h) = 1 /\ h[1] = head
    <3>1. h \in Seq({head})
      BY <2>1
    <3>2. Len(h) = 1 /\ h[1] = head
      BY <2>1
    <3> QED
      BY <3>1, <3>2, SeqIs
  <2>3. IsSeq(rest) /\ Len(rest) = conts
    <3>1. rest = [j \in 1 .. conts |-> rest[j]]
      OBVIOUS
    <3> HIDE DEF rest, conts
    <3> QED
      BY <1>7, <3>1, FunctionIsSeq
  <2> HIDE DEF rest, conts, head
  <2>4. /\ IsSeq(h \o rest) /\ Len(h \o rest) = Len(h) + Len(rest)
        /\ \A i \in 1 .. Len(h) : (h \o rest)[i] = h[i]
        /\ \A i \in Len(h) + 1 .. Len(h) + Len(rest) : (h \o rest)[i] = rest[i - Len(h)]
    BY <2>2, <2>3, ConcatIs
  <2>5. packets = h \o rest
    BY <1>2, <2>1
  <2> QED
    BY <1>7, <2>2, <2>3, <2>4, <2>5
<1> HIDE DEF conts, rest, head
<1>11. ASSUME NEW i \in 1 .. Len(packets)
       PROVE  Carries(packets[i], m, w, n) /\ (HasEnd(packets[i].data, w) => i = Len(packets))
  <2>1. CASE i = 1
    BY <2>1, <1>7, <1>8, <1>10
  <2>2. CASE i # 1
    <3>1. PICK j \in 1 .. conts : j = i - 1
      BY <2>2, <1>7, <1>10
    <3>2. packets[i] = rest[j]
      BY <3>1, <2>2, <1>7, <1>10
    <3>3. j = conts => i = Len(packets)
      BY <3>1, <1>7, <1>10
    <3> QED
      BY <3>2, <3>3, <1>9
  <2> QED
    BY <2>1, <2>2
<1>12. IsSeq(packets) /\ Len(packets) > 0
  BY <1>7, <1>10
<1> QED
  BY <1>1, <1>11, <1>12 DEF payload

----------------------------------------------------------------------------
(* The CRC.                                                                *)

\* All len bytes are there, the last from a report of message w, number m.
Complete(m, w, len, data) ==
    len \in Nat /\ len >= CRC_LEN /\ IsSeq(data) /\ Len(data) = len /\ UnitOf(data[len], m, w)

\* What finish compares.
Checks(b, c, len, data) ==
    SubSeq(data, len - CRC_LEN + 1, len)
        = crc32_ieee(CrcInput(b, c, len, SubSeq(data, 1, len - CRC_LEN)))

\* When the CRC matches, and the last byte came from a report of message w, the
\* whole is w and that byte the last of its CRC.
LEMMA CrcMatches ==
    ASSUME NEW m, NEW w, NEW b, NEW c, NEW len, NEW data,
           Complete(m, w, len, data), Checks(b, c, len, data)
    PROVE  data[len] = EndOf(w) /\ w.ctrl = b /\ w.payload = SubSeq(data, 1, len - CRC_LEN)
<1>0. len \in Nat /\ len >= CRC_LEN /\ IsSeq(data) /\ Len(data) = len /\ UnitOf(data[len], m, w)
  BY DEF Complete
<1>1. PICK payload : payload = SubSeq(data, 1, len - CRC_LEN)
  OBVIOUS
<1>2. PICK x : x = CrcInput(b, c, len, payload)
  OBVIOUS
<1>3. PICK received : received = SubSeq(data, len - CRC_LEN + 1, len)
  OBVIOUS
<1>4. received = crc32_ieee(x)
  BY <1>1, <1>2, <1>3 DEF Checks
<1>5. received[CRC_LEN] = data[len]
  <2>1. PICK from \in Nat \ {0} : from = len - CRC_LEN + 1
    BY <1>0 DEF CRC_LEN
  <2>2. from <= len + 1 /\ len - from + 1 = CRC_LEN /\ CRC_LEN \in 1 .. CRC_LEN /\ from + CRC_LEN - 1 = len
    BY <1>0, <2>1 DEF CRC_LEN
  <2>3. \A i \in 1 .. len - from + 1 : SubSeq(data, from, len)[i] = data[from + i - 1]
    <3>1. IsSeq(data) /\ len \in Nat /\ len <= Len(data) /\ from \in Nat \ {0} /\ from <= len + 1
      BY <1>0, <2>2
    <3> QED
      BY ONLY <3>1, SubSeqIs
  <2> QED
    BY <1>3, <2>1, <2>2, <2>3
<1>6. data[len] = <<"crc", CRC_LEN, x>>
  BY <1>4, <1>5 DEF crc32_ieee, CRC_LEN
<1>7. x = Input(w)
  <2>1. data[len] # PAD
    BY <1>6 DEF PAD
  <2>2. ~ \E i \in 1 .. Len(w.payload) : data[len] = <<"b", m, i>>
    BY <1>6
  <2>3. PICK i \in 1 .. CRC_LEN : data[len] = <<"crc", i, Input(w)>>
    BY <1>0, <2>1, <2>2 DEF UnitOf
  <2> QED
    BY <1>6, <2>3, CrcByte
<1>8. data[len] = EndOf(w)
  BY <1>6, <1>7 DEF EndOf
<1>9. x.ctrl = b /\ x.payload = payload
  BY <1>2 DEF CrcInput
<1>10. x.ctrl = w.ctrl /\ x.payload = w.payload
  BY <1>7 DEF CrcInput, Input
<1> QED
  BY <1>1, <1>8, <1>9, <1>10

----------------------------------------------------------------------------
(* One report.                                                             *)

\* read_framed returns message w, or nothing.
Returned(w) == delivered' = Append(delivered, [ctrl |-> w.ctrl, payload |-> w.payload])

\* An error leaves the reassembly as it is and returns nothing.
LEMMA Failing ==
    ASSUME NEW why \in {"crc", "short", "device"}, Reassembling, Fails(why)
    PROVE  Reassembling' /\ delivered' = delivered
<1>1. /\ error' = why /\ delivered' = delivered /\ active' = active /\ ctrl' = ctrl
      /\ control_byte' = control_byte /\ expected_len' = expected_len /\ buf' = buf
  BY DEF Fails, reasmVars
<1> QED
  BY <1>1 DEF Reassembling

\* finish returns the message its last byte belongs to, or nothing.
LEMMA Finishing ==
    ASSUME NEW m, NEW w, NEW b \in Byte, NEW c, NEW len, NEW data, Complete(m, w, len, data),
           Reassembling, finish(b, b, c, len, data)
    PROVE  Reassembling' /\ (delivered' = delivered \/ (Returned(w) /\ data[len] = EndOf(w)))
<1>1. PICK payload : payload = SubSeq(data, 1, len - CRC_LEN)
  OBVIOUS
<1>2. CASE ~Checks(b, c, len, data)
  <2>1. Fails("crc")
    BY <1>2 DEF finish, Checks
  <2> QED
    BY <2>1, Failing
<1>3. CASE Checks(b, c, len, data)
  <2>1. data[len] = EndOf(w) /\ w.ctrl = b /\ w.payload = payload
    BY <1>1, <1>3, CrcMatches
  <2>2. CASE b = TRANSPORT_ERROR
    <3>1. Fails("device")
      BY <1>1, <1>3, <2>2 DEF finish, Checks
    <3> QED
      BY <3>1, Failing
  <2>3. CASE b # TRANSPORT_ERROR
    <3>1. /\ delivered' = Append(delivered, [ctrl |-> b, payload |-> payload])
          /\ Fresh /\ error' = error
      BY <1>1, <1>3, <2>3 DEF finish, Checks
    <3>2. IsSeq(<<>>)
      BY SeqIs, <<>> \in Seq({})
    <3>3. Reassembling'
      <4>1. /\ ctrl' = 0 /\ active' = FALSE /\ control_byte' = 0 /\ expected_len' = 0
            /\ buf' = <<>> /\ error' = error
        BY <3>1 DEF Fresh
      <4>2. 0 \in Byte /\ 0 \in Nat
        BY DEF Byte
      <4> QED
        BY <3>2, <4>1, <4>2, Zenon DEF Reassembling
    <3> QED
      BY <2>1, <3>1, <3>3 DEF Returned
  <2> QED
    BY <2>2, <2>3
<1> QED
  BY <1>2, <1>3

\* data has been collected of the len bytes expected, the last of them from s.
Held(s, len, data) ==
    /\ len \in Nat /\ len >= CRC_LEN /\ IsSeq(data) /\ Len(data) <= len
    /\ Len(data) = len => \E i \in 1 .. Len(s) : data[len] = s[i]

\* So does a report that completes the payload; one that does not is kept.
LEMMA Collecting ==
    ASSUME NEW m, NEW w, NEW b \in Byte, NEW c, NEW s, BytesOf(s, m, w), NEW len, NEW data,
           Held(s, len, data), Reassembling, Collected(b, b, c, len, data)
    PROVE  Reassembling' /\ (delivered' = delivered \/ (Returned(w) /\ HasEnd(s, w)))
<1>1. Len(data) \in Nat /\ len \in Nat /\ len >= CRC_LEN /\ IsSeq(data) /\ Len(data) <= len
  BY IsSeqFacts DEF Held
<1>2. CASE Len(data) >= len
  <2>1. Len(data) = len /\ finish(b, b, c, len, data)
    BY <1>1, <1>2 DEF Collected
  <2>2. PICK i \in 1 .. Len(s) : data[len] = s[i]
    BY <2>1 DEF Held
  <2>3. Complete(m, w, len, data)
    BY <1>1, <2>1, <2>2 DEF Complete, BytesOf
  <2>4. Reassembling' /\ (delivered' = delivered \/ (Returned(w) /\ data[len] = EndOf(w)))
    BY <2>1, <2>3, Finishing
  <2>5. data[len] = EndOf(w) => HasEnd(s, w)
    BY <2>2 DEF HasEnd
  <2> QED
    BY <2>4, <2>5
<1>3. CASE ~(Len(data) >= len)
  <2>1. /\ ctrl' = b /\ active' = TRUE /\ control_byte' = b /\ expected_len' = len /\ buf' = data
        /\ delivered' = delivered /\ error' = error
    BY <1>3 DEF Collected
  <2>2. Len(data) < len
    BY <1>1, <1>3
  <2>3. Reassembling'
    BY <1>1, <2>1, <2>2 DEF Reassembling
  <2> QED
    BY <2>1, <2>3
<1> QED
  BY <1>2, <1>3

\* What the first t bytes of a report begin.
LEMMA Begins ==
    ASSUME NEW s, IsSeq(s), NEW t \in Nat, t <= Len(s), NEW len \in Nat, len >= CRC_LEN, t <= len
    PROVE  Held(s, len, SubSeq(s, 1, t))
<1>1. PICK u : u = SubSeq(s, 1, t)
  OBVIOUS
<1>2. IsSeq(u) /\ Len(u) = t /\ \A i \in 1 .. t : u[i] = s[i]
  BY <1>1, PrefixIs
<1>3. ASSUME Len(u) = len PROVE \E i \in 1 .. Len(s) : u[len] = s[i]
  <2>1. len \in 1 .. t /\ len \in 1 .. Len(s)
    BY <1>2, <1>3, IsSeqFacts DEF CRC_LEN
  <2> QED
    BY <1>2, <2>1
<1> QED
  BY <1>1, <1>2, <1>3 DEF Held

\* The same behind what buf holds.
LEMMA GoesOn ==
    ASSUME NEW a, IsSeq(a), NEW s, IsSeq(s), NEW t \in Nat \ {0}, t <= Len(s),
           NEW len \in Nat, len >= CRC_LEN, Len(a) + t <= len
    PROVE  Held(s, len, a \o SubSeq(s, 1, t))
<1>1. PICK u : u = SubSeq(s, 1, t)
  OBVIOUS
<1>2. IsSeq(u) /\ Len(u) = t /\ \A i \in 1 .. t : u[i] = s[i]
  BY <1>1, PrefixIs
<1>3. PICK data : data = a \o u
  OBVIOUS
<1>4. /\ IsSeq(data) /\ Len(data) = Len(a) + t /\ Len(a) \in Nat /\ Len(s) \in Nat
      /\ \A i \in Len(a) + 1 .. Len(a) + Len(u) : data[i] = u[i - Len(a)]
  <2>1. IsSeq(a) /\ IsSeq(u)
    BY <1>2
  <2>2. /\ IsSeq(data) /\ Len(data) = Len(a) + Len(u)
        /\ \A i \in Len(a) + 1 .. Len(a) + Len(u) : data[i] = u[i - Len(a)]
    BY ONLY <1>3, <2>1, ConcatIs
  <2>3. Len(a) \in Nat /\ Len(s) \in Nat
    BY IsSeqFacts
  <2> QED
    BY ONLY <1>2, <2>2, <2>3
<1>5. ASSUME Len(data) = len PROVE \E i \in 1 .. Len(s) : data[len] = s[i]
  <2>1. len \in Len(a) + 1 .. Len(a) + Len(u) /\ len - Len(a) = t /\ t \in 1 .. t /\ t \in 1 .. Len(s)
    BY <1>2, <1>4, <1>5
  <2>2. data[len] = s[t]
    BY <1>2, <1>4, <2>1
  <2> QED
    BY <2>1, <2>2
<1> QED
  BY <1>1, <1>3, <1>4, <1>5 DEF Held

\* What push_packet and read_framed do with a report of message w: nothing is
\* returned, or w, and the report holds the last byte of its CRC.
LEMMA Pushing ==
    ASSUME NEW p, NEW m, NEW w, NEW n \in Nat, Carries(p, m, w, n), Reassembling, push_packet(p)
    PROVE  Reassembling' /\ (delivered' = delivered \/ (Returned(w) /\ HasEnd(p.data, w)))
<1>1. /\ p.cont \in BOOLEAN /\ p.length \in Nat /\ p.size = n /\ (~p.cont => p.ctrl \in Controls)
      /\ BytesOf(p.data, m, w) /\ Len(p.data) = (IF n < HeaderOf(p) THEN 0 ELSE n - HeaderOf(p))
  BY DEF Carries
<1>2. PICK s : s = p.data
  OBVIOUS
<1>3. IsSeq(s) /\ BytesOf(s, m, w)
  BY <1>1, <1>2 DEF BytesOf
<1>4. CASE p.cont
  <2>1. push_continuation(p) /\ HeaderOf(p) = CONT_HEADER
    BY <1>4 DEF push_packet, HeaderOf
  <2>2. CASE ~active
    <3>1. UNCHANGED <<reasmVars, delivered, error>>
      BY <2>1, <2>2 DEF push_continuation
    <3> QED
      BY <3>1 DEF reasmVars, Reassembling
  <2>3. CASE active /\ p.size <= CONT_HEADER
    <3>1. Fails("short")
      BY <2>1, <2>3 DEF push_continuation
    <3> QED
      BY <3>1, Failing
  <2>4. CASE active /\ ~(p.size <= CONT_HEADER)
    <3>1. PICK a, len, b, c : a = buf /\ len = expected_len /\ b = ctrl /\ c = cid
      OBVIOUS
    <3>2. /\ IsSeq(a) /\ len \in Nat /\ len >= CRC_LEN /\ Len(a) < len /\ b \in Byte
          /\ control_byte = b
      BY <2>4, <3>1 DEF Reassembling
    <3>3. PICK t : t = MinOf(len - Len(a), n - CONT_HEADER)
      OBVIOUS
    <3>4. Collected(b, b, c, len, a \o SubSeq(s, 1, t))
      BY <1>1, <1>2, <2>1, <2>4, <3>1, <3>2, <3>3 DEF push_continuation
    <3>5. Len(a) \in Nat /\ Len(s) = n - CONT_HEADER /\ n - CONT_HEADER > 0
      BY <1>1, <1>2, <2>1, <2>4, <3>2, IsSeqFacts DEF CONT_HEADER
    <3>6. t \in Nat \ {0} /\ t <= Len(s) /\ Len(a) + t <= len
      BY <3>2, <3>3, <3>5 DEF MinOf, CONT_HEADER
    <3>7. Held(s, len, a \o SubSeq(s, 1, t))
      BY <1>3, <3>2, <3>6, GoesOn
    <3> QED
      BY <1>2, <1>3, <3>2, <3>4, <3>7, Collecting
  <2> QED
    BY <2>2, <2>3, <2>4
<1>5. CASE ~p.cont
  <2>1. push_initiation(p) /\ HeaderOf(p) = INIT_HEADER
    BY <1>5 DEF push_packet, HeaderOf
  <2>2. CASE p.size < INIT_HEADER \/ p.length < CRC_LEN
    <3>1. Fails("short")
      BY <2>1, <2>2 DEF push_initiation
    <3> QED
      BY <3>1, Failing
  <2>3. CASE ~(p.size < INIT_HEADER \/ p.length < CRC_LEN)
    <3>1. PICK len, b, c : len = p.length /\ b = p.ctrl /\ c = p.cid
      OBVIOUS
    <3>2. PICK t : t = MinOf(len, n - INIT_HEADER)
      OBVIOUS
    <3>3. Collected(b, b, c, len, SubSeq(s, 1, t))
      BY <1>1, <1>2, <2>1, <2>3, <3>1, <3>2 DEF push_initiation
    <3>4. Len(s) = n - INIT_HEADER /\ n - INIT_HEADER >= 0 /\ len \in Nat /\ len >= CRC_LEN
      BY <1>1, <1>2, <2>1, <2>3, <3>1 DEF INIT_HEADER, CRC_LEN
    <3>5. t \in Nat /\ t <= Len(s) /\ t <= len
      BY <3>2, <3>4 DEF MinOf, INIT_HEADER
    <3>6. b \in Byte
      <4>1. b \in Controls
        BY <1>1, <1>5, <3>1, Zenon
      <4> QED
        BY <4>1, ReassemblyAssumption DEF Byte
    <3>7. Held(s, len, SubSeq(s, 1, t))
      BY <1>3, <3>4, <3>5, Begins
    <3> QED
      BY <1>2, <1>3, <3>3, <3>6, <3>7, Collecting
  <2> QED
    BY <2>2, <2>3
<1> QED
  BY <1>1, <1>4, <1>5

----------------------------------------------------------------------------
(* What the steps do to the reports and to the numbering.                  *)

\* The first report of a channel, and what is left behind it.
LEMMA SendsFirst ==
    ASSUME NEW out, NEW c, NEW w, NEW n, Unsent(out, c, w, n), out # <<>>
    PROVE  /\ Unsent(Tail(out), c, w, n)
           /\ (Tail(out) # <<>> => Tail(out)[1].m = out[1].m)
           /\ Head(out) = out[1] /\ Carries(out[1].p, out[1].m, w[out[1].m], n)
           /\ (HasEnd(out[1].p.data, w[out[1].m]) => Tail(out) = <<>>)
<1>1. PICK t : t = Tail(out)
  OBVIOUS
<1>2. IsSeq(out) /\ Len(out) \in Nat /\ Len(out) # 0
  BY IsSeqFacts DEF Unsent
<1>3. /\ IsSeq(t) /\ Len(t) = Len(out) - 1
      /\ (\A i \in 1 .. Len(out) - 1 : t[i] = out[i + 1]) /\ Head(out) = out[1]
  BY <1>1, <1>2, TailIs
<1>4. t = <<>> <=> Len(t) = 0
  BY <1>3, IsSeqFacts
<1>5. PICK m : m = out[1].m
  OBVIOUS
<1>6. /\ m \in 1 .. Len(w) /\ w[m].cid = c /\ Waiting(out, m, w[m], n)
      /\ \A l \in 1 .. Len(w) : w[l].cid = c => l <= m
  BY <1>5 DEF Unsent
<1>7. 1 \in 1 .. Len(out)
  BY <1>2
<1>8. Carries(out[1].p, m, w[m], n) /\ (HasEnd(out[1].p.data, w[m]) => 1 = Len(out))
  BY <1>6, <1>7 DEF Waiting
<1>9. ASSUME NEW i \in 1 .. Len(t)
      PROVE  /\ t[i].m = m /\ Carries(t[i].p, m, w[m], n)
             /\ HasEnd(t[i].p.data, w[m]) => i = Len(t)
  <2>1. PICK j \in 1 .. Len(out) : j = i + 1
    BY <1>2, <1>3
  <2>2. t[i] = out[j]
    BY <1>2, <1>3, <2>1
  <2>3. j = Len(out) => i = Len(t)
    BY <1>2, <1>3, <2>1
  <2> QED
    BY <2>2, <2>3, <1>6 DEF Waiting
<1>10. Waiting(t, m, w[m], n)
  BY <1>9 DEF Waiting
<1>11. t # <<>> => t[1].m = m
  <2> SUFFICES ASSUME t # <<>> PROVE t[1].m = m
    OBVIOUS
  <2>1. 1 \in 1 .. Len(t)
    BY <1>2, <1>3, <1>4
  <2> QED
    BY <2>1, <1>9
<1>12. Unsent(t, c, w, n)
  BY <1>3, <1>6, <1>10, <1>11 DEF Unsent
<1>13. HasEnd(out[1].p.data, w[m]) => t = <<>>
  <2>1. ASSUME 1 = Len(out) PROVE t = <<>>
    BY <2>1, <1>3, <1>4
  <2> QED
    BY <1>8, <2>1, Zenon
<1> QED
  BY <1>1, <1>3, <1>5, <1>8, <1>11, <1>12, <1>13

\* A message written on one channel leaves the others' reports alone.
LEMMA OthersUnsent ==
    ASSUME NEW out, NEW d, NEW w, IsSeq(w), NEW n, NEW e, e.cid # d, Unsent(out, d, w, n)
    PROVE  Unsent(out, d, Append(w, e), n)
<1>1. PICK v : v = Append(w, e)
  OBVIOUS
<1>2. /\ Len(w) \in Nat /\ Len(v) = Len(w) + 1 /\ (\A i \in 1 .. Len(w) : v[i] = w[i])
      /\ v[Len(w) + 1] = e
  BY <1>1, AppendIs, IsSeqFacts
<1>3. IsSeq(out)
  BY DEF Unsent
<1>4. ASSUME out # <<>>
      PROVE  /\ out[1].m \in 1 .. Len(v) /\ v[out[1].m].cid = d
             /\ Waiting(out, out[1].m, v[out[1].m], n)
             /\ \A l \in 1 .. Len(v) : v[l].cid = d => l <= out[1].m
  <2>1. PICK m : m = out[1].m
    OBVIOUS
  <2>2. /\ m \in 1 .. Len(w) /\ w[m].cid = d /\ Waiting(out, m, w[m], n)
        /\ \A l \in 1 .. Len(w) : w[l].cid = d => l <= m
    BY <1>4, <2>1 DEF Unsent
  <2>3. m \in 1 .. Len(v) /\ v[m] = w[m]
    BY <1>2, <2>2
  <2>4. ASSUME NEW l \in 1 .. Len(v), v[l].cid = d PROVE l <= m
    <3>1. l # Len(w) + 1
      BY <1>2, <2>4
    <3>2. l \in 1 .. Len(w)
      BY <1>2, <3>1
    <3> QED
      BY <1>2, <2>2, <2>4, <3>2
  <2> QED
    BY <2>1, <2>2, <2>3, <2>4
<1> QED
  BY <1>1, <1>3, <1>4 DEF Unsent

\* The numbering when a message is written whose reports o2 adds on channel c.
LEMMA NumbersWritten ==
    ASSUME NEW f, NEW out, NEW w, IsSeq(w), NEW o, Numbers(f, out, w, o), NEW e, NEW o2, NEW c,
           \A d \in Cids : d # c => o2[d] = o[d],
           o2[c] # <<>> => o2[c][1].m = Len(w) + 1
    PROVE  Numbers(f, out, Append(w, e), o2)
<1>1. PICK v : v = Append(w, e)
  OBVIOUS
<1>2. /\ Len(w) \in Nat /\ Len(v) = Len(w) + 1 /\ (\A i \in 1 .. Len(w) : v[i] = w[i])
  BY <1>1, AppendIs, IsSeqFacts
<1>3. IsSeq(out) /\ Len(out) \in Nat /\ f \in [1 .. Len(out) -> 1 .. Len(w)]
  BY IsSeqFacts DEF Numbers
<1>4. \A i \in 1 .. Len(out) : f[i] \in 1 .. Len(w) /\ v[f[i]] = w[f[i]] /\ f[i] # Len(w) + 1
  BY <1>2, <1>3
<1>5. f \in [1 .. Len(out) -> 1 .. Len(v)]
  BY <1>2, <1>3
<1>6. \A i \in 1 .. Len(out) : out[i] = [ctrl |-> v[f[i]].ctrl, payload |-> v[f[i]].payload]
  BY <1>4 DEF Numbers
<1>7. \A i, j \in 1 .. Len(out) : i < j =>
        f[i] # f[j] /\ (v[f[i]].cid = v[f[j]].cid => f[i] < f[j])
  BY <1>4 DEF Numbers
<1>8. ASSUME NEW d \in Cids, o2[d] # <<>>, NEW i \in 1 .. Len(out) PROVE f[i] # o2[d][1].m
  <2>1. CASE d = c
    <3>1. o2[d][1].m = Len(w) + 1
      BY <1>8, <2>1
    <3> QED
      BY ONLY <1>4, <1>8, <3>1
  <2>2. CASE d # c
    <3>1. o2[d] = o[d]
      BY <2>2
    <3>2. o[d] # <<>> => f[i] # o[d][1].m
      BY Zenon DEF Numbers
    <3> QED
      BY ONLY <1>8, <3>1, <3>2
  <2> QED
    BY ONLY <2>1, <2>2
<1> QED
  BY <1>1, <1>3, <1>5, <1>6, <1>7, <1>8 DEF Numbers

\* When the first report of channel c is gone and nothing is returned.
LEMMA NumbersKept ==
    ASSUME NEW f, NEW out, NEW w, NEW o, Numbers(f, out, w, o), NEW o2, NEW c, o[c] # <<>>,
           \A d \in Cids : d # c => o2[d] = o[d],
           o2[c] # <<>> => o2[c][1].m = o[c][1].m
    PROVE  Numbers(f, out, w, o2)
<1>1. ASSUME NEW d \in Cids, o2[d] # <<>>, NEW i \in 1 .. Len(out) PROVE f[i] # o2[d][1].m
  BY <1>1 DEF Numbers
<1> QED
  BY <1>1 DEF Numbers

\* When it was the last of its message, and that message is returned.
LEMMA NumbersReturned ==
    ASSUME NEW f, NEW out, NEW w, NEW o, NEW n, \A d \in Cids : Unsent(o[d], d, w, n),
           Numbers(f, out, w, o), NEW o2, NEW c \in Cids, o[c] # <<>>,
           \A d \in Cids : d # c => o2[d] = o[d], o2[c] = <<>>, NEW e,
           e = [ctrl |-> w[o[c][1].m].ctrl, payload |-> w[o[c][1].m].payload]
    PROVE  \E g \in [1 .. Len(Append(out, e)) -> 1 .. Len(w)] : Numbers(g, Append(out, e), w, o2)
<1>1. PICK v : v = Append(out, e)
  OBVIOUS
<1>2. IsSeq(out) /\ Len(out) \in Nat /\ f \in [1 .. Len(out) -> 1 .. Len(w)]
  BY IsSeqFacts DEF Numbers
<1>3. /\ IsSeq(v) /\ Len(v) = Len(out) + 1 /\ (\A i \in 1 .. Len(out) : v[i] = out[i])
      /\ v[Len(out) + 1] = e
  <2>1. IsSeq(out)
    BY ONLY <1>2
  <2> QED
    BY ONLY <1>1, <2>1, AppendIs
<1>4. PICK m : m = o[c][1].m
  OBVIOUS
<1>5. m \in 1 .. Len(w) /\ w[m].cid = c /\ \A l \in 1 .. Len(w) : w[l].cid = c => l <= m
  BY <1>4 DEF Unsent
<1>6. \A i \in 1 .. Len(out) : f[i] # m
  BY <1>4 DEF Numbers
<1>7. PICK g : g = [i \in 1 .. Len(out) + 1 |-> IF i <= Len(out) THEN f[i] ELSE m]
  OBVIOUS
<1>8. /\ \A i \in 1 .. Len(out) : g[i] = f[i] /\ g[i] \in 1 .. Len(w)
      /\ g[Len(out) + 1] = m
  BY <1>2, <1>7
<1>9. g \in [1 .. Len(v) -> 1 .. Len(w)]
  BY <1>2, <1>3, <1>5, <1>7
<1>10. ASSUME NEW i \in 1 .. Len(v)
       PROVE  v[i] = [ctrl |-> w[g[i]].ctrl, payload |-> w[g[i]].payload]
  <2>1. CASE i \in 1 .. Len(out)
    BY <2>1, <1>3, <1>8, ZenonT(30) DEF Numbers
  <2>2. CASE i = Len(out) + 1
    BY <2>2, <1>3, <1>4, <1>8
  <2> QED
    BY <2>1, <2>2, <1>2, <1>3
<1>11. ASSUME NEW i \in 1 .. Len(v), NEW j \in 1 .. Len(v), i < j
       PROVE  g[i] # g[j] /\ (w[g[i]].cid = w[g[j]].cid => g[i] < g[j])
  <2>1. i \in 1 .. Len(out)
    BY <1>2, <1>3, <1>11
  <2>2. CASE j \in 1 .. Len(out)
    <3>1. g[i] = f[i] /\ g[j] = f[j]
      BY ONLY <2>1, <2>2, <1>8
    <3>2. f[i] # f[j] /\ (w[f[i]].cid = w[f[j]].cid => f[i] < f[j])
      BY <2>1, <2>2, <1>11 DEF Numbers
    <3> QED
      BY ONLY <3>1, <3>2
  <2>3. CASE j = Len(out) + 1
    <3>1. PICK x, y : x = g[i] /\ y = g[j]
      OBVIOUS
    <3>2. y = m /\ x \in 1 .. Len(w) /\ x # m
      BY <2>1, <2>3, <3>1, <1>6, <1>8
    <3>3. ASSUME w[x].cid = w[y].cid PROVE x < y
      <4>1. x <= m
        BY <1>5, <3>2, <3>3
      <4> QED
        BY <1>5, <3>2, <4>1
    <3> QED
      BY <3>1, <3>2, <3>3
  <2>4. j \in 1 .. Len(out) \/ j = Len(out) + 1
    BY ONLY j \in 1 .. Len(v), <1>2, <1>3
  <2> QED
    BY ONLY <2>2, <2>3, <2>4
<1>12. ASSUME NEW d \in Cids, o2[d] # <<>>, NEW i \in 1 .. Len(v) PROVE g[i] # o2[d][1].m
  <2>1. d # c /\ o2[d] = o[d]
    BY <1>12
  <2>2. CASE i \in 1 .. Len(out)
    BY <2>1, <2>2, <1>8, <1>12 DEF Numbers
  <2>3. CASE i = Len(out) + 1
    <3>1. w[o[d][1].m].cid = d
      BY <2>1, <1>12 DEF Unsent
    <3> QED
      BY <3>1, <2>1, <2>3, <1>5, <1>8
  <2>4. i \in 1 .. Len(out) \/ i = Len(out) + 1
    BY ONLY i \in 1 .. Len(v), <1>2, <1>3
  <2> QED
    BY ONLY <2>2, <2>3, <2>4
<1>13. Numbers(g, v, w, o2)
  BY <1>3, <1>9, <1>10, <1>11, <1>12 DEF Numbers
<1> QED
  BY <1>1, <1>9, <1>13

----------------------------------------------------------------------------
(* The actions.                                                            *)

\* Initially nothing is written, in progress or delivered.
LEMMA InitInv == Init => Inv
<1> SUFFICES ASSUME Init PROVE Inv
  OBVIOUS
<1>1. IsSeq(<<>>) /\ Len(<<>>) = 0
  BY SeqIs, <<>> \in Seq({})
<1>2. /\ packet_size \in PacketSizes /\ written = <<>> /\ outbox = [c \in Cids |-> <<>>]
      /\ ctrl = 0 /\ active = FALSE /\ control_byte = 0 /\ expected_len = 0 /\ buf = <<>>
      /\ delivered = <<>> /\ error = "none"
  BY DEF Init
<1>3. Outboxes
  BY <1>1, <1>2 DEF Outboxes, Unsent
<1>4. Deliveries
  <2>1. PICK f : f = [i \in 1 .. 0 |-> 0]
    OBVIOUS
  <2>2. f \in [1 .. Len(delivered) -> 1 .. Len(written)]
    BY <1>1, <1>2, <2>1
  <2>3. Numbers(f, delivered, written, outbox)
    BY <1>1, <1>2, <2>2 DEF Numbers
  <2> QED
    BY <2>2, <2>3 DEF Deliveries
<1>5. Reassembling
  <2>1. 0 \in Byte /\ 0 \in Nat
    BY DEF Byte
  <2> QED
    BY <1>1, <1>2, <2>1, Zenon DEF Reassembling
<1> QED
  BY <1>1, <1>2, <1>3, <1>4, <1>5 DEF Inv

\* Write adds a message and the reports segment makes of it.
LEMMA WriteInv ==
    ASSUME Inv, NEW c \in Cids, NEW k \in Controls, NEW n \in Lengths, Write(c, k, n)
    PROVE  Inv'
<1>0. PICK l \in Nat : l = Len(written) + 1
  <2>1. Len(written) \in Nat
    BY IsSeqFacts DEF Inv
  <2> QED
    BY <2>1
<1>1. PICK w : l = Len(written) + 1 /\ w = [ctrl |-> k, cid |-> c, payload |-> PayloadOf(l, n)]
  BY <1>0
<1>2. PICK packets, size : size = packet_size /\ packets = segment(size, c, k, PayloadOf(l, n))
  OBVIOUS
<1>3. /\ written' = Append(written, w) /\ packet_size' = packet_size /\ delivered' = delivered
      /\ outbox' = [outbox EXCEPT ![c] = [i \in 1 .. Len(packets) |-> [p |-> packets[i], m |-> l]]]
      /\ UNCHANGED <<reasmVars, error>>
  BY <1>1, <1>2 DEF Write
<1>4. /\ IsSeq(written) /\ outbox = [d \in Cids |-> outbox[d]] /\ Outboxes /\ Deliveries
      /\ Reassembling /\ packet_size \in PacketSizes
  BY DEF Inv
<1>5. w.ctrl = k /\ w.cid = c /\ w.payload = PayloadOf(l, n)
  BY <1>1
<1>6. /\ IsSeq(packets) /\ Len(packets) > 0
      /\ \A i \in 1 .. Len(packets) :
            Carries(packets[i], l, w, size) /\ (HasEnd(packets[i].data, w) => i = Len(packets))
  <2>1. size \in Nat /\ size > INIT_HEADER /\ n \in Nat
    BY <1>2, <1>4, ReassemblyAssumption
  <2> QED
    BY <1>2, <1>5, <2>1, Segments
<1>7. PICK out : out = [i \in 1 .. Len(packets) |-> [p |-> packets[i], m |-> l]]
  OBVIOUS
<1>8. IsSeq(out) /\ Len(out) = Len(packets) /\ Len(packets) \in Nat
  <2>1. Len(packets) \in Nat /\ out = [i \in 1 .. Len(packets) |-> out[i]]
    BY <1>6, <1>7, IsSeqFacts
  <2> QED
    BY <2>1, FunctionIsSeq
<1>9. out[1].m = l
  <2>1. 1 \in 1 .. Len(packets)
    BY <1>6, <1>8
  <2>2. out[1] = [p |-> packets[1], m |-> l]
    BY <1>7, <2>1
  <2> QED
    BY <2>2
<1>10. /\ IsSeq(written') /\ Len(written') = l /\ written'[l] = w
  BY <1>1, <1>3, <1>4, AppendIs
<1>11. Waiting(out, l, w, size)
  BY <1>6, <1>7, <1>8 DEF Waiting
<1>12. Unsent(out, c, written', size)
  <2>1. PICK v : v = written'
    OBVIOUS
  <2>2. Unsent(out, c, v, size)
    <3>1. Len(v) = l /\ v[l] = w /\ l \in 1 .. l
      BY <1>1, <1>4, <1>10, <2>1, IsSeqFacts
    <3> QED
      BY <1>5, <1>8, <1>9, <1>11, <3>1 DEF Unsent
  <2> QED
    BY <2>1, <2>2
<1>13. /\ outbox' = [d \in Cids |-> outbox'[d]] /\ outbox'[c] = out
       /\ \A d \in Cids : d # c => outbox'[d] = outbox[d]
  BY <1>3, <1>4, <1>7
<1>14. ASSUME NEW d \in Cids PROVE Unsent(outbox'[d], d, written', packet_size')
  <2>1. CASE d = c
    BY <2>1, <1>2, <1>3, <1>12, <1>13
  <2>2. CASE d # c
    <3>1. Unsent(outbox[d], d, written, packet_size)
      BY <1>4 DEF Outboxes
    <3>2. w.cid # d
      BY <2>2, <1>5
    <3>3. Unsent(outbox[d], d, Append(written, w), packet_size)
      BY <1>4, <3>1, <3>2, OthersUnsent
    <3> QED
      BY <3>3, <2>2, <1>3, <1>13
  <2> QED
    BY <2>1, <2>2
<1>15. Deliveries'
  <2>1. PICK f \in [1 .. Len(delivered) -> 1 .. Len(written)] : Numbers(f, delivered, written, outbox)
    BY <1>4 DEF Deliveries
  <2>2. PICK o2, v, wr, o : o2 = outbox' /\ v = delivered /\ wr = written /\ o = outbox
    OBVIOUS
  <2>3. Numbers(f, v, Append(wr, w), o2)
    <3>1. /\ Numbers(f, v, wr, o) /\ IsSeq(wr) /\ (\A d \in Cids : d # c => o2[d] = o[d])
          /\ (o2[c] # <<>> => o2[c][1].m = Len(wr) + 1)
      BY <1>1, <1>4, <1>9, <1>13, <2>1, <2>2
    <3> QED
      BY <3>1, NumbersWritten
  <2>4. f \in [1 .. Len(delivered') -> 1 .. Len(written')] /\ Numbers(f, delivered', written', outbox')
    BY <1>3, <2>2, <2>3 DEF Numbers
  <2> QED
    BY <2>4 DEF Deliveries
<1>16. Reassembling'
  BY <1>3, <1>4 DEF Reassembling, reasmVars
<1> QED
  BY <1>3, <1>4, <1>10, <1>13, <1>14, <1>15, <1>16 DEF Inv, Outboxes

\* The first report of channel c leaves its outbox.
LEMMA Popped ==
    ASSUME Inv, NEW c \in Cids, outbox[c] # <<>>, Next1(c), UNCHANGED <<packet_size, written>>
    PROVE  /\ outbox' = [d \in Cids |-> outbox'[d]] /\ Outboxes'
           /\ (\A d \in Cids : d # c => outbox'[d] = outbox[d])
           /\ (outbox'[c] # <<>> => outbox'[c][1].m = outbox[c][1].m)
           /\ (HasEnd(outbox[c][1].p.data, written[outbox[c][1].m]) => outbox'[c] = <<>>)
<1>1. outbox = [d \in Cids |-> outbox[d]] /\ Outboxes
  BY DEF Inv
<1>2. /\ outbox' = [d \in Cids |-> outbox'[d]] /\ outbox'[c] = Tail(outbox[c])
      /\ \A d \in Cids : d # c => outbox'[d] = outbox[d]
  BY <1>1 DEF Next1
<1>3. PICK out, w, n : out = outbox[c] /\ w = written /\ n = packet_size
  OBVIOUS
<1>4. Unsent(out, c, w, n) /\ out # <<>>
  BY <1>1, <1>3 DEF Outboxes
<1>5. /\ Unsent(Tail(out), c, w, n)
      /\ (Tail(out) # <<>> => Tail(out)[1].m = out[1].m)
      /\ (HasEnd(out[1].p.data, w[out[1].m]) => Tail(out) = <<>>)
  BY <1>4, SendsFirst
<1>6. ASSUME NEW d \in Cids PROVE Unsent(outbox'[d], d, written', packet_size')
  <2>1. CASE d = c
    BY <2>1, <1>2, <1>3, <1>5
  <2>2. CASE d # c
    BY <2>2, <1>1, <1>2 DEF Outboxes
  <2> QED
    BY <2>1, <2>2
<1> QED
  BY <1>2, <1>3, <1>5, <1>6 DEF Outboxes

\* The numbering stays when a report is gone and nothing is returned.
LEMMA NoneReturned ==
    ASSUME Inv, NEW c \in Cids, outbox[c] # <<>>, UNCHANGED <<written, delivered>>,
           \A d \in Cids : d # c => outbox'[d] = outbox[d],
           outbox'[c] # <<>> => outbox'[c][1].m = outbox[c][1].m
    PROVE  Deliveries'
<1>1. PICK o, o2, out, w : o = outbox /\ o2 = outbox' /\ out = delivered /\ w = written
  OBVIOUS
<1>2. PICK f \in [1 .. Len(out) -> 1 .. Len(w)] : Numbers(f, out, w, o)
  BY <1>1 DEF Inv, Deliveries
<1>3. Numbers(f, out, w, o2)
  <2>1. /\ o[c] # <<>> /\ (\A d \in Cids : d # c => o2[d] = o[d])
        /\ (o2[c] # <<>> => o2[c][1].m = o[c][1].m)
    BY <1>1
  <2> QED
    BY <1>2, <2>1, NumbersKept
<1> QED
  BY <1>1, <1>2, <1>3 DEF Deliveries

\* The next report of a channel carries bytes of the message it names.
LEMMA Heads ==
    ASSUME Inv, NEW c \in Cids, outbox[c] # <<>>
    PROVE  /\ Head(outbox[c]) = outbox[c][1]
           /\ Carries(outbox[c][1].p, outbox[c][1].m, written[outbox[c][1].m], packet_size)
  BY SendsFirst DEF Inv, Outboxes

\* The report q shortened to n bytes.
KeepOf(q, n) == IF n < HeaderOf(q) THEN 0 ELSE n - HeaderOf(q)
CutTo(q, n) == [q EXCEPT !.size = n, !.data = SubSeq(@, 1, KeepOf(q, n))]

\* A report shortened to n bytes still carries bytes of its message only.
LEMMA Shortened ==
    ASSUME NEW q, NEW m, NEW w, NEW size \in Nat, Carries(q, m, w, size), NEW n \in Nat, n < size
    PROVE  Carries(CutTo(q, n), m, w, n) /\ (HasEnd(CutTo(q, n).data, w) => HasEnd(q.data, w))
<1>0. PICK p, keep : p = CutTo(q, n) /\ keep = KeepOf(q, n)
  OBVIOUS
<1>1. /\ q = [cont |-> q.cont, ctrl |-> q.ctrl, cid |-> q.cid, length |-> q.length, size |-> q.size,
              data |-> q.data]
      /\ q.cont \in BOOLEAN /\ q.length \in Nat
      /\ (~q.cont => q.ctrl \in Controls)
      /\ BytesOf(q.data, m, w) /\ Len(q.data) = (IF size < HeaderOf(q) THEN 0 ELSE size - HeaderOf(q))
  BY DEF Carries
<1>2. PICK s, t : s = q.data /\ t = SubSeq(s, 1, keep)
  OBVIOUS
<1>3. p = [cont |-> q.cont, ctrl |-> q.ctrl, cid |-> q.cid, length |-> q.length, size |-> n,
           data |-> t]
  BY <1>0, <1>1, <1>2 DEF CutTo
<1>4. /\ p.cont = q.cont /\ p.ctrl = q.ctrl /\ p.cid = q.cid /\ p.length = q.length /\ p.size = n
      /\ p.data = t
  BY <1>3
<1>5. HeaderOf(p) = HeaderOf(q) /\ HeaderOf(q) \in Nat
  BY <1>4 DEF HeaderOf, CONT_HEADER, INIT_HEADER
<1>6. keep \in Nat /\ keep <= Len(s) /\ IsSeq(s)
  BY <1>0, <1>1, <1>2, <1>5 DEF BytesOf, KeepOf
<1>7. IsSeq(t) /\ Len(t) = keep /\ \A i \in 1 .. keep : t[i] = s[i]
  BY <1>2, <1>6, PrefixIs
<1>8. \A i \in 1 .. keep : i \in 1 .. Len(s)
  BY <1>6, IsSeqFacts
<1>9. BytesOf(t, m, w)
  BY <1>1, <1>2, <1>7, <1>8 DEF BytesOf
<1>10. HasEnd(t, w) => HasEnd(s, w)
  BY <1>7, <1>8 DEF HasEnd
<1>11. Carries(p, m, w, n)
  <2>1. p = [cont |-> p.cont, ctrl |-> p.ctrl, cid |-> p.cid, length |-> p.length, size |-> p.size,
             data |-> p.data]
    BY <1>3, <1>4
  <2>2. p.cont \in BOOLEAN /\ (~p.cont => p.ctrl \in Controls)
    BY <1>1, <1>4, Zenon
  <2>3. Len(p.data) = IF n < HeaderOf(p) THEN 0 ELSE n - HeaderOf(p)
    BY <1>0, <1>4, <1>5, <1>7 DEF KeepOf
  <2>4. p.length \in Nat /\ p.size = n /\ BytesOf(p.data, m, w)
    BY <1>1, <1>4, <1>9
  <2> QED
    BY <2>1, <2>2, <2>3, <2>4 DEF Carries
<1> QED
  BY <1>0, <1>2, <1>4, <1>10, <1>11

\* Lose takes a report away.
LEMMA LoseInv == ASSUME Inv, NEW c \in Cids, Lose(c) PROVE Inv'
<1>1. /\ outbox[c] # <<>> /\ Next1(c) /\ UNCHANGED <<packet_size, written>>
      /\ UNCHANGED <<reasmVars, delivered, error>>
  BY DEF Lose
<1>2. /\ outbox' = [d \in Cids |-> outbox'[d]] /\ Outboxes'
      /\ (\A d \in Cids : d # c => outbox'[d] = outbox[d])
      /\ (outbox'[c] # <<>> => outbox'[c][1].m = outbox[c][1].m)
  BY <1>1, Popped
<1>3. Deliveries'
  BY <1>1, <1>2, NoneReturned
<1> QED
  BY <1>1, <1>2, <1>3 DEF Inv, Reassembling, reasmVars

\* The device's next report arrives as p, which is all of it or its beginning.
LEMMA Arrives ==
    ASSUME Inv, NEW c \in Cids, outbox[c] # <<>>, Next1(c), UNCHANGED <<packet_size, written>>,
           NEW p, NEW n \in Nat,
           Carries(p, outbox[c][1].m, written[outbox[c][1].m], n),
           HasEnd(p.data, written[outbox[c][1].m])
                => HasEnd(outbox[c][1].p.data, written[outbox[c][1].m]),
           push_packet(p)
    PROVE  Inv'
<1>1. /\ outbox' = [d \in Cids |-> outbox'[d]] /\ Outboxes'
      /\ (\A d \in Cids : d # c => outbox'[d] = outbox[d])
      /\ (outbox'[c] # <<>> => outbox'[c][1].m = outbox[c][1].m)
      /\ (HasEnd(outbox[c][1].p.data, written[outbox[c][1].m]) => outbox'[c] = <<>>)
  BY Popped
<1>2. PICK m, w : m = outbox[c][1].m /\ w = written[m]
  OBVIOUS
<1>3. Carries(p, m, w, n) /\ Reassembling
  BY <1>2 DEF Inv
<1>4. Reassembling' /\ (delivered' = delivered \/ (Returned(w) /\ HasEnd(p.data, w)))
  BY <1>3, Pushing
<1>5. CASE delivered' = delivered
  <2>1. Deliveries'
    BY <1>1, <1>5, NoneReturned
  <2> QED
    BY <1>1, <1>4, <2>1 DEF Inv
<1>6. CASE Returned(w) /\ HasEnd(p.data, w)
  <2>1. outbox'[c] = <<>>
    BY <1>1, <1>2, <1>6
  <2>2. PICK e : e = [ctrl |-> w.ctrl, payload |-> w.payload]
    OBVIOUS
  <2>3. PICK o, o2, out, wr, size : /\ o = outbox /\ o2 = outbox' /\ out = delivered /\ wr = written
                                    /\ size = packet_size
    OBVIOUS
  <2>4. PICK f : Numbers(f, out, wr, o)
    BY <2>3 DEF Inv, Deliveries
  <2>5. \A d \in Cids : Unsent(o[d], d, wr, size)
    BY <2>3 DEF Inv, Outboxes
  <2>6. /\ o[c] # <<>> /\ (\A d \in Cids : d # c => o2[d] = o[d]) /\ o2[c] = <<>>
        /\ e = [ctrl |-> wr[o[c][1].m].ctrl, payload |-> wr[o[c][1].m].payload]
    BY <1>1, <1>2, <2>1, <2>2, <2>3
  <2>7. \E g \in [1 .. Len(Append(out, e)) -> 1 .. Len(wr)] : Numbers(g, Append(out, e), wr, o2)
    BY <2>4, <2>5, <2>6, NumbersReturned
  <2>8. delivered' = Append(out, e)
    BY <1>6, <2>2, <2>3 DEF Returned
  <2>9. Deliveries'
    BY <2>3, <2>7, <2>8 DEF Deliveries
  <2> QED
    BY <1>1, <1>4, <2>9 DEF Inv
<1> QED
  BY <1>4, <1>5, <1>6

\* Read hands it over whole.
LEMMA ReadInv == ASSUME Inv, NEW c \in Cids, Read(c) PROVE Inv'
<1>1. /\ outbox[c] # <<>> /\ push_packet(Head(outbox[c]).p) /\ Next1(c)
      /\ UNCHANGED <<packet_size, written>>
  BY DEF Read
<1>2. PICK p, n : p = Head(outbox[c]).p /\ n = packet_size
  OBVIOUS
<1>3. Head(outbox[c]) = outbox[c][1] /\ Carries(outbox[c][1].p, outbox[c][1].m, written[outbox[c][1].m], n)
  BY <1>1, <1>2, Heads
<1>4. n \in Nat
  BY <1>2, ReassemblyAssumption DEF Inv
<1>5. p = outbox[c][1].p /\ push_packet(p)
  BY <1>1, <1>2, <1>3
<1> QED
  BY <1>1, <1>3, <1>4, <1>5, Arrives

\* ReadCut hands over its beginning, or nothing.
LEMMA ReadCutInv ==
    ASSUME Inv, NEW c \in Cids, NEW n \in 0 .. packet_size - 1, ReadCut(c, n)
    PROVE  Inv'
<1>1. PICK q, m, w, size : /\ q = outbox[c][1].p /\ m = outbox[c][1].m /\ w = written[m]
                           /\ size = packet_size
  OBVIOUS
<1>2. outbox[c] # <<>> /\ Next1(c) /\ UNCHANGED <<packet_size, written>>
  BY DEF ReadCut
<1>3. Head(outbox[c]) = outbox[c][1] /\ Carries(q, m, w, size)
  BY <1>1, <1>2, Heads
<1>4. size \in Nat /\ n \in Nat /\ n < size
  BY <1>1, ReassemblyAssumption DEF Inv
<1>6. IF n = 0 THEN UNCHANGED <<reasmVars, delivered, error>> ELSE push_packet(CutTo(q, n))
  BY <1>1, <1>3 DEF ReadCut, CutTo, KeepOf
<1>7. CASE n = 0
  <2>1. UNCHANGED <<reasmVars, delivered, error>>
    BY <1>6, <1>7
  <2>2. /\ outbox' = [d \in Cids |-> outbox'[d]] /\ Outboxes'
        /\ (\A d \in Cids : d # c => outbox'[d] = outbox[d])
        /\ (outbox'[c] # <<>> => outbox'[c][1].m = outbox[c][1].m)
    BY <1>2, Popped
  <2>3. Deliveries'
    BY <1>2, <2>1, <2>2, NoneReturned
  <2> QED
    BY <1>2, <2>1, <2>2, <2>3 DEF Inv, Reassembling, reasmVars
<1>8. CASE n # 0
  <2>1. PICK p : p = CutTo(q, n)
    OBVIOUS
  <2>2. push_packet(p)
    BY <1>6, <1>8, <2>1
  <2>3. Carries(p, m, w, n) /\ (HasEnd(p.data, w) => HasEnd(q.data, w))
    BY <1>3, <1>4, <2>1, Shortened
  <2>4. /\ Carries(p, outbox[c][1].m, written[outbox[c][1].m], n)
        /\ (HasEnd(p.data, written[outbox[c][1].m])
              => HasEnd(outbox[c][1].p.data, written[outbox[c][1].m]))
    BY <1>1, <2>3
  <2> QED
    BY <1>2, <1>4, <2>2, <2>4, Arrives
<1> QED
  BY <1>7, <1>8

\* Every step keeps the invariant.
LEMMA NextInv == Inv /\ [Next]_vars => Inv'
<1> SUFFICES ASSUME Inv, [Next]_vars PROVE Inv'
  OBVIOUS
<1>1. ASSUME NEW c \in Cids, NEW k \in Controls, NEW n \in Lengths, Write(c, k, n) PROVE Inv'
  BY <1>1, WriteInv
<1>2. ASSUME NEW c \in Cids, Read(c) PROVE Inv'
  BY <1>2, ReadInv
<1>3. ASSUME NEW c \in Cids, Lose(c) PROVE Inv'
  BY <1>3, LoseInv
<1>4. ASSUME NEW c \in Cids, NEW n \in 0 .. packet_size - 1, ReadCut(c, n) PROVE Inv'
  BY <1>4, ReadCutInv
<1>5. CASE UNCHANGED vars
  BY <1>5 DEF vars, reasmVars, Inv, Outboxes, Deliveries, Reassembling
<1> QED
  BY <1>1, <1>2, <1>3, <1>4, <1>5 DEF Next

\* The invariant holds of the specification.
LEMMA Invariance == Spec => []Inv
  BY InitInv, NextInv, PTL DEF Spec

\* For any report sizes, channels, control bytes and payload lengths, and any
\* number of messages and damaged reports, the reassembly keeps its types, and
\* one in progress holds fewer bytes than it expects: remaining in push_packet
\* never underflows.
THEOREM TypeCorrect == Spec => []TypeOK
<1>1. Inv => TypeOK
  BY DEF Inv, Reassembling, TypeOK
<1> QED
  BY <1>1, Invariance, PTL

\* For all of them, whatever is lost, truncated or interleaved, read_framed
\* returns only messages that were written, each at most once and those of a
\* channel in order.
THEOREM IntegrityHolds == Spec => []Integrity
<1>1. Inv => Integrity
  BY DEF Inv, Deliveries, Numbers, Integrity, MessageOf
<1> QED
  BY <1>1, Invariance, PTL
=============================================================================
