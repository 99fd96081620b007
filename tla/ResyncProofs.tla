---------------------------- MODULE ResyncProofs ----------------------------
(***************************************************************************)
(* Theorems about Reassembly when all messages are on one channel: what    *)
(* losses and truncations can do, for any report size and number of        *)
(* messages.                                                               *)
(*                                                                         *)
(* The argument: while no report of a message is hurt, what buf holds is   *)
(* exactly the part of the message its reports so far have room for, so    *)
(* the last of them completes it and the CRC matches.  An initiation       *)
(* packet gets there from any state.  After a single loss the rest of the  *)
(* message is dropped, or is one report too short to complete it.          *)
(***************************************************************************)
EXTENDS ReassemblyProofs, FiniteSetTheorems

----------------------------------------------------------------------------
(* The reports of a message.                                               *)

\* All the bytes of message w, and how many they are.
DataOf(w) == w.payload \o crc32_ieee(Input(w))
LengthOf(w) == Len(w.payload) + CRC_LEN

\* The bytes its first j reports of n bytes have room for, the number of its
\* reports, and the j-th of them.
At(n, j) == IF j = 0 THEN 0 ELSE n - INIT_HEADER + (j - 1) * (n - CONT_HEADER)
Conts(w, n) ==
    IF LengthOf(w) <= n - INIT_HEADER THEN 0
    ELSE (LengthOf(w) - (n - INIT_HEADER) + (n - CONT_HEADER) - 1) \div (n - CONT_HEADER)
Count(w, n) == 1 + Conts(w, n)
Nth(w, n, j) ==
    IF j = 1
    THEN [cont |-> FALSE, ctrl |-> w.ctrl, cid |-> w.cid, length |-> LengthOf(w), size |-> n,
          data |-> ChunkOf(DataOf(w), 0, n - INIT_HEADER)]
    ELSE [cont |-> TRUE, ctrl |-> 128, cid |-> w.cid, length |-> 0, size |-> n,
          data |-> ChunkOf(DataOf(w), At(n, j - 1), n - CONT_HEADER)]

----------------------------------------------------------------------------
(* The inductive invariant.                                                *)

\* What the device writes.
IsMessage(w) == w.ctrl \in Controls /\ IsSeq(w.payload)

\* out is what is left of the reports of its message, and how many are gone.
Gone(out, w, n) == Count(w[out[1].m], n) - Len(out)
Rest(out, w, n) ==
    out # <<>> =>
        /\ Gone(out, w, n) \in Nat
        /\ \A i \in 1 .. Len(out) : out[i].p = Nth(w[out[1].m], n, Gone(out, w, n) + i)

\* Messages, reports and damage, on any number of channels.
Writings ==
    /\ lost \in Nat /\ cut \in Nat /\ hurt \subseteq 1 .. Len(written)
    /\ \A l \in 1 .. Len(written) : IsMessage(written[l])
    /\ \A c \in Cids : Rest(outbox[c], written, packet_size)
    /\ \A c \in Cids : outbox[c] # <<>> /\ Gone(outbox[c], written, packet_size) = 0
                          => outbox[c][1].m \notin hurt

\* j reports of w have been read, all of them whole.
Exact(w, n, j) ==
    /\ active /\ ctrl = w.ctrl /\ control_byte = w.ctrl /\ cid = w.cid
    /\ expected_len = LengthOf(w) /\ buf = SubSeq(DataOf(w), 1, At(n, j))

\* While no report of a message is hurt the reassembly is in step with it.
InStep ==
    error = "none" =>
        \A c \in Cids :
            outbox[c] # <<>> /\ outbox[c][1].m \notin hurt /\ Gone(outbox[c], written, packet_size) > 0
                => Exact(written[outbox[c][1].m], packet_size, Gone(outbox[c], written, packet_size))

\* Message l has been returned, or some of its reports are still to come.
Delivered(l) == \E i \in 1 .. Len(delivered) : delivered[i] = MessageOf(l)
Pending(l) == \E c \in Cids : outbox[c] # <<>> /\ outbox[c][1].m = l

\* No message is forgotten that was not hurt.
Resynced ==
    error = "none" => \A l \in 1 .. Len(written) : l \in hurt \/ Pending(l) \/ Delivered(l)

\* After one loss the rest of the message is dropped, or does not complete it.
Silence ==
    cut = 0 /\ lost <= 1 =>
        /\ error \notin {"crc", "short"}
        /\ error = "none" =>
            /\ lost = 0 => hurt = {}
            /\ lost = 0 /\ (\A c \in Cids : outbox[c] # <<>> => Gone(outbox[c], written, packet_size) = 0)
                => ~active
            /\ \A c \in Cids : outbox[c] # <<>> /\ outbox[c][1].m \in hurt =>
                ~active \/ Len(buf) + Len(outbox[c]) * (packet_size - CONT_HEADER) < expected_len

\* All messages are on one channel.
Same(w) == \A l, k \in 1 .. Len(w) : w[l].cid = w[k].cid

RInv == Inv /\ Writings /\ (Same(written) => InStep /\ Resynced /\ Silence)

----------------------------------------------------------------------------
(* Where the reports of a message begin and end.                           *)

\* Sequences are equal when their elements are.
LEMMA SameSeq ==
    ASSUME NEW a, NEW b, IsSeq(a), IsSeq(b), Len(a) = Len(b), \A i \in 1 .. Len(a) : a[i] = b[i]
    PROVE  a = b
<1>1. a = [i \in 1 .. Len(a) |-> a[i]] /\ b = [i \in 1 .. Len(b) |-> b[i]]
  BY IsSeqFacts
<1> QED
  BY <1>1

\* The bytes of a message.
LEMMA Bytes ==
    ASSUME NEW w, IsSeq(w.payload)
    PROVE  /\ LengthOf(w) \in Nat /\ LengthOf(w) >= CRC_LEN
           /\ IsSeq(DataOf(w)) /\ Len(DataOf(w)) = LengthOf(w)
           /\ SubSeq(DataOf(w), 1, LengthOf(w) - CRC_LEN) = w.payload
           /\ SubSeq(DataOf(w), LengthOf(w) - CRC_LEN + 1, LengthOf(w)) = crc32_ieee(Input(w))
<1>1. PICK a, b : a = w.payload /\ b = crc32_ieee(Input(w))
  OBVIOUS
<1>2. IsSeq(a) /\ Len(a) \in Nat
  BY <1>1, IsSeqFacts
<1>3. IsSeq(b) /\ Len(b) = CRC_LEN
  <2>1. PICK x : x = Input(w)
    OBVIOUS
  <2>2. b = [i \in 1 .. 4 |-> <<"crc", i, x>>]
    BY <1>1, <2>1 DEF crc32_ieee, CRC_LEN
  <2>3. b = [i \in 1 .. 4 |-> b[i]]
    BY <2>2
  <2> QED
    BY <2>3, FunctionIsSeq DEF CRC_LEN
<1>4. PICK s : s = DataOf(w)
  OBVIOUS
<1>5. s = a \o b
  BY <1>1, <1>4 DEF DataOf
<1>6. /\ IsSeq(s) /\ Len(s) = Len(a) + Len(b)
      /\ \A i \in 1 .. Len(a) : s[i] = a[i]
      /\ \A i \in Len(a) + 1 .. Len(a) + Len(b) : s[i] = b[i - Len(a)]
  BY <1>2, <1>3, <1>5, ConcatIs
<1>7. PICK n \in Nat : n = Len(a)
  BY <1>2
<1>8. LengthOf(w) = n + 4 /\ Len(s) = n + 4 /\ Len(b) = 4 /\ CRC_LEN = 4
  BY <1>1, <1>3, <1>6, <1>7 DEF LengthOf, CRC_LEN
<1>9. SubSeq(s, 1, n) = a
  <2>1. PICK u : u = SubSeq(s, 1, n)
    OBVIOUS
  <2>2. IsSeq(u) /\ Len(u) = n /\ \A i \in 1 .. n : u[i] = s[i]
    BY <1>6, <1>8, <2>1, PrefixIs
  <2>3. \A i \in 1 .. n : u[i] = a[i]
    BY <1>6, <1>7, <2>2
  <2> QED
    BY <1>2, <1>7, <2>1, <2>2, <2>3, SameSeq
<1>10. SubSeq(s, n + 1, n + 4) = b
  <2>0. PICK f \in Nat \ {0}, t \in Nat : f = n + 1 /\ t = n + 4
    OBVIOUS
  <2>1. PICK u : f = n + 1 /\ t = n + 4 /\ u = SubSeq(s, f, t)
    BY <2>0
  <2>2. IsSeq(u) /\ Len(u) = t - f + 1 /\ \A i \in 1 .. t - f + 1 : u[i] = s[f + i - 1]
    BY <1>6, <1>8, <2>1, SubSeqIs
  <2>3. t - f + 1 = 4
    BY <2>1
  <2>4. ASSUME NEW i \in 1 .. 4 PROVE u[i] = b[i]
    <3>1. u[i] = s[n + i]
      BY <2>1, <2>2
    <3>2. n + i \in Len(a) + 1 .. Len(a) + Len(b) /\ (n + i) - Len(a) = i
      BY <1>7, <1>8
    <3> QED
      BY <1>6, <3>1, <3>2
  <2>5. IsSeq(b) /\ Len(u) = Len(b) /\ \A i \in 1 .. Len(u) : u[i] = b[i]
    BY <1>3, <1>8, <2>2, <2>3, <2>4
  <2>6. u = b
    BY <2>2, <2>5, SameSeq
  <2> QED
    BY <2>1, <2>6
<1>11. /\ LengthOf(w) \in Nat /\ LengthOf(w) >= CRC_LEN /\ LengthOf(w) - CRC_LEN = n
       /\ LengthOf(w) - CRC_LEN + 1 = n + 1
  BY <1>8
<1> QED
  BY <1>1, <1>4, <1>6, <1>8, <1>9, <1>10, <1>11

\* Every report but the last ends before the message does.
LEMMA Places ==
    ASSUME NEW n \in Nat, n > INIT_HEADER, NEW w, IsSeq(w.payload)
    PROVE  /\ Conts(w, n) \in Nat /\ LengthOf(w) <= At(n, Count(w, n))
           /\ \A j \in 1 .. Conts(w, n) : At(n, j) < LengthOf(w)
<1>1. PICK first \in Nat \ {0}, room \in Nat \ {0} : first = n - INIT_HEADER /\ room = n - CONT_HEADER
  BY DEF INIT_HEADER, CONT_HEADER
<1>2. PICK length \in Nat : length = LengthOf(w)
  BY Bytes
<1>3. PICK conts : conts = Conts(w, n)
  OBVIOUS
<1>4. conts = IF length <= first THEN 0 ELSE (length - first + room - 1) \div room
  BY <1>1, <1>2, <1>3 DEF Conts
<1>5. \A j : At(n, j) = IF j = 0 THEN 0 ELSE first + (j - 1) * room
  BY <1>1 DEF At
<1>6. CASE length <= first
  <2>1. conts = 0 /\ Count(w, n) = 1 /\ At(n, 1) = first
    BY <1>1, <1>3, <1>4, <1>5, <1>6 DEF Count
  <2> QED
    BY <2>1, <1>2, <1>3, <1>6
<1>7. CASE ~(length <= first)
  <2>1. PICK x \in Nat \ {0} : x = length - first
    BY <1>7
  <2>2. conts = (x + room - 1) \div room
    BY <1>4, <1>7, <2>1
  <2>3. conts \in Int /\ x + room - 1 < room * conts + room
    BY <2>2
  <2>4. conts > 0
    <3>1. ASSUME conts <= 0 PROVE room * conts <= 0
      BY <2>3, <3>1
    <3> QED
      BY <2>1, <2>3, <3>1
  <2>5. LengthOf(w) <= At(n, Count(w, n))
    <3>1. PICK j \in Nat : j = Count(w, n) /\ j # 0 /\ j - 1 = conts
      BY <1>3, <2>3, <2>4 DEF Count
    <3>2. At(n, j) = first + conts * room
      BY <1>5, <3>1
    <3>3. x <= room * conts /\ room * conts = conts * room
      BY <2>3
    <3>4. conts * room \in Int
      BY <2>3
    <3> QED
      BY <1>2, <2>1, <3>1, <3>2, <3>3, <3>4
  <2>6. ASSUME NEW j \in 1 .. conts PROVE At(n, j) < LengthOf(w)
    <3>1. (j - 1) * room < x
      BY <2>2, Rooms
    <3>2. j # 0 /\ j \in Int
      BY <2>3
    <3>3. At(n, j) = first + (j - 1) * room /\ (j - 1) * room \in Int
      BY <1>5, <3>2
    <3> QED
      BY <1>2, <2>1, <3>1, <3>3
  <2> QED
    BY <1>3, <2>3, <2>4, <2>5, <2>6
<1> QED
  BY <1>6, <1>7

\* From one report to the next.
LEMMA Advance ==
    ASSUME NEW n \in Nat, n > INIT_HEADER, NEW j \in Nat \ {0}
    PROVE  /\ At(n, 1) = n - INIT_HEADER /\ At(n, j) \in Nat \ {0}
           /\ At(n, j + 1) = At(n, j) + (n - CONT_HEADER)
<1>1. PICK first \in Nat \ {0}, room \in Nat \ {0} : first = n - INIT_HEADER /\ room = n - CONT_HEADER
  BY DEF INIT_HEADER, CONT_HEADER
<1>2. \A i : At(n, i) = IF i = 0 THEN 0 ELSE first + (i - 1) * room
  BY <1>1 DEF At
<1>3. PICK k \in Nat : k = j - 1
  OBVIOUS
<1>4. At(n, j) = first + k * room /\ At(n, j + 1) = first + (k + 1) * room /\ At(n, 1) = first
  <2>1. j # 0 /\ j + 1 # 0 /\ (j + 1) - 1 = k + 1 /\ (1 - 1) * room = 0 /\ 1 # 0
    BY <1>3
  <2> QED
    BY <1>2, <1>3, <2>1
<1>5. k * room \in Nat /\ (k + 1) * room = k * room + room
  OBVIOUS
<1> QED
  BY <1>1, <1>4, <1>5

\* segment makes these reports.
LEMMA Segmented ==
    ASSUME NEW n \in Nat, n > INIT_HEADER, NEW c, NEW k, NEW payload, IsSeq(payload),
           NEW w, w.ctrl = k, w.cid = c, w.payload = payload
    PROVE  LET packets == segment(n, c, k, payload) IN
           /\ IsSeq(packets) /\ Len(packets) = Count(w, n)
           /\ \A j \in 1 .. Count(w, n) : packets[j] = Nth(w, n, j)
<1>1. PICK packets : packets = segment(n, c, k, payload)
  OBVIOUS
<1> DEFINE length == Len(payload) + CRC_LEN
           data == payload \o crc32_ieee(CrcInput(k, c, length, payload))
           first == n - INIT_HEADER
           room == n - CONT_HEADER
           conts == IF length <= first THEN 0 ELSE (length - first + room - 1) \div room
           from(j) == first + (j - 1) * room
           head == [cont |-> FALSE, ctrl |-> k, cid |-> c, length |-> length, size |-> n,
                    data |-> Padded(SubSeq(data, 1, MinOf(first, length)), first)]
           next(j) == [cont |-> TRUE, ctrl |-> 128, cid |-> c, length |-> 0, size |-> n,
                       data |-> Padded(SubSeq(data, from(j) + 1, MinOf(from(j) + room, length)), room)]
           rest == [j \in 1 .. conts |-> next(j)]
<1>4. packets = <<head>> \o rest
  BY <1>1 DEF segment
<1>2. /\ first = n - INIT_HEADER /\ room = n - CONT_HEADER /\ length = LengthOf(w)
      /\ conts = Conts(w, n) /\ data = DataOf(w)
  BY DEF LengthOf, DataOf, Input, Conts
<1> HIDE DEF length, data, first, room, conts
<1>3. Len(data) = length /\ length \in Nat /\ conts \in Nat
  BY <1>2, Bytes, Places
<1>5. head = Nth(w, n, 1)
  <2>1. first \in Nat
    BY <1>2 DEF INIT_HEADER
  <2>2. ChunkOf(data, 0, first) = Padded(SubSeq(data, 1, MinOf(first, length)), first)
    BY <1>3, <2>1 DEF ChunkOf
  <2> QED
    BY <1>2, <2>2 DEF Nth
<1>6. ASSUME NEW j \in 1 .. conts PROVE rest[j] = Nth(w, n, j + 1)
  <2>1. rest[j] = next(j)
    OBVIOUS
  <2>2. j \in Nat /\ j # 0 /\ j + 1 # 1 /\ (j + 1) - 1 = j
    BY <1>3
  <2>3. At(n, j) = from(j)
    BY <1>2, <2>2 DEF At
  <2>4. Nth(w, n, j + 1) = [cont |-> TRUE, ctrl |-> 128, cid |-> c, length |-> 0, size |-> n,
                            data |-> ChunkOf(data, from(j), room)]
    BY <1>2, <2>2, <2>3 DEF Nth
  <2>5. ChunkOf(data, from(j), room)
          = Padded(SubSeq(data, from(j) + 1, MinOf(from(j) + room, length)), room)
    BY <1>3 DEF ChunkOf
  <2> QED
    BY <2>1, <2>4, <2>5
<1>7. PICK h, r : h = <<head>> /\ r = rest
  OBVIOUS
<1>8. IsSeq(h) /\ Len(h) = 1 /\ h[1] = head
  <2>1. h \in Seq({head})
    BY <1>7
  <2>2. Len(h) = 1 /\ h[1] = head
    BY <1>7
  <2> QED
    BY <2>1, <2>2, SeqIs
<1>9. IsSeq(r) /\ Len(r) = conts
  <2>1. r = [j \in 1 .. conts |-> r[j]]
    BY <1>7
  <2> QED
    BY <1>3, <2>1, FunctionIsSeq
<1> HIDE DEF head, rest
<1>10. /\ IsSeq(packets) /\ Len(packets) = 1 + conts
       /\ packets[1] = head /\ \A i \in 2 .. 1 + conts : packets[i] = r[i - 1]
  <2>1. /\ IsSeq(h \o r) /\ Len(h \o r) = Len(h) + Len(r)
        /\ \A i \in 1 .. Len(h) : (h \o r)[i] = h[i]
        /\ \A i \in Len(h) + 1 .. Len(h) + Len(r) : (h \o r)[i] = r[i - Len(h)]
    BY <1>8, <1>9, ConcatIs
  <2>2. packets = h \o r
    BY <1>4, <1>7
  <2> QED
    BY <2>1, <2>2, <1>3, <1>8, <1>9, SMTT(30)
<1>11. Count(w, n) = 1 + conts
  BY <1>2 DEF Count
<1>12. ASSUME NEW j \in 1 .. Count(w, n) PROVE packets[j] = Nth(w, n, j)
  <2>1. CASE j = 1
    BY <2>1, <1>5, <1>10
  <2>2. CASE j # 1
    <3>1. PICK i \in 1 .. conts : i = j - 1
      BY <2>2, <1>3, <1>11
    <3>2. packets[j] = r[i] /\ j = i + 1
      BY <2>2, <3>1, <1>3, <1>10, <1>11
    <3> QED
      BY <3>2, <1>6, <1>7
  <2> QED
    BY <2>1, <2>2
<1> QED
  BY <1>1, <1>10, <1>11, <1>12

----------------------------------------------------------------------------
(* Reports read whole.                                                     *)

\* The first t bytes of a report are t bytes of the message.
LEMMA ChunkBegins ==
    ASSUME NEW s, IsSeq(s), NEW a \in Nat, NEW r \in Nat, NEW t \in Nat, t <= r, a + t <= Len(s)
    PROVE  LET u == SubSeq(ChunkOf(s, a, r), 1, t) IN
           IsSeq(u) /\ Len(u) = t /\ \A i \in 1 .. t : u[i] = s[a + i]
<1>1. Len(s) \in Nat
  BY IsSeqFacts
<1>2. PICK b \in Nat : b = MinOf(a + r, Len(s))
  BY <1>1 DEF MinOf
<1>3. a + t <= b /\ b <= Len(s) /\ b <= a + r
  BY <1>1, <1>2 DEF MinOf
<1>4. PICK f \in Nat \ {0} : f = a + 1
  OBVIOUS
<1>5. PICK v : v = SubSeq(s, f, b)
  OBVIOUS
<1>6. IsSeq(v) /\ Len(v) = b - a /\ \A i \in 1 .. b - a : v[i] = s[a + i]
  <2>1. f <= b + 1
    BY <1>3, <1>4
  <2>2. IsSeq(v) /\ Len(v) = b - f + 1 /\ \A i \in 1 .. b - f + 1 : v[i] = s[f + i - 1]
    BY <1>3, <1>5, <2>1, SubSeqIs
  <2> QED
    BY <1>3, <1>4, <2>2
<1>7. PICK pad : pad = [i \in 1 .. r - (b - a) |-> PAD]
  OBVIOUS
<1>8. IsSeq(pad)
  <2>1. r - (b - a) \in Nat /\ pad = [i \in 1 .. r - (b - a) |-> pad[i]]
    BY <1>3, <1>7
  <2> QED
    BY <2>1, FunctionIsSeq
<1>9. PICK x : x = ChunkOf(s, a, r)
  OBVIOUS
<1>10. x = v \o pad
  BY <1>2, <1>4, <1>5, <1>6, <1>7, <1>9 DEF ChunkOf, Padded
<1>11. IsSeq(x) /\ Len(x) = Len(v) + Len(pad) /\ \A i \in 1 .. Len(v) : x[i] = v[i]
  BY <1>6, <1>8, <1>10, ConcatIs, SMTT(30)
<1>12. t <= Len(x)
  <2>1. Len(pad) \in Nat /\ Len(x) = (b - a) + Len(pad) /\ a + t <= b
    BY <1>3, <1>6, <1>8, <1>11, IsSeqFacts
  <2> QED
    BY ONLY <2>1
<1>13. PICK u : u = SubSeq(x, 1, t)
  OBVIOUS
<1>14. IsSeq(u) /\ Len(u) = t /\ \A i \in 1 .. t : u[i] = x[i]
  BY <1>11, <1>12, <1>13, PrefixIs
<1>15. ASSUME NEW i \in 1 .. t PROVE u[i] = s[a + i]
  <2>1. i \in 1 .. b - a
    BY <1>3
  <2> QED
    BY <2>1, <1>6, <1>11, <1>14
<1> QED
  BY <1>9, <1>13, <1>14, <1>15

\* They are the beginning of the message, or go on from what is in buf.
LEMMA Starts ==
    ASSUME NEW s, IsSeq(s), NEW r \in Nat, NEW t \in Nat, t <= r, t <= Len(s)
    PROVE  SubSeq(ChunkOf(s, 0, r), 1, t) = SubSeq(s, 1, t)
<1>0. PICK zero \in Nat : zero = 0
  OBVIOUS
<1>1. PICK u, v : zero = 0 /\ u = SubSeq(ChunkOf(s, zero, r), 1, t) /\ v = SubSeq(s, 1, t)
  BY <1>0
<1>2. zero + t <= Len(s) /\ \A i \in 1 .. t : zero + i = i
  BY <1>1
<1>3. IsSeq(u) /\ Len(u) = t /\ \A i \in 1 .. t : u[i] = s[zero + i]
  BY <1>1, <1>2, ChunkBegins
<1>4. IsSeq(v) /\ Len(v) = t /\ \A i \in 1 .. t : v[i] = s[i]
  BY <1>1, PrefixIs
<1>5. \A i \in 1 .. t : u[i] = v[i]
  BY <1>2, <1>3, <1>4
<1>6. u = v
  BY <1>3, <1>4, <1>5, SameSeq
<1> QED
  BY <1>1, <1>6

\* The same bytes behind what came before them.
LEMMA Grows ==
    ASSUME NEW s, IsSeq(s), NEW a \in Nat, NEW r \in Nat, NEW t \in Nat, t <= r, a + t <= Len(s)
    PROVE  SubSeq(s, 1, a) \o SubSeq(ChunkOf(s, a, r), 1, t) = SubSeq(s, 1, a + t)
<1>1. PICK u, x, v : u = SubSeq(ChunkOf(s, a, r), 1, t) /\ x = SubSeq(s, 1, a) /\ v = SubSeq(s, 1, a + t)
  OBVIOUS
<1>2. IsSeq(u) /\ Len(u) = t /\ \A i \in 1 .. t : u[i] = s[a + i]
  BY <1>1, ChunkBegins
<1>3. IsSeq(x) /\ Len(x) = a /\ \A i \in 1 .. a : x[i] = s[i]
  <2>1. a <= Len(s)
    BY IsSeqFacts
  <2> QED
    BY <1>1, <2>1, PrefixIs
<1>4. IsSeq(v) /\ Len(v) = a + t /\ \A i \in 1 .. a + t : v[i] = s[i]
  <2>1. PICK b \in Nat : b = a + t
    OBVIOUS
  <2>2. IsSeq(SubSeq(s, 1, b)) /\ Len(SubSeq(s, 1, b)) = b /\ \A i \in 1 .. b : SubSeq(s, 1, b)[i] = s[i]
    BY <2>1, PrefixIs
  <2> QED
    BY <1>1, <2>1, <2>2
<1>5. PICK y : y = x \o u
  OBVIOUS
<1>6. /\ IsSeq(y) /\ Len(y) = a + t /\ (\A i \in 1 .. a : y[i] = x[i])
      /\ \A i \in a + 1 .. a + t : y[i] = u[i - a]
  <2>1. /\ IsSeq(y) /\ Len(y) = Len(x) + Len(u) /\ (\A i \in 1 .. Len(x) : y[i] = x[i])
        /\ \A i \in Len(x) + 1 .. Len(x) + Len(u) : y[i] = u[i - Len(x)]
    BY <1>2, <1>3, <1>5, ConcatIs
  <2> QED
    BY <2>1, <1>2, <1>3
<1>7. ASSUME NEW i \in 1 .. a + t PROVE y[i] = v[i]
  <2>1. CASE i \in 1 .. a
    BY <2>1, <1>3, <1>4, <1>6
  <2>2. CASE ~(i \in 1 .. a)
    <3>1. i \in a + 1 .. a + t /\ i - a \in 1 .. t /\ a + (i - a) = i
      BY <2>2
    <3> QED
      BY <3>1, <1>2, <1>4, <1>6
  <2> QED
    BY <2>1, <2>2
<1>8. y = v
  BY <1>4, <1>6, <1>7, SameSeq
<1> QED
  BY <1>1, <1>5, <1>8

\* What reading report j of message w whole comes to: the message is
\* complete and returned, a transport_error is reported, or it goes on.
Arrived(w, n, j) ==
    IF j = Count(w, n)
    THEN \/ error' = "device" /\ delivered' = delivered
         \/ error' = error /\ active' = FALSE /\ Returned(w)
    ELSE Exact(w, n, j)' /\ delivered' = delivered /\ error' = error

\* With the first j reports collected.
LEMMA Reaches ==
    ASSUME NEW n \in Nat, n > INIT_HEADER, NEW w, IsMessage(w), NEW j \in 1 .. Count(w, n),
           Collected(w.ctrl, w.ctrl, w.cid, LengthOf(w),
                     SubSeq(DataOf(w), 1, MinOf(At(n, j), LengthOf(w))))
    PROVE  Arrived(w, n, j)
<1>1. PICK length, s, t, k, c, data :
        /\ length = LengthOf(w) /\ s = DataOf(w) /\ t = MinOf(At(n, j), length)
        /\ k = w.ctrl /\ c = w.cid /\ data = SubSeq(s, 1, t)
  OBVIOUS
<1>2. Collected(k, k, c, length, data)
  BY <1>1
<1>3. /\ length \in Nat /\ length >= CRC_LEN /\ IsSeq(s) /\ Len(s) = length
      /\ SubSeq(s, 1, length - CRC_LEN) = w.payload
      /\ SubSeq(s, length - CRC_LEN + 1, length) = crc32_ieee(Input(w))
  BY <1>1, Bytes DEF IsMessage
<1>4. /\ Conts(w, n) \in Nat /\ length <= At(n, Count(w, n))
      /\ (\A i \in 1 .. Conts(w, n) : At(n, i) < length) /\ Count(w, n) = 1 + Conts(w, n)
  BY <1>1, Places DEF IsMessage, Count
<1>5. j \in Nat \ {0} /\ At(n, j) \in Nat
  BY <1>4, Advance
<1>6. t \in Nat /\ t <= length /\ IsSeq(data) /\ Len(data) = t
  <2>1. t \in Nat /\ t <= Len(s)
    BY <1>1, <1>3, <1>5 DEF MinOf
  <2> QED
    BY <1>1, <1>3, <2>1, PrefixIs
<1>7. CASE j = Count(w, n)
  <2>1. t = length
    BY <1>1, <1>3, <1>4, <1>5, <1>7 DEF MinOf
  <2>2. data = s
    <3>1. \A i \in 1 .. Len(data) : data[i] = s[i]
      BY <1>1, <1>3, <1>6, PrefixIs
    <3> QED
      BY <1>3, <1>6, <2>1, <3>1, SameSeq
  <2>3. finish(k, k, c, length, s)
    BY <1>2, <1>3, <1>6, <2>1, <2>2 DEF Collected
  <2>4. Input(w) = CrcInput(k, c, length, w.payload)
    BY <1>1 DEF Input, LengthOf
  <2>5. CASE k = TRANSPORT_ERROR
    <3>1. Fails("device")
      BY <1>3, <2>3, <2>4, <2>5 DEF finish
    <3> QED
      BY <3>1, <1>7 DEF Fails, Arrived
  <2>6. CASE k # TRANSPORT_ERROR
    <3>1. delivered' = Append(delivered, [ctrl |-> k, payload |-> w.payload]) /\ Fresh /\ error' = error
      BY <1>3, <2>3, <2>4, <2>6 DEF finish
    <3>2. active' = FALSE
      BY <3>1 DEF Fresh
    <3> QED
      BY <3>1, <3>2, <1>1, <1>7 DEF Arrived, Returned
  <2> QED
    BY <2>5, <2>6
<1>8. CASE j # Count(w, n)
  <2>1. At(n, j) < length
    BY <1>4, <1>8
  <2>2. t = At(n, j) /\ t < length
    BY <1>1, <1>3, <1>5, <2>1 DEF MinOf
  <2>3. ~(Len(data) >= length)
    BY <1>3, <1>6, <2>2
  <2>4. /\ ctrl' = k /\ active' = TRUE /\ control_byte' = k /\ cid' = c
        /\ expected_len' = length /\ buf' = data /\ UNCHANGED <<delivered, error>>
    BY <1>2, <2>3 DEF Collected
  <2>5. Exact(w, n, j)'
    BY <2>2, <2>4, <1>1 DEF Exact
  <2> QED
    BY <1>8, <2>4, <2>5 DEF Arrived
<1> QED
  BY <1>7, <1>8

\* An initiation packet begins a message, whatever was in progress.
LEMMA FirstRead ==
    ASSUME NEW n \in Nat, n > INIT_HEADER, NEW w, IsMessage(w), push_packet(Nth(w, n, 1))
    PROVE  Arrived(w, n, 1)
<1>1. PICK p, length, s : p = Nth(w, n, 1) /\ length = LengthOf(w) /\ s = DataOf(w)
  OBVIOUS
<1>2. PICK r \in Nat \ {0} : r = n - INIT_HEADER
  BY DEF INIT_HEADER
<1>3. p = [cont |-> FALSE, ctrl |-> w.ctrl, cid |-> w.cid, length |-> length, size |-> n,
           data |-> ChunkOf(s, 0, r)]
  BY <1>1, <1>2 DEF Nth
<1>4. /\ p.cont = FALSE /\ p.ctrl = w.ctrl /\ p.cid = w.cid /\ p.length = length /\ p.size = n
      /\ p.data = ChunkOf(s, 0, r)
  BY <1>3
<1>5. length \in Nat /\ length >= CRC_LEN /\ IsSeq(s) /\ Len(s) = length
  BY <1>1, Bytes DEF IsMessage
<1>6. push_initiation(p)
  BY <1>1, <1>4 DEF push_packet
<1>7. ~(p.size < INIT_HEADER \/ p.length < CRC_LEN)
  BY <1>4, <1>5 DEF INIT_HEADER, CRC_LEN
<1>8. PICK t : t = MinOf(length, r)
  OBVIOUS
<1>9. Collected(w.ctrl, w.ctrl, w.cid, length, SubSeq(ChunkOf(s, 0, r), 1, t))
  BY <1>2, <1>4, <1>6, <1>7, <1>8 DEF push_initiation
<1>10. t \in Nat /\ t <= r /\ t <= Len(s) /\ t = MinOf(r, length)
  BY <1>2, <1>5, <1>8 DEF MinOf
<1>11. SubSeq(ChunkOf(s, 0, r), 1, t) = SubSeq(s, 1, t)
  BY <1>5, <1>10, Starts
<1>12. At(n, 1) = r
  BY <1>2, Advance
<1>13. Collected(w.ctrl, w.ctrl, w.cid, LengthOf(w), SubSeq(DataOf(w), 1, MinOf(At(n, 1), LengthOf(w))))
  BY <1>1, <1>9, <1>10, <1>11, <1>12
<1>14. PICK j \in 1 .. Count(w, n) : j = 1
  BY Places DEF IsMessage, Count
<1> QED
  BY <1>13, <1>14, Reaches

\* The next continuation packet of the message in progress.
LEMMA NextRead ==
    ASSUME NEW n \in Nat, n > INIT_HEADER, NEW w, IsMessage(w), NEW j \in Nat \ {0}, j < Count(w, n),
           Exact(w, n, j), push_packet(Nth(w, n, j + 1))
    PROVE  Arrived(w, n, j + 1)
<1>1. PICK p, length, s, a : /\ p = Nth(w, n, j + 1) /\ length = LengthOf(w) /\ s = DataOf(w)
                             /\ a = At(n, j)
  OBVIOUS
<1>2. PICK r \in Nat \ {0} : r = n - CONT_HEADER
  BY DEF INIT_HEADER, CONT_HEADER
<1>3. p = [cont |-> TRUE, ctrl |-> 128, cid |-> w.cid, length |-> 0, size |-> n,
           data |-> ChunkOf(s, a, r)]
  <2>1. j + 1 # 1 /\ (j + 1) - 1 = j
    OBVIOUS
  <2> QED
    BY <1>1, <1>2, <2>1 DEF Nth
<1>4. p.cont = TRUE /\ p.size = n /\ p.data = ChunkOf(s, a, r)
  BY <1>3
<1>5. length \in Nat /\ length >= CRC_LEN /\ IsSeq(s) /\ Len(s) = length
  BY <1>1, Bytes DEF IsMessage
<1>6. a \in Nat /\ a < length /\ At(n, j + 1) = a + r /\ Conts(w, n) \in Nat /\ Count(w, n) = 1 + Conts(w, n)
  <2>1. Conts(w, n) \in Nat /\ Count(w, n) = 1 + Conts(w, n)
    BY Places DEF IsMessage, Count
  <2>2. j \in 1 .. Conts(w, n)
    BY <2>1
  <2>3. At(n, j) < LengthOf(w)
    BY <2>2, Places DEF IsMessage
  <2> QED
    BY <1>1, <1>2, <2>1, <2>3, Advance
<1>7. /\ active /\ ctrl = w.ctrl /\ control_byte = w.ctrl /\ cid = w.cid
      /\ expected_len = length /\ buf = SubSeq(s, 1, a)
  BY <1>1 DEF Exact
<1>8. Len(SubSeq(s, 1, a)) = a
  BY <1>5, <1>6, PrefixIs
<1>9. PICK t : t = MinOf(length - a, r)
  OBVIOUS
<1>10. Collected(w.ctrl, w.ctrl, w.cid, length, SubSeq(s, 1, a) \o SubSeq(ChunkOf(s, a, r), 1, t))
  <2>1. push_continuation(p)
    BY <1>1, <1>4 DEF push_packet
  <2>2. ~(p.size <= CONT_HEADER)
    BY <1>4 DEF INIT_HEADER, CONT_HEADER
  <2> QED
    BY <2>1, <2>2, <1>2, <1>4, <1>7, <1>8, <1>9 DEF push_continuation
<1>11. t \in Nat /\ t <= r /\ a + t <= Len(s) /\ a + t = MinOf(a + r, length)
  BY <1>2, <1>5, <1>6, <1>9, SMTT(30) DEF MinOf
<1>12. SubSeq(s, 1, a) \o SubSeq(ChunkOf(s, a, r), 1, t) = SubSeq(s, 1, a + t)
  <2>1. IsSeq(s) /\ a \in Nat /\ r \in Nat /\ t \in Nat /\ t <= r /\ a + t <= Len(s)
    BY <1>5, <1>6, <1>11
  <2> QED
    BY ONLY <2>1, Grows
<1>13. Collected(w.ctrl, w.ctrl, w.cid, LengthOf(w),
                 SubSeq(DataOf(w), 1, MinOf(At(n, j + 1), LengthOf(w))))
  BY <1>1, <1>6, <1>10, <1>11, <1>12
<1>14. PICK i \in 1 .. Count(w, n) : i = j + 1
  BY <1>6
<1> QED
  BY <1>13, <1>14, Reaches

\* A continuation packet when too many bytes are missing for it to be the last.
LEMMA ShortRead ==
    ASSUME NEW n \in Nat, n > INIT_HEADER, NEW p, p.cont, p.size = n, IsSeq(p.data),
           Len(p.data) = n - CONT_HEADER, Reassembling, active,
           Len(buf) + (n - CONT_HEADER) < expected_len, push_packet(p)
    PROVE  /\ active' /\ expected_len' = expected_len /\ Len(buf') = Len(buf) + (n - CONT_HEADER)
           /\ delivered' = delivered /\ error' = error
<1>1. PICK r \in Nat \ {0} : r = n - CONT_HEADER
  BY DEF INIT_HEADER, CONT_HEADER
<1>2. PICK a, length, s : a = buf /\ length = expected_len /\ s = p.data
  OBVIOUS
<1>3. IsSeq(a) /\ Len(a) \in Nat /\ length \in Nat /\ Len(a) + r < length
  BY <1>1, <1>2, IsSeqFacts DEF Reassembling
<1>4. MinOf(length - Len(a), r) = r
  BY <1>3 DEF MinOf
<1>5. PICK data : data = a \o SubSeq(s, 1, r)
  OBVIOUS
<1>6. Collected(ctrl, control_byte, cid, length, data)
  <2>1. push_continuation(p) /\ ~(p.size <= CONT_HEADER)
    BY DEF push_packet, INIT_HEADER, CONT_HEADER
  <2> QED
    BY <2>1, <1>1, <1>2, <1>4, <1>5 DEF push_continuation
<1>7. Len(data) = Len(a) + r
  <2>1. PICK u : u = SubSeq(s, 1, r)
    OBVIOUS
  <2>2. IsSeq(u) /\ Len(u) = r
    BY <1>1, <1>2, <2>1, PrefixIs
  <2>3. Len(a \o u) = Len(a) + Len(u)
    BY <1>3, <2>2, ConcatIs
  <2> QED
    BY <1>5, <2>1, <2>2, <2>3
<1>8. ~(Len(data) >= length)
  BY <1>3, <1>7
<1>9. /\ active' = TRUE /\ expected_len' = length /\ buf' = data
      /\ delivered' = delivered /\ error' = error
  BY <1>6, <1>8 DEF Collected
<1> QED
  BY <1>1, <1>2, <1>7, <1>9

\* One that nothing is in progress for is dropped.
LEMMA Dropped ==
    ASSUME NEW p, p.cont, ~active, push_packet(p)
    PROVE  UNCHANGED <<reasmVars, delivered, error>>
  BY DEF push_packet, push_continuation

----------------------------------------------------------------------------
(* The next report of a channel.                                           *)

\* Over several reports.
LEMMA Advances ==
    ASSUME NEW n \in Nat, n > INIT_HEADER, NEW j \in Nat \ {0}, NEW k \in Nat
    PROVE  At(n, j + k) = At(n, j) + k * (n - CONT_HEADER)
<1>1. PICK first \in Nat \ {0}, room \in Nat \ {0} : first = n - INIT_HEADER /\ room = n - CONT_HEADER
  BY DEF INIT_HEADER, CONT_HEADER
<1>2. At(n, j) = first + (j - 1) * room /\ At(n, j + k) = first + (j + k - 1) * room
  <2>1. j # 0 /\ j + k # 0
    OBVIOUS
  <2> QED
    BY <1>1, <2>1 DEF At
<1>3. (j + k - 1) * room = (j - 1) * room + k * room
  BY <1>1
<1>4. (j - 1) * room \in Int /\ k * room \in Int
  BY <1>1
<1> QED
  BY <1>1, <1>2, <1>3, <1>4

\* What is left when the first of the reports is gone.
LEMMA RestTail ==
    ASSUME NEW out, NEW c, NEW w, NEW n \in Nat, n > INIT_HEADER, out # <<>>,
           Unsent(out, c, w, n), Rest(out, w, n), IsSeq(w[out[1].m].payload)
    PROVE  /\ Rest(Tail(out), w, n)
           /\ (Tail(out) # <<>> => Gone(Tail(out), w, n) = Gone(out, w, n) + 1)
           /\ (Tail(out) = <<>> <=> Gone(out, w, n) + 1 = Count(w[out[1].m], n))
           /\ out[1].p = Nth(w[out[1].m], n, Gone(out, w, n) + 1)
           /\ Len(Tail(out)) = Len(out) - 1 /\ Len(out) \in Nat \ {0}
           /\ Count(w[out[1].m], n) \in Nat /\ Gone(out, w, n) \in Nat
<1>1. PICK t, m, g, k : /\ t = Tail(out) /\ m = out[1].m /\ g = Gone(out, w, n)
                        /\ k = Count(w[m], n)
  OBVIOUS
<1>2. IsSeq(out) /\ Len(out) \in Nat /\ Len(out) # 0
  BY IsSeqFacts DEF Unsent
<1>3. /\ IsSeq(t) /\ Len(t) = Len(out) - 1 /\ (\A i \in 1 .. Len(out) - 1 : t[i] = out[i + 1])
      /\ (t = <<>> <=> Len(t) = 0)
  BY <1>1, <1>2, TailIs, IsSeqFacts
<1>4. k \in Nat
  BY <1>1, Places DEF Count
<1>5. /\ g \in Nat /\ g = k - Len(out)
      /\ \A i \in 1 .. Len(out) : out[i].p = Nth(w[m], n, g + i)
  BY <1>1 DEF Rest, Gone
<1>6. t # <<>> => t[1].m = m
  BY <1>1, SendsFirst
<1>7. t # <<>> => Gone(t, w, n) = g + 1
  <2> SUFFICES ASSUME t # <<>> PROVE Gone(t, w, n) = g + 1
    OBVIOUS
  <2>1. Gone(t, w, n) = k - Len(t)
    BY <1>1, <1>6, Zenon DEF Gone
  <2>2. k - Len(t) = g + 1
    BY ONLY <1>2, <1>3, <1>4, <1>5
  <2> QED
    BY ONLY <2>1, <2>2
<1>8. Rest(t, w, n)
  <2> SUFFICES ASSUME t # <<>>
               PROVE  /\ Gone(t, w, n) \in Nat
                      /\ \A i \in 1 .. Len(t) : t[i].p = Nth(w[t[1].m], n, Gone(t, w, n) + i)
    BY DEF Rest
  <2>1. Gone(t, w, n) = g + 1 /\ t[1].m = m
    BY <1>6, <1>7
  <2>2. ASSUME NEW i \in 1 .. Len(t) PROVE t[i].p = Nth(w[m], n, (g + 1) + i)
    <3>1. PICK j \in 1 .. Len(out) : j = i + 1
      BY <1>2, <1>3
    <3>2. t[i] = out[j] /\ (g + 1) + i = g + j
      BY <1>2, <1>3, <1>5, <3>1
    <3> QED
      BY <1>5, <3>2
  <2> QED
    BY <1>5, <2>1, <2>2
<1>9. t = <<>> <=> g + 1 = k
  BY <1>2, <1>3, <1>4, <1>5
<1>10. out[1].p = Nth(w[m], n, g + 1)
  BY <1>2, <1>5
<1> QED
  BY <1>1, <1>2, <1>3, <1>4, <1>5, <1>7, <1>8, <1>9, <1>10

\* The state of a channel that has a report to send, in names: the report is
\* the one after g reports of message m, which is w.
AtFront(c, n, m, w, g) ==
    n = packet_size /\ m = outbox[c][1].m /\ w = written[m] /\ g = Gone(outbox[c], written, packet_size)

\* What is known of it.
Sends(c, n, m, w, g) ==
    /\ n \in Nat /\ n > INIT_HEADER /\ m \in 1 .. Len(written) /\ w.cid = c /\ IsMessage(w)
    /\ g \in Nat /\ Count(w, n) \in Nat /\ g < Count(w, n) /\ Len(outbox[c]) = Count(w, n) - g
    /\ Head(outbox[c]).p = Nth(w, n, g + 1) /\ outbox[c][1].p = Nth(w, n, g + 1)
    /\ Carries(Nth(w, n, g + 1), m, w, n)
    /\ (g = 0 => m \notin hurt)
    /\ Rest(Tail(outbox[c]), written, packet_size)
    /\ (Tail(outbox[c]) # <<>> => Gone(Tail(outbox[c]), written, packet_size) = g + 1)
    /\ (Tail(outbox[c]) = <<>> <=> g + 1 = Count(w, n))

LEMMA Front ==
    ASSUME Inv, Writings, NEW c \in Cids, outbox[c] # <<>>,
           NEW n, NEW m, NEW w, NEW g, AtFront(c, n, m, w, g)
    PROVE  Sends(c, n, m, w, g)
<1>0. n = packet_size /\ m = outbox[c][1].m /\ w = written[m] /\ g = Gone(outbox[c], written, packet_size)
  BY DEF AtFront
<1> USE <1>0
<1>1. PICK out, wr : out = outbox[c] /\ wr = written
  OBVIOUS
<1>2. Unsent(out, c, wr, n) /\ Rest(out, wr, n) /\ n \in PacketSizes
  BY <1>1 DEF Inv, Outboxes, Writings
<1>3. n \in Nat /\ n > INIT_HEADER
  BY <1>2, ReassemblyAssumption
<1>4. out[1].m \in 1 .. Len(wr) /\ wr[out[1].m].cid = c
  BY <1>1, <1>2 DEF Unsent
<1>5. IsMessage(wr[out[1].m])
  BY <1>1, <1>4 DEF Writings
<1>6. /\ Rest(Tail(out), wr, n)
      /\ (Tail(out) # <<>> => Gone(Tail(out), wr, n) = Gone(out, wr, n) + 1)
      /\ (Tail(out) = <<>> <=> Gone(out, wr, n) + 1 = Count(wr[out[1].m], n))
      /\ out[1].p = Nth(wr[out[1].m], n, Gone(out, wr, n) + 1)
      /\ Len(Tail(out)) = Len(out) - 1 /\ Len(out) \in Nat \ {0}
      /\ Count(wr[out[1].m], n) \in Nat /\ Gone(out, wr, n) \in Nat
  <2>1. IsSeq(wr[out[1].m].payload) /\ out # <<>>
    BY <1>1, <1>5 DEF IsMessage
  <2> QED
    BY ONLY <1>2, <1>3, <2>1, RestTail
<1>7. Gone(out, wr, n) = Count(wr[out[1].m], n) - Len(out)
  BY DEF Gone
<1>8. Head(outbox[c]) = out[1] /\ Carries(out[1].p, out[1].m, wr[out[1].m], n)
  BY <1>1, Heads
<1>9. out = outbox[c] /\ wr = written /\ w = wr[out[1].m] /\ m = out[1].m /\ g = Gone(out, wr, n)
  BY <1>1
<1>10. g \in Nat /\ Count(w, n) \in Nat /\ g < Count(w, n) /\ Len(out) = Count(w, n) - g
  <2>1. PICK k, l, q : k = Count(w, n) /\ l = Len(out) /\ q = Gone(out, wr, n)
    OBVIOUS
  <2>2. k \in Nat /\ q \in Nat /\ l \in Nat \ {0} /\ q = k - l /\ g = q
    BY ONLY <1>6, <1>7, <1>9, <2>1
  <2>3. q < k /\ l = k - q
    BY ONLY <2>2
  <2> QED
    BY ONLY <2>1, <2>2, <2>3
<1>11. g = 0 => m \notin hurt
  BY DEF Writings
<1> QED
  BY <1>3, <1>4, <1>5, <1>6, <1>8, <1>9, <1>10, <1>11 DEF Sends

\* With one channel only one outbox is in use.
LEMMA Alone ==
    ASSUME Inv, Same(written), NEW c \in Cids, outbox[c] # <<>>, NEW d \in Cids, outbox[d] # <<>>
    PROVE  c = d
<1>1. \A e \in Cids : outbox[e] # <<>> =>
        outbox[e][1].m \in 1 .. Len(written) /\ written[outbox[e][1].m].cid = e
  BY DEF Inv, Outboxes, Unsent
<1> QED
  BY <1>1 DEF Same

----------------------------------------------------------------------------
(* The actions.                                                            *)

\* A report leaves its channel and is read, or is hurt.
LEMMA PopWritings ==
    ASSUME Inv, Writings, NEW c \in Cids, outbox[c] # <<>>, Next1(c),
           UNCHANGED <<packet_size, written>>, lost' \in Nat, cut' \in Nat,
           hurt' \in {hurt, hurt \cup {outbox[c][1].m}}
    PROVE  Writings'
<1>1. PICK n, m : n = packet_size /\ m = outbox[c][1].m
  OBVIOUS
<1>2. PICK w, g : w = written[m] /\ g = Gone(outbox[c], written, packet_size)
  OBVIOUS
<1>3. /\ m \in 1 .. Len(written) /\ w.cid = c /\ g \in Nat
      /\ Rest(Tail(outbox[c]), written, packet_size)
      /\ (Tail(outbox[c]) # <<>> => Gone(Tail(outbox[c]), written, packet_size) = g + 1)
  <2>1. AtFront(c, n, m, w, g)
    BY ONLY <1>1, <1>2 DEF AtFront
  <2>2. Sends(c, n, m, w, g)
    BY <2>1, Front
  <2> QED
    BY ONLY <2>2 DEF Sends
<1>4. /\ outbox'[c] = Tail(outbox[c]) /\ \A d \in Cids : d # c => outbox'[d] = outbox[d]
  BY DEF Inv, Next1
<1>5. hurt' \subseteq 1 .. Len(written)
  BY <1>1, <1>3 DEF Writings
<1>6. ASSUME NEW d \in Cids PROVE Rest(outbox'[d], written, packet_size)
  BY <1>3, <1>4 DEF Writings
<1>7. ASSUME NEW d \in Cids, outbox'[d] # <<>>, Gone(outbox'[d], written, packet_size) = 0
      PROVE  outbox'[d][1].m \notin hurt'
  <2>1. d # c
    <3>1. ASSUME d = c PROVE FALSE
      <4>1. Gone(Tail(outbox[c]), written, packet_size) = g + 1
        BY <1>3, <1>4, <1>7, <3>1
      <4>2. Gone(Tail(outbox[c]), written, packet_size) = 0
        BY <1>4, <1>7, <3>1
      <4> QED
        BY <1>3, <4>1, <4>2
    <3> QED
      BY <3>1
  <2>2. outbox'[d] = outbox[d] /\ outbox[d][1].m \notin hurt
    BY <1>4, <1>7, <2>1 DEF Writings
  <2>3. written[outbox[d][1].m].cid = d
    BY <1>7, <2>2 DEF Inv, Outboxes, Unsent
  <2>4. outbox[d][1].m # outbox[c][1].m
    BY ONLY <1>1, <1>2, <1>3, <2>1, <2>3
  <2>5. hurt' \subseteq hurt \cup {outbox[c][1].m}
    OBVIOUS
  <2> QED
    BY ONLY <2>2, <2>4, <2>5
<1> QED
  BY <1>5, <1>6, <1>7 DEF Writings

\* What has been delivered stays delivered.
LEMMA StaysDelivered ==
    ASSUME Inv, NEW l, Delivered(l), NEW e, delivered' \in {delivered, Append(delivered, e)},
           MessageOf(l)' = MessageOf(l)
    PROVE  Delivered(l)'
<1>1. PICK i \in 1 .. Len(delivered) : delivered[i] = MessageOf(l)
  BY DEF Delivered
<1>2. IsSeq(delivered) /\ Len(delivered) \in Nat
  BY IsSeqFacts DEF Inv, Deliveries, Numbers
<1>3. i \in 1 .. Len(delivered') /\ delivered'[i] = delivered[i]
  <2>1. CASE delivered' = delivered
    BY <2>1
  <2>2. CASE delivered' = Append(delivered, e)
    BY <2>2, <1>2, AppendIs
  <2> QED
    BY <2>1, <2>2
<1> QED
  BY <1>1, <1>3 DEF Delivered

\* Messages other than the one whose report leaves its channel.
LEMMA OthersResynced ==
    ASSUME Inv, Same(written), error = "none", Resynced, NEW c \in Cids, outbox[c] # <<>>,
           written' = written, hurt \subseteq hurt', NEW e,
           delivered' \in {delivered, Append(delivered, e)},
           NEW l \in 1 .. Len(written), l # outbox[c][1].m
    PROVE  l \in hurt' \/ Delivered(l)'
<1>1. l \in hurt \/ Pending(l) \/ Delivered(l)
  BY DEF Resynced
<1>2. ~Pending(l)
  BY Alone DEF Pending
<1>3. MessageOf(l)' = MessageOf(l)
  BY DEF MessageOf
<1> QED
  <2>1. CASE Delivered(l)
    <3>1. /\ Inv /\ MessageOf(l)' = MessageOf(l) /\ delivered' \in {delivered, Append(delivered, e)}
          /\ Delivered(l)
      BY <1>3, <2>1
    <3> QED
      BY ONLY <3>1, StaysDelivered
  <2>2. CASE l \in hurt
    BY <2>2
  <2> QED
    BY ONLY <1>1, <1>2, <2>1, <2>2

\* A damaged report: its message is hurt, and no more is claimed of it.
LEMMA HurtResynced ==
    ASSUME Inv, Same(written), error = "none", Resynced, NEW c \in Cids, outbox[c] # <<>>, Next1(c),
           written' = written, packet_size' = packet_size,
           hurt \subseteq hurt', outbox[c][1].m \in hurt', NEW e,
           delivered' \in {delivered, Append(delivered, e)}
    PROVE  InStep' /\ Resynced'
<1>1. /\ (\A d \in Cids : d # c => outbox'[d] = outbox[d])
      /\ (outbox'[c] # <<>> => outbox'[c][1].m = outbox[c][1].m)
  BY Popped
<1>2. ASSUME NEW d \in Cids, outbox'[d] # <<>> PROVE outbox'[d][1].m \in hurt'
  <2>1. d = c
    BY <1>1, <1>2, Alone
  <2> QED
    BY <1>1, <1>2, <2>1
<1>3. InStep'
  BY <1>2 DEF InStep
<1>4. ASSUME NEW l \in 1 .. Len(written) PROVE l \in hurt' \/ Delivered(l)'
  BY OthersResynced
<1> QED
  BY <1>3, <1>4 DEF Resynced

\* A loss.
LEMMA LoseSame ==
    ASSUME RInv, Same(written), NEW c \in Cids, Lose(c)
    PROVE  InStep' /\ Resynced' /\ Silence'
<1>1. /\ error = "none" /\ outbox[c] # <<>> /\ lost' = lost + 1 /\ hurt' = hurt \cup {Head(outbox[c]).m}
      /\ Next1(c) /\ UNCHANGED <<packet_size, written, cut, reasmVars, delivered, error>>
  BY DEF Lose
<1>2. Inv /\ Writings /\ InStep /\ Resynced /\ Silence
  BY DEF RInv
<1>3. PICK n, m : n = packet_size /\ m = outbox[c][1].m
  OBVIOUS
<1>4. PICK w, g : w = written[m] /\ g = Gone(outbox[c], written, packet_size)
  OBVIOUS
<1>5. /\ n \in Nat /\ n > INIT_HEADER /\ w.cid = c /\ IsMessage(w)
      /\ g \in Nat /\ Count(w, n) \in Nat /\ g < Count(w, n) /\ Len(outbox[c]) = Count(w, n) - g
  <2>1. AtFront(c, n, m, w, g)
    BY ONLY <1>3, <1>4 DEF AtFront
  <2>2. Inv /\ Writings /\ outbox[c] # <<>> /\ c \in Cids
    BY <1>1, <1>2
  <2>3. Sends(c, n, m, w, g)
    BY ONLY <2>1, <2>2, Front
  <2> QED
    BY ONLY <2>3 DEF Sends
<1>6. hurt' = hurt \cup {m}
  BY <1>1, <1>2, <1>3, Heads
<1>7. InStep' /\ Resynced'
  BY <1>1, <1>2, <1>3, <1>6, HurtResynced
<1>8. ASSUME cut' = 0, lost' <= 1
      PROVE  /\ lost' # 0
             /\ \A d \in Cids : outbox'[d] # <<>> =>
                  ~active' \/ Len(buf') + Len(outbox'[d]) * (packet_size' - CONT_HEADER) < expected_len'
  <2>1. lost = 0 /\ cut = 0 /\ lost' # 0
    BY <1>1, <1>2, <1>8 DEF Writings
  <2>2. hurt = {}
    BY <1>1, <1>2, <2>1 DEF Silence
  <2>3. ASSUME NEW d \in Cids, outbox'[d] # <<>> PROVE d = c
    <3>1. d # c => outbox'[d] = outbox[d]
      BY <1>1, <1>2, Popped
    <3> QED
      BY <1>1, <1>2, <2>3, <3>1, Alone
  <2>4. CASE g = 0
    <3>1. \A d \in Cids : outbox[d] # <<>> => Gone(outbox[d], written, packet_size) = 0
      BY <1>1, <1>2, <1>4, <2>4, Alone
    <3>2. ~active
      BY <1>1, <1>2, <2>1, <3>1 DEF Silence
    <3> QED
      BY <1>1, <2>1, <3>2 DEF reasmVars
  <2>5. CASE g > 0
    <3>1. Exact(w, n, g)
      BY <1>1, <1>2, <1>3, <1>4, <2>2, <2>5 DEF InStep
    <3>2. PICK s, a, length : s = DataOf(w) /\ a = At(n, g) /\ length = LengthOf(w)
      OBVIOUS
    <3>3. Conts(w, n) \in Nat /\ Count(w, n) = 1 + Conts(w, n)
      BY <1>5, Places DEF IsMessage, Count
    <3>4. g \in 1 .. Conts(w, n)
      BY <1>5, <2>5, <3>3
    <3>5. a < length /\ a \in Nat /\ IsSeq(s) /\ Len(s) = length /\ length \in Nat
      <4>1. IsSeq(w.payload) /\ g \in Nat \ {0}
        BY <1>5, <2>5 DEF IsMessage
      <4> QED
        BY <1>5, <3>2, <3>4, <4>1, Places, Bytes, Advance
    <3>6. buf = SubSeq(s, 1, a) /\ expected_len = length
      BY <3>1, <3>2 DEF Exact
    <3>7. Len(SubSeq(s, 1, a)) = a
      BY <3>5, PrefixIs
    <3>8. PICK k \in Nat : k = Conts(w, n) - g
      BY <1>5, <3>3, <3>4
    <3>9. a + k * (n - CONT_HEADER) < length
      <4>1. At(n, g + k) = a + k * (n - CONT_HEADER)
        BY <1>5, <2>5, <3>2, Advances
      <4>2. g + k = Conts(w, n)
        BY <1>5, <3>3, <3>8
      <4>3. Conts(w, n) \in 1 .. Conts(w, n)
        BY <3>3, <3>4
      <4>4. At(n, Conts(w, n)) < LengthOf(w)
        BY <1>5, <4>3, Places DEF IsMessage
      <4> QED
        BY <3>2, <4>1, <4>2, <4>4
    <3>10. Len(outbox'[c]) = k
      <4>1. Len(Tail(outbox[c])) = Len(outbox[c]) - 1 /\ outbox'[c] = Tail(outbox[c])
        BY <1>1, <1>2, TailIs DEF Inv, Outboxes, Unsent, Next1
      <4> QED
        BY <1>5, <3>3, <3>8, <4>1
    <3>11. Len(buf') + Len(outbox'[c]) * (packet_size' - CONT_HEADER) < expected_len'
      BY <1>1, <1>3, <3>6, <3>7, <3>9, <3>10 DEF reasmVars
    <3> QED
      BY <2>1, <2>3, <3>11
  <2> QED
    BY <1>5, <2>4, <2>5
<1>9. error' \notin {"crc", "short"}
  BY <1>1
<1>10. Silence'
  BY <1>8, <1>9 DEF Silence
<1> QED
  BY <1>7, <1>10

\* A report read whole.
LEMMA ReadSame ==
    ASSUME RInv, Same(written), NEW c \in Cids, Read(c)
    PROVE  InStep' /\ Resynced' /\ Silence'
<1>1. /\ error = "none" /\ outbox[c] # <<>> /\ push_packet(Head(outbox[c]).p) /\ Next1(c)
      /\ UNCHANGED <<packet_size, written, lost, cut, hurt>>
  BY DEF Read
<1>2. Inv /\ Writings /\ InStep /\ Resynced /\ Silence
  BY DEF RInv
<1>3. PICK n, m : n = packet_size /\ m = outbox[c][1].m
  OBVIOUS
<1>4. PICK w, g : w = written[m] /\ g = Gone(outbox[c], written, packet_size)
  OBVIOUS
<1>5. /\ n \in Nat /\ n > INIT_HEADER /\ m \in 1 .. Len(written) /\ IsMessage(w)
      /\ g \in Nat /\ Count(w, n) \in Nat /\ g < Count(w, n) /\ Len(outbox[c]) = Count(w, n) - g
      /\ Head(outbox[c]).p = Nth(w, n, g + 1) /\ Carries(Nth(w, n, g + 1), m, w, n)
      /\ (g = 0 => m \notin hurt)
      /\ (Tail(outbox[c]) # <<>> => Gone(Tail(outbox[c]), written, packet_size) = g + 1)
      /\ (Tail(outbox[c]) = <<>> <=> g + 1 = Count(w, n))
  <2>1. Inv /\ Writings /\ outbox[c] # <<>> /\ c \in Cids
    BY <1>1, <1>2
  <2>2. AtFront(c, n, m, w, g)
    BY ONLY <1>3, <1>4 DEF AtFront
  <2>3. Sends(c, n, m, w, g)
    BY ONLY <2>1, <2>2, Front
  <2> QED
    BY ONLY <2>3 DEF Sends
<1>6. /\ outbox'[c] = Tail(outbox[c]) /\ (\A d \in Cids : d # c => outbox'[d] = outbox[d])
      /\ (outbox'[c] # <<>> => outbox'[c][1].m = m)
  BY <1>1, <1>2, <1>3, Popped DEF Inv, Next1
<1>7. ASSUME NEW d \in Cids, outbox'[d] # <<>> PROVE d = c
  BY <1>1, <1>2, <1>6, <1>7, Alone
<1>8. push_packet(Nth(w, n, g + 1))
  BY <1>1, <1>5
<1>9. CASE m \notin hurt
  <2>1. Arrived(w, n, g + 1)
    <3>1. CASE g = 0
      <4>1. g + 1 = 1
        BY <3>1
      <4>2. push_packet(Nth(w, n, 1))
        BY <1>8, <4>1
      <4>3. Arrived(w, n, 1)
        BY <1>5, <4>2, FirstRead
      <4> QED
        BY <4>1, <4>3
    <3>2. CASE g > 0
      <4>1. Exact(w, n, g)
        BY <1>1, <1>2, <1>3, <1>4, <1>9, <3>2 DEF InStep
      <4>2. g \in Nat \ {0}
        BY <1>5, <3>2
      <4> QED
        BY <1>5, <1>8, <4>1, <4>2, NextRead
    <3> QED
      BY <1>5, <3>1, <3>2
  <2>2. CASE g + 1 = Count(w, n)
    <3>1. \A d \in Cids : outbox'[d] = <<>>
      BY <1>5, <1>6, <1>7, <2>2
    <3>2. CASE error' = "device" /\ delivered' = delivered
      BY <3>2 DEF InStep, Resynced, Silence
    <3>3. CASE error' = error /\ active' = FALSE /\ Returned(w)
      <4>1. InStep' /\ Silence'
        BY <1>1, <1>2, <3>1, <3>3 DEF InStep, Silence
      <4>2. PICK e : e = [ctrl |-> w.ctrl, payload |-> w.payload]
        OBVIOUS
      <4>3. delivered' = Append(delivered, e) /\ MessageOf(m)' = e
        BY <1>1, <1>4, <3>3, <4>2 DEF Returned, MessageOf
      <4>4. Delivered(m)'
        <5>1. IsSeq(delivered) /\ Len(delivered) \in Nat
          BY <1>2, IsSeqFacts DEF Inv, Deliveries, Numbers
        <5>2. Len(delivered') = Len(delivered) + 1 /\ delivered'[Len(delivered) + 1] = e
          BY <4>3, <5>1, AppendIs
        <5>3. Len(delivered) + 1 \in 1 .. Len(delivered')
          BY <5>1, <5>2
        <5> QED
          BY <4>3, <5>2, <5>3 DEF Delivered
      <4>5. ASSUME NEW l \in 1 .. Len(written) PROVE l \in hurt' \/ Delivered(l)'
        <5>1. CASE l = m
          BY <4>4, <5>1
        <5>2. CASE l # m
          <6>1. hurt \subseteq hurt' /\ delivered' \in {delivered, Append(delivered, e)}
            BY <1>1, <4>3
          <6> QED
            BY <1>1, <1>2, <1>3, <5>2, <6>1, OthersResynced, SMTT(30)
        <5> QED
          BY <5>1, <5>2
      <4> QED
        BY <1>1, <4>1, <4>5 DEF Resynced
    <3> QED
      BY <2>1, <2>2, <3>2, <3>3 DEF Arrived
  <2>3. CASE g + 1 # Count(w, n)
    <3>1. Exact(w, n, g + 1)' /\ delivered' = delivered /\ error' = error
      BY <2>1, <2>3 DEF Arrived
    <3>2. outbox'[c] # <<>> /\ Gone(outbox'[c], written', packet_size') = g + 1 /\ outbox'[c][1].m = m
      BY <1>1, <1>5, <1>6, <2>3
    <3>3. InStep'
      <4>1. ASSUME NEW d \in Cids, outbox'[d] # <<>>
            PROVE  Exact(written[outbox[d][1].m], packet_size, Gone(outbox[d], written, packet_size))'
        <5>1. d = c
          BY <1>7, <4>1
        <5>2. /\ written'[outbox'[d][1].m] = w /\ packet_size' = n
              /\ Gone(outbox'[d], written', packet_size') = g + 1
          BY <1>1, <1>3, <1>4, <3>2, <5>1
        <5> QED
          BY <3>1, <5>2 DEF Exact
      <4> QED
        BY <4>1 DEF InStep
    <3>4. Resynced'
      <4>1. Pending(m)'
        BY <3>2 DEF Pending
      <4>2. ASSUME NEW l \in 1 .. Len(written), l # m PROVE l \in hurt' \/ Delivered(l)'
        <5>1. hurt \subseteq hurt' /\ delivered' \in {delivered, Append(delivered, l)}
          BY <1>1, <3>1
        <5> QED
          BY <1>1, <1>2, <1>3, <4>2, <5>1, OthersResynced
      <4> QED
        BY <1>1, <4>1, <4>2 DEF Resynced
    <3>5. Silence'
      <4>1. g + 1 # 0
        BY <1>5
      <4>2. ~(\A d \in Cids : outbox'[d] # <<>> => Gone(outbox'[d], written', packet_size') = 0)
        BY <3>2, <4>1
      <4>3. ~ \E d \in Cids : outbox'[d] # <<>> /\ outbox'[d][1].m \in hurt'
        BY <1>1, <1>7, <1>9, <3>2
      <4> QED
        BY <1>1, <1>2, <3>1, <4>2, <4>3 DEF Silence
    <3> QED
      BY <3>3, <3>4, <3>5
  <2> QED
    BY <2>2, <2>3
<1>10. CASE m \in hurt
  <2>1. g > 0
    BY <1>5, <1>10
  <2>2. PICK e : e = [ctrl |-> w.ctrl, payload |-> w.payload]
    OBVIOUS
  <2>3. delivered' \in {delivered, Append(delivered, e)}
    <3>1. Reassembling
      BY <1>2 DEF Inv
    <3>2. delivered' = delivered \/ Returned(w)
      BY <1>5, <1>8, <3>1, Pushing
    <3> QED
      BY <2>2, <3>2 DEF Returned
  <2>4. InStep' /\ Resynced'
    <3>1. hurt \subseteq hurt' /\ outbox[c][1].m \in hurt'
      BY <1>1, <1>3, <1>10
    <3> QED
      BY <1>1, <1>2, <2>3, <3>1, HurtResynced
  <2>5. ASSUME cut' = 0, lost' <= 1
        PROVE  /\ lost' # 0 /\ error' = error
               /\ outbox'[c] # <<>> =>
                    ~active' \/ Len(buf') + Len(outbox'[c]) * (packet_size' - CONT_HEADER) < expected_len'
    <3>1. cut = 0 /\ lost <= 1 /\ lost' = lost
      BY <1>1, <2>5
    <3>2. lost # 0
      BY <1>1, <1>2, <1>10, <3>1 DEF Silence
    <3>3. PICK p : p = Nth(w, n, g + 1)
      OBVIOUS
    <3>4. p.cont /\ p.size = n
      <4>1. g + 1 # 1
        BY <1>5, <2>1
      <4> QED
        BY <3>3, <4>1 DEF Nth
    <3>5. CASE ~active
      <4>1. UNCHANGED <<reasmVars, delivered, error>>
        BY <1>8, <3>3, <3>4, <3>5, Dropped
      <4> QED
        BY <3>1, <3>2, <3>5, <4>1 DEF reasmVars
    <3>6. CASE active
      <4>1. PICK r \in Nat \ {0} : r = n - CONT_HEADER
        BY <1>5 DEF INIT_HEADER, CONT_HEADER
      <4>2. PICK k \in Nat \ {0} : k = Len(outbox[c])
        BY <1>5
      <4>3. Len(buf) + k * r < expected_len
        BY <1>1, <1>2, <1>3, <1>10, <3>1, <3>6, <4>1, <4>2 DEF Silence
      <4>4. PICK b \in Nat, x \in Nat : b = Len(buf) /\ x = expected_len
        BY <1>2, IsSeqFacts DEF Inv, Reassembling
      <4>5. k * r = r + (k - 1) * r /\ (k - 1) * r \in Nat
        OBVIOUS
      <4>6. b + r < x /\ (b + r) + (k - 1) * r < x
        BY <4>3, <4>4, <4>5
      <4>7. IsSeq(p.data) /\ Len(p.data) = n - CONT_HEADER
        <5>1. HeaderOf(p) = CONT_HEADER /\ ~(n < CONT_HEADER)
          BY <1>5, <3>4 DEF HeaderOf, INIT_HEADER, CONT_HEADER
        <5>2. /\ BytesOf(p.data, m, w)
              /\ Len(p.data) = (IF n < HeaderOf(p) THEN 0 ELSE n - HeaderOf(p))
          BY <1>5, <3>3 DEF Carries
        <5> QED
          BY <5>1, <5>2 DEF BytesOf
      <4>8. Len(buf) + (n - CONT_HEADER) < expected_len
        BY <4>1, <4>4, <4>6
      <4>9. /\ active' /\ expected_len' = expected_len /\ Len(buf') = Len(buf) + (n - CONT_HEADER)
            /\ delivered' = delivered /\ error' = error
        <5>1. Reassembling /\ push_packet(p)
          BY <1>2, <1>8, <3>3 DEF Inv
        <5> QED
          BY <1>5, <3>4, <3>6, <4>7, <4>8, <5>1, ShortRead
      <4>10. Len(outbox'[c]) = k - 1
        <5>1. Len(Tail(outbox[c])) = Len(outbox[c]) - 1
          BY <1>1, <1>2, TailIs DEF Inv, Outboxes, Unsent
        <5> QED
          BY <1>6, <4>2, <5>1
      <4>11. packet_size' - CONT_HEADER = r
        BY <1>1, <1>3, <4>1
      <4>12. Len(buf') = b + r /\ expected_len' = x
        BY <4>1, <4>4, <4>9
      <4>13. Len(buf') + Len(outbox'[c]) * (packet_size' - CONT_HEADER) < expected_len'
        BY <4>6, <4>10, <4>11, <4>12
      <4> QED
        BY <3>1, <3>2, <4>9, <4>13
    <3> QED
      BY <3>5, <3>6
  <2>6. Silence'
    <3>1. ASSUME cut' = 0, lost' <= 1, NEW d \in Cids, outbox'[d] # <<>>
          PROVE  ~active' \/ Len(buf') + Len(outbox'[d]) * (packet_size' - CONT_HEADER) < expected_len'
      BY <1>7, <2>5, <3>1
    <3> QED
      BY <1>1, <2>5, <3>1 DEF Silence
  <2> QED
    BY <2>4, <2>6
<1> QED
  BY <1>9, <1>10

\* A truncated report.
LEMMA ReadCutSame ==
    ASSUME RInv, Inv', Same(written), NEW c \in Cids, NEW n \in 0 .. packet_size - 1, ReadCut(c, n)
    PROVE  InStep' /\ Resynced' /\ Silence'
<1>1. /\ error = "none" /\ outbox[c] # <<>> /\ cut' = cut + 1
      /\ hurt' = hurt \cup {Head(outbox[c]).m} /\ Next1(c) /\ UNCHANGED <<packet_size, written, lost>>
  BY DEF ReadCut
<1>2. Inv /\ Writings /\ InStep /\ Resynced /\ Silence
  BY DEF RInv
<1>3. PICK q, m : q = outbox[c][1].p /\ m = outbox[c][1].m
  OBVIOUS
<1>4. PICK w, size : w = written[m] /\ size = packet_size
  OBVIOUS
<1>5. Head(outbox[c]) = outbox[c][1] /\ Carries(q, m, w, size)
  BY <1>1, <1>2, <1>3, <1>4, Heads
<1>6. hurt \subseteq hurt' /\ outbox[c][1].m \in hurt'
  BY <1>1, <1>5
<1>7. PICK e : e = [ctrl |-> w.ctrl, payload |-> w.payload]
  OBVIOUS
<1>8. delivered' \in {delivered, Append(delivered, e)}
  <2>1. CASE n = 0
    BY <2>1 DEF ReadCut
  <2>2. CASE n # 0
    <3>1. push_packet(CutTo(q, n))
      BY <1>3, <1>5, <2>2 DEF ReadCut, CutTo, KeepOf
    <3>2. size \in Nat /\ n \in Nat /\ n < size
      BY <1>2, <1>4, ReassemblyAssumption DEF Inv
    <3>3. PICK p : p = CutTo(q, n)
      OBVIOUS
    <3>4. Carries(p, m, w, n) /\ push_packet(p) /\ Reassembling
      BY <1>2, <1>5, <3>1, <3>2, <3>3, Shortened DEF Inv
    <3>5. delivered' = delivered \/ Returned(w)
      BY <3>2, <3>4, Pushing
    <3> QED
      BY <1>7, <3>5 DEF Returned
  <2> QED
    BY <2>1, <2>2
<1>9. InStep' /\ Resynced'
  BY <1>1, <1>2, <1>6, <1>8, HurtResynced
<1>10. cut' # 0
  BY <1>1, <1>2 DEF Writings
<1> QED
  BY <1>9, <1>10 DEF Silence

\* A new message; when there is one channel nothing else is on its way.
LEMMA WriteResync ==
    ASSUME RInv, NEW c \in Cids, NEW k \in Controls, NEW n \in Lengths, Write(c, k, n)
    PROVE  Writings' /\ (Same(written)' => InStep' /\ Resynced' /\ Silence')
<1>0. Inv /\ Writings /\ IsSeq(written) /\ Len(written) \in Nat
  BY IsSeqFacts DEF RInv, Inv
<1>1. PICK l \in Nat : l = Len(written) + 1
  BY <1>0
<1>2. PICK w : w = [ctrl |-> k, cid |-> c, payload |-> PayloadOf(l, n)]
  OBVIOUS
<1>3. PICK packets, size : size = packet_size /\ packets = segment(size, c, k, PayloadOf(l, n))
  OBVIOUS
<1>4. PICK out : out = [i \in 1 .. Len(packets) |-> [p |-> packets[i], m |-> l]]
  OBVIOUS
<1>5. /\ outbox[c] = <<>> /\ written' = Append(written, w) /\ packet_size' = packet_size
      /\ outbox' = [outbox EXCEPT ![c] = out]
      /\ UNCHANGED <<lost, cut, hurt, reasmVars, delivered, error>>
  BY <1>1, <1>2, <1>3, <1>4 DEF Write
<1>6. /\ outbox'[c] = out /\ \A d \in Cids : d # c => outbox'[d] = outbox[d]
  BY <1>0, <1>5 DEF Inv
<1>7. /\ Len(written') = l /\ (\A i \in 1 .. Len(written) : written'[i] = written[i]) /\ written'[l] = w
  BY <1>0, <1>1, <1>5, AppendIs
<1>8. size \in Nat /\ size > INIT_HEADER /\ n \in Nat
  BY <1>0, <1>3, ReassemblyAssumption DEF Inv
<1>9. w.ctrl = k /\ w.cid = c /\ w.payload = PayloadOf(l, n) /\ IsSeq(w.payload) /\ IsMessage(w)
  <2>1. w.ctrl = k /\ w.cid = c /\ w.payload = PayloadOf(l, n)
    BY <1>2
  <2>2. IsSeq(PayloadOf(l, n))
    <3>1. PayloadOf(l, n) = [i \in 1 .. n |-> PayloadOf(l, n)[i]]
      BY DEF PayloadOf
    <3> QED
      BY <1>8, <3>1, FunctionIsSeq
  <2> QED
    BY <2>1, <2>2 DEF IsMessage
<1>10. /\ IsSeq(packets) /\ Len(packets) = Count(w, size) /\ Count(w, size) \in Nat \ {0}
       /\ \A j \in 1 .. Count(w, size) : packets[j] = Nth(w, size, j)
  <2>1. PICK payload : payload = PayloadOf(l, n)
    OBVIOUS
  <2>2. /\ IsSeq(packets) /\ Len(packets) = Count(w, size)
        /\ \A j \in 1 .. Count(w, size) : packets[j] = Nth(w, size, j)
    BY <1>3, <1>8, <1>9, <2>1, Segmented
  <2>3. Conts(w, size) \in Nat
    BY <1>8, <1>9, Places
  <2> QED
    BY <2>2, <2>3 DEF Count
<1>11. /\ Len(out) = Count(w, size) /\ out # <<>> /\ out[1].m = l
       /\ \A i \in 1 .. Len(out) : out[i].p = Nth(w, size, i)
  <2>1. out = [i \in 1 .. Len(packets) |-> out[i]] /\ Len(packets) \in Nat
    BY <1>4, <1>10
  <2>2. IsSeq(out) /\ Len(out) = Len(packets)
    BY <2>1, FunctionIsSeq
  <2>3. out # <<>>
    BY <1>10, <2>2, IsSeqFacts
  <2>4. \A i \in 1 .. Len(packets) : out[i].m = l /\ out[i].p = packets[i]
    BY <1>4
  <2>5. 1 \in 1 .. Len(packets)
    BY <1>10
  <2> QED
    BY <1>10, <2>2, <2>3, <2>4, <2>5
<1>12. Gone(out, written', size) = 0
  BY <1>7, <1>10, <1>11 DEF Gone
<1>13. Rest(out, written', size)
  <2>1. 0 \in Nat /\ \A i \in 1 .. Len(out) : 0 + i = i
    BY <1>10, <1>11
  <2> QED
    BY <1>7, <1>11, <1>12, <2>1 DEF Rest
<1>14. l \notin hurt /\ hurt \subseteq 1 .. Len(written)
  BY <1>0, <1>1 DEF Writings
<1>15. ASSUME NEW d \in Cids, d # c, outbox[d] # <<>>
       PROVE  /\ outbox'[d][1].m \in 1 .. Len(written) /\ written[outbox'[d][1].m].cid = d
              /\ written'[outbox'[d][1].m] = written[outbox'[d][1].m]
              /\ Gone(outbox'[d], written', packet_size') = Gone(outbox[d], written, packet_size)
  <2>1. outbox'[d] = outbox[d]
    BY <1>6, <1>15
  <2>2. outbox[d][1].m \in 1 .. Len(written) /\ written[outbox[d][1].m].cid = d
    BY <1>0, <1>15 DEF Inv, Outboxes, Unsent
  <2>3. written'[outbox[d][1].m] = written[outbox[d][1].m]
    BY <1>7, <2>2
  <2> QED
    BY <1>5, <2>1, <2>2, <2>3 DEF Gone
<1>16. Writings'
  <2>1. lost' \in Nat /\ cut' \in Nat /\ hurt' \subseteq 1 .. Len(written')
    BY <1>0, <1>1, <1>5, <1>7, <1>14 DEF Writings
  <2>2. ASSUME NEW i \in 1 .. Len(written') PROVE IsMessage(written'[i])
    <3>1. i = l \/ i \in 1 .. Len(written)
      BY <1>0, <1>1, <1>7
    <3> QED
      BY <1>0, <1>7, <1>9, <3>1 DEF Writings
  <2>3. ASSUME NEW d \in Cids PROVE Rest(outbox'[d], written', packet_size')
    <3>1. CASE d = c
      BY <1>3, <1>5, <1>6, <1>13, <3>1
    <3>2. CASE d # c
      <4> SUFFICES ASSUME outbox'[d] # <<>> PROVE Rest(outbox'[d], written', packet_size')
        BY DEF Rest
      <4>1. outbox'[d] = outbox[d] /\ outbox[d] # <<>>
        BY <1>6, <3>2
      <4>2. Rest(outbox[d], written, packet_size)
        BY <1>0 DEF Writings
      <4> QED
        BY <1>5, <1>15, <3>2, <4>1, <4>2 DEF Rest
    <3> QED
      BY <3>1, <3>2
  <2>4. ASSUME NEW d \in Cids, outbox'[d] # <<>>, Gone(outbox'[d], written', packet_size') = 0
        PROVE  outbox'[d][1].m \notin hurt'
    <3>1. CASE d = c
      BY <1>5, <1>6, <1>11, <1>14, <3>1
    <3>2. CASE d # c
      BY <1>0, <1>5, <1>6, <1>15, <2>4, <3>2 DEF Writings
    <3> QED
      BY <3>1, <3>2
  <2> QED
    BY <2>1, <2>2, <2>3, <2>4 DEF Writings
<1>17. ASSUME Same(written') PROVE InStep' /\ Resynced' /\ Silence'
  <2>1. Same(written) /\ InStep /\ Resynced /\ Silence
    <3>1. \A i \in 1 .. Len(written) : i \in 1 .. Len(written') /\ written'[i] = written[i]
      BY <1>0, <1>1, <1>7
    <3>2. Same(written)
      BY <1>17, <3>1 DEF Same
    <3> QED
      BY <3>2 DEF RInv
  <2>2. ASSUME NEW d \in Cids, outbox[d] # <<>> PROVE FALSE
    <3>1. d # c
      BY <1>5, <2>2
    <3>2. PICK i : i = outbox'[d][1].m
      OBVIOUS
    <3>3. i \in 1 .. Len(written) /\ written'[i].cid = d
      BY <1>15, <2>2, <3>1, <3>2
    <3>4. i \in 1 .. Len(written') /\ l \in 1 .. Len(written')
      BY <1>0, <1>1, <1>7, <3>3
    <3>5. written'[i].cid = written'[l].cid
      BY <1>17, <3>4 DEF Same
    <3> QED
      BY <1>7, <1>9, <3>1, <3>3, <3>5
  <2>3. ASSUME NEW d \in Cids, outbox'[d] # <<>> PROVE d = c
    BY <1>6, <2>2, <2>3
  <2>4. Gone(outbox'[c], written', packet_size') = 0 /\ outbox'[c] # <<>> /\ outbox'[c][1].m = l
    BY <1>3, <1>5, <1>6, <1>11, <1>12
  <2>5. InStep'
    <3>1. ASSUME NEW d \in Cids, outbox'[d] # <<>> PROVE ~(Gone(outbox'[d], written', packet_size') > 0)
      <4>1. d = c
        BY <2>3, <3>1
      <4> QED
        BY <2>4, <4>1
    <3> QED
      BY <3>1 DEF InStep
  <2>6. ASSUME error' = "none", NEW i \in 1 .. Len(written')
        PROVE  i \in hurt' \/ Pending(i)' \/ Delivered(i)'
    <3>1. CASE i = l
      BY <2>4, <3>1 DEF Pending
    <3>2. CASE i # l
      <4>1. i \in 1 .. Len(written)
        BY <1>0, <1>1, <1>7, <3>2
      <4>2. i \in hurt \/ Delivered(i)
        BY <1>5, <2>1, <2>2, <2>6, <4>1 DEF Resynced, Pending
      <4>3. MessageOf(i)' = MessageOf(i)
        BY <1>7, <4>1 DEF MessageOf
      <4>4. delivered' \in {delivered, Append(delivered, i)}
        BY <1>5
      <4> QED
        BY <1>0, <1>5, <4>2, <4>3, <4>4, StaysDelivered
    <3> QED
      BY <3>1, <3>2
  <2>7. Silence'
    <3>1. ASSUME error' = "none", cut' = 0, lost' = 0 PROVE ~active' /\ hurt' = {}
      <4>1. error = "none" /\ cut = 0 /\ lost = 0 /\ active' = active /\ hurt' = hurt
        BY <1>5, <3>1 DEF reasmVars
      <4>2. \A d \in Cids : outbox[d] # <<>> => Gone(outbox[d], written, packet_size) = 0
        BY <2>2
      <4> QED
        BY <2>1, <4>1, <4>2 DEF Silence
    <3>2. ASSUME NEW d \in Cids, outbox'[d] # <<>> PROVE outbox'[d][1].m \notin hurt'
      BY <1>5, <1>14, <2>3, <2>4, <3>2
    <3>3. cut' = 0 /\ lost' <= 1 => error' \notin {"crc", "short"}
      BY <1>5, <2>1 DEF Silence
    <3> QED
      BY <3>1, <3>2, <3>3 DEF Silence
  <2> QED
    BY <2>5, <2>6, <2>7 DEF Resynced
<1> QED
  BY <1>16, <1>17

\* Initially nothing is written or in progress.
LEMMA InitResync == Init => RInv
<1> SUFFICES ASSUME Init PROVE RInv
  OBVIOUS
<1>1. Inv
  BY InitInv
<1>2. /\ written = <<>> /\ outbox = [c \in Cids |-> <<>>] /\ lost = 0 /\ cut = 0 /\ hurt = {}
      /\ active = FALSE /\ error = "none" /\ Len(<<>>) = 0
  BY DEF Init
<1>3. \A c \in Cids : outbox[c] = <<>>
  BY <1>2
<1>4. Writings
  BY <1>2, <1>3 DEF Writings, Rest
<1>5. InStep /\ Resynced /\ Silence
  BY <1>2, <1>3 DEF InStep, Resynced, Silence
<1> QED
  BY <1>1, <1>4, <1>5 DEF RInv

\* Every step keeps the invariant.
LEMMA NextResync == RInv /\ [Next]_vars => RInv'
<1> SUFFICES ASSUME RInv, [Next]_vars PROVE RInv'
  OBVIOUS
<1>1. Inv /\ Writings /\ Inv'
  BY NextInv DEF RInv
<1>2. ASSUME NEW c \in Cids, NEW k \in Controls, NEW n \in Lengths, Write(c, k, n) PROVE RInv'
  BY <1>1, <1>2, WriteResync DEF RInv
<1>3. ASSUME NEW c \in Cids, Read(c) PROVE RInv'
  <2>1. /\ outbox[c] # <<>> /\ Next1(c) /\ UNCHANGED <<packet_size, written, lost, cut, hurt>>
    BY <1>3 DEF Read
  <2>2. Writings'
    <3>1. lost' \in Nat /\ cut' \in Nat /\ hurt' \in {hurt, hurt \cup {outbox[c][1].m}}
      BY <1>1, <2>1 DEF Writings
    <3> QED
      BY <1>1, <2>1, <3>1, PopWritings
  <2>3. Same(written') => Same(written)
    BY <2>1
  <2> QED
    BY <1>1, <1>3, <2>2, <2>3, ReadSame DEF RInv
<1>4. ASSUME NEW c \in Cids, Lose(c) PROVE RInv'
  <2>1. /\ outbox[c] # <<>> /\ Next1(c) /\ UNCHANGED <<packet_size, written, cut>> /\ lost' = lost + 1
        /\ hurt' = hurt \cup {Head(outbox[c]).m}
    BY <1>4 DEF Lose
  <2>2. Writings'
    <3>1. lost' \in Nat /\ cut' \in Nat /\ hurt' \in {hurt, hurt \cup {outbox[c][1].m}}
      BY <1>1, <2>1, Heads DEF Writings
    <3> QED
      BY <1>1, <2>1, <3>1, PopWritings
  <2>3. Same(written') => Same(written)
    BY <2>1
  <2> QED
    BY <1>1, <1>4, <2>2, <2>3, LoseSame DEF RInv
<1>5. ASSUME NEW c \in Cids, NEW n \in 0 .. packet_size - 1, ReadCut(c, n) PROVE RInv'
  <2>1. /\ outbox[c] # <<>> /\ Next1(c) /\ UNCHANGED <<packet_size, written, lost>> /\ cut' = cut + 1
        /\ hurt' = hurt \cup {Head(outbox[c]).m}
    BY <1>5 DEF ReadCut
  <2>2. Writings'
    <3>1. lost' \in Nat /\ cut' \in Nat /\ hurt' \in {hurt, hurt \cup {outbox[c][1].m}}
      BY <1>1, <2>1, Heads DEF Writings
    <3> QED
      BY <1>1, <2>1, <3>1, PopWritings
  <2>3. Same(written') => Same(written)
    BY <2>1
  <2> QED
    BY <1>1, <1>5, <2>2, <2>3, ReadCutSame DEF RInv
<1>6. CASE UNCHANGED vars
  <2>1. /\ UNCHANGED <<packet_size, written, outbox, lost, cut, hurt>>
        /\ UNCHANGED <<ctrl, active, control_byte, cid, expected_len, buf, delivered, error>>
    BY <1>6 DEF vars, reasmVars
  <2>2. Writings'
    BY <1>1, <2>1 DEF Writings
  <2>3. ASSUME Same(written') PROVE InStep' /\ Resynced' /\ Silence'
    <3>1. InStep /\ Resynced /\ Silence
      BY <2>1, <2>3 DEF RInv
    <3>2. InStep'
      BY <2>1, <3>1 DEF InStep, Exact
    <3>3. Resynced'
      BY <2>1, <3>1 DEF Resynced, Pending, Delivered, MessageOf
    <3>4. Silence'
      BY <2>1, <3>1 DEF Silence
    <3> QED
      BY <3>2, <3>3, <3>4
  <2> QED
    BY <1>1, <2>2, <2>3 DEF RInv
<1> QED
  BY <1>2, <1>3, <1>4, <1>5, <1>6 DEF Next

\* The invariant holds of the specification.
LEMMA ResyncInvariance == Spec => []RInv
  BY InitResync, NextResync, PTL DEF Spec

\* OneChannel counts channels; all messages are on the same one.
LEMMA OneChannelIsSame ==
    ASSUME IsSeq(written), OneChannel
    PROVE  Same(written)
<1>1. PICK S : S = {written[m].cid : m \in 1 .. Len(written)}
  OBVIOUS
<1>2. IsFiniteSet(S)
  <2>1. Len(written) \in Nat
    BY IsSeqFacts
  <2>2. IsFiniteSet(1 .. Len(written))
    BY <2>1, FS_Interval
  <2>3. PICK f : f = [m \in 1 .. Len(written) |-> written[m].cid]
    OBVIOUS
  <2>4. f \in Surjection(1 .. Len(written), S)
    BY <1>1, <2>3 DEF Surjection
  <2> QED
    BY <2>2, <2>4, FS_Surjection
<1>3. Cardinality(S) <= 1
  BY <1>1 DEF OneChannel
<1>4. ASSUME NEW a \in S, NEW b \in S PROVE a = b
  <2> SUFFICES ASSUME a # b PROVE FALSE
    OBVIOUS
  <2>1. {a, b} \subseteq S
    OBVIOUS
  <2>2. Cardinality({a, b}) <= Cardinality(S) /\ Cardinality(S) \in Nat
    BY <1>2, <2>1, FS_Subset, FS_CardinalityType
  <2>3. Cardinality({a, b}) = 2
    <3>1. IsFiniteSet({a}) /\ Cardinality({a}) = 1
      BY FS_Singleton
    <3>2. Cardinality({a} \cup {b}) = 1 + 1
      BY <3>1, FS_AddElement
    <3>3. {a} \cup {b} = {a, b}
      OBVIOUS
    <3> QED
      BY <3>2, <3>3
  <2> QED
    BY <1>3, <2>2, <2>3
<1> QED
  BY <1>1, <1>4 DEF Same

\* For any report size and number of messages and damaged reports on one channel:
\* a message all of whose reports arrive whole is returned, because push_packet
\* begins again at every initiation packet.
THEOREM Resynchronisation == Spec => []Resynchronises
<1>1. RInv => Resynchronises
  <2> SUFFICES ASSUME RInv, OneChannel, error = "none", NEW m \in 1 .. Len(written)
               PROVE  \/ m \in hurt
                      \/ \E c \in Cids : outbox[c] # <<>> /\ Head(outbox[c]).m = m
                      \/ \E i \in 1 .. Len(delivered) : delivered[i] = MessageOf(m)
    BY DEF Resynchronises
  <2>1. Inv /\ Resynced
    BY OneChannelIsSame DEF RInv, Inv
  <2>2. m \in hurt \/ Pending(m) \/ Delivered(m)
    BY <2>1 DEF Resynced
  <2>3. Pending(m) => \E c \in Cids : outbox[c] # <<>> /\ Head(outbox[c]).m = m
    BY <2>1, Heads DEF Pending
  <2> QED
    BY <2>2, <2>3 DEF Delivered
<1> QED
  BY <1>1, ResyncInvariance, PTL

\* For any of them, the loss of a single report on one channel is never an
\* error of read_framed.
THEOREM LossesAreSilent == Spec => []OneLossIsSilent
<1>1. RInv => OneLossIsSilent
  <2> SUFFICES ASSUME RInv, OneChannel, error \in {"crc", "short"}
               PROVE  lost >= 2 \/ cut >= 1
    BY DEF OneLossIsSilent
  <2>1. Writings /\ Silence
    BY OneChannelIsSame DEF RInv, Inv
  <2>2. lost \in Nat /\ cut \in Nat /\ ~(cut = 0 /\ lost <= 1)
    BY <2>1 DEF Writings, Silence
  <2> QED
    BY <2>2
<1> QED
  BY <1>1, ResyncInvariance, PTL
=============================================================================
