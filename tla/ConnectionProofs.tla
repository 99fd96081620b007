-------------------------- MODULE ConnectionProofs --------------------------
(***************************************************************************)
(* Proofs about connections that share one transport, for every number of  *)
(* places, connections, requests and frames on the link.                   *)
(***************************************************************************)
EXTENDS Connection, FiniteSetTheorems, TLAPS

----------------------------------------------------------------------------
(* The inductive invariant.                                                *)

\* What a host has put on the link, o ids given out and n channels allocated:
\* a request for a channel, or a frame on a channel that exists.
FromHost(f, o, n) ==
    \/ f.ctrl = CHANNEL_ALLOCATION_REQUEST /\ f.body.kind = "nonce"
    \/ /\ f.ctrl # CHANNEL_ALLOCATION_REQUEST /\ f.cid \in 1 .. n
       /\ f.body.kind \in {"none", "init", "completion", "app"} /\ f.body.id \in 0 .. o

\* What the device with channels d, n of them allocated, has written: an
\* answer is older than its state of the channel, and the last one answers the
\* request it holds.
FromDevice(b, d, n) ==
    /\ b.kind \in {"none", "allocation", "init_response", "completion_response", "app_response"}
    /\ b.kind # "none" => b.id \in 1 .. n
    /\ b.kind = "allocation" => b.nonce = b.id
    /\ b.kind = "init_response" => d[b.id].phase \in {"completion", "app"}
    /\ b.kind = "completion_response" => d[b.id].phase = "app"
    /\ b.kind = "app_response" =>
        /\ d[b.id].phase = "app" /\ b.nonce < d[b.id].nonce_send
        /\ b.nonce + 1 = d[b.id].nonce_send => b.re = d[b.id].request

\* The two ends of a session, s the connection and d the channel.
InSession(s, d) ==
    /\ s.phase # "app" /\ d.phase = "app" => d.nonce_recv = 0 /\ d.nonce_send = 1
    /\ s.phase = "app" =>
        /\ d.phase = "app" /\ d.nonce_send = d.nonce_recv + 1
        /\ s.pc \in {"idle", "button"} => s.nonce_send = d.nonce_recv /\ s.nonce_recv = d.nonce_send
        /\ s.pc = "button" => s.request = d.request
        /\ s.pc \in {"send", "recv"} =>
            /\ s.nonce_recv = s.nonce_send
            /\ \/ d.nonce_recv + 1 = s.nonce_send
               \/ d.nonce_recv = s.nonce_send /\ d.request = s.request

\* The body was sealed with the keys of the connection s, under a nonce that
\* it has used.
Owns(s, b) == s.pc # "closed" /\ s.id = b.id
Spent(s, b) == s.phase = "app" /\ b.nonce < s.nonce_send

\* If the device would still open it, it is the message under way.
Current(s, d, b) ==
    b.nonce = d.nonce_recv => s.pc \in {"send", "recv"}
                              /\ s.request = IF b.msg = "request" THEN b.nonce ELSE d.request

\* Ids are not shared, and a channel has the number of its connection.
Channels ==
    /\ allocated <= opened
    /\ \A c \in Conns : conn[c].pc # "closed" => conn[c].id \in 1 .. opened
    /\ \A c, d \in Conns : conn[c].pc # "closed" /\ conn[d].pc # "closed" /\ conn[c].id = conn[d].id => c = d
    /\ \A c \in Conns : conn[c].pc \notin {"closed", "alloc"} =>
        conn[c].cid = conn[c].id /\ conn[c].id \in 1 .. allocated
    /\ \A c \in Conns : conn[c].pc = "alloc" => conn[c].phase = "init"

\* The requests for channels on the link are in the order of their ids, and
\* none is missing.
Requested(k) == h2d[k].ctrl = CHANNEL_ALLOCATION_REQUEST
Allocations ==
    /\ \A i \in 1 .. allocated : dev[i].id = i
    /\ \A i \in allocated + 1 .. MaxOpens : dev[i] = Unused
    /\ \A k \in DOMAIN h2d : Requested(k) => h2d[k].body.id \in allocated + 1 .. opened
    /\ \A j, k \in DOMAIN h2d : j < k /\ Requested(j) /\ Requested(k) => h2d[j].body.id < h2d[k].body.id
    /\ \A n \in allocated + 1 .. opened : \E k \in DOMAIN h2d : Requested(k) /\ h2d[k].body.id = n

Link ==
    /\ \A k \in DOMAIN h2d : FromHost(h2d[k], opened, allocated)
    /\ \A k \in DOMAIN d2h : FromDevice(d2h[k].body, dev, allocated)
    /\ \A c \in Conns : FromDevice(conn[c].pending_data.body, dev, allocated)
    /\ \A i \in 1 .. MaxOpens : FromDevice(dev[i].out.body, dev, allocated)

Sessions == \A c \in Conns : conn[c].pc # "closed" => InSession(conn[c], dev[conn[c].id])

Sealings ==
    /\ IsFiniteSet(sealed)
    /\ \A x \in sealed : x.id \in 1 .. opened /\ \A c \in Conns : Owns(conn[c], x) => Spent(conn[c], x)

UnderWay ==
    \A k \in DOMAIN h2d : h2d[k].body.kind = "app" =>
        \A c \in Conns : Owns(conn[c], h2d[k].body) =>
            Spent(conn[c], h2d[k].body) /\ Current(conn[c], dev[conn[c].id], h2d[k].body)

Inv == TypeOK /\ Channels /\ Allocations /\ Link /\ Sessions /\ Sealings /\ UnderWay
       /\ NonceUsedOnce /\ ReplyIsMine

----------------------------------------------------------------------------
(* Control bytes and queues.                                               *)

\* A data message or an ack is no request for a channel, and a byte.
LEMMA ControlBytes ==
    /\ \A base \in 0 .. 4, seq \in {0, 1} :
        with_seq(base, seq) \in Byte /\ with_seq(base, seq) # CHANNEL_ALLOCATION_REQUEST
    /\ \A seq : ack_for(seq) \in Byte /\ ack_for(seq) # CHANNEL_ALLOCATION_REQUEST
    /\ ~is_ack(CHANNEL_ALLOCATION_REQUEST)
    /\ CHANNEL_ALLOCATION_RESPONSE \in Byte /\ TRANSPORT_ERROR \in Byte /\ CHANNEL_ALLOCATION_REQUEST \in Byte
  BY DEF with_seq, ack_for, is_ack, BitOf, Byte, SEQ_BIT, ACK_BIT, ACK, CHANNEL_ALLOCATION_REQUEST,
         CHANNEL_ALLOCATION_RESPONSE, TRANSPORT_ERROR

\* A flipped bit is a bit.
LEMMA FlipBit == \A bit \in {0, 1} : Flip(bit) \in {0, 1}
  BY DEF Flip

\* Queues grow at the end.
LEMMA AppendFacts ==
    ASSUME NEW S, NEW s \in Seq(S), NEW x \in S
    PROVE  /\ Append(s, x) \in Seq(S) /\ Len(s) \in Nat
           /\ DOMAIN s = 1 .. Len(s) /\ DOMAIN Append(s, x) = 1 .. Len(s) + 1
           /\ Append(s, x)[Len(s) + 1] = x /\ \A k \in DOMAIN s : Append(s, x)[k] = s[k]
           /\ \A k \in DOMAIN Append(s, x) : k \in DOMAIN s \/ k = Len(s) + 1
  OBVIOUS

\* Queues shrink at the front.
LEMMA TailFacts ==
    ASSUME NEW S, NEW s \in Seq(S), s # <<>>
    PROVE  /\ Head(s) \in S /\ Head(s) = s[1] /\ 1 \in DOMAIN s /\ Tail(s) \in Seq(S)
           /\ \A k \in DOMAIN Tail(s) : k + 1 \in DOMAIN s /\ Tail(s)[k] = s[k + 1]
           /\ \A k \in DOMAIN s : k \in Nat /\ (k = 1 \/ (k > 1 /\ k - 1 \in DOMAIN Tail(s) /\ Tail(s)[k - 1] = s[k]))
  OBVIOUS

\* Every frame on the link is a frame.
LEMMA LinkTypes ==
    ASSUME TypeOK
    PROVE  /\ \A k \in DOMAIN h2d : h2d[k] \in FrameType
           /\ \A k \in DOMAIN d2h : d2h[k] \in FrameType
  BY DEF TypeOK

\* The constants of the model have the types of the state.
LEMMA Values ==
    /\ Empty \in BodyType /\ NoFrame \in FrameType /\ NoFrame.body = Empty /\ Empty.kind = "none" /\ Empty.id = 0
    /\ Closed \in ConnType /\ Closed.pc = "closed" /\ Closed.pending_data = NoFrame
    /\ Unused \in DevType /\ Unused.out = NoFrame /\ Unused.id = 0 /\ Unused.phase = "init"
    /\ NoResult \in ResultType /\ NoResult.kind = "none"
<1>1. Empty \in BodyType /\ Empty.kind = "none" /\ Empty.id = 0
  BY DEF Empty, Body, BodyType, Kinds, Messages
<1>2. NoFrame \in FrameType /\ NoFrame.body = Empty
  BY <1>1, ConnectionAssumption DEF NoFrame, Frame, FrameType, Byte
<1> QED
  BY <1>1, <1>2, ConnectionAssumption
     DEF Closed, ConnType, Unused, DevType, NoResult, ResultType, Phases, BROADCAST_CID

----------------------------------------------------------------------------
(* Steps of a connection after it was opened, other than Send.             *)

\* What such a step does to the rest: it takes at most one frame off the
\* link and writes at most one ack.
Ack(f) == f.ctrl # CHANNEL_ALLOCATION_REQUEST /\ f.cid \in 1 .. allocated /\ f.body = Empty
HostReads ==
    /\ UNCHANGED <<opened, sealed, dev, allocated>>
    /\ d2h' = d2h \/ (d2h # <<>> /\ d2h' = Tail(d2h))
    /\ h2d' = h2d \/ \E f \in FrameType : Ack(f) /\ h2d' = Append(h2d, f)

\* What it does to the connection, v afterwards: it is dropped, or stays in
\* its session and asks for nothing new.
Stays(s, v, d, n) ==
    /\ s.pc # "closed"
    /\ \/ v = Closed
       \/ /\ v.pc # "closed" /\ v.id = s.id
          /\ v.pc # "alloc" => v.cid = v.id /\ v.id \in 1 .. n
          /\ InSession(v, d)
          /\ s.phase = "app" => v.phase = "app" /\ v.nonce_send = s.nonce_send
          /\ v.pc = "alloc" => s.pc = "alloc" /\ v.phase = s.phase
          /\ v.pc \in {"send", "recv"} => s.pc \in {"send", "recv"} /\ v.request = s.request

\* What was said of the link stays true of it when frames are taken off and
\* acks added.
LEMMA HostReadsLink ==
    ASSUME Inv, HostReads
    PROVE  /\ h2d' \in Seq(FrameType) /\ d2h' \in Seq(FrameType)
           /\ \A k \in DOMAIN h2d' : (k \in DOMAIN h2d /\ h2d'[k] = h2d[k]) \/ Ack(h2d'[k])
           /\ \A k \in DOMAIN h2d : k \in DOMAIN h2d' /\ h2d'[k] = h2d[k]
           /\ \A k \in DOMAIN d2h' : \E j \in DOMAIN d2h : d2h'[k] = d2h[j]
<1>0. h2d \in Seq(FrameType) /\ d2h \in Seq(FrameType)
  BY DEF Inv, TypeOK
<1>1. d2h' \in Seq(FrameType) /\ \A k \in DOMAIN d2h' : \E j \in DOMAIN d2h : d2h'[k] = d2h[j]
  <2>1. CASE d2h' = d2h
    BY <1>0, <2>1
  <2>2. CASE d2h # <<>> /\ d2h' = Tail(d2h)
    BY <1>0, <2>2, TailFacts
  <2> QED
    BY <2>1, <2>2 DEF HostReads
<1>2. CASE h2d' = h2d
  BY <1>0, <1>1, <1>2
<1>3. ASSUME NEW f \in FrameType, Ack(f), h2d' = Append(h2d, f)
      PROVE  /\ h2d' \in Seq(FrameType)
             /\ \A k \in DOMAIN h2d' : (k \in DOMAIN h2d /\ h2d'[k] = h2d[k]) \/ Ack(h2d'[k])
             /\ \A k \in DOMAIN h2d : k \in DOMAIN h2d' /\ h2d'[k] = h2d[k]
  <2> HIDE DEF Ack
  <2>1. /\ h2d' \in Seq(FrameType) /\ h2d'[Len(h2d) + 1] = f /\ \A k \in DOMAIN h2d : h2d'[k] = h2d[k]
        /\ \A k \in DOMAIN h2d' : k \in DOMAIN h2d \/ k = Len(h2d) + 1
        /\ DOMAIN h2d = 1 .. Len(h2d) /\ DOMAIN h2d' = 1 .. Len(h2d) + 1 /\ Len(h2d) \in Nat
    BY <1>0, <1>3, AppendFacts
  <2>2. \A k \in DOMAIN h2d : k \in DOMAIN h2d'
    BY <2>1
  <2> QED
    BY <1>3, <2>1, <2>2, Zenon
<1> QED
  BY <1>1, <1>2, <1>3 DEF HostReads

\* Such a step preserves the invariant.
LEMMA HostStep ==
    ASSUME Inv, NEW c \in Conns, NEW v \in ConnType, conn' = [conn EXCEPT ![c] = v],
           Stays(conn[c], v, dev[conn[c].id], allocated), FromDevice(v.pending_data.body, dev, allocated),
           HostReads, result' \in [Conns -> ResultType], ReplyIsMine'
    PROVE  Inv'
<1>1. UNCHANGED <<opened, sealed, dev, allocated>>
  BY DEF HostReads
<1>2. conn \in [Conns -> ConnType] /\ conn'[c] = v /\ \A d \in Conns : d # c => conn'[d] = conn[d]
  BY DEF Inv, TypeOK
<1>3. TypeOK'
  BY <1>1, <1>2, HostReadsLink DEF Inv, TypeOK
<1>4. Channels'
  BY <1>1, <1>2, Values DEF Inv, Channels, Stays
<1>5. Allocations'
  <2>1. \A k \in DOMAIN h2d' : Requested(k)' => k \in DOMAIN h2d /\ Requested(k) /\ h2d'[k] = h2d[k]
    BY HostReadsLink DEF Requested, Ack
  <2>2. \A k \in DOMAIN h2d : Requested(k) => k \in DOMAIN h2d' /\ Requested(k)' /\ h2d'[k] = h2d[k]
    BY HostReadsLink DEF Requested
  <2> HIDE DEF Requested
  <2>3. \A j, k \in DOMAIN h2d' : j < k /\ Requested(j)' /\ Requested(k)' => h2d'[j].body.id < h2d'[k].body.id
    BY <2>1 DEF Inv, Allocations
  <2>4. \A n \in allocated + 1 .. opened : \E k \in DOMAIN h2d' : Requested(k)' /\ h2d'[k].body.id = n
    BY <2>2 DEF Inv, Allocations
  <2>5. \A k \in DOMAIN h2d' : Requested(k)' => h2d'[k].body.id \in allocated + 1 .. opened
    BY <2>1 DEF Inv, Allocations
  <2> QED
    BY <1>1, <2>3, <2>4, <2>5 DEF Inv, Allocations
<1>6. Link'
  <2>1. \A k \in DOMAIN h2d' : FromHost(h2d'[k], opened, allocated)
    <3>1. \A f : Ack(f) => FromHost(f, opened, allocated)
      BY Values DEF Ack, FromHost, Inv, TypeOK
    <3> QED
      BY <3>1, HostReadsLink DEF Inv, Link
  <2>2. \A k \in DOMAIN d2h' : FromDevice(d2h'[k].body, dev, allocated)
    BY HostReadsLink DEF Inv, Link
  <2>3. \A d \in Conns : FromDevice(conn'[d].pending_data.body, dev, allocated)
    BY <1>2 DEF Inv, Link
  <2> QED
    BY <1>1, <2>1, <2>2, <2>3 DEF Inv, Link
<1>7. Sessions'
  BY <1>1, <1>2, Values DEF Inv, Sessions, Stays
<1>8. \A b : Owns(v, b) => Owns(conn[c], b) /\ (Spent(conn[c], b) => Spent(v, b))
  BY Values DEF Owns, Spent, Stays
<1>9. Sealings'
  BY <1>1, <1>2, <1>8 DEF Inv, Sealings
<1>10. UnderWay'
  <2> SUFFICES ASSUME NEW k \in DOMAIN h2d', h2d'[k].body.kind = "app", NEW d \in Conns, Owns(conn'[d], h2d'[k].body)
               PROVE  Spent(conn'[d], h2d'[k].body) /\ Current(conn'[d], dev[conn'[d].id], h2d'[k].body)
    BY <1>1 DEF UnderWay
  <2>1. k \in DOMAIN h2d /\ h2d'[k] = h2d[k]
    BY HostReadsLink, Values DEF Ack
  <2> DEFINE b == h2d[k].body
  <2>2. b \in BodyType
    BY <2>1, LinkTypes DEF Inv, FrameType
  <2>3. Owns(conn[d], b) => Spent(conn[d], b) /\ Current(conn[d], dev[conn[d].id], b)
    BY <2>1 DEF Inv, UnderWay
  <2> HIDE DEF b
  <2>4. CASE d # c
    BY <2>1, <2>3, <2>4, <1>2 DEF b
  <2>5. CASE d = c
    <3>1. Owns(v, b)
      BY <2>1, <2>5, <1>2 DEF b
    <3>2. Spent(v, b) /\ Spent(conn[c], b) /\ Current(conn[c], dev[conn[c].id], b) /\ v.id = conn[c].id
      BY <3>1, <2>3, <2>5, <1>8 DEF Owns
    <3>3. v # Closed /\ v.pc # "closed"
      BY <3>1, Values DEF Owns
    <3>4. Current(v, dev[v.id], b)
      <4>1. CASE v.pc \in {"send", "recv"}
        BY <4>1, <3>2, <3>3 DEF Current, Stays
      <4>2. CASE v.pc = "alloc"
        BY <4>2, <3>2, <3>3 DEF Current, Stays
      <4>3. CASE v.pc \in {"idle", "button"}
        <5>1. v.nonce_send = dev[v.id].nonce_recv
          BY <4>3, <3>2, <3>3 DEF Stays, InSession, Spent
        <5>2. b.nonce \in Nat /\ v.nonce_send \in Nat /\ b.nonce < v.nonce_send
          BY <2>2, <3>2 DEF BodyType, ConnType, Spent
        <5> QED
          BY <5>1, <5>2 DEF Current
      <4> QED
        BY <4>1, <4>2, <4>3, <3>3 DEF ConnType
    <3> QED
      BY <3>2, <3>4, <2>1, <2>5, <1>2 DEF b
  <2> QED
    BY <2>4, <2>5
<1> QED
  BY <1>1, <1>3, <1>4, <1>5, <1>6, <1>7, <1>9, <1>10 DEF Inv, NonceUsedOnce

\* The frame read next.
LEMMA GotFacts ==
    ASSUME Inv, d2h # <<>>
    PROVE  got \in FrameType /\ got.body \in BodyType /\ FromDevice(got.body, dev, allocated)
<1>1. got = d2h[1] /\ 1 \in DOMAIN d2h
  BY TailFacts DEF Inv, TypeOK, got
<1> QED
  BY <1>1, LinkTypes DEF Inv, Link, FrameType

\* A connection as the invariant knows it.
LEMMA ConnFacts ==
    ASSUME Inv, NEW c \in Conns
    PROVE  /\ conn[c] \in ConnType /\ FromDevice(conn[c].pending_data.body, dev, allocated)
           /\ conn[c].pc # "closed" => InSession(conn[c], dev[conn[c].id])
           /\ conn[c].pc \notin {"closed", "alloc"} => conn[c].cid = conn[c].id /\ conn[c].id \in 1 .. allocated
           /\ conn[c].pc = "alloc" => conn[c].phase = "init"
           /\ conn[c].pc # "closed" => conn[c].id \in 1 .. MaxOpens
           /\ conn[c].pc # "closed" => dev[conn[c].id] \in DevType
           /\ allocated \in Nat /\ opened \in Nat /\ allocated <= opened /\ opened <= MaxOpens
  BY ConnectionAssumption DEF Inv, TypeOK, Link, Sessions, Channels

\* A change of the bits, the frame kept, or the number of frames read.
LEMMA SameSession ==
    ASSUME Inv, NEW c \in Conns, NEW v \in ConnType, conn[c].pc # "closed",
           v.id = conn[c].id, v.cid = conn[c].cid, v.phase = conn[c].phase, v.nonce_send = conn[c].nonce_send,
           v.nonce_recv = conn[c].nonce_recv, v.request = conn[c].request,
           v.pc = conn[c].pc \/ (v.pc = "recv" /\ conn[c].pc = "send")
    PROVE  Stays(conn[c], v, dev[conn[c].id], allocated)
<1>1. PICK s, d : s = conn[c] /\ d = dev[conn[c].id]
  OBVIOUS
<1>2. InSession(s, d) /\ (s.pc \notin {"closed", "alloc"} => s.cid = s.id /\ s.id \in 1 .. allocated)
  BY <1>1, ConnFacts
<1>3. /\ s.pc # "closed" /\ v.id = s.id /\ v.cid = s.cid /\ v.phase = s.phase /\ v.nonce_send = s.nonce_send
      /\ v.nonce_recv = s.nonce_recv /\ v.request = s.request
      /\ (v.pc = s.pc \/ (v.pc = "recv" /\ s.pc = "send"))
  BY <1>1
<1>4. InSession(v, d)
  BY ONLY <1>2, <1>3 DEF InSession
<1>5. Stays(s, v, d, allocated)
  BY ONLY <1>2, <1>3, <1>4 DEF Stays
<1> QED
  BY ONLY <1>1, <1>5

\* A connection is dropped and its method returns an error.
LEMMA DropInv ==
    ASSUME Inv, NEW c \in Conns, conn[c].pc # "closed", HostReads,
           NEW kind \in {"Thp", "Transport", "TransportBusy", "UserCanceled", "DeviceRejected"},
           NEW body \in BodyType, Drop(c, kind, body)
    PROVE  Inv'
<1>1. conn' = [conn EXCEPT ![c] = Closed]
  BY DEF Drop
<1>2. result' \in [Conns -> ResultType] /\ ReplyIsMine'
  <2>1. [kind |-> kind, id |-> conn[c].id, asked |-> conn[c].request, body |-> body] \in ResultType
    BY ConnFacts DEF ResultType, ConnType
  <2> QED
    BY <2>1 DEF Drop, Inv, TypeOK, ReplyIsMine
<1>3. FromDevice(Closed.pending_data.body, dev, allocated) /\ Closed \in ConnType
  BY Values DEF FromDevice
<1>4. Stays(conn[c], Closed, dev[conn[c].id], allocated)
  BY DEF Stays
<1> QED
  BY <1>1, <1>2, <1>3, <1>4, HostStep

\* Reading takes a frame off the link and writes nothing.
LEMMA ReadsOnly ==
    ASSUME Reads, UNCHANGED <<opened, sealed, h2d, dev, allocated>>
    PROVE  HostReads
  BY DEF Reads, HostReads

\* Reading a data message, and acknowledging it.
LEMMA ReadsAndAcks ==
    ASSUME Inv, NEW c \in Conns, conn[c].pc \in {"send", "recv"}, Reads, NEW seq, Write(c, ack_for(seq), Empty),
           UNCHANGED <<opened, sealed, dev, allocated>>
    PROVE  HostReads
<1> DEFINE f == Frame(ack_for(seq), conn[c].cid, Empty)
<1>1. conn[c].cid \in 1 .. allocated /\ conn[c].cid \in 0 .. MaxOpens
  BY ConnFacts DEF ConnType
<1>2. ack_for(seq) \in Byte /\ ack_for(seq) # CHANNEL_ALLOCATION_REQUEST
  BY ControlBytes
<1>3. f \in FrameType /\ Ack(f)
  BY <1>1, <1>2, Values DEF Frame, FrameType, Ack
<1>4. h2d' = Append(h2d, f)
  BY DEF Write
<1> QED
  BY <1>3, <1>4 DEF HostReads, Reads

\* allocate: the device echoed the nonce of this connection.
LEMMA AllocatedInv ==
    ASSUME Inv, NEW c \in Conns, Allocated(c)
    PROVE  Inv'
<1> DEFINE v == [conn[c] EXCEPT !.cid = got.body.nonce, !.pc = "idle"]
<1>1. conn[c].pc = "alloc" /\ conn' = [conn EXCEPT ![c] = v] /\ HostReads /\ UNCHANGED result
  BY ReadsOnly, ConnFacts DEF Allocated, Reads
<1>2. got.body.id = conn[c].id /\ got.body.nonce = got.body.id /\ got.body.id \in 1 .. allocated
  BY GotFacts DEF Allocated, Reads, parse_allocation_response, FromDevice
<1>3. conn[c] \in ConnType /\ conn[c].id \in 1 .. MaxOpens /\ InSession(conn[c], dev[conn[c].id])
      /\ conn[c].phase = "init"
  BY <1>1, ConnFacts
<1>4. v \in ConnType
  BY <1>2, <1>3 DEF ConnType
<1>5. v.pc = "idle" /\ v.id = conn[c].id /\ v.cid = v.id /\ v.phase = conn[c].phase /\ v.pending_data = conn[c].pending_data
      /\ v.nonce_send = conn[c].nonce_send
  BY <1>2, <1>3 DEF ConnType
<1> HIDE DEF v
<1>6. Stays(conn[c], v, dev[conn[c].id], allocated)
  BY <1>1, <1>2, <1>3, <1>5 DEF Stays, InSession
<1> QED
  BY <1>1, <1>4, <1>5, <1>6, ConnFacts, HostStep DEF Inv, TypeOK, ReplyIsMine

\* A step that leaves the results alone and at c the connection v, in the
\* session it was in.
LEMMA SameSessionInv ==
    ASSUME Inv, NEW c \in Conns, NEW v \in ConnType, conn' = [conn EXCEPT ![c] = v], HostReads, UNCHANGED result,
           Stays(conn[c], v, dev[conn[c].id], allocated), FromDevice(v.pending_data.body, dev, allocated)
    PROVE  Inv'
  BY HostStep DEF Inv, TypeOK, ReplyIsMine

\* A connection goes out of scope, or gives up reading frames of others.
LEMMA GoneInv ==
    ASSUME Inv, NEW c \in Conns, conn[c].pc # "closed", conn' = [conn EXCEPT ![c] = Closed], HostReads, UNCHANGED result
    PROVE  Inv'
<1>1. Closed \in ConnType /\ FromDevice(Closed.pending_data.body, dev, allocated)
  BY Values DEF FromDevice
<1>2. Stays(conn[c], Closed, dev[conn[c].id], allocated)
  BY DEF Stays
<1> QED
  BY <1>1, <1>2, SameSessionInv

\* A frame is read and changes nothing.
LEMMA IgnoredInv ==
    ASSUME Inv, NEW c \in Conns, conn[c].pc # "closed", UNCHANGED <<conn, result>>, HostReads
    PROVE  Inv'
<1>1. conn[c] \in ConnType /\ FromDevice(conn[c].pending_data.body, dev, allocated)
      /\ conn' = [conn EXCEPT ![c] = conn[c]]
  BY ConnFacts DEF Inv, TypeOK
<1>2. Stays(conn[c], conn[c], dev[conn[c].id], allocated)
  BY <1>1, SameSession
<1> QED
  BY <1>1, <1>2, SameSessionInv

\* allocate reads a frame of another connection.
LEMMA AllocSkipsInv ==
    ASSUME Inv, NEW c \in Conns, AllocSkips(c)
    PROVE  Inv'
<1>1. conn[c].pc = "alloc" /\ HostReads /\ UNCHANGED result
  BY ReadsOnly DEF AllocSkips
<1>2. CASE conn[c].reads + 1 = MAX_ALLOC_READS
  BY <1>1, <1>2, GoneInv DEF AllocSkips
<1>3. CASE conn[c].reads + 1 # MAX_ALLOC_READS
  <2> DEFINE v == [conn[c] EXCEPT !.reads = @ + 1]
  <2>1. conn' = [conn EXCEPT ![c] = v]
    BY <1>3 DEF AllocSkips
  <2>2. v \in ConnType
    BY ConnFacts DEF ConnType
  <2>3. Stays(conn[c], v, dev[conn[c].id], allocated)
    BY <1>1, <2>2, SameSession, ConnFacts DEF ConnType
  <2>4. FromDevice(v.pending_data.body, dev, allocated)
    BY ConnFacts DEF ConnType
  <2> HIDE DEF v
  <2> QED
    BY <1>1, <2>1, <2>2, <2>3, <2>4, SameSessionInv
<1> QED
  BY <1>2, <1>3

\* send_data reads an ack, of its own message or of an earlier one.
LEMMA SendGetsAckInv ==
    ASSUME Inv, NEW c \in Conns, SendGetsAck(c)
    PROVE  Inv'
<1>1. conn[c].pc = "send" /\ HostReads /\ UNCHANGED result
  BY ReadsOnly DEF SendGetsAck
<1>2. CASE ack_seq_of(got.ctrl) # conn[c].send_seq
  BY <1>1, <1>2, IgnoredInv DEF SendGetsAck
<1>3. CASE ack_seq_of(got.ctrl) = conn[c].send_seq
  <2> DEFINE v == [conn[c] EXCEPT !.send_seq = Flip(@), !.pc = "recv"]
  <2>0. conn \in [Conns -> ConnType]
    BY DEF Inv, TypeOK
  <2>1. conn' = [conn EXCEPT ![c] = v]
    BY <1>3, <2>0 DEF SendGetsAck
  <2>2. v \in ConnType
    <3>1. PICK s : s = Flip(conn[c].send_seq)
      OBVIOUS
    <3>2. conn[c] \in ConnType
      BY <2>0
    <3>3. s \in {0, 1}
      <4>1. conn[c].send_seq \in {0, 1}
        BY ONLY <3>2 DEF ConnType
      <4> QED
        BY ONLY <3>1, <4>1, FlipBit
    <3>4. v = [conn[c] EXCEPT !.send_seq = s, !.pc = "recv"]
      BY <3>1, Zenon
    <3>5. [conn[c] EXCEPT !.send_seq = s, !.pc = "recv"] \in ConnType
      BY ONLY <3>2, <3>3 DEF ConnType
    <3> QED
      BY ONLY <3>4, <3>5
  <2>3. Stays(conn[c], v, dev[conn[c].id], allocated)
    BY <1>1, <2>2, SameSession, ConnFacts DEF ConnType
  <2>4. FromDevice(v.pending_data.body, dev, allocated)
    BY ConnFacts DEF ConnType
  <2> HIDE DEF v
  <2> QED
    BY <1>1, <2>1, <2>2, <2>3, <2>4, SameSessionInv
<1> QED
  BY <1>2, <1>3

\* send_data reads a data message: it is acknowledged and kept, or a duplicate.
LEMMA SendGetsDataInv ==
    ASSUME Inv, NEW c \in Conns, SendGetsData(c)
    PROVE  Inv'
<1> DEFINE s == [conn[c] EXCEPT !.send_seq = Flip(@), !.pc = "recv"]
           v == IF seq_of(got.ctrl) = s.recv_seq
                THEN [s EXCEPT !.recv_seq = Flip(@), !.pending_data = got] ELSE s
<1>1. conn[c].pc = "send" /\ HostReads /\ UNCHANGED result
  BY ReadsAndAcks DEF SendGetsData
<1>2. conn' = [conn EXCEPT ![c] = v]
  BY DEF SendGetsData
<1>3. got \in FrameType /\ FromDevice(got.body, dev, allocated)
  BY GotFacts DEF SendGetsData, Reads
<1>4. s \in ConnType
  BY ConnFacts, FlipBit, ZenonT(30) DEF ConnType
<1>5. v \in ConnType
  <2>1. [s EXCEPT !.recv_seq = Flip(@), !.pending_data = got] \in ConnType
    <3> HIDE DEF s
    <3> QED
      BY <1>3, <1>4, FlipBit DEF ConnType
  <2> QED
    BY <1>4, <2>1
<1>6. v.pending_data \in {got, conn[c].pending_data} /\ v.pc = "recv" /\ v.id = conn[c].id /\ v.cid = conn[c].cid
      /\ v.phase = conn[c].phase /\ v.nonce_send = conn[c].nonce_send /\ v.nonce_recv = conn[c].nonce_recv
      /\ v.request = conn[c].request
  BY ConnFacts DEF ConnType
<1> HIDE DEF v, s
<1>7. Stays(conn[c], v, dev[conn[c].id], allocated)
  BY <1>1, <1>5, <1>6, SameSession
<1>8. FromDevice(v.pending_data.body, dev, allocated)
  BY <1>3, <1>6, ConnFacts
<1> QED
  BY <1>1, <1>2, <1>5, <1>7, <1>8, SameSessionInv

----------------------------------------------------------------------------
(* A message is delivered.                                                 *)

\* The arms of handshake and transceive.
LEMMA DeliverCases ==
    ASSUME NEW c, NEW s, NEW body, Deliver(c, s, body)
    PROVE  \/ /\ s.phase = "init" /\ read_init_response(c, body)
              /\ conn' = [conn EXCEPT ![c] = [s EXCEPT !.phase = "completion", !.pc = "idle"]]
              /\ UNCHANGED result
           \/ /\ s.phase = "completion" /\ read_completion_response(c, body)
              /\ conn' = [conn EXCEPT ![c] = [from_handshake(s) EXCEPT !.pc = "idle"]]
              /\ UNCHANGED result
           \/ /\ s.phase = "app" /\ open(c, body)
              /\ conn' = [conn EXCEPT ![c] = [s EXCEPT !.nonce_recv = @ + 1, !.pc = "button"]]
              /\ UNCHANGED result
           \/ /\ s.phase = "app" /\ open(c, body)
              /\ conn' = [conn EXCEPT ![c] = [s EXCEPT !.nonce_recv = @ + 1, !.pc = "idle"]]
              /\ result' = [result EXCEPT ![c] =
                              [kind |-> "ok", id |-> s.id, asked |-> s.request, body |-> body]]
           \/ Drop(c, decode_failure(body.msg), body)
           \/ Drop(c, "Thp", Empty)
<1> HIDE DEF read_init_response, read_completion_response, open, from_handshake, Drop, decode_failure
<1> QED
  BY DEF Deliver

\* A message that opens answers the request under way: the device has taken
\* the request, and nothing since.
LEMMA OpensToMine ==
    ASSUME Inv, NEW c \in Conns, conn[c].pc = "recv", conn[c].phase = "app",
           NEW body \in BodyType, FromDevice(body, dev, allocated), open(c, body)
    PROVE  /\ body.id = conn[c].id /\ body.re = conn[c].request
           /\ conn[c].nonce_send = dev[conn[c].id].nonce_recv /\ conn[c].request = dev[conn[c].id].request
           /\ conn[c].nonce_recv + 1 = dev[conn[c].id].nonce_send
<1> DEFINE s == conn[c]
           d == dev[conn[c].id]
<1>1. /\ s.nonce_send \in Nat /\ s.nonce_recv \in Nat /\ d.nonce_send \in Nat /\ d.nonce_recv \in Nat
      /\ body.nonce \in Nat
  BY ConnFacts DEF ConnType, DevType, BodyType
<1>2. d.nonce_send = d.nonce_recv + 1 /\ s.nonce_recv = s.nonce_send
      /\ (d.nonce_recv + 1 = s.nonce_send \/ (d.nonce_recv = s.nonce_send /\ d.request = s.request))
  BY ConnFacts DEF InSession
<1>3. body.id = s.id /\ body.nonce = s.nonce_recv /\ body.nonce < d.nonce_send
      /\ (body.nonce + 1 = d.nonce_send => body.re = d.request)
  BY DEF open, FromDevice
<1> HIDE DEF s, d
<1>4. d.nonce_recv + 1 # s.nonce_send
  BY <1>1, <1>2, <1>3
<1>5. d.nonce_recv = s.nonce_send /\ d.request = s.request
  BY <1>2, <1>4
<1>6. body.nonce + 1 = d.nonce_send
  BY <1>2, <1>3, <1>5
<1> QED
  BY <1>2, <1>3, <1>5, <1>6 DEF s, d

\* What handshake and transceive do with a message preserves the invariant.
LEMMA DeliverInv ==
    ASSUME Inv, NEW c \in Conns, conn[c].pc = "recv", NEW s \in ConnType, s.pc = "recv", s.id = conn[c].id,
           s.cid = conn[c].cid, s.phase = conn[c].phase, s.nonce_send = conn[c].nonce_send,
           s.nonce_recv = conn[c].nonce_recv, s.request = conn[c].request,
           FromDevice(s.pending_data.body, dev, allocated),
           NEW body \in BodyType, FromDevice(body, dev, allocated), HostReads, Deliver(c, s, body)
    PROVE  Inv'
<1> DEFINE d == dev[conn[c].id]
<1>1. InSession(conn[c], d) /\ conn[c].cid = conn[c].id /\ conn[c].id \in 1 .. allocated
  BY ConnFacts
<1>2. CASE s.phase = "init" /\ read_init_response(c, body)
           /\ conn' = [conn EXCEPT ![c] = [s EXCEPT !.phase = "completion", !.pc = "idle"]] /\ UNCHANGED result
  <2> DEFINE v == [s EXCEPT !.phase = "completion", !.pc = "idle"]
  <2>1. v \in ConnType
    BY DEF ConnType, Phases
  <2>2. v.pc = "idle" /\ v.phase = "completion" /\ v.id = s.id /\ v.cid = s.cid /\ v.pending_data = s.pending_data
    BY DEF ConnType
  <2>3. conn' = [conn EXCEPT ![c] = v]
    BY <1>2
  <2> HIDE DEF v
  <2>4. Stays(conn[c], v, d, allocated)
    BY <1>1, <1>2, <2>2 DEF Stays, InSession
  <2> QED
    BY <1>2, <2>1, <2>2, <2>3, <2>4, SameSessionInv
<1>3. CASE s.phase = "completion" /\ read_completion_response(c, body)
           /\ conn' = [conn EXCEPT ![c] = [from_handshake(s) EXCEPT !.pc = "idle"]] /\ UNCHANGED result
  <2> DEFINE v == [from_handshake(s) EXCEPT !.pc = "idle"]
  <2>1. v \in ConnType
    BY DEF ConnType, Phases, from_handshake
  <2>2. /\ v.pc = "idle" /\ v.phase = "app" /\ v.id = s.id /\ v.cid = s.cid /\ v.pending_data = s.pending_data
        /\ v.nonce_send = 0 /\ v.nonce_recv = 1
    BY DEF ConnType, from_handshake
  <2>3. conn' = [conn EXCEPT ![c] = v]
    BY <1>3
  <2> HIDE DEF v
  <2>4. d.phase = "app" /\ d.nonce_recv = 0 /\ d.nonce_send = 1
    BY <1>1, <1>3 DEF read_completion_response, FromDevice, InSession
  <2>5. Stays(conn[c], v, d, allocated)
    BY <1>1, <1>3, <2>2, <2>4 DEF Stays, InSession
  <2> QED
    BY <1>3, <2>1, <2>2, <2>3, <2>5, SameSessionInv
<1>4. ASSUME s.phase = "app", open(c, body), NEW pc \in {"idle", "button"},
             conn' = [conn EXCEPT ![c] = [s EXCEPT !.nonce_recv = @ + 1, !.pc = pc]],
             \/ UNCHANGED result
             \/ result' = [result EXCEPT ![c] = [kind |-> "ok", id |-> s.id, asked |-> s.request, body |-> body]]
      PROVE  Inv'
  <2> DEFINE v == [s EXCEPT !.nonce_recv = @ + 1, !.pc = pc]
  <2>1. v \in ConnType
    <3>1. s.nonce_recv + 1 \in Nat /\ pc \in {"closed", "alloc", "idle", "send", "recv", "button"}
      BY DEF ConnType
    <3> QED
      BY <3>1 DEF ConnType
  <2>2. /\ v.pc = pc /\ v.phase = "app" /\ v.id = s.id /\ v.cid = s.cid /\ v.pending_data = s.pending_data
        /\ v.nonce_send = s.nonce_send /\ v.nonce_recv = s.nonce_recv + 1 /\ v.request = s.request
    BY <1>4 DEF ConnType
  <2>3. conn' = [conn EXCEPT ![c] = v]
    BY <1>4
  <2> HIDE DEF v
  <2>4. body.id = s.id /\ body.re = s.request /\ s.nonce_send = d.nonce_recv /\ s.nonce_recv + 1 = d.nonce_send
        /\ s.request = d.request
    BY <1>4, OpensToMine
  <2>5. d.phase = "app" /\ d.nonce_send = d.nonce_recv + 1
    BY <1>1, <1>4 DEF InSession
  <2>6. Stays(conn[c], v, d, allocated)
    <3>1. InSession(v, d)
      BY <1>4, <2>2, <2>4, <2>5 DEF InSession
    <3> QED
      BY <1>1, <1>4, <2>2, <3>1 DEF Stays
  <2>7. result' \in [Conns -> ResultType] /\ ReplyIsMine'
    <3>1. [kind |-> "ok", id |-> s.id, asked |-> s.request, body |-> body] \in ResultType
      BY DEF ResultType, ConnType
    <3>2. result \in [Conns -> ResultType] /\ ReplyIsMine
      BY DEF Inv, TypeOK
    <3>3. CASE UNCHANGED result
      BY ONLY <3>2, <3>3 DEF ReplyIsMine
    <3>4. CASE result' = [result EXCEPT ![c] = [kind |-> "ok", id |-> s.id, asked |-> s.request, body |-> body]]
      <4>1. PICK x : x = [kind |-> "ok", id |-> s.id, asked |-> s.request, body |-> body]
        OBVIOUS
      <4>2. x \in ResultType /\ x.body.id = x.id /\ x.body.re = x.asked
        BY ONLY <2>4, <3>1, <4>1
      <4>3. c \in Conns /\ result' = [result EXCEPT ![c] = x]
        BY <3>4, <4>1
      <4> QED
        BY ONLY <3>2, <4>2, <4>3 DEF ReplyIsMine
    <3> QED
      BY <1>4, <3>3, <3>4
  <2> QED
    BY <2>1, <2>2, <2>3, <2>6, <2>7, HostStep
<1>5. CASE Drop(c, decode_failure(body.msg), body)
  BY <1>5, DropInv DEF decode_failure
<1>6. CASE Drop(c, "Thp", Empty)
  BY <1>6, DropInv, Values
<1> QED
  BY <1>2, <1>3, <1>4, <1>5, <1>6, DeliverCases

\* recv_data takes the frame that send_data kept.
LEMMA RecvPendingInv ==
    ASSUME Inv, NEW c \in Conns, RecvPending(c)
    PROVE  Inv'
<1> DEFINE s == [conn[c] EXCEPT !.pending_data = NoFrame]
           body == conn[c].pending_data.body
<1>1. conn[c].pc = "recv" /\ HostReads
  BY DEF RecvPending, HostReads
<1>2. Deliver(c, s, body)
  BY DEF RecvPending
<1>3. s \in ConnType /\ s.pc = "recv" /\ s.id = conn[c].id /\ s.cid = conn[c].cid /\ s.phase = conn[c].phase
      /\ s.nonce_send = conn[c].nonce_send /\ s.nonce_recv = conn[c].nonce_recv /\ s.request = conn[c].request
      /\ s.pending_data = NoFrame
  BY <1>1, ConnFacts, Values DEF ConnType
<1>4. body \in BodyType /\ FromDevice(body, dev, allocated)
  BY ConnFacts DEF ConnType, FrameType
<1> HIDE DEF s, body
<1>5. FromDevice(s.pending_data.body, dev, allocated)
  BY <1>3, Values DEF FromDevice
<1> QED
  BY <1>1, <1>2, <1>3, <1>4, <1>5, DeliverInv

\* recv_data reads a data message.
LEMMA RecvDataInv ==
    ASSUME Inv, NEW c \in Conns, RecvData(c)
    PROVE  Inv'
<1>1. conn[c].pc = "recv" /\ HostReads
  BY ReadsAndAcks DEF RecvData
<1>2. CASE seq_of(got.ctrl) # conn[c].recv_seq
  BY <1>1, <1>2, IgnoredInv DEF RecvData
<1>3. CASE seq_of(got.ctrl) = conn[c].recv_seq
  <2> DEFINE s == [conn[c] EXCEPT !.recv_seq = Flip(@)]
  <2>1. Deliver(c, s, got.body)
    BY <1>3 DEF RecvData
  <2>2. s \in ConnType
    BY ConnFacts, FlipBit DEF ConnType
  <2>3. s.pc = "recv" /\ s.id = conn[c].id /\ s.cid = conn[c].cid /\ s.phase = conn[c].phase
        /\ s.nonce_send = conn[c].nonce_send /\ s.nonce_recv = conn[c].nonce_recv /\ s.request = conn[c].request
        /\ s.pending_data = conn[c].pending_data
    BY <1>1, ConnFacts DEF ConnType
  <2>4. got.body \in BodyType /\ FromDevice(got.body, dev, allocated)
    BY GotFacts DEF RecvData, Reads
  <2> HIDE DEF s
  <2>5. FromDevice(s.pending_data.body, dev, allocated)
    BY <2>3, ConnFacts
  <2> QED
    BY <1>1, <2>1, <2>2, <2>3, <2>4, <2>5, DeliverInv
<1> QED
  BY <1>2, <1>3

\* The steps that skip a frame, end a connection or fail.
LEMMA EndsInv ==
    ASSUME Inv, NEW c \in Conns, RecvSkipsAck(c) \/ TransportFails(c) \/ ReadsError(c) \/ Close(c)
    PROVE  Inv'
<1>1. CASE RecvSkipsAck(c)
  BY <1>1, ReadsOnly, IgnoredInv DEF RecvSkipsAck
<1>2. CASE TransportFails(c)
  BY <1>2, DropInv, Values DEF TransportFails, HostReads
<1>3. CASE ReadsError(c)
  BY <1>3, DropInv, Values DEF ReadsError, HostReads
<1>4. CASE Close(c)
  BY <1>4, GoneInv DEF Close, HostReads
<1> QED
  BY <1>1, <1>2, <1>3, <1>4

----------------------------------------------------------------------------
(* A connection is opened, or sends.                                       *)

\* The connection that was opened.
LEMMA OpenFacts ==
    ASSUME Inv, NEW c \in Conns, Open(c)
    PROVE  /\ opened' = opened + 1 /\ UNCHANGED <<sealed, d2h, dev, allocated>>
           /\ conn[c].pc = "closed" /\ opened \in Nat /\ opened < MaxOpens /\ MaxOpens \in Nat
           /\ conn'[c] \in ConnType /\ conn'[c].pc = "alloc" /\ conn'[c].id = opened + 1
           /\ conn'[c].phase = "init" /\ conn'[c].pending_data = NoFrame
           /\ conn' \in [Conns -> ConnType] /\ \A d \in Conns : d # c => conn'[d] = conn[d]
<1> DEFINE v == [Closed EXCEPT !.pc = "alloc", !.id = opened + 1]
<1>1. opened \in Nat /\ MaxOpens \in Nat /\ opened < MaxOpens /\ conn[c].pc = "closed"
  BY ConnectionAssumption DEF Inv, TypeOK, Open
<1>2. v \in ConnType
  <2>1. opened + 1 \in 0 .. MaxOpens
    BY <1>1
  <2> QED
    BY <2>1, Values DEF ConnType
<1>3. v.pc = "alloc" /\ v.id = opened + 1 /\ v.phase = "init" /\ v.pending_data = NoFrame
  BY DEF Closed
<1>4. conn' = [conn EXCEPT ![c] = v] /\ conn \in [Conns -> ConnType]
  BY DEF Open, Inv, TypeOK
<1> HIDE DEF v
<1>5. conn' \in [Conns -> ConnType] /\ conn'[c] = v /\ \A d \in Conns : d # c => conn'[d] = conn[d]
  BY <1>2, <1>4
<1> QED
  BY <1>1, <1>2, <1>3, <1>5 DEF Open

\* Connection::new: the connection takes the next id and asks for a channel.
LEMMA OpenInv ==
    ASSUME Inv, NEW c \in Conns, Open(c)
    PROVE  Inv'
<1> DEFINE f == Frame(CHANNEL_ALLOCATION_REQUEST, BROADCAST_CID, Body("nonce", opened + 1, 0, "none", 0))
<1>1. f \in FrameType /\ f.ctrl = CHANNEL_ALLOCATION_REQUEST /\ f.body.kind = "nonce" /\ f.body.id = opened + 1
  <2>1. Body("nonce", opened + 1, 0, "none", 0) \in BodyType
    BY OpenFacts DEF Body, BodyType, Kinds, Messages
  <2> QED
    BY <2>1, ControlBytes, ConnectionAssumption DEF Frame, FrameType, BROADCAST_CID, Body
<1>2. h2d' = Append(h2d, f) /\ h2d \in Seq(FrameType)
  BY DEF Open, Inv, TypeOK
<1> HIDE DEF f
<1>3. /\ h2d' \in Seq(FrameType) /\ Len(h2d) \in Nat /\ DOMAIN h2d = 1 .. Len(h2d)
      /\ DOMAIN h2d' = 1 .. Len(h2d) + 1 /\ h2d'[Len(h2d) + 1] = f
      /\ \A k \in DOMAIN h2d : h2d'[k] = h2d[k]
      /\ \A k \in DOMAIN h2d' : k \in DOMAIN h2d \/ k = Len(h2d) + 1
  BY <1>1, <1>2, AppendFacts
<1>4. TypeOK'
  <2>1. result' \in [Conns -> ResultType]
    BY Values DEF Open, Inv, TypeOK
  <2>2. opened' \in 0 .. MaxOpens
    BY OpenFacts
  <2> QED
    BY <1>3, <2>1, <2>2, OpenFacts DEF Inv, TypeOK
<1>5. Channels'
  <2>1. \A d \in Conns : conn[d].pc # "closed" => conn[d].id \in 1 .. opened
    BY DEF Inv, Channels
  <2>2. opened + 1 \in 1 .. opened' /\ opened + 1 \notin 1 .. opened /\ \A n \in 1 .. opened : n \in 1 .. opened'
    BY OpenFacts
  <2>3. allocated' <= opened'
    BY OpenFacts DEF Inv, Channels, TypeOK
  <2>4. \A d, e \in Conns :
          conn'[d].pc # "closed" /\ conn'[e].pc # "closed" /\ conn'[d].id = conn'[e].id => d = e
    BY <2>1, <2>2, OpenFacts DEF Inv, Channels
  <2> QED
    BY <2>1, <2>2, <2>3, <2>4, OpenFacts DEF Inv, Channels
<1>6. Allocations'
  <2>1. \A k \in DOMAIN h2d : Requested(k)' = Requested(k) /\ k \in DOMAIN h2d' /\ k < Len(h2d) + 1
    BY <1>3 DEF Requested
  <2>0. PICK l \in Nat : l = Len(h2d) + 1
    BY <1>3
  <2>2. Requested(l)' /\ h2d'[l].body.id = opened + 1 /\ l \in DOMAIN h2d'
    BY <1>1, <1>3, <2>0 DEF Requested
  <2> HIDE DEF Requested
  <2>3. \A k \in DOMAIN h2d : Requested(k) => h2d[k].body.id \in allocated + 1 .. opened
    BY DEF Inv, Allocations
  <2>4. \A n : n \in allocated + 1 .. opened => n \in allocated' + 1 .. opened' /\ n < opened + 1
    BY OpenFacts DEF Inv, TypeOK
  <2>5. opened + 1 \in allocated' + 1 .. opened'
        /\ \A n \in allocated' + 1 .. opened' : n \in allocated + 1 .. opened \/ n = opened + 1
    BY OpenFacts DEF Inv, TypeOK, Channels
  <2>6. \A k \in DOMAIN h2d' : Requested(k)' => h2d'[k].body.id \in allocated' + 1 .. opened'
    BY <1>3, <2>0, <2>1, <2>2, <2>3, <2>4, <2>5
  <2>7. \A j, k \in DOMAIN h2d' : j < k /\ Requested(j)' /\ Requested(k)' => h2d'[j].body.id < h2d'[k].body.id
    <3> SUFFICES ASSUME NEW j \in DOMAIN h2d', NEW k \in DOMAIN h2d', j < k, Requested(j)', Requested(k)'
                 PROVE  h2d'[j].body.id < h2d'[k].body.id
      OBVIOUS
    <3>1. j \in DOMAIN h2d
      BY <1>3
    <3>2. CASE k \in DOMAIN h2d
      BY <1>3, <2>1, <3>1, <3>2 DEF Inv, Allocations
    <3>3. CASE k = l
      BY <1>3, <2>1, <2>2, <2>3, <2>4, <3>1, <3>3
    <3> QED
      BY <1>3, <2>0, <3>2, <3>3
  <2>8. \A n \in allocated' + 1 .. opened' : \E k \in DOMAIN h2d' : Requested(k)' /\ h2d'[k].body.id = n
    <3> SUFFICES ASSUME NEW n \in allocated' + 1 .. opened'
                 PROVE  \E k \in DOMAIN h2d' : Requested(k)' /\ h2d'[k].body.id = n
      OBVIOUS
    <3>1. CASE n = opened + 1
      BY <2>2, <3>1
    <3>2. CASE n \in allocated + 1 .. opened
      <4>1. PICK k \in DOMAIN h2d : Requested(k) /\ h2d[k].body.id = n
        BY <3>2 DEF Inv, Allocations
      <4> QED
        BY <1>3, <2>1, <4>1
    <3> QED
      BY <2>5, <3>1, <3>2
  <2> QED
    BY <2>6, <2>7, <2>8, OpenFacts DEF Inv, Allocations
<1>7. Link'
  <2>1. \A k \in DOMAIN h2d' : FromHost(h2d'[k], opened', allocated')
    <3>1. \A g : FromHost(g, opened, allocated) => FromHost(g, opened', allocated')
      BY OpenFacts DEF FromHost
    <3>2. FromHost(f, opened', allocated')
      BY <1>1 DEF FromHost
    <3> QED
      BY <1>3, <3>1, <3>2 DEF Inv, Link
  <2>2. FromDevice(NoFrame.body, dev, allocated)
    BY Values DEF FromDevice
  <2> QED
    BY <2>1, <2>2, OpenFacts DEF Inv, Link
<1>8. Sessions'
  <2>1. dev[opened + 1] = Unused
    <3>1. opened + 1 \in allocated + 1 .. MaxOpens
      BY OpenFacts DEF Inv, Channels, TypeOK
    <3> QED
      BY <3>1 DEF Inv, Allocations
  <2>2. InSession(conn'[c], dev[conn'[c].id])
    BY <2>1, OpenFacts, Values DEF InSession
  <2> QED
    BY <2>2, OpenFacts DEF Inv, Sessions
<1>9. \A x : x.id \in 0 .. opened => ~Owns(conn'[c], x)
  BY OpenFacts DEF Owns
<1>10. Sealings'
  <2>1. \A x \in sealed : x.id \in 0 .. opened /\ x.id \in 1 .. opened'
    BY OpenFacts DEF Inv, Sealings
  <2> QED
    BY <1>9, <2>1, OpenFacts DEF Inv, Sealings
<1>11. UnderWay'
  <2>1. \A k \in DOMAIN h2d' : h2d'[k].body.kind = "app" => k \in DOMAIN h2d /\ h2d'[k] = h2d[k]
    BY <1>1, <1>3
  <2>2. \A k \in DOMAIN h2d : h2d[k].body.kind = "app" => h2d[k].body.id \in 0 .. opened
    BY DEF Inv, Link, FromHost
  <2> SUFFICES ASSUME NEW k \in DOMAIN h2d', h2d'[k].body.kind = "app", NEW d \in Conns, Owns(conn'[d], h2d'[k].body)
               PROVE  Spent(conn'[d], h2d'[k].body) /\ Current(conn'[d], dev[conn'[d].id], h2d'[k].body)
    BY OpenFacts DEF UnderWay
  <2>3. d # c
    BY <1>9, <2>1, <2>2
  <2> QED
    BY <2>1, <2>3, OpenFacts DEF Inv, UnderWay
<1>12. NonceUsedOnce' /\ ReplyIsMine'
  <2>1. sealed' = sealed
    BY DEF Open
  <2>2. result' = [result EXCEPT ![c] = NoResult] /\ result \in [Conns -> ResultType]
    BY DEF Open, Inv, TypeOK
  <2> QED
    BY <2>1, <2>2, Values DEF Inv, NonceUsedOnce, ReplyIsMine
<1> QED
  BY <1>4, <1>5, <1>6, <1>7, <1>8, <1>10, <1>11, <1>12 DEF Inv

\* The connection after send_app or a step of the handshake has written.
LEMMA SendFacts ==
    ASSUME Inv, NEW c \in Conns, Send(c)
    PROVE  /\ UNCHANGED <<result, opened, d2h, dev, allocated>>
           /\ conn[c].pc \in {"idle", "button"} /\ conn' \in [Conns -> ConnType]
           /\ \A d \in Conns : d # c => conn'[d] = conn[d]
           /\ conn'[c].pc = "send" /\ conn'[c].id = conn[c].id /\ conn'[c].cid = conn[c].cid
           /\ conn'[c].phase = conn[c].phase /\ conn'[c].pending_data = conn[c].pending_data
           /\ conn'[c].nonce_recv = conn[c].nonce_recv
           /\ conn'[c].request = IF conn[c].pc = "button" THEN conn[c].request ELSE conn[c].nonce_send
           /\ conn[c].phase = "app" => conn'[c].nonce_send = conn[c].nonce_send + 1
<1> DEFINE w == seal(c, conn[c])
           v == [w EXCEPT !.pc = "send",
                          !.request = IF conn[c].pc = "button" THEN @ ELSE conn[c].nonce_send]
<1>1. conn[c] \in ConnType /\ conn \in [Conns -> ConnType]
  BY DEF Inv, TypeOK
<1>2. /\ w \in ConnType /\ w.id = conn[c].id /\ w.cid = conn[c].cid /\ w.request = conn[c].request
      /\ w.phase = conn[c].phase /\ w.pending_data = conn[c].pending_data /\ w.nonce_recv = conn[c].nonce_recv
      /\ conn[c].phase = "app" => w.nonce_send = conn[c].nonce_send + 1
  <2>1. CASE conn[c].phase = "app"
    <3>1. w = [conn[c] EXCEPT !.nonce_send = @ + 1]
      BY <2>1 DEF seal
    <3>2. conn[c].nonce_send + 1 \in Nat
      BY <1>1 DEF ConnType
    <3> HIDE DEF w
    <3> QED
      BY <1>1, <3>1, <3>2 DEF ConnType
  <2>2. CASE conn[c].phase # "app"
    BY <1>1, <2>2 DEF seal
  <2> QED
    BY <2>1, <2>2
<1>3. conn' = [conn EXCEPT ![c] = v]
  BY DEF Send
<1> HIDE DEF w
<1>4. /\ v \in ConnType /\ v.pc = "send" /\ v.id = w.id /\ v.cid = w.cid /\ v.phase = w.phase
      /\ v.pending_data = w.pending_data /\ v.nonce_recv = w.nonce_recv /\ v.nonce_send = w.nonce_send
      /\ v.request = IF conn[c].pc = "button" THEN w.request ELSE conn[c].nonce_send
  <2>1. conn[c].nonce_send \in Nat
    BY <1>1 DEF ConnType
  <2> QED
    BY <1>2, <2>1 DEF ConnType
<1> HIDE DEF v
<1>5. conn'[c] = v /\ conn' \in [Conns -> ConnType] /\ \A d \in Conns : d # c => conn'[d] = conn[d]
  BY <1>1, <1>3, <1>4
<1> QED
  BY <1>2, <1>4, <1>5 DEF Send

\* The frame it has written.
LEMMA SentFacts ==
    ASSUME Inv, NEW c \in Conns, Send(c)
    PROVE  \E f \in FrameType :
             /\ h2d' = Append(h2d, f) /\ f.ctrl # CHANNEL_ALLOCATION_REQUEST
             /\ f.cid \in 1 .. allocated /\ f.body = Payload(c) /\ f.body.id \in 1 .. opened
             /\ f.body.kind \in {"init", "completion", "app"}
             /\ conn[c].phase # "app" => f.body.kind # "app"
             /\ conn[c].phase = "app" =>
                 /\ f.body.kind = "app" /\ f.body.id = conn[c].id /\ f.body.nonce = conn[c].nonce_send
                 /\ f.body.msg = IF conn[c].pc = "button" THEN "ButtonAck" ELSE "request"
<1> DEFINE f == Frame(with_seq(base_ctrl(conn[c].phase), conn[c].send_seq), conn[c].cid, Payload(c))
<1>1. conn[c] \in ConnType /\ conn[c].cid = conn[c].id /\ conn[c].id \in 1 .. allocated /\ conn[c].cid \in 0 .. MaxOpens
      /\ conn[c].id \in 1 .. opened
  BY ConnFacts, SendFacts DEF ConnType
<1>2. base_ctrl(conn[c].phase) \in 0 .. 4 /\ conn[c].send_seq \in {0, 1}
  BY <1>1 DEF base_ctrl, HANDSHAKE_INIT_REQUEST, HANDSHAKE_COMPLETION_REQUEST, ENCRYPTED_TRANSPORT, ConnType, Phases
<1>3. f.ctrl \in Byte /\ f.ctrl # CHANNEL_ALLOCATION_REQUEST
  BY <1>2, ControlBytes DEF Frame
<1>4. CASE conn[c].phase = "app"
  <2>1. Payload(c) = Body("app", conn[c].id, conn[c].nonce_send,
                          IF conn[c].pc = "button" THEN "ButtonAck" ELSE "request", 0)
    BY <1>4 DEF Payload, SealedBody
  <2>2. Payload(c) \in BodyType
    BY <1>1, <2>1 DEF Body, BodyType, Kinds, Messages, ConnType
  <2>3. f \in FrameType
    BY <1>1, <1>3, <2>2 DEF Frame, FrameType
  <2> QED
    BY <1>1, <1>3, <1>4, <2>1, <2>3 DEF Frame, Body, Send, Write
<1>5. CASE conn[c].phase # "app"
  <2>1. Payload(c) = Body(conn[c].phase, conn[c].id, 0, "none", 0)
    BY <1>5 DEF Payload
  <2>2. Payload(c) \in BodyType /\ conn[c].phase \in {"init", "completion"}
    BY <1>1, <1>5, <2>1 DEF Body, BodyType, Kinds, Messages, ConnType, Phases
  <2>3. f \in FrameType
    BY <1>1, <1>3, <2>2 DEF Frame, FrameType
  <2> QED
    BY <1>1, <1>3, <1>5, <2>1, <2>2, <2>3 DEF Frame, Body, Send, Write
<1> QED
  BY <1>4, <1>5

\* What has been sealed.
LEMMA SealedFacts ==
    ASSUME Inv, NEW c \in Conns, Send(c)
    PROVE  /\ sealed' \subseteq BodyType /\ IsFiniteSet(sealed')
           /\ conn[c].phase # "app" => sealed' = sealed
           /\ conn[c].phase = "app" =>
               \E x : sealed' = sealed \cup {x} /\ x.id = conn[c].id /\ x.nonce = conn[c].nonce_send
<1>1. sealed \subseteq BodyType /\ IsFiniteSet(sealed)
  BY DEF Inv, TypeOK, Sealings
<1>2. CASE conn[c].phase # "app"
  BY <1>1, <1>2 DEF Send
<1>3. CASE conn[c].phase = "app"
  <2> DEFINE n == Cardinality({y \in sealed : y.id = conn[c].id})
             x == [Payload(c) EXCEPT !.re = n]
  <2>1. n \in Nat
    <3>1. IsFiniteSet({y \in sealed : y.id = conn[c].id})
      BY <1>1, FS_Subset
    <3> QED
      BY <3>1, FS_CardinalityType
  <2>2. Payload(c) \in BodyType /\ Payload(c).id = conn[c].id /\ Payload(c).nonce = conn[c].nonce_send
    BY <1>3, SentFacts DEF FrameType
  <2>3. sealed' = sealed \cup {x}
    BY <1>3 DEF Send
  <2> HIDE DEF n
  <2>4. x \in BodyType /\ x.id = conn[c].id /\ x.nonce = conn[c].nonce_send
    BY <2>1, <2>2 DEF BodyType
  <2> HIDE DEF x
  <2>5. IsFiniteSet(sealed')
    BY <1>1, <2>3, FS_AddElement
  <2> QED
    BY <1>1, <1>3, <2>3, <2>4, <2>5
<1> QED
  BY <1>2, <1>3

\* send_app and the handshake preserve the invariant: the nonce of a message
\* is one that no message under way, and none sealed before, has.
LEMMA SendInv ==
    ASSUME Inv, NEW c \in Conns, Send(c)
    PROVE  Inv'
<1> DEFINE d == dev[conn[c].id]
<1>1. PICK f \in FrameType :
        /\ h2d' = Append(h2d, f) /\ f.ctrl # CHANNEL_ALLOCATION_REQUEST
        /\ f.cid \in 1 .. allocated /\ f.body.id \in 1 .. opened
        /\ f.body.kind \in {"init", "completion", "app"}
        /\ conn[c].phase # "app" => f.body.kind # "app"
        /\ conn[c].phase = "app" =>
            /\ f.body.kind = "app" /\ f.body.id = conn[c].id /\ f.body.nonce = conn[c].nonce_send
            /\ f.body.msg = IF conn[c].pc = "button" THEN "ButtonAck" ELSE "request"
  BY SentFacts
<1>2. /\ h2d' \in Seq(FrameType) /\ Len(h2d) \in Nat /\ DOMAIN h2d = 1 .. Len(h2d)
      /\ DOMAIN h2d' = 1 .. Len(h2d) + 1 /\ h2d'[Len(h2d) + 1] = f
      /\ \A k \in DOMAIN h2d : h2d'[k] = h2d[k]
      /\ \A k \in DOMAIN h2d' : k \in DOMAIN h2d \/ k = Len(h2d) + 1
  BY <1>1, AppendFacts DEF Inv, TypeOK
<1>3. \A k \in DOMAIN h2d : k \in DOMAIN h2d'
  BY <1>2
<1>4. conn[c] \in ConnType /\ InSession(conn[c], d) /\ conn[c].cid = conn[c].id /\ conn[c].id \in 1 .. allocated
      /\ d \in DevType
  BY ConnFacts, SendFacts
<1>5. TypeOK'
  BY <1>2, SendFacts, SealedFacts DEF Inv, TypeOK
<1>6. Channels'
  BY <1>4, SendFacts DEF Inv, Channels
<1>7. Allocations'
  <2>1. \A k \in DOMAIN h2d' : Requested(k)' => k \in DOMAIN h2d /\ Requested(k) /\ h2d'[k] = h2d[k]
    BY <1>1, <1>2 DEF Requested
  <2>2. \A k \in DOMAIN h2d : Requested(k) => k \in DOMAIN h2d' /\ Requested(k)' /\ h2d'[k] = h2d[k]
    BY <1>2, <1>3 DEF Requested
  <2> HIDE DEF Requested
  <2>3. \A j, k \in DOMAIN h2d' : j < k /\ Requested(j)' /\ Requested(k)' => h2d'[j].body.id < h2d'[k].body.id
    BY <2>1 DEF Inv, Allocations
  <2>4. \A n \in allocated + 1 .. opened : \E k \in DOMAIN h2d' : Requested(k)' /\ h2d'[k].body.id = n
    BY <2>2 DEF Inv, Allocations
  <2>5. \A k \in DOMAIN h2d' : Requested(k)' => h2d'[k].body.id \in allocated + 1 .. opened
    BY <2>1 DEF Inv, Allocations
  <2> QED
    BY <2>3, <2>4, <2>5, SendFacts DEF Inv, Allocations
<1>8. Link'
  <2>1. FromHost(f, opened, allocated)
    BY <1>1, ConnFacts DEF FromHost
  <2>2. \A k \in DOMAIN h2d' : FromHost(h2d'[k], opened, allocated)
    BY <1>2, <2>1 DEF Inv, Link
  <2> QED
    BY <2>2, SendFacts DEF Inv, Link
<1>9. conn[c].phase = "app" =>
        /\ conn'[c].nonce_send = conn[c].nonce_send + 1 /\ conn[c].nonce_send \in Nat
        /\ conn[c].nonce_send = d.nonce_recv /\ conn'[c].nonce_recv = conn'[c].nonce_send
        /\ d.phase = "app" /\ d.nonce_send = d.nonce_recv + 1 /\ d.nonce_recv + 1 = conn'[c].nonce_send
  BY <1>4, SendFacts DEF InSession, ConnType
<1>10. Sessions'
  <2>1. InSession(conn'[c], d)
    BY <1>4, <1>9, SendFacts DEF InSession
  <2> QED
    BY <2>1, SendFacts DEF Inv, Sessions
<1>11. Sealings'
  <2>1. CASE conn[c].phase # "app"
    <3>1. \A x \in sealed : ~Owns(conn[c], x)
      BY <2>1 DEF Inv, Sealings, Spent
    <3>2. \A x \in sealed : ~Owns(conn'[c], x)
      BY <3>1, SendFacts DEF Owns
    <3> QED
      BY <2>1, <3>2, SendFacts, SealedFacts DEF Inv, Sealings
  <2>2. CASE conn[c].phase = "app"
    <3>1. PICK x : sealed' = sealed \cup {x} /\ x.id = conn[c].id /\ x.nonce = conn[c].nonce_send
      BY <2>2, SealedFacts
    <3>2. x.id \in 1 .. opened
      BY <3>1, ConnFacts, SendFacts DEF Inv, Channels
    <3>3. \A e \in Conns : Owns(conn'[e], x) => Spent(conn'[e], x)
      <4>1. \A e \in Conns : Owns(conn'[e], x) => e = c
        BY <3>1, SendFacts DEF Owns, Inv, Channels
      <4>2. Spent(conn'[c], x)
        BY <1>9, <2>2, <3>1, SendFacts DEF Spent
      <4> QED
        BY <4>1, <4>2
    <3>4. \A y \in sealed : Owns(conn'[c], y) => Spent(conn'[c], y)
      <4> SUFFICES ASSUME NEW y \in sealed, Owns(conn'[c], y) PROVE Spent(conn'[c], y)
        OBVIOUS
      <4>1. Spent(conn[c], y) /\ y.nonce \in Nat
        BY SendFacts DEF Owns, Inv, Sealings, TypeOK, BodyType
      <4> QED
        BY <1>9, <2>2, <4>1, SendFacts DEF Spent
    <3>5. \A y \in sealed : y.id \in 1 .. opened /\ \A e \in Conns : Owns(conn'[e], y) => Spent(conn'[e], y)
      BY <3>4, SendFacts DEF Inv, Sealings
    <3>6. IsFiniteSet(sealed') /\ opened' = opened
      BY SealedFacts, SendFacts
    <3>7. ASSUME NEW y \in sealed'
          PROVE  y.id \in 1 .. opened' /\ \A e \in Conns : Owns(conn'[e], y) => Spent(conn'[e], y)
      <4>1. CASE y = x
        BY ONLY <3>2, <3>3, <3>6, <4>1
      <4>2. CASE y \in sealed
        BY ONLY <3>5, <3>6, <4>2
      <4> QED
        BY ONLY <3>1, <3>7, <4>1, <4>2
    <3> QED
      BY ONLY <3>6, <3>7 DEF Sealings
  <2> QED
    BY <2>1, <2>2
<1>12. UnderWay'
  <2> SUFFICES ASSUME NEW k \in DOMAIN h2d', h2d'[k].body.kind = "app", NEW e \in Conns, Owns(conn'[e], h2d'[k].body)
               PROVE  Spent(conn'[e], h2d'[k].body) /\ Current(conn'[e], dev[conn'[e].id], h2d'[k].body)
    BY SendFacts DEF UnderWay
  <2>1. CASE k \in DOMAIN h2d
    <3> DEFINE b == h2d[k].body
    <3>1. h2d'[k].body = b /\ b.nonce \in Nat
      BY <1>2, <2>1, LinkTypes DEF Inv, FrameType, BodyType
    <3>2. Owns(conn[e], b)
      BY <3>1, SendFacts DEF Owns
    <3>3. Spent(conn[e], b) /\ Current(conn[e], dev[conn[e].id], b)
      BY <2>1, <3>1, <3>2 DEF Inv, UnderWay
    <3> HIDE DEF b
    <3>4. CASE e # c
      BY <3>1, <3>3, <3>4, SendFacts
    <3>5. CASE e = c
      <4>1. conn[c].phase = "app" /\ b.nonce < conn[c].nonce_send
        BY <3>3, <3>5 DEF Spent
      <4>2. Spent(conn'[c], b) /\ Current(conn'[c], d, b)
        BY <1>9, <3>1, <4>1, SendFacts DEF Spent, Current
      <4> QED
        BY <3>1, <3>5, <4>2, SendFacts
    <3> QED
      BY <3>4, <3>5
  <2>2. CASE k = Len(h2d) + 1
    <3>1. h2d'[k] = f /\ conn[c].phase = "app"
      BY <1>1, <1>2, <2>2
    <3>2. e = c
      BY <1>1, <3>1, SendFacts DEF Owns, Inv, Channels
    <3>3. Spent(conn'[c], f.body)
      BY <1>1, <1>9, <3>1, SendFacts DEF Spent
    <3>4. Current(conn'[c], d, f.body)
      <4>1. conn[c].pc = "button" => conn[c].request = d.request
        BY <1>4, <3>1 DEF InSession
      <4>2. conn'[c].request = IF f.body.msg = "request" THEN f.body.nonce ELSE d.request
        BY <1>1, <3>1, <4>1, SendFacts
      <4> QED
        BY <4>2, SendFacts DEF Current
    <3> QED
      BY <3>1, <3>2, <3>3, <3>4, SendFacts
  <2> QED
    BY <1>2, <2>1, <2>2
<1>13. NonceUsedOnce'
  <2>1. CASE conn[c].phase # "app"
    BY <2>1, SealedFacts DEF Inv, NonceUsedOnce
  <2>2. CASE conn[c].phase = "app"
    <3>1. PICK x : sealed' = sealed \cup {x} /\ x.id = conn[c].id /\ x.nonce = conn[c].nonce_send
      BY <2>2, SealedFacts
    <3>2. \A y \in sealed : y.id = conn[c].id => y.nonce \in Nat /\ y.nonce < conn[c].nonce_send
      BY SendFacts DEF Inv, Sealings, Owns, Spent, TypeOK, BodyType
    <3>3. \A y \in sealed : y.id = x.id => y.nonce # x.nonce
      BY <1>9, <2>2, <3>1, <3>2
    <3> QED
      BY <3>1, <3>3 DEF Inv, NonceUsedOnce
  <2> QED
    BY <2>1, <2>2
<1>14. ReplyIsMine'
  BY SendFacts DEF Inv, ReplyIsMine
<1> QED
  BY <1>5, <1>6, <1>7, <1>8, <1>10, <1>11, <1>12, <1>13, <1>14 DEF Inv

----------------------------------------------------------------------------
(* Steps of the device.                                                    *)

\* How a channel of the device changes: it never goes back to the handshake,
\* and has one request more or the same one.
Evolves(d, e) ==
    /\ d.phase \in {"completion", "app"} => e.phase \in {"completion", "app"}
    /\ d.phase = "app" =>
        /\ e.phase = "app"
        /\ (e.nonce_send = d.nonce_send /\ e.request = d.request) \/ e.nonce_send = d.nonce_send + 1

\* Both ends of channel i still fit when its state is e.
Fits(i, e) ==
    \A c \in Conns : conn[c].pc # "closed" /\ conn[c].id = i =>
        /\ InSession(conn[c], e)
        /\ \A k \in DOMAIN h2d' : h2d'[k].body.kind = "app" /\ Owns(conn[c], h2d'[k].body) =>
              Current(conn[c], e, h2d'[k].body)

\* What the device puts on the link, and the case of acks and errors.
Writes ==
    /\ d2h' \in Seq(FrameType)
    /\ \A k \in DOMAIN d2h' : (k \in DOMAIN d2h /\ d2h'[k] = d2h[k]) \/ FromDevice(d2h'[k].body, dev', allocated')
WritesEmpty ==
    /\ d2h' \in Seq(FrameType)
    /\ \A k \in DOMAIN d2h' : (k \in DOMAIN d2h /\ d2h'[k] = d2h[k]) \/ d2h'[k].body = Empty

\* What was said of a message of the device stays true.
LEMMA FromDeviceStays ==
    ASSUME Inv, NEW i \in 1 .. MaxOpens, NEW e \in DevType, dev' = [dev EXCEPT ![i] = e], Evolves(dev[i], e),
           allocated' \in allocated .. MaxOpens, NEW b \in BodyType, FromDevice(b, dev, allocated)
    PROVE  FromDevice(b, dev', allocated')
<1>1. dev \in [1 .. MaxOpens -> DevType] /\ allocated \in 0 .. MaxOpens /\ MaxOpens \in Nat
  BY ConnectionAssumption DEF Inv, TypeOK
<1>2. \A n \in 1 .. allocated : n \in 1 .. allocated' /\ n \in 1 .. MaxOpens
  BY <1>1
<1>3. dev'[i] = e /\ \A n \in 1 .. MaxOpens : n # i => dev'[n] = dev[n]
  BY <1>1
<1>4. CASE b.kind = "none"
  BY <1>4 DEF FromDevice
<1>5. CASE b.kind # "none" /\ b.id # i
  BY <1>2, <1>3, <1>5 DEF FromDevice
<1>6. CASE b.kind # "none" /\ b.id = i
  <2>1. b.id \in 1 .. allocated' /\ dev'[b.id] = e
    BY <1>2, <1>3, <1>6 DEF FromDevice
  <2>2. CASE b.kind = "app_response"
    <3>1. dev[i].phase = "app" /\ b.nonce < dev[i].nonce_send /\ (b.nonce + 1 = dev[i].nonce_send => b.re = dev[i].request)
      BY <1>6, <2>2 DEF FromDevice
    <3>2. b.nonce \in Nat /\ dev[i].nonce_send \in Nat
      BY <1>1 DEF BodyType, DevType
    <3>3. e.phase = "app" /\ b.nonce < e.nonce_send /\ (b.nonce + 1 = e.nonce_send => b.re = e.request)
      BY <3>1, <3>2 DEF Evolves
    <3> QED
      BY <2>1, <2>2, <3>3 DEF FromDevice
  <2>3. CASE b.kind # "app_response"
    BY <1>6, <2>1, <2>3 DEF FromDevice, Evolves
  <2> QED
    BY <2>2, <2>3
<1> QED
  BY <1>4, <1>5, <1>6

\* The device takes a frame off the link and changes one channel, from d to e.
LEMMA DeviceStep ==
    ASSUME Inv, NEW i \in 1 .. MaxOpens, NEW e \in DevType, dev' = [dev EXCEPT ![i] = e], Evolves(dev[i], e),
           UNCHANGED <<conn, result, opened, sealed>>, h2d # <<>>, h2d' = Tail(h2d),
           allocated' \in allocated .. opened, Allocations',
           FromDevice(e.out.body, dev', allocated'), Writes, Fits(i, e)
    PROVE  Inv'
<1>1. /\ dev \in [1 .. MaxOpens -> DevType] /\ allocated \in 0 .. MaxOpens /\ MaxOpens \in Nat
      /\ opened \in 0 .. MaxOpens /\ h2d \in Seq(FrameType)
  BY ConnectionAssumption DEF Inv, TypeOK
<1>2. allocated' \in allocated .. MaxOpens /\ allocated' \in 0 .. MaxOpens /\ allocated' <= opened
      /\ \A n \in 1 .. allocated : n \in 1 .. allocated'
  BY <1>1
<1>3. dev' \in [1 .. MaxOpens -> DevType] /\ dev'[i] = e /\ \A n \in 1 .. MaxOpens : n # i => dev'[n] = dev[n]
  BY <1>1
<1>4. h2d' \in Seq(FrameType) /\ \A k \in DOMAIN h2d' : k + 1 \in DOMAIN h2d /\ h2d'[k] = h2d[k + 1]
  BY <1>1, TailFacts
<1>5. TypeOK'
  BY <1>2, <1>3, <1>4 DEF Inv, TypeOK, Writes
<1>6. Channels'
  BY <1>2 DEF Inv, Channels
<1>7. Link'
  <2>1. \A b \in BodyType : FromDevice(b, dev, allocated) => FromDevice(b, dev', allocated')
    BY <1>2, FromDeviceStays
  <2>2. \A k \in DOMAIN h2d' : FromHost(h2d'[k], opened', allocated')
    <3>1. \A f : FromHost(f, opened, allocated) => FromHost(f, opened', allocated')
      BY <1>2 DEF FromHost
    <3> QED
      BY <1>4, <3>1 DEF Inv, Link
  <2>3. \A k \in DOMAIN d2h' : FromDevice(d2h'[k].body, dev', allocated')
    <3>1. \A k \in DOMAIN d2h : FromDevice(d2h[k].body, dev, allocated) /\ d2h[k].body \in BodyType
      BY LinkTypes DEF Inv, Link, FrameType
    <3> QED
      BY <2>1, <3>1 DEF Writes
  <2>4. \A c \in Conns : FromDevice(conn'[c].pending_data.body, dev', allocated')
    <3>1. \A c \in Conns : FromDevice(conn[c].pending_data.body, dev, allocated) /\ conn[c].pending_data.body \in BodyType
      BY DEF Inv, Link, TypeOK, ConnType, FrameType
    <3> QED
      BY <2>1, <3>1
  <2>5. \A n \in 1 .. MaxOpens : FromDevice(dev'[n].out.body, dev', allocated')
    <3>1. \A n \in 1 .. MaxOpens : FromDevice(dev[n].out.body, dev, allocated) /\ dev[n].out.body \in BodyType
      BY <1>1 DEF Inv, Link, DevType, FrameType
    <3> QED
      BY <1>3, <2>1, <3>1
  <2> QED
    BY <2>2, <2>3, <2>4, <2>5 DEF Link
<1>8. \A c \in Conns : conn[c].pc # "closed" => conn[c].id \in 1 .. MaxOpens
  BY ConnFacts
<1>9. Sessions'
  BY <1>3, <1>8 DEF Inv, Sessions, Fits
<1>10. Sealings'
  BY DEF Inv, Sealings
<1>11. UnderWay'
  <2> SUFFICES ASSUME NEW k \in DOMAIN h2d', h2d'[k].body.kind = "app", NEW c \in Conns, Owns(conn[c], h2d'[k].body)
               PROVE  Spent(conn[c], h2d'[k].body) /\ Current(conn[c], dev'[conn[c].id], h2d'[k].body)
    BY DEF UnderWay
  <2>1. Spent(conn[c], h2d'[k].body) /\ Current(conn[c], dev[conn[c].id], h2d'[k].body)
    BY <1>4 DEF Inv, UnderWay
  <2>2. conn[c].pc # "closed"
    BY DEF Owns
  <2>3. CASE conn[c].id = i
    BY <1>3, <2>1, <2>2, <2>3 DEF Fits
  <2>4. CASE conn[c].id # i
    BY <1>3, <1>8, <2>1, <2>2, <2>4
  <2> QED
    BY <2>3, <2>4
<1>12. NonceUsedOnce' /\ ReplyIsMine'
  BY DEF Inv, NonceUsedOnce, ReplyIsMine
<1> QED
  BY <1>5, <1>6, <1>7, <1>9, <1>10, <1>11, <1>12 DEF Inv

\* The frame the device takes next.
LEMMA TakenFacts ==
    ASSUME Inv, h2d # <<>>
    PROVE  /\ taken = h2d[1] /\ 1 \in DOMAIN h2d /\ taken \in FrameType /\ taken.body \in BodyType
           /\ taken.ctrl # CHANNEL_ALLOCATION_REQUEST =>
               /\ taken.cid \in 1 .. allocated /\ taken.cid \in 1 .. MaxOpens
               /\ dev[taken.cid] \in DevType /\ dev[taken.cid].id = taken.cid
<1>1. taken = h2d[1] /\ 1 \in DOMAIN h2d
  BY TailFacts DEF Inv, TypeOK, taken
<1>2. taken \in FrameType /\ taken.body \in BodyType /\ FromHost(taken, opened, allocated)
  BY <1>1, LinkTypes DEF Inv, Link, FrameType
<1>3. allocated \in 0 .. MaxOpens /\ MaxOpens \in Nat
  BY ConnectionAssumption DEF Inv, TypeOK
<1> QED
  BY <1>1, <1>2, <1>3 DEF FromHost, Inv, Allocations, TypeOK

\* Requests for channels stay as they are when another frame is taken.
LEMMA AllocationsStay ==
    ASSUME Inv, h2d # <<>>, h2d' = Tail(h2d), taken.ctrl # CHANNEL_ALLOCATION_REQUEST,
           UNCHANGED <<opened, allocated>>, NEW i \in 1 .. allocated, NEW e, e.id = i,
           dev' = [dev EXCEPT ![i] = e]
    PROVE  Allocations'
<1>1. h2d \in Seq(FrameType) /\ dev \in [1 .. MaxOpens -> DevType] /\ allocated \in 0 .. MaxOpens /\ MaxOpens \in Nat
  BY ConnectionAssumption DEF Inv, TypeOK
<1>2. /\ \A k \in DOMAIN h2d' : k + 1 \in DOMAIN h2d /\ h2d'[k] = h2d[k + 1] /\ k \in Nat
      /\ \A k \in DOMAIN h2d : k = 1 \/ (k - 1 \in DOMAIN h2d' /\ h2d'[k - 1] = h2d[k])
  <2>1. h2d' \in Seq(FrameType)
    BY <1>1, TailFacts
  <2> QED
    BY <1>1, <2>1, TailFacts
<1>3. ~Requested(1)
  BY TakenFacts DEF Requested
<1>4. \A n \in 1 .. allocated : dev'[n].id = n
  BY <1>1 DEF Inv, Allocations
<1>5. \A n \in allocated + 1 .. MaxOpens : dev'[n] = Unused
  BY <1>1 DEF Inv, Allocations
<1>6. \A k \in DOMAIN h2d' : Requested(k)' => h2d'[k].body.id \in allocated + 1 .. opened
  BY <1>2 DEF Inv, Allocations, Requested
<1>7. \A j, k \in DOMAIN h2d' : j < k /\ Requested(j)' /\ Requested(k)' => h2d'[j].body.id < h2d'[k].body.id
  <2> SUFFICES ASSUME NEW j \in DOMAIN h2d', NEW k \in DOMAIN h2d', j < k, Requested(j)', Requested(k)'
               PROVE  h2d'[j].body.id < h2d'[k].body.id
    OBVIOUS
  <2>1. Requested(j + 1) /\ Requested(k + 1) /\ j + 1 < k + 1
    BY <1>2 DEF Requested
  <2> QED
    BY <1>2, <2>1 DEF Inv, Allocations
<1>8. \A n \in allocated + 1 .. opened : \E k \in DOMAIN h2d' : Requested(k)' /\ h2d'[k].body.id = n
  <2> SUFFICES ASSUME NEW n \in allocated + 1 .. opened
               PROVE  \E k \in DOMAIN h2d' : Requested(k)' /\ h2d'[k].body.id = n
    OBVIOUS
  <2>1. PICK k \in DOMAIN h2d : Requested(k) /\ h2d[k].body.id = n
    BY DEF Inv, Allocations
  <2>2. k - 1 \in DOMAIN h2d' /\ h2d'[k - 1] = h2d[k]
    BY <1>2, <1>3, <2>1
  <2> QED
    BY <2>1, <2>2 DEF Requested
<1> QED
  BY <1>4, <1>5, <1>6, <1>7, <1>8 DEF Allocations

\* A channel that keeps its session: only the ABP of it moves.
LEMMA SameChannel ==
    ASSUME Inv, h2d # <<>>, h2d' = Tail(h2d), taken.ctrl # CHANNEL_ALLOCATION_REQUEST,
           UNCHANGED <<conn, result, opened, sealed, allocated>>,
           NEW e \in DevType, dev' = [dev EXCEPT ![taken.cid] = e], e.id = taken.cid,
           e.phase = dev[taken.cid].phase, e.nonce_send = dev[taken.cid].nonce_send,
           e.nonce_recv = dev[taken.cid].nonce_recv, e.request = dev[taken.cid].request,
           e.out \in {dev[taken.cid].out, NoFrame}, WritesEmpty
    PROVE  Inv'
<1>0. PICK i \in 1 .. MaxOpens : i = taken.cid
  BY TakenFacts
<1>1. i \in 1 .. allocated /\ dev[i] \in DevType /\ dev' = [dev EXCEPT ![i] = e]
  BY <1>0, TakenFacts
<1>2. Allocations'
  BY <1>0, <1>1, AllocationsStay
<1>3. Evolves(dev[i], e)
  BY <1>0 DEF Evolves
<1>4. allocated' \in allocated .. opened /\ allocated' \in allocated .. MaxOpens
  BY ConnectionAssumption DEF Inv, Channels, TypeOK
<1>5. FromDevice(Empty, dev', allocated')
  BY Values DEF FromDevice
<1>6. FromDevice(e.out.body, dev', allocated')
  <2>1. CASE e.out = NoFrame
    BY <2>1, <1>5, Values
  <2>2. CASE e.out = dev[i].out
    <3>1. dev[i].out.body \in BodyType /\ FromDevice(dev[i].out.body, dev, allocated)
      BY <1>1 DEF DevType, FrameType, Inv, Link
    <3> QED
      BY <1>1, <1>3, <1>4, <2>2, <3>1, FromDeviceStays
  <2> QED
    BY <1>0, <2>1, <2>2
<1>7. Fits(i, e)
  <2> SUFFICES ASSUME NEW c \in Conns, conn[c].pc # "closed", conn[c].id = i
               PROVE  /\ InSession(conn[c], e)
                      /\ \A k \in DOMAIN h2d' : h2d'[k].body.kind = "app" /\ Owns(conn[c], h2d'[k].body) =>
                            Current(conn[c], e, h2d'[k].body)
    BY DEF Fits
  <2>1. InSession(conn[c], dev[i])
    BY ConnFacts
  <2>2. InSession(conn[c], e)
    BY <1>0, <2>1 DEF InSession
  <2>3. \A k \in DOMAIN h2d' : k + 1 \in DOMAIN h2d /\ h2d'[k] = h2d[k + 1]
    BY TailFacts DEF Inv, TypeOK
  <2>4. \A k \in DOMAIN h2d' : h2d'[k].body.kind = "app" /\ Owns(conn[c], h2d'[k].body) =>
              Current(conn[c], dev[i], h2d'[k].body)
    BY <2>3 DEF Inv, UnderWay
  <2>5. \A b : Current(conn[c], dev[i], b) => Current(conn[c], e, b)
    BY <1>0 DEF Current
  <2> QED
    BY <2>2, <2>4, <2>5
<1>8. Writes
  BY <1>5 DEF Writes, WritesEmpty
<1> QED
  BY <1>1, <1>2, <1>3, <1>4, <1>6, <1>7, <1>8, DeviceStep

\* An ack reaches the device.
LEMMA DevGetsAckInv ==
    ASSUME Inv, DevGetsAck
    PROVE  Inv'
<1> DEFINE d == dev[taken.cid]
           f == [d EXCEPT !.out = NoFrame, !.send_seq = Flip(@)]
<1>1. h2d # <<>> /\ h2d' = Tail(h2d) /\ UNCHANGED <<conn, result, opened, sealed, d2h, allocated>>
      /\ taken.ctrl # CHANNEL_ALLOCATION_REQUEST
  BY ControlBytes DEF DevGetsAck
<1>2. d \in DevType /\ d.id = taken.cid /\ taken.cid \in 1 .. MaxOpens /\ dev \in [1 .. MaxOpens -> DevType]
  BY <1>1, TakenFacts DEF Inv, TypeOK
<1>3. dev' = [dev EXCEPT ![taken.cid] = d] \/ dev' = [dev EXCEPT ![taken.cid] = f]
  BY <1>2 DEF DevGetsAck
<1>4. WritesEmpty
  BY <1>1 DEF Inv, TypeOK, WritesEmpty
<1>5. f \in DevType /\ f.id = d.id /\ f.phase = d.phase /\ f.nonce_send = d.nonce_send /\ f.nonce_recv = d.nonce_recv
      /\ f.request = d.request /\ f.out = NoFrame
  BY <1>2, FlipBit, Values DEF DevType
<1> HIDE DEF f, d
<1>6. CASE dev' = [dev EXCEPT ![taken.cid] = d]
  BY <1>1, <1>2, <1>4, <1>6, SameChannel DEF d
<1>7. CASE dev' = [dev EXCEPT ![taken.cid] = f]
  BY <1>1, <1>2, <1>4, <1>5, <1>7, SameChannel DEF d
<1> QED
  BY <1>3, <1>6, <1>7

\* A channel is allocated to the connection whose request is first: the next
\* channel has its number.
LEMMA DevAllocatesInv ==
    ASSUME Inv, DevAllocates
    PROVE  Inv'
<1>1. h2d # <<>> /\ taken.ctrl = CHANNEL_ALLOCATION_REQUEST /\ h2d' = Tail(h2d) /\ allocated' = allocated + 1
      /\ UNCHANGED <<conn, result, opened, sealed>>
  BY DEF DevAllocates
<1>2. /\ h2d \in Seq(FrameType) /\ d2h \in Seq(FrameType) /\ dev \in [1 .. MaxOpens -> DevType]
      /\ allocated \in 0 .. MaxOpens /\ opened \in 0 .. MaxOpens /\ MaxOpens \in Nat
  BY ConnectionAssumption DEF Inv, TypeOK
<1>3. /\ taken = h2d[1] /\ 1 \in DOMAIN h2d /\ \A k \in DOMAIN h2d : k \in Nat /\ (k = 1 \/ k > 1)
      /\ \A k \in DOMAIN h2d' : k + 1 \in DOMAIN h2d /\ h2d'[k] = h2d[k + 1]
      /\ \A k \in DOMAIN h2d : k = 1 \/ (k - 1 \in DOMAIN h2d' /\ h2d'[k - 1] = h2d[k])
  BY <1>1, <1>2, TailFacts DEF taken
<1>4. \A k \in DOMAIN h2d' : k \in Nat /\ k >= 1
  <2>1. h2d' \in Seq(FrameType)
    BY <1>1, <1>2, TailFacts
  <2> QED
    BY <2>1
<1>5. Requested(1)
  BY <1>1, <1>3 DEF Requested
<1>6. taken.body.id = allocated + 1 /\ allocated + 1 \in 1 .. MaxOpens /\ allocated + 1 \in allocated + 1 .. opened
  <2>1. h2d[1].body.id \in allocated + 1 .. opened
    BY <1>3, <1>5 DEF Inv, Allocations
  <2>2. allocated + 1 \in allocated + 1 .. opened
    BY <1>2, <2>1
  <2>3. PICK k \in DOMAIN h2d : Requested(k) /\ h2d[k].body.id = allocated + 1
    BY <2>2 DEF Inv, Allocations
  <2>4. k # 1 => h2d[1].body.id < allocated + 1
    BY <1>3, <1>5, <2>3 DEF Inv, Allocations
  <2> QED
    BY <1>2, <1>3, <2>1, <2>2, <2>3, <2>4
<1>7. PICK i \in 1 .. MaxOpens : i = allocated + 1
  BY <1>6
<1> DEFINE e == [Unused EXCEPT !.id = i]
<1>8. dev[i] = Unused
  BY <1>2, <1>7 DEF Inv, Allocations
<1>9. dev' = [dev EXCEPT ![i] = e]
  BY <1>2, <1>6, <1>7, <1>8 DEF DevAllocates
<1>10. /\ e \in DevType /\ e.id = i /\ e.phase = Unused.phase /\ e.nonce_send = Unused.nonce_send
       /\ e.nonce_recv = Unused.nonce_recv /\ e.request = Unused.request /\ e.out = NoFrame
  <2>1. Unused \in DevType /\ Unused.out = NoFrame /\ i \in 0 .. MaxOpens
    BY ConnectionAssumption, Values
  <2>2. e \in DevType
    BY ONLY <2>1 DEF DevType
  <2>3. /\ e.id = i /\ e.phase = Unused.phase /\ e.nonce_send = Unused.nonce_send
        /\ e.nonce_recv = Unused.nonce_recv /\ e.request = Unused.request /\ e.out = Unused.out
    BY ONLY <2>1 DEF DevType
  <2> QED
    BY ONLY <2>1, <2>2, <2>3
<1> HIDE DEF e
<1>11. allocated' \in allocated .. opened
  BY <1>1, <1>2, <1>6
<1>12. Allocations'
  <2>1. \A n \in 1 .. allocated' : dev'[n].id = n
    <3>1. \A n \in 1 .. allocated' : n \in 1 .. MaxOpens /\ (n \in 1 .. allocated \/ n = i)
      BY <1>1, <1>2, <1>6, <1>7
    <3> QED
      BY <1>2, <1>9, <1>10, <3>1 DEF Inv, Allocations
  <2>2. \A n \in allocated' + 1 .. MaxOpens : dev'[n] = Unused
    <3>1. \A n \in allocated' + 1 .. MaxOpens : n \in 1 .. MaxOpens /\ n \in allocated + 1 .. MaxOpens /\ n # i
      BY <1>1, <1>2, <1>6, <1>7
    <3> QED
      BY <1>2, <1>9, <3>1 DEF Inv, Allocations
  <2>3. \A k \in DOMAIN h2d' : Requested(k)' => h2d'[k].body.id \in allocated' + 1 .. opened'
    <3> SUFFICES ASSUME NEW k \in DOMAIN h2d', Requested(k)' PROVE h2d'[k].body.id \in allocated' + 1 .. opened'
      OBVIOUS
    <3>1. Requested(k + 1) /\ 1 < k + 1 /\ k + 1 \in DOMAIN h2d /\ h2d'[k] = h2d[k + 1]
      BY <1>3, <1>4 DEF Requested
    <3>2. h2d[k + 1].body.id \in allocated + 1 .. opened /\ h2d[1].body.id < h2d[k + 1].body.id
      BY <1>3, <1>5, <3>1 DEF Inv, Allocations
    <3> QED
      BY <1>1, <1>2, <1>3, <1>6, <3>1, <3>2
  <2>4. \A j, k \in DOMAIN h2d' : j < k /\ Requested(j)' /\ Requested(k)' => h2d'[j].body.id < h2d'[k].body.id
    <3> SUFFICES ASSUME NEW j \in DOMAIN h2d', NEW k \in DOMAIN h2d', j < k, Requested(j)', Requested(k)'
                 PROVE  h2d'[j].body.id < h2d'[k].body.id
      OBVIOUS
    <3>1. Requested(j + 1) /\ Requested(k + 1) /\ j + 1 < k + 1
      BY <1>3, <1>4 DEF Requested
    <3> QED
      BY <1>3, <3>1 DEF Inv, Allocations
  <2>5. \A n \in allocated' + 1 .. opened' : \E k \in DOMAIN h2d' : Requested(k)' /\ h2d'[k].body.id = n
    <3> SUFFICES ASSUME NEW n \in allocated' + 1 .. opened'
                 PROVE  \E k \in DOMAIN h2d' : Requested(k)' /\ h2d'[k].body.id = n
      OBVIOUS
    <3>1. n \in allocated + 1 .. opened /\ n # allocated + 1
      BY <1>1, <1>2
    <3>2. PICK k \in DOMAIN h2d : Requested(k) /\ h2d[k].body.id = n
      BY <3>1 DEF Inv, Allocations
    <3>3. k - 1 \in DOMAIN h2d' /\ h2d'[k - 1] = h2d[k]
      BY <1>3, <1>6, <3>1, <3>2
    <3> QED
      BY <3>2, <3>3 DEF Requested
  <2> QED
    BY <2>1, <2>2, <2>3, <2>4, <2>5 DEF Allocations
<1>13. Writes
  <2> DEFINE b == Body("allocation", taken.body.id, allocated + 1, "none", 0)
             f == Frame(CHANNEL_ALLOCATION_RESPONSE, BROADCAST_CID, b)
  <2>1. b \in BodyType /\ FromDevice(b, dev', allocated')
    BY <1>1, <1>2, <1>6 DEF Body, BodyType, Kinds, Messages, FromDevice
  <2>2. f \in FrameType /\ f.body = b
    BY <2>1, <1>2, ControlBytes DEF Frame, FrameType, BROADCAST_CID
  <2>3. d2h' = Append(d2h, f)
    BY DEF DevAllocates
  <2> HIDE DEF b, f
  <2> QED
    BY <1>2, <2>1, <2>2, <2>3, AppendFacts DEF Writes
<1>14. Evolves(dev[i], e)
  BY <1>8, Values DEF Evolves
<1>15. FromDevice(e.out.body, dev', allocated')
  BY <1>10, Values DEF FromDevice
<1>16. Fits(i, e)
  <2> SUFFICES ASSUME NEW c \in Conns, conn[c].pc # "closed", conn[c].id = i
               PROVE  /\ InSession(conn[c], e)
                      /\ \A k \in DOMAIN h2d' : h2d'[k].body.kind = "app" /\ Owns(conn[c], h2d'[k].body) =>
                            Current(conn[c], e, h2d'[k].body)
    BY DEF Fits
  <2>1. InSession(conn[c], Unused)
    BY <1>8, ConnFacts
  <2>2. conn[c].phase # "app" /\ InSession(conn[c], e)
    BY <1>10, <2>1, Values DEF InSession
  <2>3. \A k \in DOMAIN h2d' : h2d'[k].body.kind = "app" => ~Owns(conn[c], h2d'[k].body)
    BY <1>3, <2>2 DEF Inv, UnderWay, Spent
  <2> QED
    BY <2>2, <2>3
<1> QED
  BY <1>1, <1>9, <1>10, <1>11, <1>12, <1>13, <1>14, <1>15, <1>16, DeviceStep

\* The device sends an answer it holds.
LEMMA DevSendsInv ==
    ASSUME Inv, NEW i \in 1 .. MaxOpens, DevSends(i)
    PROVE  Inv'
<1>1. d2h' = Append(d2h, dev[i].out) /\ UNCHANGED <<conn, result, opened, sealed, h2d, dev, allocated>>
  BY DEF DevSends
<1>2. dev[i].out \in FrameType /\ FromDevice(dev[i].out.body, dev, allocated) /\ d2h \in Seq(FrameType)
  BY DEF Inv, TypeOK, DevType, Link
<1>3. d2h' \in Seq(FrameType) /\ \A k \in DOMAIN d2h' : (k \in DOMAIN d2h /\ d2h'[k] = d2h[k]) \/ d2h'[k] = dev[i].out
  BY <1>1, <1>2, AppendFacts
<1>4. TypeOK'
  BY <1>1, <1>3 DEF Inv, TypeOK
<1>5. Link'
  BY <1>1, <1>2, <1>3 DEF Inv, Link
<1>6. Channels' /\ Allocations' /\ Sessions'
  BY <1>1 DEF Inv, Channels, Allocations, Requested, Sessions
<1>7. Sealings' /\ UnderWay' /\ NonceUsedOnce' /\ ReplyIsMine'
  BY <1>1 DEF Inv, Sealings, UnderWay, NonceUsedOnce, ReplyIsMine
<1> QED
  BY <1>4, <1>5, <1>6, <1>7 DEF Inv

\* The answer of the device to a message it accepts.
LEMMA AnswerFacts ==
    ASSUME NEW s \in DevType, NEW body \in BodyType, NEW answer \in Answers(s, body)
    PROVE  /\ answer \in BodyType /\ answer.id = s.id
           /\ s.phase = "init" => answer.kind = "init_response"
           /\ s.phase = "completion" => answer.kind = "completion_response"
           /\ s.phase = "app" =>
               /\ answer.kind = "app_response" /\ answer.nonce = s.nonce_send
               /\ answer.re = IF body.msg = "request" THEN body.nonce ELSE s.request
<1>1. s.id \in Nat /\ s.nonce_send \in Nat /\ s.request \in Nat /\ body.nonce \in Nat
  BY ConnectionAssumption DEF DevType, BodyType
<1>2. CASE s.phase = "init"
  <2>1. answer = Body("init_response", s.id, 0, "none", 0)
    BY <1>2 DEF Answers
  <2> QED
    BY <1>1, <1>2, <2>1 DEF Body, BodyType, Kinds, Messages
<1>3. CASE s.phase = "completion"
  <2>1. answer = Body("completion_response", s.id, 0, "none", 0)
    BY <1>3 DEF Answers
  <2> QED
    BY <1>1, <1>3, <2>1 DEF Body, BodyType, Kinds, Messages
<1>4. CASE s.phase = "app"
  <2>1. PICK msg \in {"reply"} \cup FailureCodes \cup {"ButtonRequest"} :
          answer = Body("app_response", s.id, s.nonce_send, msg, IF body.msg = "request" THEN body.nonce ELSE s.request)
    BY <1>4 DEF Answers
  <2> QED
    BY <1>1, <1>4, <2>1 DEF Body, BodyType, Kinds, Messages
<1> QED
  BY <1>2, <1>3, <1>4 DEF DevType, Phases

\* The channel after an answer.
Answered(s, e, answer) ==
    /\ e.id = s.id /\ e.phase = (IF s.phase = "init" THEN "completion" ELSE "app")
    /\ e.nonce_recv = (IF s.phase = "app" THEN s.nonce_recv + 1 ELSE 0)
    /\ e.nonce_send = (IF s.phase = "app" THEN s.nonce_send + 1 ELSE 1)
    /\ e.request = answer.re /\ e.out.body = answer

\* The device accepts a message: it is the one under way of its connection,
\* and both ends move on together.
LEMMA DevAcceptsInv ==
    ASSUME Inv, h2d # <<>>, taken.ctrl # CHANNEL_ALLOCATION_REQUEST, h2d' = Tail(h2d),
           UNCHANGED <<conn, result, opened, sealed, allocated>>,
           NEW s \in DevType, s = dev[taken.cid], DevAccepts(s, taken.body),
           NEW answer \in Answers(s, taken.body), NEW e \in DevType, dev' = [dev EXCEPT ![taken.cid] = e],
           Answered(s, e, answer), WritesEmpty
    PROVE  Inv'
<1> DEFINE body == taken.body
<1>0. PICK i \in 1 .. MaxOpens : i = taken.cid
  BY TakenFacts
<1>1. i \in 1 .. allocated /\ s = dev[i] /\ s.id = i /\ dev' = [dev EXCEPT ![i] = e] /\ dev'[i] = e
  BY <1>0, TakenFacts DEF Inv, TypeOK
<1>2. body \in BodyType /\ taken = h2d[1] /\ 1 \in DOMAIN h2d
  BY TakenFacts
<1>3. s.nonce_recv \in Nat /\ s.nonce_send \in Nat /\ s.phase \in Phases /\ body.nonce \in Nat
  BY <1>2 DEF DevType, BodyType
<1>4. Allocations'
  <2>1. UNCHANGED <<opened, allocated>> /\ e.id = i
    BY <1>1 DEF Answered
  <2> QED
    BY <1>1, <2>1, AllocationsStay, Zenon
<1>5. Evolves(dev[i], e)
  BY <1>1, <1>3 DEF Evolves, Answered
<1>6. allocated' \in allocated .. opened
  BY ConnectionAssumption DEF Inv, Channels, TypeOK
<1>7. FromDevice(e.out.body, dev', allocated')
  <2>1. answer.id = i /\ answer.id \in 1 .. allocated'
    BY <1>1, <1>2, AnswerFacts
  <2>2. CASE s.phase = "init"
    BY <1>1, <1>2, <2>1, <2>2, AnswerFacts DEF FromDevice, Answered
  <2>3. CASE s.phase = "completion"
    BY <1>1, <1>2, <2>1, <2>3, AnswerFacts DEF FromDevice, Answered
  <2>4. CASE s.phase = "app"
    <3>1. answer.kind = "app_response" /\ answer.nonce = s.nonce_send
      BY <1>2, <2>4, AnswerFacts
    <3>2. answer.nonce < e.nonce_send /\ e.phase = "app" /\ answer.re = e.request
      BY <1>3, <2>4, <3>1 DEF Answered
    <3> QED
      BY <1>1, <2>1, <3>1, <3>2 DEF FromDevice, Answered
  <2> QED
    BY <1>3, <2>2, <2>3, <2>4 DEF Phases
<1>8. Writes
  BY Values DEF FromDevice, Writes, WritesEmpty
<1>9. Fits(i, e)
  <2> SUFFICES ASSUME NEW c \in Conns, conn[c].pc # "closed", conn[c].id = i
               PROVE  /\ InSession(conn[c], e)
                      /\ \A k \in DOMAIN h2d' : h2d'[k].body.kind = "app" /\ Owns(conn[c], h2d'[k].body) =>
                            Current(conn[c], e, h2d'[k].body)
    BY DEF Fits
  <2>1. InSession(conn[c], s) /\ conn[c] \in ConnType
    BY <1>1, ConnFacts
  <2>2. \A k \in DOMAIN h2d' : k + 1 \in DOMAIN h2d /\ h2d'[k] = h2d[k + 1]
    BY TailFacts DEF Inv, TypeOK
  <2>3. \A k \in DOMAIN h2d' : h2d'[k].body.kind = "app" /\ Owns(conn[c], h2d'[k].body) =>
          Spent(conn[c], h2d'[k].body) /\ h2d'[k].body.nonce \in Nat
    <3>1. \A k \in DOMAIN h2d : h2d[k].body.nonce \in Nat
      BY LinkTypes DEF Inv, FrameType, BodyType
    <3>2. \A k \in DOMAIN h2d : h2d[k].body.kind = "app" /\ Owns(conn[c], h2d[k].body) => Spent(conn[c], h2d[k].body)
      BY DEF Inv, UnderWay
    <3> QED
      BY <2>2, <3>1, <3>2, Zenon
  <2>4. CASE s.phase # "app"
    <3>1. conn[c].phase # "app"
      BY <2>1, <2>4 DEF InSession
    <3>2. InSession(conn[c], e)
      BY <1>3, <2>4, <3>1 DEF InSession, Phases, Answered
    <3> QED
      BY <2>3, <3>1, <3>2 DEF Spent
  <2>5. CASE s.phase = "app"
    <3>1. body.kind = "app" /\ body.id = s.id /\ body.nonce = s.nonce_recv
      BY <2>5 DEF DevAccepts
    <3>2. Spent(conn[c], body) /\ Current(conn[c], s, body)
      BY <1>1, <1>2, <3>1 DEF Inv, UnderWay, Owns
    <3>3. /\ conn[c].phase = "app" /\ conn[c].pc \in {"send", "recv"} /\ body.nonce < conn[c].nonce_send
          /\ conn[c].request = IF body.msg = "request" THEN body.nonce ELSE s.request
      BY <3>1, <3>2 DEF Spent, Current
    <3>4. /\ conn[c].nonce_send \in Nat /\ conn[c].nonce_recv = conn[c].nonce_send /\ s.nonce_send = s.nonce_recv + 1
          /\ s.nonce_recv + 1 = conn[c].nonce_send \/ s.nonce_recv = conn[c].nonce_send
      BY <2>1, <3>3 DEF InSession, ConnType
    <3>5. s.nonce_recv + 1 = conn[c].nonce_send
      BY <1>3, <3>1, <3>3, <3>4
    <3>6. e.request = conn[c].request
      BY <1>2, <2>5, <3>3, AnswerFacts DEF Answered
    <3>7. e.nonce_recv = conn[c].nonce_send /\ e.nonce_send = e.nonce_recv + 1 /\ e.phase = "app"
      BY <1>3, <2>5, <3>4, <3>5 DEF Answered
    <3>8. InSession(conn[c], e)
      BY <3>3, <3>4, <3>6, <3>7 DEF InSession
    <3>9. \A k \in DOMAIN h2d' : h2d'[k].body.kind = "app" /\ Owns(conn[c], h2d'[k].body) =>
              Current(conn[c], e, h2d'[k].body)
      BY <2>3, <3>4, <3>7 DEF Spent, Current
    <3> QED
      BY <3>8, <3>9
  <2> QED
    BY <2>4, <2>5
<1>10. UNCHANGED <<conn, result, opened, sealed>>
  OBVIOUS
<1> QED
  BY <1>1, <1>4, <1>5, <1>6, <1>7, <1>8, <1>9, <1>10, DeviceStep

\* A data message reaches the device: a duplicate is dropped, another one
\* refused, or accepted and answered.
LEMMA DevTakesInv ==
    ASSUME Inv, DevTakes
    PROVE  Inv'
<1> DEFINE s == dev[taken.cid]
<1>1. h2d # <<>> /\ taken.ctrl # CHANNEL_ALLOCATION_REQUEST /\ h2d' = Tail(h2d)
      /\ UNCHANGED <<conn, result, opened, sealed, allocated>>
  BY DEF DevTakes
<1>2. /\ s \in DevType /\ s.id = taken.cid /\ taken.cid \in 0 .. MaxOpens /\ taken.body \in BodyType
      /\ dev = [dev EXCEPT ![taken.cid] = s] /\ d2h \in Seq(FrameType)
  BY <1>1, TakenFacts DEF Inv, TypeOK, FrameType
<1>3. ASSUME NEW ctrl \in Byte, d2h' = Append(d2h, Frame(ctrl, taken.cid, Empty))
      PROVE  WritesEmpty
  <2> DEFINE f == Frame(ctrl, taken.cid, Empty)
  <2>1. f \in FrameType /\ f.body = Empty
    BY <1>2, <1>3, Values DEF Frame, FrameType
  <2> HIDE DEF f
  <2>2. d2h' = Append(d2h, f)
    BY <1>3 DEF f
  <2> QED
    BY <1>2, <2>1, <2>2, AppendFacts DEF WritesEmpty
<1>4. d2h' = d2h => WritesEmpty
  BY <1>2 DEF WritesEmpty
<1>5. CASE UNCHANGED dev /\ (d2h' = d2h \/ d2h' = Append(d2h, Frame(TRANSPORT_ERROR, taken.cid, Empty)))
  <2>1. WritesEmpty
    BY <1>3, <1>4, <1>5, ControlBytes
  <2>2. dev' = [dev EXCEPT ![taken.cid] = s]
    BY <1>2, <1>5
  <2> QED
    BY <1>1, <1>2, <2>1, <2>2, SameChannel
<1>6. ASSUME NEW answer \in Answers(s, taken.body), NEW acks \in BOOLEAN, DevAccepts(s, taken.body),
             d2h' = IF acks THEN Append(d2h, Frame(ack_for(s.recv_seq), taken.cid, Empty)) ELSE d2h,
             dev' = [dev EXCEPT ![taken.cid] =
                        [s EXCEPT !.recv_seq = Flip(@),
                                  !.phase = IF @ = "init" THEN "completion" ELSE "app",
                                  !.nonce_recv = IF s.phase = "app" THEN @ + 1 ELSE 0,
                                  !.nonce_send = IF s.phase = "app" THEN @ + 1 ELSE 1,
                                  !.request = answer.re,
                                  !.out = Frame(with_seq(reply_ctrl(s.phase), s.send_seq), taken.cid, answer)]]
      PROVE  Inv'
  <2> DEFINE g == Frame(with_seq(reply_ctrl(s.phase), s.send_seq), taken.cid, answer)
             e == [s EXCEPT !.recv_seq = Flip(@),
                            !.phase = IF @ = "init" THEN "completion" ELSE "app",
                            !.nonce_recv = IF s.phase = "app" THEN @ + 1 ELSE 0,
                            !.nonce_send = IF s.phase = "app" THEN @ + 1 ELSE 1,
                            !.request = answer.re,
                            !.out = g]
  <2>1. WritesEmpty
    <3>1. CASE acks
      BY <1>3, <1>6, <3>1, ControlBytes
    <3>2. CASE ~acks
      BY <1>4, <1>6, <3>2
    <3> QED
      BY <3>1, <3>2
  <2>2. answer \in BodyType /\ answer.re \in Nat
    BY <1>2, <1>6, AnswerFacts DEF BodyType
  <2>3. g \in FrameType /\ g.body = answer
    <3>1. reply_ctrl(s.phase) \in 0 .. 4 /\ s.send_seq \in {0, 1}
      BY <1>2 DEF reply_ctrl, HANDSHAKE_INIT_RESPONSE, HANDSHAKE_COMPLETION_RESPONSE, ENCRYPTED_TRANSPORT, DevType, Phases
    <3>2. with_seq(reply_ctrl(s.phase), s.send_seq) \in Byte
      BY <3>1, ControlBytes
    <3> QED
      BY <1>2, <2>2, <3>2 DEF Frame, FrameType
  <2>4. dev' = [dev EXCEPT ![taken.cid] = e]
    BY <1>6
  <2> HIDE DEF g
  <2>5. Answered(s, e, answer)
    BY <1>2, <2>3 DEF DevType, Answered
  <2>6. e \in DevType
    <3>1. Flip(s.recv_seq) \in {0, 1} /\ (IF s.phase = "init" THEN "completion" ELSE "app") \in Phases
      BY <1>2, FlipBit DEF DevType, Phases
    <3>2. s.nonce_recv \in Nat /\ s.nonce_send \in Nat
      BY <1>2, Zenon DEF DevType
    <3>3. PICK k, j : /\ k = (IF s.phase = "app" THEN s.nonce_recv + 1 ELSE 0)
                      /\ j = (IF s.phase = "app" THEN s.nonce_send + 1 ELSE 1)
      OBVIOUS
    <3>4. k \in Nat /\ j \in Nat
      BY ONLY <3>2, <3>3
    <3>5. PICK p : p = (IF s.phase = "init" THEN "completion" ELSE "app")
      OBVIOUS
    <3>6. e = [s EXCEPT !.recv_seq = Flip(@), !.phase = p, !.nonce_recv = k, !.nonce_send = j,
                        !.request = answer.re, !.out = g]
      BY ONLY <3>3, <3>5, Zenon DEF e
    <3>7. s \in DevType /\ Flip(s.recv_seq) \in {0, 1} /\ p \in Phases /\ answer.re \in Nat /\ g \in FrameType
      BY <1>2, <2>2, <2>3, <3>1, <3>5
    <3> HIDE DEF e, s
    <3> QED
      BY ONLY <3>4, <3>6, <3>7 DEF DevType
  <2> HIDE DEF e, s
  <2>7. s = dev[taken.cid]
    BY DEF s
  <2> QED
    BY <1>1, <1>2, <1>6, <2>1, <2>4, <2>5, <2>6, <2>7, DevAcceptsInv
<1> QED
  BY <1>5, <1>6 DEF DevTakes

----------------------------------------------------------------------------
(* The invariant, and what follows from it.                                *)

\* Before the first connection.
LEMMA InitInv == Init => Inv
<1> SUFFICES ASSUME Init PROVE Inv
  OBVIOUS
<1>1. MaxOpens \in Nat /\ IsFiniteSet({}) /\ DOMAIN h2d = {} /\ DOMAIN d2h = {}
      /\ h2d \in Seq(FrameType) /\ d2h \in Seq(FrameType)
  BY ConnectionAssumption, FS_EmptySet DEF Init
<1>2. TypeOK
  BY <1>1, Values DEF Init, TypeOK
<1>3. \A d, n : FromDevice(NoFrame.body, d, n)
  BY Values DEF FromDevice
<1>4. Channels /\ Allocations /\ Sessions
  BY <1>1, Values DEF Init, Channels, Allocations, Sessions, Closed
<1>5. Link
  BY <1>1, <1>3, Values DEF Init, Link
<1>6. Sealings /\ UnderWay /\ NonceUsedOnce /\ ReplyIsMine
  BY <1>1, Values DEF Init, Sealings, UnderWay, NonceUsedOnce, ReplyIsMine
<1> QED
  BY <1>2, <1>4, <1>5, <1>6 DEF Inv

\* Every step preserves the invariant.
LEMMA NextInv == Inv /\ [Next]_vars => Inv'
<1> SUFFICES ASSUME Inv, [Next]_vars PROVE Inv'
  OBVIOUS
<1>1. CASE UNCHANGED vars
  BY <1>1 DEF Inv, TypeOK, Channels, Allocations, Requested, Link, Sessions, Sealings, UnderWay,
              NonceUsedOnce, ReplyIsMine, vars
<1>2. ASSUME NEW c \in Conns,
             \/ Open(c) \/ Allocated(c) \/ AllocSkips(c) \/ Send(c) \/ SendGetsAck(c) \/ SendGetsData(c)
             \/ RecvPending(c) \/ RecvSkipsAck(c) \/ RecvData(c) \/ TransportFails(c) \/ ReadsError(c) \/ Close(c)
      PROVE  Inv'
  BY <1>2, OpenInv, AllocatedInv, AllocSkipsInv, SendInv, SendGetsAckInv, SendGetsDataInv, RecvPendingInv,
     RecvDataInv, EndsInv
<1>3. CASE DevAllocates \/ DevTakes \/ DevGetsAck \/ \E i \in 1 .. MaxOpens : DevSends(i)
  BY <1>3, DevAllocatesInv, DevTakesInv, DevGetsAckInv, DevSendsInv
<1> QED
  BY <1>1, <1>2, <1>3 DEF Next

\* The invariant holds in every state of every run of the connections.
LEMMA Invariance == Spec => []Inv
  BY InitInv, NextInv, PTL DEF Spec

\* Channel ids, bits, nonces and frames stay what the code declares them to
\* be, and no more channels are allocated than connections were opened.
THEOREM TypeCorrect == Spec => []TypeOK
<1>1. Inv => TypeOK
  BY DEF Inv
<1> QED
  BY <1>1, Invariance, PTL

\* No two connections write on the same channel, however often allocate reads
\* the answer to the request of another.
THEOREM ChannelsAreMine == Spec => []ChannelIsMine
<1>1. Inv => ChannelIsMine
  BY DEF Inv, Channels, Allocations, ChannelIsMine
<1> QED
  BY <1>1, Invariance, PTL

\* Session::seal never uses a key and a nonce for two messages, whatever is
\* lost, dropped or stolen.
THEOREM NoncesAreUsedOnce == Spec => []NonceUsedOnce
<1>1. Inv => NonceUsedOnce
  BY DEF Inv
<1> QED
  BY <1>1, Invariance, PTL

\* Whenever transceive may be called, or a button be acknowledged, the two
\* ends of the session agree on the nonces of the next messages.
THEOREM NoncesStayInStep == Spec => []NoncesAgree
<1>1. Inv => NoncesAgree
  <2> SUFFICES ASSUME Inv, NEW c \in Conns, conn[c].pc \in {"idle", "button"}, conn[c].phase = "app"
               PROVE  /\ conn[c].nonce_send = dev[conn[c].cid].nonce_recv
                      /\ conn[c].nonce_recv = dev[conn[c].cid].nonce_send
    BY DEF NoncesAgree
  <2> QED
    BY ConnFacts DEF InSession
<1> QED
  BY <1>1, Invariance, PTL

\* transceive returns the device's answer to the request it sent, on its own
\* channel, though read_framed hands it the frames of every connection.
THEOREM RepliesAreMine == Spec => []ReplyIsMine
<1>1. Inv => ReplyIsMine
  BY DEF Inv
<1> QED
  BY <1>1, Invariance, PTL
=============================================================================
