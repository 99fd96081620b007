----------------------------- MODULE AbpProofs -----------------------------
(***************************************************************************)
(* Proofs about the alternating-bit layer, for every number of requests,   *)
(* every queue bound and every number of lost frames.                      *)
(***************************************************************************)
EXTENDS Abp, TLAPS

----------------------------------------------------------------------------
(* Control bytes.                                                          *)

\* Sequence bits alternate (send_seq ^= 1, recv_seq ^= 1).
LEMMA BitAlternates ==
    ASSUME NEW n \in Nat
    PROVE  /\ BitFor(n) \in {0, 1}
           /\ BitFor(n + 1) = Flip(BitFor(n))
           /\ BitFor(n + 1) # BitFor(n)
  BY DEF BitFor, Flip

\* The control bytes of the data messages the channel carries are no acks
\* and no transport errors, and seq_of reads back what with_seq wrote.
LEMMA DataControl ==
    ASSUME NEW base \in 0 .. 4, NEW bit \in {0, 1}
    PROVE  LET c == with_seq(base, bit)
           IN  /\ c \in Byte
               /\ ~is_ack(c)
               /\ c # TRANSPORT_ERROR
               /\ seq_of(c) = bit
  BY DEF with_seq, is_ack, seq_of, BitOf, Byte, SEQ_BIT, ACK_BIT, ACK, TRANSPORT_ERROR

\* ack_for builds an ack that ack_seq_of reads back.
LEMMA AckControl ==
    ASSUME NEW bit \in {0, 1}
    PROVE  LET c == ack_for(bit)
           IN  /\ c \in Byte
               /\ is_ack(c)
               /\ c # TRANSPORT_ERROR
               /\ ack_seq_of(c) = bit
  BY DEF ack_for, is_ack, ack_seq_of, BitOf, Byte, ACK_BIT, ACK, TRANSPORT_ERROR

\* The transport_error byte is not an ack.
LEMMA ErrorControl ==
    TRANSPORT_ERROR \in Byte /\ ~is_ack(TRANSPORT_ERROR)
  BY DEF is_ack, BitOf, Byte, ACK_BIT, ACK, TRANSPORT_ERROR

\* seq_of and ack_seq_of read one bit of any byte.
LEMMA BitsOfByte ==
    ASSUME NEW c \in Byte
    PROVE  seq_of(c) \in {0, 1} /\ ack_seq_of(c) \in {0, 1}
  BY DEF seq_of, ack_seq_of, BitOf, Byte, SEQ_BIT, ACK_BIT

\* What the control byte tells of a frame that is what it should be.
LEMMA FrameKinds ==
    ASSUME NEW f \in Frame
    PROVE  /\ IsRequest(f) => ~is_ack(f.ctrl) /\ f.ctrl # TRANSPORT_ERROR /\ seq_of(f.ctrl) = BitFor(f.n)
           /\ IsReply(f) => ~is_ack(f.ctrl) /\ f.ctrl # TRANSPORT_ERROR /\ seq_of(f.ctrl) = BitFor(f.n)
           /\ IsAck(f) => is_ack(f.ctrl) /\ f.ctrl # TRANSPORT_ERROR /\ ack_seq_of(f.ctrl) = BitFor(f.n)
           /\ IsError(f) => ~is_ack(f.ctrl) /\ f.ctrl = TRANSPORT_ERROR
<1> f.n \in Nat
  BY DEF Frame
<1> BitFor(f.n) \in {0, 1}
  BY BitAlternates
<1> request_ctrl(f.n) \in 0 .. 4 /\ reply_ctrl(f.n) \in 0 .. 4
  BY DEF request_ctrl, reply_ctrl, HANDSHAKE_INIT_REQUEST, HANDSHAKE_COMPLETION_REQUEST,
         HANDSHAKE_INIT_RESPONSE, HANDSHAKE_COMPLETION_RESPONSE, ENCRYPTED_TRANSPORT
<1>1. IsRequest(f) => ~is_ack(f.ctrl) /\ f.ctrl # TRANSPORT_ERROR /\ seq_of(f.ctrl) = BitFor(f.n)
  BY DataControl DEF IsRequest
<1>2. IsReply(f) => ~is_ack(f.ctrl) /\ f.ctrl # TRANSPORT_ERROR /\ seq_of(f.ctrl) = BitFor(f.n)
  BY DataControl DEF IsReply
<1>3. IsAck(f) => is_ack(f.ctrl) /\ f.ctrl # TRANSPORT_ERROR /\ ack_seq_of(f.ctrl) = BitFor(f.n)
  BY AckControl DEF IsAck, AckFrame
<1>4. IsError(f) => ~is_ack(f.ctrl) /\ f.ctrl = TRANSPORT_ERROR
  BY ErrorControl DEF IsError
<1> QED BY <1>1, <1>2, <1>3, <1>4

\* The frames the two ends write.
LEMMA WrittenFrames ==
    ASSUME NEW n \in Nat, NEW bit \in {0, 1}
    PROVE  /\ [ctrl |-> with_seq(request_ctrl(n), bit), n |-> n] \in Frame
           /\ [ctrl |-> with_seq(reply_ctrl(n), bit), n |-> n] \in Frame
           /\ AckFrame(bit, n) \in Frame
           /\ [ctrl |-> TRANSPORT_ERROR, n |-> 0] \in Frame
           /\ NoFrame \in Frame
<1>1. request_ctrl(n) \in 0 .. 4 /\ reply_ctrl(n) \in 0 .. 4
  BY DEF request_ctrl, reply_ctrl, HANDSHAKE_INIT_REQUEST, HANDSHAKE_COMPLETION_REQUEST,
         HANDSHAKE_INIT_RESPONSE, HANDSHAKE_COMPLETION_RESPONSE, ENCRYPTED_TRANSPORT
<1>2. /\ with_seq(request_ctrl(n), bit) \in Byte
      /\ with_seq(reply_ctrl(n), bit) \in Byte
  BY <1>1, DataControl
<1>3. ack_for(bit) \in Byte
  BY AckControl
<1>4. TRANSPORT_ERROR \in Byte /\ 0 \in Byte
  BY ErrorControl DEF Byte
<1> QED
  BY <1>2, <1>3, <1>4 DEF Frame, AckFrame, NoFrame

----------------------------------------------------------------------------
(* Type correctness.                                                       *)

\* Every step keeps the types.
LEMMA TypeOKStep ==
    ASSUME TypeOK, [Next]_vars
    PROVE  TypeOK'
<1> USE DEF TypeOK
<1>1. CASE Send
  <2>0. asked + 1 \in Nat
    OBVIOUS
  <2>1. [ctrl |-> with_seq(request_ctrl(asked + 1), send_seq), n |-> asked + 1] \in Frame
    BY <2>0, WrittenFrames
  <2> QED
    BY <1>1, <2>1 DEF Send, devVars
<1>2. ASSUME Reads PROVE Head(d2h) \in Frame /\ Tail(d2h) \in Seq(Frame)
  BY <1>2 DEF Reads
<1>3. ASSUME Reads, send_ack(Head(d2h)) PROVE h2d' \in Seq(Frame)
  <2> DEFINE f == Head(d2h)
  <2>1. f \in Frame /\ f.ctrl \in Byte /\ f.n \in Nat
    BY <1>2, <1>3 DEF Frame
  <2>2. seq_of(f.ctrl) \in {0, 1}
    BY <2>1, BitsOfByte
  <2>3. AckFrame(seq_of(f.ctrl), f.n) \in Frame
    BY <2>1, <2>2, WrittenFrames
  <2> QED
    BY <1>3, <2>3 DEF send_ack
<1>4. CASE Host
  <2>1. CASE SendGetsAck
    BY <2>1, <1>2 DEF SendGetsAck, Reads, Flip, devVars
  <2>2. CASE SendSkipsAck
    BY <2>2, <1>2 DEF SendSkipsAck, Reads, hostVars, devVars
  <2>3. CASE SendGetsData
    BY <2>3, <1>2, <1>3 DEF SendGetsData, Reads, Flip, devVars
  <2>4. CASE RecvPending
    BY <2>4, WrittenFrames DEF RecvPending, Frame, devVars
  <2>5. CASE RecvSkipsAck
    BY <2>5, <1>2 DEF RecvSkipsAck, Reads, hostVars, devVars
  <2>6. CASE RecvData
    <3>1. Head(d2h).n \in Nat
      BY <2>6, <1>2 DEF RecvData, Frame
    <3> QED
      BY <2>6, <1>2, <1>3, <3>1 DEF RecvData, Reads, Flip, devVars
  <2>7. CASE ReadsError
    BY <2>7 DEF ReadsError, devVars
  <2> QED
    BY <1>4, <2>1, <2>2, <2>3, <2>4, <2>5, <2>6, <2>7 DEF Host
<1>5. CASE TransportFails
  BY <1>5 DEF TransportFails, devVars
<1>6. CASE LoseToDevice
  BY <1>6 DEF LoseToDevice, hostVars, devVars
<1>7. CASE LoseToHost
  BY <1>7 DEF LoseToHost, hostVars, devVars
<1>8. CASE DevTakes
  <2>0. Head(h2d) \in Frame
    BY <1>8 DEF DevTakes
  <2>1. Head(h2d).n \in Nat
    BY <2>0 DEF Frame
  <2> QED
    BY <1>8, <2>1 DEF DevTakes, Flip, hostVars
<1>9. CASE DevGetsAck
  BY <1>9 DEF DevGetsAck, Flip, hostVars
<1>10. CASE DevReplies
  <2>1. [ctrl |-> with_seq(reply_ctrl(dev_req), dev_send_seq), n |-> dev_req] \in Frame
    BY WrittenFrames
  <2> QED
    BY <1>10, <2>1 DEF DevReplies, hostVars
<1>11. CASE DevAcks
  <2>0. Flip(dev_recv_seq) \in {0, 1}
    BY DEF Flip
  <2>1. AckFrame(Flip(dev_recv_seq), dev_req) \in Frame
    BY <2>0, WrittenFrames
  <2> QED
    BY <1>11, <2>1 DEF DevAcks, hostVars, devVars
<1>12. CASE DevRetransmits
  <2>1. [ctrl |-> with_seq(reply_ctrl(dev_reply), dev_send_seq), n |-> dev_reply] \in Frame
    BY WrittenFrames
  <2> QED
    BY <1>12, <2>1 DEF DevRetransmits, hostVars, devVars
<1>13. CASE DevReportsError
  <2>1. [ctrl |-> TRANSPORT_ERROR, n |-> 0] \in Frame
    BY WrittenFrames
  <2> QED
    BY <1>13, <2>1 DEF DevReportsError, hostVars, devVars
<1>14. CASE UNCHANGED vars
  BY <1>14 DEF vars, hostVars, devVars
<1> QED
  BY <1>1, <1>4, <1>5, <1>6, <1>7, <1>8, <1>9, <1>10, <1>11, <1>12, <1>13, <1>14 DEF Next, Device

\* Type correctness of the channel: the two sequence bits stay bits, the
\* queues hold frames, pending_data a frame or none.
THEOREM TypeCorrect == Spec => []TypeOK
<1>1. Init => TypeOK
  <2>1. NoFrame \in Frame
    BY WrittenFrames
  <2> QED
    BY <2>1 DEF Init, TypeOK
<1>2. TypeOK /\ [Next]_vars => TypeOK'
  BY TypeOKStep
<1> QED
  BY <1>1, <1>2, PTL DEF Spec

----------------------------------------------------------------------------
(* The two queues.                                                         *)

\* What is in a queue are frames.
LEMMA QueueElements ==
    ASSUME NEW q \in Seq(Frame)
    PROVE  \A i \in 1 .. Len(q) : q[i] \in Frame /\ q[i].n \in Nat
<1>1. \A i \in 1 .. Len(q) : q[i] \in Frame
  OBVIOUS
<1>2. \A f \in Frame : f.n \in Nat
  BY DEF Frame
<1> QED BY <1>1, <1>2

\* The count of accepted replies is a number.
LEMMA AcceptedNat ==
    /\ TypeOK => accepted \in Nat
    /\ TypeOK' => accepted' \in Nat
<1>1. TypeOK => accepted \in Nat
  <2>1. TypeOK => answered \in Nat
    BY DEF TypeOK
  <2> QED BY <2>1 DEF accepted
<1>2. TypeOK' => accepted' \in Nat
  <2>1. TypeOK' => answered' \in Nat
    BY DEF TypeOK
  <2> QED BY <2>1 DEF accepted
<1> QED BY <1>1, <1>2

\* Consuming the head of a queue.
LEMMA TailFacts ==
    ASSUME NEW q \in Seq(Frame), q # <<>>
    PROVE  /\ Len(q) \in Nat /\ 1 \in 1 .. Len(q)
           /\ Head(q) = q[1] /\ Head(q) \in Frame
           /\ Len(Tail(q)) = Len(q) - 1
           /\ \A i \in 1 .. Len(Tail(q)) : i + 1 \in 1 .. Len(q) /\ Tail(q)[i] = q[i + 1]
  OBVIOUS

\* Writing at the end of a queue.
LEMMA AppendFacts ==
    ASSUME NEW q \in Seq(Frame), NEW f \in Frame
    PROVE  /\ Len(q) \in Nat
           /\ Len(Append(q, f)) = Len(q) + 1
           /\ Append(q, f)[Len(q) + 1] = f
           /\ \A i \in 1 .. Len(q) : Append(q, f)[i] = q[i]
           /\ \A i \in 1 .. Len(Append(q, f)) : i # Len(q) + 1 => i \in 1 .. Len(q)
  OBVIOUS

\* The host consumes a frame: what is behind it is still in order, also when
\* the frame is the next reply and the host now expects later ones.
LEMMA ToHostTail ==
    ASSUME TypeOK, TypeOK', ToHost, d2h # <<>>, d2h' = Tail(d2h),
           dev_req' = dev_req, dev_reply' = dev_reply,
           accepted' = accepted \/ (IsReply(Head(d2h)) /\ accepted' = Head(d2h).n)
    PROVE  ToHost'
<1> DEFINE a == accepted  b == accepted'
<1>0. /\ d2h \in Seq(Frame) /\ a \in Nat /\ b \in Nat
  BY AcceptedNat DEF TypeOK
<1>1. /\ Head(d2h) = d2h[1] /\ 1 \in 1 .. Len(d2h) /\ Len(d2h) \in Nat
      /\ \A i \in 1 .. Len(d2h') : i + 1 \in 1 .. Len(d2h) /\ d2h'[i] = d2h[i + 1]
  BY <1>0, TailFacts
<1>3. \A i \in 1 .. Len(d2h) : d2h[i] \in Frame /\ d2h[i].n \in Nat
  BY <1>0, QueueElements
<1>4. \A i \in 1 .. Len(d2h') :
        \/ IsError(d2h'[i])
        \/ IsReply(d2h'[i]) /\ 1 <= d2h'[i].n /\ accepted' <= d2h'[i].n /\ d2h'[i].n <= dev_reply'
        \/ IsAck(d2h'[i]) /\ 1 <= d2h'[i].n /\ accepted' <= d2h'[i].n /\ d2h'[i].n <= dev_req'
  <2> TAKE i \in 1 .. Len(d2h')
  <2>1. i + 1 \in 1 .. Len(d2h) /\ d2h'[i] = d2h[i + 1] /\ 1 < i + 1
    BY <1>1
  <2>2. IsReply(d2h[1]) /\ ~IsError(d2h[i + 1]) => d2h[1].n <= d2h[i + 1].n
    BY <1>1, <2>1 DEF ToHost
  <2>3. \/ IsError(d2h[i + 1])
        \/ IsReply(d2h[i + 1]) /\ 1 <= d2h[i + 1].n /\ a <= d2h[i + 1].n /\ d2h[i + 1].n <= dev_reply
        \/ IsAck(d2h[i + 1]) /\ 1 <= d2h[i + 1].n /\ a <= d2h[i + 1].n /\ d2h[i + 1].n <= dev_req
    BY <2>1 DEF ToHost
  <2>4. CASE b = a
    BY <2>1, <2>3, <2>4
  <2>5. CASE IsReply(d2h[1]) /\ b = d2h[1].n
    BY <2>1, <2>2, <2>3, <2>5
  <2> QED
    BY <2>4, <2>5, <1>1
<1>5. \A i, j \in 1 .. Len(d2h') : i < j =>
        (IsReply(d2h'[i]) /\ ~IsError(d2h'[j]) => d2h'[i].n <= d2h'[j].n)
  <2> TAKE i, j \in 1 .. Len(d2h')
  <2>1. /\ i + 1 \in 1 .. Len(d2h) /\ d2h'[i] = d2h[i + 1]
        /\ j + 1 \in 1 .. Len(d2h) /\ d2h'[j] = d2h[j + 1]
        /\ i < j => i + 1 < j + 1
    BY <1>1
  <2> QED
    BY <2>1 DEF ToHost
<1> QED
  BY <1>4, <1>5 DEF ToHost

\* The device writes a frame that is no older than what it wrote before.
LEMMA ToHostAppend ==
    ASSUME TypeOK, TypeOK', ToHost, NEW f \in Frame, d2h' = Append(d2h, f),
           accepted' = accepted, accepted <= dev_reply', dev_req' = dev_req,
           dev_reply <= dev_reply', dev_reply' <= dev_req,
           \/ IsError(f)
           \/ IsReply(f) /\ 1 <= f.n /\ f.n = dev_reply'
           \/ IsAck(f) /\ 1 <= f.n /\ f.n = dev_req
    PROVE  ToHost'
<1>0. /\ d2h \in Seq(Frame) /\ accepted \in Nat /\ f.n \in Nat
      /\ dev_req \in Nat /\ dev_reply \in Nat /\ dev_reply' \in Nat
  <2>1. f.n \in Nat
    BY DEF Frame
  <2> QED BY <2>1, AcceptedNat DEF TypeOK
<1>1. /\ Len(d2h) \in Nat /\ Len(d2h') = Len(d2h) + 1
      /\ d2h'[Len(d2h) + 1] = f
      /\ \A i \in 1 .. Len(d2h) : d2h'[i] = d2h[i]
      /\ \A i \in 1 .. Len(d2h') : i # Len(d2h) + 1 => i \in 1 .. Len(d2h)
  BY <1>0, AppendFacts
<1>3. \A i \in 1 .. Len(d2h) : d2h[i] \in Frame /\ d2h[i].n \in Nat
  BY <1>0, QueueElements
<1>4. \A i \in 1 .. Len(d2h') :
        \/ IsError(d2h'[i])
        \/ IsReply(d2h'[i]) /\ 1 <= d2h'[i].n /\ accepted' <= d2h'[i].n /\ d2h'[i].n <= dev_reply'
        \/ IsAck(d2h'[i]) /\ 1 <= d2h'[i].n /\ accepted' <= d2h'[i].n /\ d2h'[i].n <= dev_req'
  <2> TAKE i \in 1 .. Len(d2h')
  <2>1. CASE i = Len(d2h) + 1
    BY <1>0, <1>1, <2>1
  <2>2. CASE i \in 1 .. Len(d2h)
    <3>1. d2h'[i] = d2h[i] /\ d2h[i].n \in Nat
      BY <1>1, <1>3, <2>2
    <3>2. \/ IsError(d2h[i])
          \/ IsReply(d2h[i]) /\ 1 <= d2h[i].n /\ accepted <= d2h[i].n /\ d2h[i].n <= dev_reply
          \/ IsAck(d2h[i]) /\ 1 <= d2h[i].n /\ accepted <= d2h[i].n /\ d2h[i].n <= dev_req
      BY <2>2 DEF ToHost
    <3> QED
      BY <1>0, <3>1, <3>2
  <2> QED
    BY <1>1, <2>1, <2>2
<1>5. \A i, j \in 1 .. Len(d2h') : i < j =>
        (IsReply(d2h'[i]) /\ ~IsError(d2h'[j]) => d2h'[i].n <= d2h'[j].n)
  <2> TAKE i, j \in 1 .. Len(d2h')
  <2> HAVE i < j
  <2>1. i \in 1 .. Len(d2h) /\ d2h'[i] = d2h[i] /\ d2h[i].n \in Nat
    BY <1>1, <1>3
  <2>2. CASE j \in 1 .. Len(d2h)
    BY <1>1, <2>1, <2>2 DEF ToHost
  <2>3. CASE j = Len(d2h) + 1 /\ IsReply(d2h[i]) /\ ~IsError(f)
    <3>1. IsReply(d2h[i]) => ~IsError(d2h[i]) /\ ~IsAck(d2h[i])
      BY <1>3, <2>1, FrameKinds
    <3>2. d2h[i].n <= dev_reply
      BY <2>1, <2>3, <3>1 DEF ToHost
    <3>3. f.n >= dev_reply
      BY <1>0, <2>3
    <3> QED
      BY <1>0, <1>1, <2>1, <2>3, <3>2, <3>3
  <2> QED
    BY <1>1, <2>1, <2>2, <2>3
<1> QED
  BY <1>4, <1>5 DEF ToHost

\* A frame leaves the queue to the device: the request, after which none is
\* left, or an ack, after which only acks of the same or later replies are.
LEMMA ToDeviceTail ==
    ASSUME TypeOK, TypeOK', ToDevice, h2d # <<>>, h2d' = Tail(h2d),
           asked' = asked, accepted' = accepted,
           dev_req' = dev_req \/ IsRequest(Head(h2d)),
           dev_acked' = dev_acked \/ (IsAck(Head(h2d)) /\ dev_acked' = Head(h2d).n)
    PROVE  ToDevice'
<1>0. /\ h2d \in Seq(Frame) /\ accepted \in Nat
      /\ dev_acked \in Nat /\ dev_acked' \in Nat
  BY AcceptedNat DEF TypeOK
<1>1. /\ Head(h2d) = h2d[1] /\ 1 \in 1 .. Len(h2d) /\ Len(h2d) \in Nat
      /\ \A i \in 1 .. Len(h2d') : i + 1 \in 1 .. Len(h2d) /\ h2d'[i] = h2d[i + 1]
  BY <1>0, TailFacts
<1>2. \A i \in 1 .. Len(h2d) : h2d[i] \in Frame /\ h2d[i].n \in Nat
  BY <1>0, QueueElements
<1>3. \A i \in 1 .. Len(h2d') :
        \/ IsRequest(h2d'[i]) /\ h2d'[i].n = asked' /\ dev_req' < asked'
        \/ /\ IsAck(h2d'[i]) /\ 1 <= h2d'[i].n /\ h2d'[i].n <= accepted'
           /\ dev_acked' <= h2d'[i].n
  <2> TAKE i \in 1 .. Len(h2d')
  <2>1. i + 1 \in 1 .. Len(h2d) /\ h2d'[i] = h2d[i + 1] /\ 1 < i + 1 /\ h2d[i + 1].n \in Nat
    BY <1>1, <1>2
  <2>2. \/ IsRequest(h2d[i + 1]) /\ h2d[i + 1].n = asked /\ dev_req < asked
        \/ /\ IsAck(h2d[i + 1]) /\ 1 <= h2d[i + 1].n /\ h2d[i + 1].n <= accepted
           /\ dev_acked <= h2d[i + 1].n
    BY <2>1 DEF ToDevice
  <2>3. /\ ~(IsRequest(h2d[1]) /\ IsRequest(h2d[i + 1]))
        /\ IsAck(h2d[1]) /\ IsAck(h2d[i + 1]) => h2d[1].n <= h2d[i + 1].n
    BY <1>1, <2>1 DEF ToDevice
  <2> QED
    BY <1>0, <1>1, <2>1, <2>2, <2>3
<1>4. \A i, j \in 1 .. Len(h2d') : i < j =>
        /\ ~(IsRequest(h2d'[i]) /\ IsRequest(h2d'[j]))
        /\ IsAck(h2d'[i]) /\ IsAck(h2d'[j]) => h2d'[i].n <= h2d'[j].n
  <2> TAKE i, j \in 1 .. Len(h2d')
  <2>1. /\ i + 1 \in 1 .. Len(h2d) /\ h2d'[i] = h2d[i + 1]
        /\ j + 1 \in 1 .. Len(h2d) /\ h2d'[j] = h2d[j + 1]
        /\ i < j => i + 1 < j + 1
    BY <1>1
  <2> QED
    BY <2>1 DEF ToDevice
<1> QED
  BY <1>3, <1>4 DEF ToDevice

\* send_ack writes the ack of the last accepted reply, fresh or repeated.
LEMMA ToDeviceAck ==
    ASSUME TypeOK, TypeOK', ToDevice, NEW f \in Frame, h2d' = Append(h2d, f),
           asked' = asked, dev_req' = dev_req, dev_acked' = dev_acked,
           IsAck(f), 1 <= f.n, dev_acked <= f.n,
           accepted <= f.n, f.n <= accepted'
    PROVE  ToDevice'
<1>0. /\ h2d \in Seq(Frame) /\ accepted \in Nat /\ accepted' \in Nat /\ f.n \in Nat
      /\ dev_acked \in Nat
  <2>1. f.n \in Nat
    BY DEF Frame
  <2> QED BY <2>1, AcceptedNat DEF TypeOK
<1>1. /\ Len(h2d) \in Nat /\ Len(h2d') = Len(h2d) + 1
      /\ h2d'[Len(h2d) + 1] = f
      /\ \A i \in 1 .. Len(h2d) : h2d'[i] = h2d[i]
      /\ \A i \in 1 .. Len(h2d') : i # Len(h2d) + 1 => i \in 1 .. Len(h2d)
  BY <1>0, AppendFacts
<1>2. \A i \in 1 .. Len(h2d) : h2d[i] \in Frame /\ h2d[i].n \in Nat
  BY <1>0, QueueElements
<1>3. ~IsRequest(f)
  BY FrameKinds
<1>4. ASSUME NEW i \in 1 .. Len(h2d)
      PROVE  /\ h2d'[i] = h2d[i]
             /\ \/ IsRequest(h2d[i]) /\ h2d[i].n = asked /\ dev_req < asked
                \/ /\ IsAck(h2d[i]) /\ 1 <= h2d[i].n /\ h2d[i].n <= accepted
                   /\ dev_acked <= h2d[i].n
             /\ IsAck(h2d[i]) => h2d[i].n <= f.n
  <2>1. ~(IsAck(h2d[i]) /\ IsRequest(h2d[i]))
    BY <1>2, FrameKinds
  <2> QED
    BY <1>0, <1>1, <1>2, <2>1 DEF ToDevice
<1>5. \A i \in 1 .. Len(h2d') :
        \/ IsRequest(h2d'[i]) /\ h2d'[i].n = asked' /\ dev_req' < asked'
        \/ /\ IsAck(h2d'[i]) /\ 1 <= h2d'[i].n /\ h2d'[i].n <= accepted'
           /\ dev_acked' <= h2d'[i].n
  <2> TAKE i \in 1 .. Len(h2d')
  <2>1. CASE i = Len(h2d) + 1
    BY <1>1, <2>1
  <2>2. CASE i \in 1 .. Len(h2d)
    BY <1>0, <1>2, <1>4, <2>2
  <2> QED
    BY <1>1, <2>1, <2>2
<1>6. \A i, j \in 1 .. Len(h2d') : i < j =>
        /\ ~(IsRequest(h2d'[i]) /\ IsRequest(h2d'[j]))
        /\ IsAck(h2d'[i]) /\ IsAck(h2d'[j]) => h2d'[i].n <= h2d'[j].n
  <2> TAKE i, j \in 1 .. Len(h2d')
  <2> HAVE i < j
  <2>1. i \in 1 .. Len(h2d) /\ h2d'[i] = h2d[i]
    BY <1>1
  <2>2. CASE j \in 1 .. Len(h2d)
    BY <1>1, <2>1, <2>2 DEF ToDevice
  <2>3. CASE j = Len(h2d) + 1
    BY <1>1, <1>3, <1>4, <2>1, <2>3
  <2> QED
    BY <1>1, <2>2, <2>3
<1> QED
  BY <1>5, <1>6 DEF ToDevice

\* send_data writes a request while none is on its way.
LEMMA ToDeviceRequest ==
    ASSUME TypeOK, TypeOK', ToDevice, NEW f \in Frame, h2d' = Append(h2d, f),
           accepted' = accepted, dev_req' = dev_req, dev_acked' = dev_acked,
           IsRequest(f), f.n = asked', asked' = asked + 1, dev_req = asked
    PROVE  ToDevice'
<1>0. /\ h2d \in Seq(Frame) /\ asked \in Nat
  BY DEF TypeOK
<1>1. /\ Len(h2d) \in Nat /\ Len(h2d') = Len(h2d) + 1
      /\ h2d'[Len(h2d) + 1] = f
      /\ \A i \in 1 .. Len(h2d) : h2d'[i] = h2d[i]
      /\ \A i \in 1 .. Len(h2d') : i # Len(h2d) + 1 => i \in 1 .. Len(h2d)
  BY <1>0, AppendFacts
<1>2. ~IsAck(f)
  BY FrameKinds
<1>3. ASSUME NEW i \in 1 .. Len(h2d)
      PROVE  /\ h2d'[i] = h2d[i] /\ ~IsRequest(h2d[i])
             /\ IsAck(h2d[i]) /\ 1 <= h2d[i].n /\ h2d[i].n <= accepted
             /\ dev_acked <= h2d[i].n
  <2>1. ~(IsAck(h2d[i]) /\ IsRequest(h2d[i]))
    BY <1>0, QueueElements, FrameKinds
  <2> QED
    BY <1>0, <1>1, <2>1 DEF ToDevice
<1>4. \A i \in 1 .. Len(h2d') :
        \/ IsRequest(h2d'[i]) /\ h2d'[i].n = asked' /\ dev_req' < asked'
        \/ /\ IsAck(h2d'[i]) /\ 1 <= h2d'[i].n /\ h2d'[i].n <= accepted'
           /\ dev_acked' <= h2d'[i].n
  <2> TAKE i \in 1 .. Len(h2d')
  <2>1. CASE i = Len(h2d) + 1
    BY <1>0, <1>1, <2>1
  <2>2. CASE i \in 1 .. Len(h2d)
    BY <1>3, <2>2
  <2> QED
    BY <1>1, <2>1, <2>2
<1>5. \A i, j \in 1 .. Len(h2d') : i < j =>
        /\ ~(IsRequest(h2d'[i]) /\ IsRequest(h2d'[j]))
        /\ IsAck(h2d'[i]) /\ IsAck(h2d'[j]) => h2d'[i].n <= h2d'[j].n
  <2> TAKE i, j \in 1 .. Len(h2d')
  <2> HAVE i < j
  <2>1. i \in 1 .. Len(h2d) /\ h2d'[i] = h2d[i]
    BY <1>1
  <2>2. CASE j \in 1 .. Len(h2d)
    BY <1>1, <2>1, <2>2 DEF ToDevice
  <2>3. CASE j = Len(h2d) + 1
    BY <1>1, <1>2, <1>3, <2>1, <2>3
  <2> QED
    BY <1>1, <2>2, <2>3
<1> QED
  BY <1>4, <1>5 DEF ToDevice

----------------------------------------------------------------------------
(* The inductive invariant.                                                *)

\* The frame the host reads next: an ack, or a reply no older than the last
\* one accepted and at most one newer; only its bit tells the two apart.
LEMMA NextToHost ==
    ASSUME TypeOK, AbpInv, d2h # <<>>
    PROVE  LET f == Head(d2h)
           IN  /\ f \in Frame /\ f.n \in Nat
               /\ f.ctrl # TRANSPORT_ERROR /\ ~is_ack(f.ctrl) =>
                    /\ IsReply(f) /\ 1 <= f.n /\ accepted <= f.n /\ f.n <= dev_reply
                    /\ seq_of(f.ctrl) = BitFor(f.n)
                    /\ f.n = IF seq_of(f.ctrl) = recv_seq THEN accepted + 1 ELSE accepted
<1> DEFINE f == Head(d2h)
<1>1. /\ f = d2h[1] /\ 1 \in 1 .. Len(d2h) /\ f \in Frame
  BY TailFacts DEF TypeOK
<1>2. f.n \in Nat
  BY <1>1 DEF Frame
<1>3. ASSUME f.ctrl # TRANSPORT_ERROR, ~is_ack(f.ctrl)
      PROVE  /\ IsReply(f) /\ 1 <= f.n /\ accepted <= f.n /\ f.n <= dev_reply
             /\ seq_of(f.ctrl) = BitFor(f.n)
  BY <1>1, <1>3, FrameKinds DEF AbpInv, ToHost
<1>4. ASSUME f.ctrl # TRANSPORT_ERROR, ~is_ack(f.ctrl)
      PROVE  f.n = IF seq_of(f.ctrl) = recv_seq THEN accepted + 1 ELSE accepted
  <2>1. accepted \in Nat /\ dev_reply \in Nat /\ dev_acked \in Nat
    BY AcceptedNat DEF TypeOK
  <2>2. dev_reply <= dev_acked + 1 /\ dev_acked <= accepted
    BY DEF AbpInv, Progress
  <2>3. f.n = accepted \/ f.n = accepted + 1
    BY <1>2, <1>3, <1>4, <2>1, <2>2
  <2>4. recv_seq = BitFor(accepted + 1) /\ BitFor(accepted + 1) # BitFor(accepted)
    BY <2>1, BitAlternates DEF AbpInv, Bits
  <2> QED
    BY <1>3, <1>4, <2>3, <2>4
<1> QED
  BY <1>1, <1>2, <1>3, <1>4

\* The host's steps keep the invariant.
LEMMA HostStep ==
    ASSUME TypeOK, TypeOK', AbpInv, Send \/ Host \/ TransportFails
    PROVE  AbpInv'
<1> USE DEF hostVars, devVars
<1>0. /\ accepted \in Nat /\ asked \in Nat /\ answered \in Nat /\ dev_req \in Nat
      /\ dev_reply \in Nat /\ dev_acked \in Nat /\ answered' \in Nat /\ h2d \in Seq(Frame)
      /\ send_seq \in {0, 1} /\ recv_seq \in {0, 1}
  BY AcceptedNat DEF TypeOK
<1>1. CASE Send
  <2> DEFINE f == [ctrl |-> with_seq(request_ctrl(asked + 1), send_seq), n |-> asked + 1]
  <2>1. /\ asked = answered /\ pending_data = NoFrame /\ accepted = answered
        /\ dev_req = asked /\ send_seq = BitFor(asked + 1)
    BY <1>0, <1>1 DEF Send, AbpInv, Progress, Bits, accepted
  <2>2. accepted' = accepted
    BY <1>1 DEF Send, accepted
  <2>3. Progress'
    BY <1>0, <1>1, <2>1, <2>2 DEF Send, AbpInv, Progress
  <2>4. Bits'
    BY <1>0, <1>1, <2>1, <2>2 DEF Send, AbpInv, Bits
  <2>5. f \in Frame
    BY <1>0, WrittenFrames, asked + 1 \in Nat
  <2>6. IsRequest(f) /\ f.n = asked + 1
    BY <2>1 DEF IsRequest
  <2>7. ToDevice'
    BY <1>0, <1>1, <2>1, <2>2, <2>5, <2>6, ToDeviceRequest DEF Send, AbpInv
  <2>8. ToHost'
    BY <1>1, <2>2 DEF Send, AbpInv, ToHost
  <2> QED
    BY <2>3, <2>4, <2>7, <2>8 DEF AbpInv
<1>2. CASE SendGetsAck
  <2>1. accepted' = accepted
    BY <1>2 DEF SendGetsAck, accepted
  <2>2. Progress'
    BY <1>0, <1>2, <2>1 DEF SendGetsAck, AbpInv, Progress
  <2>3. Bits'
    <3>1. send_seq' = BitFor(asked + 1)
      BY <1>0, <1>2, BitAlternates DEF SendGetsAck, AbpInv, Bits
    <3> QED
      BY <1>0, <1>2, <2>1, <3>1 DEF SendGetsAck, AbpInv, Bits
  <2>4. ToDevice'
    BY <1>2, <2>1 DEF SendGetsAck, AbpInv, ToDevice
  <2>5. ToHost'
    BY <1>2, <2>1, ToHostTail DEF SendGetsAck, Reads, AbpInv
  <2> QED
    BY <2>2, <2>3, <2>4, <2>5 DEF AbpInv
<1>3. CASE SendSkipsAck \/ RecvSkipsAck
  <2>1. accepted' = accepted
    BY <1>3 DEF SendSkipsAck, RecvSkipsAck, accepted
  <2>2. Progress' /\ Bits' /\ ToDevice'
    BY <1>3, <2>1 DEF SendSkipsAck, RecvSkipsAck, AbpInv, Progress, Bits, ToDevice
  <2>3. ToHost'
    BY <1>3, <2>1, ToHostTail DEF SendSkipsAck, RecvSkipsAck, Reads, AbpInv
  <2> QED
    BY <2>2, <2>3 DEF AbpInv
<1>4. CASE SendGetsData \/ RecvData
  <2> DEFINE f == Head(d2h)
             fresh == seq_of(f.ctrl) = recv_seq
  <2>1. /\ f \in Frame /\ f.n \in Nat
        /\ IsReply(f) /\ 1 <= f.n /\ accepted <= f.n /\ f.n <= dev_reply
        /\ seq_of(f.ctrl) = BitFor(f.n)
        /\ f.n = IF fresh THEN accepted + 1 ELSE accepted
    BY <1>4, NextToHost DEF SendGetsData, RecvData, Reads
  <2>2. /\ pending_data = NoFrame /\ accepted = answered /\ asked = answered + 1
        /\ dev_acked <= accepted /\ accepted <= dev_reply
        /\ dev_reply <= dev_req /\ dev_req <= asked /\ dev_reply <= dev_acked + 1
    BY <1>0, <1>4 DEF SendGetsData, RecvData, AbpInv, Progress, accepted
  <2>3. f # NoFrame
    BY <2>1 DEF NoFrame
  <2>4. accepted' = IF fresh THEN accepted + 1 ELSE accepted
    <3>1. CASE SendGetsData
      BY <3>1, <1>0, <2>2, <2>3 DEF SendGetsData, accepted
    <3>2. CASE RecvData
      <4>1. pending_data' = NoFrame /\ answered' = IF fresh THEN f.n ELSE answered
        BY <3>2, <2>2 DEF RecvData
      <4>2. accepted' = answered'
        BY <1>0, <4>1 DEF accepted
      <4> QED
        BY <2>1, <2>2, <4>1, <4>2
    <3> QED BY <1>4, <3>1, <3>2
  <2>5. Progress'
    <3>1. CASE SendGetsData
      BY <3>1, <1>0, <2>1, <2>2, <2>3, <2>4 DEF SendGetsData, AbpInv, Progress
    <3>2. CASE RecvData
      <4>1. /\ pending_data' = NoFrame /\ asked' = asked
            /\ dev_req' = dev_req /\ dev_reply' = dev_reply /\ dev_acked' = dev_acked
            /\ answered' = IF fresh THEN f.n ELSE answered
            /\ pc' = IF fresh THEN "idle" ELSE "recv"
        BY <3>2, <2>2 DEF RecvData
      <4> QED
        BY <1>0, <2>1, <2>2, <2>4, <4>1 DEF Progress
    <3> QED BY <1>4, <3>1, <3>2
  <2>6. Bits'
    <3>1. recv_seq' = BitFor(accepted' + 1)
      <4>1. BitFor(accepted + 1 + 1) = Flip(BitFor(accepted + 1)) /\ recv_seq = BitFor(accepted + 1)
        BY <1>0, BitAlternates, accepted + 1 \in Nat DEF AbpInv, Bits
      <4> QED
        BY <1>4, <2>4, <4>1 DEF SendGetsData, RecvData
    <3>2. /\ pc' \in {"idle", "recv"} /\ send_seq' = BitFor(asked' + 1)
      <4>1. CASE SendGetsData
        <5>1. BitFor(asked + 1) = Flip(BitFor(asked))
          BY <1>0, BitAlternates
        <5> QED
          BY <4>1, <5>1 DEF SendGetsData, AbpInv, Bits
      <4>2. CASE RecvData
        BY <4>2 DEF RecvData, AbpInv, Bits
      <4> QED BY <1>4, <4>1, <4>2
    <3> QED
      BY <1>4, <3>1, <3>2 DEF SendGetsData, RecvData, AbpInv, Bits
  <2>7. ToDevice'
    <3> DEFINE g == AckFrame(seq_of(f.ctrl), f.n)
    <3>1. g = AckFrame(BitFor(f.n), f.n) /\ g.n = f.n
      BY <2>1 DEF AckFrame
    <3>2. g \in Frame /\ IsAck(g)
      <4>1. BitFor(f.n) \in {0, 1}
        BY <2>1, BitAlternates
      <4> QED
        BY <2>1, <3>1, <4>1, WrittenFrames DEF IsAck
    <3>3. h2d' = Append(h2d, g)
      BY <1>4 DEF SendGetsData, RecvData, send_ack
    <3>4. asked' = asked /\ dev_req' = dev_req /\ dev_acked' = dev_acked
      BY <1>4 DEF SendGetsData, RecvData
    <3>5. dev_acked <= g.n /\ accepted <= g.n /\ g.n <= accepted' /\ 1 <= g.n
      BY <1>0, <2>1, <2>2, <2>4, <3>1
    <3> HIDE DEF g
    <3> QED
      BY <3>2, <3>3, <3>4, <3>5, ToDeviceAck DEF AbpInv
  <2>8. ToHost'
    <3>1. accepted' = accepted \/ (IsReply(Head(d2h)) /\ accepted' = Head(d2h).n)
      BY <2>1, <2>4
    <3> QED
      BY <1>4, <3>1, ToHostTail DEF SendGetsData, RecvData, Reads, AbpInv
  <2> QED
    BY <2>5, <2>6, <2>7, <2>8 DEF AbpInv
<1>5. CASE RecvPending
  <2>1. /\ pending_data # NoFrame /\ answered' = asked /\ pending_data' = NoFrame
        /\ asked = answered + 1 /\ accepted = answered + 1
    BY <1>0, <1>5 DEF RecvPending, AbpInv, Progress, accepted
  <2>2. accepted' = accepted
    BY <1>0, <2>1 DEF accepted
  <2>3. Progress' /\ Bits' /\ ToDevice' /\ ToHost'
    BY <1>0, <1>5, <2>1, <2>2 DEF RecvPending, AbpInv, Progress, Bits, ToDevice, ToHost
  <2> QED
    BY <2>3 DEF AbpInv
<1>6. CASE ReadsError
  <2>1. accepted' = accepted
    BY <1>6 DEF ReadsError, accepted
  <2>2. Progress' /\ Bits' /\ ToDevice'
    BY <1>6, <2>1 DEF ReadsError, Reading, AbpInv, Progress, Bits, ToDevice
  <2>3. ToHost'
    BY <1>6, <2>1, ToHostTail DEF ReadsError, AbpInv
  <2> QED
    BY <2>2, <2>3 DEF AbpInv
<1>7. CASE TransportFails
  <2>1. accepted' = accepted
    BY <1>7 DEF TransportFails, accepted
  <2>2. Progress' /\ Bits' /\ ToDevice' /\ ToHost'
    BY <1>7, <2>1 DEF TransportFails, Reading, AbpInv, Progress, Bits, ToDevice, ToHost
  <2> QED
    BY <2>2 DEF AbpInv
<1> QED
  BY <1>1, <1>2, <1>3, <1>4, <1>5, <1>6, <1>7 DEF Host

\* The frame the device reads next.
LEMMA NextToDevice ==
    ASSUME TypeOK, AbpInv, h2d # <<>>
    PROVE  LET f == Head(h2d)
           IN  /\ f \in Frame /\ f.n \in Nat
               /\ ~is_ack(f.ctrl) =>
                    /\ IsRequest(f) /\ f.n = asked /\ dev_req + 1 = asked
                    /\ seq_of(f.ctrl) = dev_recv_seq
               /\ is_ack(f.ctrl) =>
                    /\ IsAck(f) /\ dev_acked <= f.n /\ f.n <= accepted
                    /\ ack_seq_of(f.ctrl) = dev_send_seq => f.n = dev_acked + 1 /\ dev_reply = f.n
<1> DEFINE f == Head(h2d)
<1>0. /\ accepted \in Nat /\ asked \in Nat /\ answered \in Nat /\ dev_req \in Nat
      /\ dev_reply \in Nat /\ dev_acked \in Nat
  BY AcceptedNat DEF TypeOK
<1>1. /\ f = h2d[1] /\ 1 \in 1 .. Len(h2d) /\ f \in Frame
  BY TailFacts DEF TypeOK
<1>2. f.n \in Nat
  BY <1>1 DEF Frame
<1>3. /\ answered <= accepted /\ asked <= answered + 1 /\ accepted <= dev_reply
      /\ dev_reply <= dev_req /\ dev_req <= asked /\ dev_reply <= dev_acked + 1
  BY <1>0 DEF AbpInv, Progress, TypeOK, accepted
<1>4. ASSUME ~is_ack(f.ctrl)
      PROVE  /\ IsRequest(f) /\ f.n = asked /\ dev_req + 1 = asked
             /\ seq_of(f.ctrl) = dev_recv_seq
  <2>1. IsRequest(f) /\ f.n = asked /\ dev_req < asked /\ seq_of(f.ctrl) = BitFor(f.n)
    BY <1>1, <1>4, FrameKinds DEF AbpInv, ToDevice
  <2>2. dev_req + 1 = asked
    BY <1>0, <1>3, <2>1
  <2> QED
    BY <2>1, <2>2 DEF AbpInv, Bits
<1>5. ASSUME is_ack(f.ctrl)
      PROVE  /\ IsAck(f) /\ dev_acked <= f.n /\ f.n <= accepted
             /\ ack_seq_of(f.ctrl) = dev_send_seq => f.n = dev_acked + 1 /\ dev_reply = f.n
  <2>1. IsAck(f) /\ dev_acked <= f.n /\ f.n <= accepted /\ ack_seq_of(f.ctrl) = BitFor(f.n)
    BY <1>1, <1>5, FrameKinds DEF AbpInv, ToDevice
  <2>2. f.n = dev_acked \/ f.n = dev_acked + 1
    BY <1>0, <1>2, <1>3, <2>1
  <2>3. dev_send_seq = BitFor(dev_acked + 1) /\ BitFor(dev_acked + 1) # BitFor(dev_acked)
    BY <1>0, BitAlternates DEF AbpInv, Bits
  <2>4. ack_seq_of(f.ctrl) = dev_send_seq => f.n = dev_acked + 1
    BY <2>1, <2>2, <2>3
  <2> QED
    BY <1>0, <1>2, <1>3, <2>1, <2>4
<1> QED
  BY <1>1, <1>2, <1>4, <1>5

\* The steps of the link and of the device keep the invariant.
LEMMA DeviceStep ==
    ASSUME TypeOK, TypeOK', AbpInv,
           \/ LoseToDevice \/ LoseToHost \/ Device
           \/ DevAcks \/ DevRetransmits \/ DevReportsError
    PROVE  AbpInv'
<1> USE DEF hostVars, devVars
<1>0. /\ accepted \in Nat /\ asked \in Nat /\ answered \in Nat /\ dev_req \in Nat
      /\ dev_reply \in Nat /\ dev_acked \in Nat /\ dev_recv_seq \in {0, 1} /\ dev_send_seq \in {0, 1}
  BY AcceptedNat DEF TypeOK
<1>1. UNCHANGED <<pc, send_seq, recv_seq, pending_data, asked, answered>>
  BY DEF Device, LoseToDevice, LoseToHost, DevTakes, DevGetsAck, DevReplies, DevAcks,
         DevRetransmits, DevReportsError
<1>2. accepted' = accepted
  BY <1>1 DEF accepted
<1>3. /\ answered <= accepted /\ asked <= answered + 1 /\ accepted <= dev_reply
      /\ dev_reply <= dev_req /\ dev_req <= asked
      /\ dev_reply <= dev_acked + 1 /\ dev_acked <= accepted
  BY <1>0 DEF AbpInv, Progress, TypeOK, accepted
<1>4. CASE LoseToDevice
  <2>1. Progress' /\ Bits' /\ ToHost'
    BY <1>2, <1>4 DEF LoseToDevice, AbpInv, Progress, Bits, ToHost
  <2>2. ToDevice'
    BY <1>2, <1>4, ToDeviceTail DEF LoseToDevice, AbpInv
  <2> QED BY <2>1, <2>2 DEF AbpInv
<1>5. CASE LoseToHost
  <2>1. Progress' /\ Bits' /\ ToDevice'
    BY <1>2, <1>5 DEF LoseToHost, AbpInv, Progress, Bits, ToDevice
  <2>2. ToHost'
    BY <1>2, <1>5, ToHostTail DEF LoseToHost, AbpInv
  <2> QED BY <2>1, <2>2 DEF AbpInv
<1>6. CASE DevTakes
  <2>1. /\ IsRequest(Head(h2d)) /\ dev_req + 1 = asked
        /\ dev_req' = asked /\ dev_recv_seq' = Flip(dev_recv_seq)
    BY <1>6, NextToDevice DEF DevTakes
  <2>2. Progress'
    BY <1>0, <1>1, <1>2, <1>3, <1>6, <2>1 DEF DevTakes, AbpInv, Progress
  <2>3. Bits'
    <3>1. BitFor(dev_req + 1 + 1) = Flip(BitFor(dev_req + 1))
      BY <1>0, BitAlternates, dev_req + 1 \in Nat
    <3>2. dev_recv_seq' = BitFor(dev_req' + 1)
      BY <2>1, <3>1 DEF AbpInv, Bits
    <3> QED
      BY <1>1, <1>2, <1>6, <3>2 DEF DevTakes, AbpInv, Bits
  <2>4. ToDevice'
    BY <1>1, <1>2, <1>6, <2>1, ToDeviceTail DEF DevTakes, AbpInv
  <2>5. ToHost'
    <3>1. d2h' = d2h /\ dev_reply' = dev_reply /\ dev_req <= dev_req' /\ dev_req' \in Nat
      BY <1>0, <1>6, <2>1 DEF DevTakes
    <3>2. \A i \in 1 .. Len(d2h) : d2h[i].n \in Nat
      BY QueueElements DEF TypeOK
    <3> QED
      BY <1>0, <1>2, <3>1, <3>2 DEF AbpInv, ToHost
  <2> QED BY <2>2, <2>3, <2>4, <2>5 DEF AbpInv
<1>7. CASE DevGetsAck
  <2> DEFINE f == Head(h2d)
  <2>1. /\ IsAck(f) /\ f.n \in Nat /\ dev_acked <= f.n /\ f.n <= accepted
        /\ ack_seq_of(f.ctrl) = dev_send_seq => f.n = dev_acked + 1 /\ dev_reply = f.n
    BY <1>7, NextToDevice DEF DevGetsAck
  <2>2. \/ dev_acked' = dev_acked /\ dev_send_seq' = dev_send_seq
        \/ /\ dev_acked' = f.n /\ f.n = dev_acked + 1 /\ dev_reply = f.n
           /\ dev_send_seq' = Flip(dev_send_seq)
    BY <1>7, <2>1 DEF DevGetsAck
  <2>3. /\ h2d # <<>> /\ h2d' = Tail(h2d)
        /\ UNCHANGED <<d2h, dev_recv_seq, dev_req, dev_reply>>
    BY <1>7 DEF DevGetsAck
  <2>4. Progress'
    BY <1>0, <1>1, <1>2, <1>3, <2>1, <2>2, <2>3 DEF AbpInv, Progress
  <2>5. Bits'
    <3>1. BitFor(dev_acked + 1 + 1) = Flip(BitFor(dev_acked + 1))
      BY <1>0, BitAlternates, dev_acked + 1 \in Nat
    <3>2. dev_send_seq' = BitFor(dev_acked' + 1)
      BY <2>2, <3>1 DEF AbpInv, Bits
    <3> QED
      BY <1>1, <1>2, <2>3, <3>2 DEF AbpInv, Bits
  <2>6. ToDevice'
    BY <1>1, <1>2, <2>1, <2>2, <2>3, ToDeviceTail DEF AbpInv
  <2>7. ToHost'
    BY <1>2, <2>3 DEF AbpInv, ToHost
  <2> QED BY <2>4, <2>5, <2>6, <2>7 DEF AbpInv
<1>8. CASE DevReplies
  <2> DEFINE f == [ctrl |-> with_seq(reply_ctrl(dev_req), dev_send_seq), n |-> dev_req]
  <2>1. /\ dev_req = dev_reply + 1 /\ dev_acked = dev_reply /\ dev_reply' = dev_req
        /\ d2h' = Append(d2h, f)
        /\ UNCHANGED <<h2d, dev_recv_seq, dev_req, dev_send_seq, dev_acked>>
    BY <1>0, <1>3, <1>8 DEF DevReplies
  <2>2. Progress'
    BY <1>0, <1>1, <1>2, <1>3, <2>1 DEF AbpInv, Progress
  <2>3. Bits' /\ ToDevice'
    BY <1>1, <1>2, <2>1 DEF AbpInv, Bits, ToDevice
  <2>4. f \in Frame /\ IsReply(f) /\ 1 <= f.n /\ f.n = dev_reply'
    <3>1. f \in Frame
      BY <1>0, WrittenFrames
    <3>2. dev_send_seq = BitFor(dev_req)
      BY <2>1 DEF AbpInv, Bits
    <3> QED
      BY <1>0, <2>1, <3>1, <3>2 DEF IsReply
  <2> HIDE DEF f
  <2>5. ToHost'
    BY <1>0, <1>2, <1>3, <2>1, <2>4, ToHostAppend DEF AbpInv
  <2> QED BY <2>2, <2>3, <2>5 DEF AbpInv
<1>9. CASE DevAcks \/ DevRetransmits \/ DevReportsError
  <2>1. UNCHANGED <<h2d, dev_recv_seq, dev_req, dev_send_seq, dev_reply, dev_acked>>
    BY <1>9 DEF DevAcks, DevRetransmits, DevReportsError
  <2>2. Progress' /\ Bits' /\ ToDevice'
    BY <1>1, <1>2, <2>1 DEF AbpInv, Progress, Bits, ToDevice
  <2>3. ASSUME NEW f \in Frame, d2h' = Append(d2h, f),
               \/ IsError(f)
               \/ IsReply(f) /\ 1 <= f.n /\ f.n = dev_reply
               \/ IsAck(f) /\ 1 <= f.n /\ f.n = dev_req
        PROVE  ToHost'
    BY <1>0, <1>2, <1>3, <2>1, <2>3, ToHostAppend DEF AbpInv
  <2>4. CASE DevAcks
    <3> DEFINE f == AckFrame(Flip(dev_recv_seq), dev_req)
    <3>1. Flip(dev_recv_seq) = BitFor(dev_req) /\ BitFor(dev_req) \in {0, 1}
      BY <1>0, BitAlternates DEF AbpInv, Bits, Flip
    <3>2. f \in Frame /\ f.n = dev_req
      BY <1>0, <3>1, WrittenFrames DEF AckFrame
    <3>3. IsAck(f)
      BY <3>1, <3>2 DEF IsAck
    <3>4. d2h' = Append(d2h, f) /\ 1 <= dev_req
      BY <1>0, <2>4 DEF DevAcks
    <3> HIDE DEF f
    <3> QED BY <2>2, <2>3, <3>2, <3>3, <3>4 DEF AbpInv
  <2>5. CASE DevRetransmits
    <3> DEFINE f == [ctrl |-> with_seq(reply_ctrl(dev_reply), dev_send_seq), n |-> dev_reply]
    <3>1. dev_reply = dev_acked + 1
      BY <1>0, <1>3, <2>5 DEF DevRetransmits
    <3>2. f \in Frame /\ f.n = dev_reply
      BY <1>0, WrittenFrames
    <3>3. IsReply(f)
      BY <3>1, <3>2 DEF IsReply, AbpInv, Bits
    <3>4. d2h' = Append(d2h, f) /\ 1 <= dev_reply
      BY <1>0, <2>5, <3>1 DEF DevRetransmits
    <3> HIDE DEF f
    <3> QED BY <2>2, <2>3, <3>2, <3>3, <3>4 DEF AbpInv
  <2>6. CASE DevReportsError
    <3> DEFINE f == [ctrl |-> TRANSPORT_ERROR, n |-> 0]
    <3>1. f \in Frame /\ IsError(f)
      BY <1>0, WrittenFrames DEF IsError
    <3>2. d2h' = Append(d2h, f)
      BY <2>6 DEF DevReportsError
    <3> HIDE DEF f
    <3> QED BY <2>2, <2>3, <3>1, <3>2 DEF AbpInv
  <2> QED BY <1>9, <2>4, <2>5, <2>6
<1> QED
  BY <1>4, <1>5, <1>6, <1>7, <1>8, <1>9 DEF Device

\* The inductive invariant of the channel, for any number of requests, of
\* retransmissions and of lost frames: two messages that share a sequence bit
\* are never both able to reach the same send_data or recv_data.
THEOREM AbpInvariance == Spec => []AbpInv
<1>1. Init => AbpInv
  <2> SUFFICES ASSUME Init PROVE AbpInv
    OBVIOUS
  <2>1. accepted = 0
    BY DEF Init, accepted
  <2>2. Progress /\ ToDevice /\ ToHost
    BY <2>1 DEF Init, Progress, ToDevice, ToHost
  <2>3. Bits
    BY <2>1 DEF Init, Bits, BitFor
  <2> QED BY <2>2, <2>3 DEF AbpInv
<1>2. TypeOK /\ TypeOK' /\ AbpInv /\ [Next]_vars => AbpInv'
  <2> SUFFICES ASSUME TypeOK, TypeOK', AbpInv, [Next]_vars PROVE AbpInv'
    OBVIOUS
  <2>1. CASE UNCHANGED vars
    BY <2>1 DEF vars, hostVars, devVars, AbpInv, Progress, Bits, ToDevice, ToHost, accepted
  <2> QED
    BY <2>1, HostStep, DeviceStep DEF Next
<1> QED
  BY <1>1, <1>2, TypeCorrect, PTL DEF Spec

----------------------------------------------------------------------------
(* What the invariant buys.                                                *)

\* send_data writes a request only when the device has taken the one before:
\* the reply that ended the previous exchange proves it.
THEOREM SendsAreSpaced == Spec => SendOnlyAfterTaken
<1>1. TypeOK /\ AbpInv /\ [Next]_vars => [asked' # asked => dev_req = asked]_vars
  <2> SUFFICES ASSUME TypeOK, AbpInv, [Next]_vars, asked' # asked
               PROVE  dev_req = asked
    OBVIOUS
  <2>1. Send
    BY DEF Next, Host, Device, TransportFails, LoseToDevice, LoseToHost, DevTakes, DevGetsAck,
           DevReplies, DevAcks, DevRetransmits, DevReportsError, SendGetsAck, SendSkipsAck,
           SendGetsData, RecvPending, RecvSkipsAck, RecvData, ReadsError, vars, hostVars
  <2>2. asked = answered /\ pending_data = NoFrame
    BY <2>1 DEF Send, AbpInv, Progress
  <2>3. accepted = asked
    BY <2>2 DEF accepted, TypeOK
  <2> QED
    BY <2>3 DEF TypeOK, AbpInv, Progress
<1> QED
  BY <1>1, TypeCorrect, AbpInvariance, PTL DEF Spec, SendOnlyAfterTaken

\* Every step of the channel is a step of RequestReply or changes nothing it
\* speaks of: a reply is returned for the request that is waiting for it, and
\* the device takes the requests one by one.
LEMMA StepRefines ==
    ASSUME TypeOK, AbpInv, [Next]_vars
    PROVE  [RR!RRNext]_RR!rrVars
<1> USE DEF hostVars, devVars
<1>0. /\ accepted \in Nat /\ asked \in Nat /\ answered \in Nat /\ dev_req \in Nat
      /\ dev_reply \in Nat
  BY AcceptedNat DEF TypeOK
<1>1. CASE Send
  BY <1>1 DEF Send, AbpInv, Progress, RR!RRNext, RR!Ask
<1>2. CASE SendGetsAck \/ SendSkipsAck \/ SendGetsData \/ RecvSkipsAck
  BY <1>2 DEF SendGetsAck, SendSkipsAck, SendGetsData, RecvSkipsAck, RR!rrVars
<1>3. CASE RecvPending
  <2>1. /\ pc = "recv" /\ pc' = "idle" /\ answered' = answered + 1
        /\ UNCHANGED <<asked, dev_req>>
    BY <1>3 DEF RecvPending, AbpInv, Progress
  <2>2. answered < dev_req
    BY <1>0, <1>3 DEF RecvPending, AbpInv, Progress, accepted
  <2> QED
    BY <2>1, <2>2 DEF RR!RRNext, RR!Answer
<1>4. CASE RecvData
  <2> DEFINE f == Head(d2h)
             fresh == seq_of(f.ctrl) = recv_seq
  <2>1. f.n = (IF fresh THEN accepted + 1 ELSE accepted) /\ f.n <= dev_reply /\ f.n \in Nat
    BY <1>4, NextToHost DEF RecvData, Reads
  <2>2. accepted = answered /\ dev_reply <= dev_req
    BY <1>0, <1>4 DEF RecvData, AbpInv, Progress, accepted
  <2>3. CASE fresh
    <3>1. pc = "recv" /\ pc' = "idle" /\ answered' = answered + 1 /\ UNCHANGED <<asked, dev_req>>
      BY <1>4, <2>1, <2>2, <2>3 DEF RecvData
    <3>2. answered < dev_req
      BY <1>0, <2>1, <2>2, <2>3
    <3> QED
      BY <3>1, <3>2 DEF RR!RRNext, RR!Answer
  <2>4. CASE ~fresh
    BY <1>4, <2>4 DEF RecvData, RR!rrVars
  <2> QED BY <2>3, <2>4
<1>5. CASE ReadsError \/ TransportFails
  <2>1. pc # "failed" /\ pc' = "failed" /\ UNCHANGED <<asked, answered, dev_req>>
    BY <1>5 DEF ReadsError, TransportFails, Reading
  <2>2. answered < asked
    BY <1>0, <1>5 DEF ReadsError, TransportFails, Reading, AbpInv, Progress
  <2> QED
    BY <2>1, <2>2 DEF RR!RRNext, RR!GiveUp
<1>6. CASE DevTakes
  <2>1. dev_req' = asked /\ dev_req + 1 = asked
    BY <1>6, NextToDevice DEF DevTakes
  <2>2. UNCHANGED <<pc, asked, answered>>
    BY <1>6 DEF DevTakes
  <2> QED
    BY <1>0, <2>1, <2>2 DEF RR!RRNext, RR!Handle
<1>7. CASE \/ LoseToDevice \/ LoseToHost \/ DevGetsAck \/ DevReplies
           \/ DevAcks \/ DevRetransmits \/ DevReportsError \/ UNCHANGED vars
  BY <1>7 DEF LoseToDevice, LoseToHost, DevGetsAck, DevReplies, DevAcks, DevRetransmits,
              DevReportsError, vars, RR!rrVars
<1> QED
  BY <1>1, <1>2, <1>3, <1>4, <1>5, <1>6, <1>7 DEF Next, Host, Device

\* The channel implements RequestReply, for every value of the constants.
THEOREM AbpRefines == Spec => ImplementsRequestReply
<1>1. Init => RR!RRInit
  BY DEF Init, RR!RRInit
<1>2. TypeOK /\ AbpInv /\ [Next]_vars => [RR!RRNext]_RR!rrVars
  BY StepRefines
<1> QED
  BY <1>1, <1>2, TypeCorrect, AbpInvariance, PTL DEF Spec, ImplementsRequestReply, RR!RRSpec
============================================================================
