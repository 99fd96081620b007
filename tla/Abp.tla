-------------------------------- MODULE Abp --------------------------------
(***************************************************************************)
(* The alternating-bit layer of one THP channel: Connection::send_data and *)
(* recv_data of thp/connection.rs, driven the way handshake and transceive *)
(* drive them (every request is sent, then one reply is received), over a  *)
(* link that may lose frames, against a device that is outside the         *)
(* repository.                                                             *)
(*                                                                         *)
(* A frame carries the real control byte and, in place of its payload, the *)
(* number of the request it is, answers or acknowledges.  The number is    *)
(* read only where the code hands the payload on; every decision is taken  *)
(* on the control byte.                                                    *)
(*                                                                         *)
(* The device is known from how the code uses it: it takes a data message  *)
(* whose sequence bit is the one it expects, may acknowledge the last one  *)
(* it took at any time, several times or never (connection.rs:83-87,       *)
(* 170-178), answers each request once, retransmits an answer until it is  *)
(* acknowledged (connection.rs:207-208), sends no new answer before that,  *)
(* and may send a transport_error frame.                                   *)
(***************************************************************************)
EXTENDS ThpControl, Sequences

CONSTANTS
    MaxRequests,    \* bound: requests issued on the channel
    MaxQueue,       \* bound: frames the device keeps in flight
    MaxLost,        \* bound: frames the link loses
    LoseRequests    \* whether the link may lose a request (the host never retransmits)

ASSUME AbpAssumption ==
    /\ MaxRequests \in Nat /\ MaxQueue \in Nat /\ MaxLost \in Nat
    /\ LoseRequests \in BOOLEAN

VARIABLES
    \* the host: fields of Connection, and where its caller is
    pc,             \* "idle", "send" (in send_data), "recv" (in recv_data), "failed"
    send_seq, recv_seq,
    pending_data,   \* NoFrame for None
    asked,          \* number of the last request written
    answered,       \* number carried by the last reply returned
    \* the link
    h2d, d2h,       \* frames on their way to the device, to the host
    lost,
    \* the device
    dev_recv_seq, dev_req,      \* bit it expects, last request it took
    dev_send_seq, dev_reply,    \* bit of its current answer, last answer it sent
    dev_acked                   \* last answer of which it got the ACK

hostVars == <<pc, send_seq, recv_seq, pending_data, asked, answered>>
devVars == <<dev_recv_seq, dev_req, dev_send_seq, dev_reply, dev_acked>>
vars == <<hostVars, h2d, d2h, lost, devVars>>

Frame == [ctrl: Byte, n: Nat]
NoFrame == [ctrl |-> 0, n |-> 0]

\* The first two exchanges of a channel are the handshake's, the others are
\* encrypted application messages.
request_ctrl(n) ==
    IF n = 1 THEN HANDSHAKE_INIT_REQUEST
    ELSE IF n = 2 THEN HANDSHAKE_COMPLETION_REQUEST ELSE ENCRYPTED_TRANSPORT
reply_ctrl(n) ==
    IF n = 1 THEN HANDSHAKE_INIT_RESPONSE
    ELSE IF n = 2 THEN HANDSHAKE_COMPLETION_RESPONSE ELSE ENCRYPTED_TRANSPORT

\* Connection::new, then allocate, which zeroes both bits and pending_data.
Init ==
    /\ pc = "idle" /\ send_seq = 0 /\ recv_seq = 0 /\ pending_data = NoFrame
    /\ asked = 0 /\ answered = 0
    /\ h2d = <<>> /\ d2h = <<>> /\ lost = 0
    /\ dev_recv_seq = 0 /\ dev_req = 0
    /\ dev_send_seq = 0 /\ dev_reply = 0 /\ dev_acked = 0

----------------------------------------------------------------------------
(* The host.                                                               *)

AckFrame(seq, n) == [ctrl |-> ack_for(seq), n |-> n]

send_ack(f) == h2d' = Append(h2d, AckFrame(seq_of(f.ctrl), f.n))

\* send_data up to its loop: write the request with the current bit.
Send ==
    /\ pc = "idle" /\ asked < MaxRequests
    /\ asked' = asked + 1
    /\ h2d' = Append(h2d, [ctrl |-> with_seq(request_ctrl(asked + 1), send_seq), n |-> asked + 1])
    /\ pc' = "send"
    /\ UNCHANGED <<send_seq, recv_seq, pending_data, answered, d2h, lost, devVars>>

\* read_framed returns the next frame, unless it is a transport_error.
Reads ==
    /\ d2h # <<>>
    /\ Head(d2h).ctrl # TRANSPORT_ERROR
    /\ d2h' = Tail(d2h)

\* send_data's loop meets the ACK of the request it sent.
SendGetsAck ==
    /\ pc = "send" /\ Reads
    /\ LET ctrl == Head(d2h).ctrl IN is_ack(ctrl) /\ ack_seq_of(ctrl) = send_seq
    /\ send_seq' = Flip(send_seq)
    /\ pc' = "recv"
    /\ UNCHANGED <<recv_seq, pending_data, asked, answered, h2d, lost, devVars>>

\* send_data's loop skips any other ACK.
SendSkipsAck ==
    /\ pc = "send" /\ Reads
    /\ LET ctrl == Head(d2h).ctrl IN is_ack(ctrl) /\ ack_seq_of(ctrl) # send_seq
    /\ UNCHANGED <<hostVars, h2d, lost, devVars>>

\* Mutant: the frame is stashed whatever its bit is.
SendGetsDataMutant ==
    /\ pc = "send" /\ Reads
    /\ ~is_ack(Head(d2h).ctrl)
    /\ send_ack(Head(d2h))
    /\ pending_data' = Head(d2h)
    /\ recv_seq' = IF seq_of(Head(d2h).ctrl) = recv_seq THEN Flip(recv_seq) ELSE recv_seq
    /\ send_seq' = Flip(send_seq)
    /\ pc' = "recv"
    /\ UNCHANGED <<asked, answered, lost, devVars>>

\* A data frame while waiting for the ACK is an implicit ACK.  The frame is
\* acknowledged, and stashed when its bit is the expected one.
SendGetsData ==
    /\ pc = "send" /\ Reads
    /\ LET f == Head(d2h) IN
        /\ ~is_ack(f.ctrl)
        /\ send_ack(f)
        /\ IF seq_of(f.ctrl) = recv_seq
           THEN recv_seq' = Flip(recv_seq) /\ pending_data' = f
           ELSE UNCHANGED <<recv_seq, pending_data>>
    /\ send_seq' = Flip(send_seq)
    /\ pc' = "recv"
    /\ UNCHANGED <<asked, answered, lost, devVars>>

\* recv_data returns the stashed frame first.
RecvPending ==
    /\ pc = "recv" /\ pending_data # NoFrame
    /\ answered' = pending_data.n
    /\ pending_data' = NoFrame
    /\ pc' = "idle"
    /\ UNCHANGED <<send_seq, recv_seq, asked, h2d, d2h, lost, devVars>>

\* recv_data's loop skips an ACK.
RecvSkipsAck ==
    /\ pc = "recv" /\ pending_data = NoFrame /\ Reads
    /\ is_ack(Head(d2h).ctrl)
    /\ UNCHANGED <<hostVars, h2d, lost, devVars>>

\* Mutants: a duplicate is returned too; or is skipped and not acknowledged.
RecvDataMutant ==
    /\ pc = "recv" /\ pending_data = NoFrame /\ Reads
    /\ ~is_ack(Head(d2h).ctrl)
    /\ send_ack(Head(d2h))
    /\ recv_seq' = Flip(recv_seq) /\ answered' = Head(d2h).n /\ pc' = "idle"
    /\ UNCHANGED <<send_seq, pending_data, asked, lost, devVars>>

RecvDataSilentMutant ==
    /\ pc = "recv" /\ pending_data = NoFrame /\ Reads
    /\ LET f == Head(d2h) IN
        /\ ~is_ack(f.ctrl)
        /\ IF seq_of(f.ctrl) = recv_seq
           THEN send_ack(f) /\ recv_seq' = Flip(recv_seq) /\ answered' = f.n /\ pc' = "idle"
           ELSE UNCHANGED <<h2d, recv_seq, answered, pc>>
    /\ UNCHANGED <<send_seq, pending_data, asked, lost, devVars>>

\* recv_data acknowledges every data frame and returns a fresh one.
RecvData ==
    /\ pc = "recv" /\ pending_data = NoFrame /\ Reads
    /\ LET f == Head(d2h) IN
        /\ ~is_ack(f.ctrl)
        /\ send_ack(f)
        /\ IF seq_of(f.ctrl) = recv_seq
           THEN recv_seq' = Flip(recv_seq) /\ answered' = f.n /\ pc' = "idle"
           ELSE UNCHANGED <<recv_seq, answered, pc>>
    /\ UNCHANGED <<send_seq, pending_data, asked, lost, devVars>>

\* The host waits in read_framed.
Reading == pc = "send" \/ (pc = "recv" /\ pending_data = NoFrame)

\* read_framed returns Err on a transport_error frame: the caller's ? ends
\* the exchange and the connection is dropped, so that what its fields hold
\* is never read again.
ReadsError ==
    /\ Reading
    /\ d2h # <<>> /\ Head(d2h).ctrl = TRANSPORT_ERROR
    /\ d2h' = Tail(d2h)
    /\ pc' = "failed"
    /\ UNCHANGED <<send_seq, recv_seq, pending_data, asked, answered, h2d, lost, devVars>>

\* The transport itself returns Err to the read, or to the write of an ACK.
TransportFails ==
    /\ Reading
    /\ pc' = "failed"
    /\ UNCHANGED <<send_seq, recv_seq, pending_data, asked, answered, h2d, d2h, lost, devVars>>

----------------------------------------------------------------------------
(* The link and the device (outside the repository).                       *)

LoseToDevice ==
    /\ lost < MaxLost /\ h2d # <<>>
    /\ LoseRequests \/ is_ack(Head(h2d).ctrl)
    /\ h2d' = Tail(h2d) /\ lost' = lost + 1
    /\ UNCHANGED <<hostVars, d2h, devVars>>

LoseToHost ==
    /\ lost < MaxLost /\ d2h # <<>>
    /\ d2h' = Tail(d2h) /\ lost' = lost + 1
    /\ UNCHANGED <<hostVars, h2d, devVars>>

\* A request with the expected bit is taken; any other is a duplicate.
DevTakes ==
    /\ h2d # <<>> /\ ~is_ack(Head(h2d).ctrl)
    /\ h2d' = Tail(h2d)
    /\ IF seq_of(Head(h2d).ctrl) = dev_recv_seq
       THEN dev_recv_seq' = Flip(dev_recv_seq) /\ dev_req' = Head(h2d).n
       ELSE UNCHANGED <<dev_recv_seq, dev_req>>
    /\ UNCHANGED <<hostVars, d2h, lost, dev_send_seq, dev_reply, dev_acked>>

\* The device acknowledges the last request it took.
DevAcks ==
    /\ dev_req > 0 /\ Len(d2h) < MaxQueue
    /\ d2h' = Append(d2h, AckFrame(Flip(dev_recv_seq), dev_req))
    /\ UNCHANGED <<hostVars, h2d, lost, devVars>>

\* An ACK of the outstanding answer lets the device go on.
DevGetsAck ==
    /\ h2d # <<>> /\ is_ack(Head(h2d).ctrl)
    /\ h2d' = Tail(h2d)
    /\ IF dev_acked < dev_reply /\ ack_seq_of(Head(h2d).ctrl) = dev_send_seq
       THEN dev_acked' = dev_reply /\ dev_send_seq' = Flip(dev_send_seq)
       ELSE UNCHANGED <<dev_acked, dev_send_seq>>
    /\ UNCHANGED <<hostVars, d2h, lost, dev_recv_seq, dev_req, dev_reply>>

DevReplies ==
    /\ dev_reply < dev_req /\ dev_acked = dev_reply
    /\ d2h' = Append(d2h, [ctrl |-> with_seq(reply_ctrl(dev_req), dev_send_seq), n |-> dev_req])
    /\ dev_reply' = dev_req
    /\ UNCHANGED <<hostVars, h2d, lost, dev_recv_seq, dev_req, dev_send_seq, dev_acked>>

\* One slot more than for acks, so that acks cannot crowd an answer out.
DevRetransmits ==
    /\ dev_acked < dev_reply /\ Len(d2h) <= MaxQueue /\ Len(h2d) < MaxQueue
    /\ d2h' = Append(d2h, [ctrl |-> with_seq(reply_ctrl(dev_reply), dev_send_seq), n |-> dev_reply])
    /\ UNCHANGED <<hostVars, h2d, lost, devVars>>

DevReportsError ==
    /\ Len(d2h) < MaxQueue
    /\ d2h' = Append(d2h, [ctrl |-> TRANSPORT_ERROR, n |-> 0])
    /\ UNCHANGED <<hostVars, h2d, lost, devVars>>

----------------------------------------------------------------------------
Host == \/ SendGetsAck \/ SendSkipsAck \/ SendGetsData
        \/ RecvPending \/ RecvSkipsAck \/ RecvData \/ ReadsError
Device == DevTakes \/ DevGetsAck \/ DevReplies

Next == \/ Send \/ Host \/ TransportFails
        \/ LoseToDevice \/ LoseToHost
        \/ Device \/ DevAcks \/ DevRetransmits \/ DevReportsError

Spec == Init /\ [][Next]_vars

\* A task that can read a frame is polled again, the device serves what it
\* received and keeps retransmitting; it owes nobody an ACK.
Fairness == WF_vars(Host) /\ WF_vars(Device) /\ WF_vars(DevRetransmits)
FairSpec == Spec /\ Fairness

----------------------------------------------------------------------------
(* Properties.                                                             *)

\* The type invariant.
TypeOK ==
    /\ pc \in {"idle", "send", "recv", "failed"}
    /\ send_seq \in {0, 1} /\ recv_seq \in {0, 1}
    /\ pending_data \in Frame
    /\ asked \in Nat /\ answered \in Nat
    /\ h2d \in Seq(Frame) /\ d2h \in Seq(Frame) /\ lost \in Nat
    /\ dev_recv_seq \in {0, 1} /\ dev_req \in Nat
    /\ dev_send_seq \in {0, 1} /\ dev_reply \in Nat /\ dev_acked \in Nat

\* The bit of the n-th data message of one direction: 0, 1, 0, ...
BitFor(n) == (n + 1) % 2

IsRequest(f) == f = [ctrl |-> with_seq(request_ctrl(f.n), BitFor(f.n)), n |-> f.n]
IsReply(f) == f = [ctrl |-> with_seq(reply_ctrl(f.n), BitFor(f.n)), n |-> f.n]
IsAck(f) == f = AckFrame(BitFor(f.n), f.n)
IsError(f) == f = [ctrl |-> TRANSPORT_ERROR, n |-> 0]

\* Replies the host has accepted, the stashed one included.
accepted == answered + (IF pending_data = NoFrame THEN 0 ELSE 1)

\* Where both ends are: nobody is ahead of the request in progress.
Progress ==
    /\ pc = "idle" => asked = answered /\ pending_data = NoFrame
    /\ pc = "send" => asked = answered + 1 /\ pending_data = NoFrame
    /\ pc = "recv" => asked = answered + 1
    /\ pc = "failed" => asked = answered + 1 /\ pending_data = NoFrame
    /\ accepted <= dev_reply /\ dev_reply <= dev_req /\ dev_req <= asked
    /\ dev_reply <= dev_acked + 1 /\ dev_acked <= accepted
    /\ pending_data # NoFrame => IsReply(pending_data) /\ pending_data.n = asked

\* Every bit is the parity of what its owner has counted.
Bits ==
    /\ pc \in {"idle", "recv"} => send_seq = BitFor(asked + 1)
    /\ pc = "send" => send_seq = BitFor(asked)
    /\ recv_seq = BitFor(accepted + 1)
    /\ dev_recv_seq = BitFor(dev_req + 1)
    /\ dev_send_seq = BitFor(dev_acked + 1)

\* On the way to the device: the current request, if it has not been taken,
\* once; acks of accepted replies in order, none older than the last
\* one the device got.
ToDevice ==
    /\ \A i \in 1 .. Len(h2d) :
        \/ IsRequest(h2d[i]) /\ h2d[i].n = asked /\ dev_req < asked
        \/ /\ IsAck(h2d[i]) /\ 1 <= h2d[i].n /\ h2d[i].n <= accepted
           /\ dev_acked <= h2d[i].n
    /\ \A i, j \in 1 .. Len(h2d) : i < j =>
        /\ ~(IsRequest(h2d[i]) /\ IsRequest(h2d[j]))
        /\ IsAck(h2d[i]) /\ IsAck(h2d[j]) => h2d[i].n <= h2d[j].n

\* On the way to the host: replies in order, none older than the last one it
\* accepted, and no ack older than the replies it follows.
ToHost ==
    /\ \A i \in 1 .. Len(d2h) :
        \/ IsError(d2h[i])
        \/ IsReply(d2h[i]) /\ 1 <= d2h[i].n /\ accepted <= d2h[i].n /\ d2h[i].n <= dev_reply
        \/ IsAck(d2h[i]) /\ 1 <= d2h[i].n /\ accepted <= d2h[i].n /\ d2h[i].n <= dev_req
    /\ \A i, j \in 1 .. Len(d2h) : i < j =>
        (IsReply(d2h[i]) /\ ~IsError(d2h[j]) => d2h[i].n <= d2h[j].n)

\* The inductive invariant: the channel never confuses two messages that
\* share a sequence bit, however frames are lost, retransmitted or answered
\* before they are acknowledged.
AbpInv == Progress /\ Bits /\ ToDevice /\ ToHost

RR == INSTANCE RequestReply
        WITH handled <- dev_req, up <- (pc # "failed")

\* The channel keeps the promise of RequestReply: the device takes every
\* request at most once and in order, and the frame recv_data returns is the
\* reply to the request send_data sent last.
ImplementsRequestReply == RR!RRSpec

\* "no further send is allowed until the previous one is ACKed"
\* (connection.rs:156-157): when send_data writes a request, the device has
\* taken the one before.
SendOnlyAfterTaken == [][asked' # asked => dev_req = asked]_vars

\* The request in progress was lost on its way, and the host sends it once.
RequestLost == dev_req < asked /\ \A i \in 1 .. Len(h2d) : is_ack(h2d[i].ctrl)

\* Every exchange ends: send_data followed by recv_data returns, with the
\* reply or an error, though the device may never acknowledge a request and
\* answers and the acks of either side may be lost.  Only a lost request keeps
\* the host waiting, for the timeout of its transport.
ExchangeEnds == pc \in {"send", "recv"} ~> pc \in {"idle", "failed"} \/ RequestLost
============================================================================
