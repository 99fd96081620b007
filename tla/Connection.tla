----------------------------- MODULE Connection -----------------------------
(***************************************************************************)
(* Several Connections (thp/connection.rs) on one transport: the pinned    *)
(* one of TrezorClient, and those that thp_probe and                       *)
(* establish_paired_session open beside it without taking the lock.  Each  *)
(* allocates a channel, runs the handshake, then exchanges application     *)
(* messages sealed with the keys and nonces of its session.                *)
(*                                                                         *)
(* read_framed hands a frame to whichever connection reads next and never  *)
(* looks at its channel id, so that a connection meets frames of others,   *)
(* and of a channel that was dropped and is still retransmitted on.        *)
(*                                                                         *)
(* Cryptography is ideal.  Every connection has an id of its own that      *)
(* stands for its random allocation nonce and its ephemeral key; what the  *)
(* device computes for it carries that id, the kind of the message and,    *)
(* for application messages, the nonce, and opens under no other.  The     *)
(* device is outside the repository.                                       *)
(***************************************************************************)
EXTENDS ThpControl, Sequences, FiniteSets

CONSTANTS
    Conns,              \* places a connection can live in
    MAX_ALLOC_READS,    \* frames allocate reads before it gives up
    MaxOpens,           \* bound: connections opened
    MaxRequests,        \* bound: requests of one session
    MaxQueue,           \* bound: frames the device keeps in flight
    FailureCodes        \* codes of the Failures it may answer with

ASSUME ConnectionAssumption ==
    /\ FailureCodes \subseteq {"ActionCancelled", "PinCancelled", "ProcessError"}
    /\ MAX_ALLOC_READS \in Nat \ {0}
    /\ MaxOpens \in Nat /\ MaxRequests \in Nat /\ MaxQueue \in Nat

VARIABLES
    conn,       \* conn[c]: fields of the Connection at c, and where its caller is
    result,     \* result[c]: what transceive returned last at c
    opened,     \* ids given out
    sealed,     \* what hosts have sealed, with key and nonce, numbered per key in re
    h2d, d2h,   \* the link
    dev,        \* dev[i]: the device's state of channel i
    allocated   \* channels the device has allocated

vars == <<conn, result, opened, sealed, h2d, d2h, dev, allocated>>

BROADCAST_CID == 0

\* A payload: what it is, for whom, under which nonce, the application
\* message in it and the nonce of the request that message answers.
Body(kind, id, nonce, msg, re) == [kind |-> kind, id |-> id, nonce |-> nonce, msg |-> msg, re |-> re]
Empty == Body("none", 0, 0, "none", 0)
Frame(ctrl, cid, body) == [ctrl |-> ctrl, cid |-> cid, body |-> body]
NoFrame == Frame(0, 0, Empty)

\* "init" and "completion" are the two exchanges of the handshake, "app" the
\* encrypted transport.
Closed == [pc |-> "closed", id |-> 0, cid |-> BROADCAST_CID, send_seq |-> 0, recv_seq |-> 0,
           pending_data |-> NoFrame, phase |-> "init", nonce_send |-> 0, nonce_recv |-> 0,
           reads |-> 0, request |-> 0]
NoResult == [kind |-> "none", id |-> 0, asked |-> 0, body |-> Empty]
Unused == [id |-> 0, recv_seq |-> 0, send_seq |-> 0, phase |-> "init",
           nonce_recv |-> 0, nonce_send |-> 0, request |-> 0, out |-> NoFrame]

Init ==
    /\ conn = [c \in Conns |-> Closed]
    /\ result = [c \in Conns |-> NoResult]
    /\ opened = 0 /\ sealed = {}
    /\ h2d = <<>> /\ d2h = <<>>
    /\ dev = [i \in 1 .. MaxOpens |-> Unused] /\ allocated = 0

----------------------------------------------------------------------------
(* Opening: Connection::new and allocate.                                  *)

Open(c) ==
    /\ conn[c].pc = "closed" /\ opened < MaxOpens
    /\ opened' = opened + 1
    /\ conn' = [conn EXCEPT ![c] = [Closed EXCEPT !.pc = "alloc", !.id = opened + 1]]
    /\ result' = [result EXCEPT ![c] = NoResult]
    /\ h2d' = Append(h2d, Frame(CHANNEL_ALLOCATION_REQUEST, BROADCAST_CID,
                                Body("nonce", opened + 1, 0, "none", 0)))
    /\ UNCHANGED <<sealed, d2h, dev, allocated>>

\* read_framed returns the next frame, whoever it is for.
got == Head(d2h)
Reads == d2h # <<>> /\ got.ctrl # TRANSPORT_ERROR /\ d2h' = Tail(d2h)

Write(c, ctrl, body) == h2d' = Append(h2d, Frame(ctrl, conn[c].cid, body))

\* Mutant: the nonce is not compared.
parse_allocation_response_mutant(c, f) == f.ctrl = CHANNEL_ALLOCATION_RESPONSE

parse_allocation_response(c, f) ==
    f.ctrl = CHANNEL_ALLOCATION_RESPONSE /\ f.body.kind = "allocation" /\ f.body.id = conn[c].id

Allocated(c) ==
    /\ conn[c].pc = "alloc" /\ Reads
    /\ parse_allocation_response(c, got)
    /\ conn' = [conn EXCEPT ![c].cid = got.body.nonce, ![c].pc = "idle"]
    /\ UNCHANGED <<result, opened, sealed, h2d, dev, allocated>>

\* Any other frame is skipped, up to the bound.
AllocSkips(c) ==
    /\ conn[c].pc = "alloc" /\ Reads
    /\ ~parse_allocation_response(c, got)
    /\ conn' = [conn EXCEPT ![c] = IF @.reads + 1 = MAX_ALLOC_READS THEN Closed
                                   ELSE [conn[c] EXCEPT !.reads = @ + 1]]
    /\ UNCHANGED <<result, opened, sealed, h2d, dev, allocated>>

----------------------------------------------------------------------------
(* Sending: handshake and send_app, then send_data.                        *)

SealedBody(c, msg) == Body("app", conn[c].id, conn[c].nonce_send, msg, 0)

\* The next message of the connection, from handshake or transceive.
Payload(c) ==
    CASE conn[c].phase = "app" -> SealedBody(c, IF conn[c].pc = "button" THEN "ButtonAck" ELSE "request")
      [] OTHER -> Body(conn[c].phase, conn[c].id, 0, "none", 0)

base_ctrl(phase) ==
    CASE phase = "init" -> HANDSHAKE_INIT_REQUEST
      [] phase = "completion" -> HANDSHAKE_COMPLETION_REQUEST
      [] phase = "app" -> ENCRYPTED_TRANSPORT

\* Mutant: the nonce stays.
seal_mutant(c, s) == s

\* Session::seal advances the nonce before the message is written.
seal(c, s) == IF conn[c].phase = "app" THEN [s EXCEPT !.nonce_send = @ + 1] ELSE s

Send(c) ==
    /\ conn[c].pc \in {"idle", "button"}
    /\ conn[c].pc = "button" \/ conn[c].nonce_send < MaxRequests
    /\ Write(c, with_seq(base_ctrl(conn[c].phase), conn[c].send_seq), Payload(c))
    /\ sealed' = IF conn[c].phase = "app"
                 THEN sealed \cup {[Payload(c) EXCEPT !.re = Cardinality({x \in sealed : x.id = conn[c].id})]}
                 ELSE sealed
    /\ conn' = [conn EXCEPT ![c] = [seal(c, conn[c]) EXCEPT
                    !.pc = "send",
                    !.request = IF conn[c].pc = "button" THEN @ ELSE conn[c].nonce_send]]
    /\ UNCHANGED <<result, opened, d2h, dev, allocated>>

SendGetsAck(c) ==
    /\ conn[c].pc = "send" /\ Reads
    /\ is_ack(got.ctrl)
    /\ conn' = IF ack_seq_of(got.ctrl) = conn[c].send_seq
               THEN [conn EXCEPT ![c].send_seq = Flip(@), ![c].pc = "recv"]
               ELSE conn
    /\ UNCHANGED <<result, opened, sealed, h2d, dev, allocated>>

SendGetsData(c) ==
    /\ conn[c].pc = "send" /\ Reads
    /\ ~is_ack(got.ctrl)
    /\ Write(c, ack_for(seq_of(got.ctrl)), Empty)
    /\ LET s == [conn[c] EXCEPT !.send_seq = Flip(@), !.pc = "recv"] IN
       conn' = [conn EXCEPT ![c] =
                    IF seq_of(got.ctrl) = s.recv_seq
                    THEN [s EXCEPT !.recv_seq = Flip(@), !.pending_data = got] ELSE s]
    /\ UNCHANGED <<result, opened, sealed, dev, allocated>>

----------------------------------------------------------------------------
(* Receiving: recv_data, then what its caller does with the payload.       *)

read_init_response(c, body) == body.kind = "init_response" /\ body.id = conn[c].id
read_completion_response(c, body) == body.kind = "completion_response" /\ body.id = conn[c].id

\* Mutant: both nonces start at 0.
from_handshake_mutant(s) == [s EXCEPT !.phase = "app", !.nonce_send = 0, !.nonce_recv = 0]

\* Session::from_handshake.
from_handshake(s) == [s EXCEPT !.phase = "app", !.nonce_send = 0, !.nonce_recv = 1]

\* Mutant: the tag is not verified.
open_mutant(c, body) == body.kind = "app_response"

\* Session::open: the tag fits the key and the nonce.
open(c, body) ==
    body.kind = "app_response" /\ body.id = conn[c].id /\ body.nonce = conn[c].nonce_recv

\* User-cancel has a kind of its own.
decode_failure(code) == IF code = "ActionCancelled" THEN "UserCanceled" ELSE "DeviceRejected"

\* The method returns an error and the connection is dropped.
Drop(c, kind, body) ==
    /\ conn' = [conn EXCEPT ![c] = Closed]
    /\ result' = [result EXCEPT ![c] =
                    [kind |-> kind, id |-> conn[c].id, asked |-> conn[c].request, body |-> body]]

\* recv_data returned body; s is the connection after it.
Deliver(c, s, body) ==
    CASE s.phase = "init" /\ read_init_response(c, body) ->
            /\ conn' = [conn EXCEPT ![c] = [s EXCEPT !.phase = "completion", !.pc = "idle"]]
            /\ UNCHANGED result
      [] s.phase = "completion" /\ read_completion_response(c, body) ->
            /\ conn' = [conn EXCEPT ![c] = [from_handshake(s) EXCEPT !.pc = "idle"]]
            /\ UNCHANGED result
      [] s.phase = "app" /\ open(c, body) /\ body.msg = "ButtonRequest" ->
            /\ conn' = [conn EXCEPT ![c] = [s EXCEPT !.nonce_recv = @ + 1, !.pc = "button"]]
            /\ UNCHANGED result
      [] s.phase = "app" /\ open(c, body) /\ body.msg \in FailureCodes ->
            Drop(c, decode_failure(body.msg), body)
      [] s.phase = "app" /\ open(c, body) /\ body.msg = "reply" ->
            /\ conn' = [conn EXCEPT ![c] = [s EXCEPT !.nonce_recv = @ + 1, !.pc = "idle"]]
            /\ result' = [result EXCEPT ![c] =
                            [kind |-> "ok", id |-> s.id, asked |-> s.request, body |-> body]]
      [] OTHER -> Drop(c, "Thp", Empty)

RecvPending(c) ==
    /\ conn[c].pc = "recv" /\ conn[c].pending_data # NoFrame
    /\ Deliver(c, [conn[c] EXCEPT !.pending_data = NoFrame], conn[c].pending_data.body)
    /\ UNCHANGED <<opened, sealed, h2d, d2h, dev, allocated>>

RecvSkipsAck(c) ==
    /\ conn[c].pc = "recv" /\ conn[c].pending_data = NoFrame /\ Reads
    /\ is_ack(got.ctrl)
    /\ UNCHANGED <<conn, result, opened, sealed, h2d, dev, allocated>>

\* Every data frame is acknowledged, before it is decrypted and on the
\* channel of the connection that read it.
RecvData(c) ==
    /\ conn[c].pc = "recv" /\ conn[c].pending_data = NoFrame /\ Reads
    /\ ~is_ack(got.ctrl)
    /\ Write(c, ack_for(seq_of(got.ctrl)), Empty)
    /\ IF seq_of(got.ctrl) = conn[c].recv_seq
       THEN Deliver(c, [conn[c] EXCEPT !.recv_seq = Flip(@)], got.body)
       ELSE UNCHANGED <<conn, result>>
    /\ UNCHANGED <<opened, sealed, dev, allocated>>

\* The transport returns an error to a read or a write.
TransportFails(c) ==
    /\ conn[c].pc \in {"alloc", "send", "recv"}
    /\ Drop(c, "Transport", Empty)
    /\ UNCHANGED <<opened, sealed, h2d, d2h, dev, allocated>>

\* A transport_error frame, whichever channel it is about; its code, which
\* the model leaves open, decides between two kinds (decode_transport_error).
ReadsError(c) ==
    /\ conn[c].pc \in {"alloc", "send", "recv"} /\ conn[c].pending_data = NoFrame
    /\ d2h # <<>> /\ got.ctrl = TRANSPORT_ERROR
    /\ d2h' = Tail(d2h)
    /\ \E kind \in {"Thp", "TransportBusy"} : Drop(c, kind, Empty)
    /\ UNCHANGED <<opened, sealed, h2d, dev, allocated>>

\* The probe is done, the wallet changed: the connection goes out of scope.
Close(c) ==
    /\ conn[c].pc = "idle"
    /\ conn' = [conn EXCEPT ![c] = Closed]
    /\ UNCHANGED <<result, opened, sealed, h2d, d2h, dev, allocated>>

----------------------------------------------------------------------------
(* The device (outside the repository).                                    *)

taken == Head(h2d)

DevAllocates ==
    /\ h2d # <<>> /\ taken.ctrl = CHANNEL_ALLOCATION_REQUEST
    /\ allocated' = allocated + 1
    /\ dev' = [dev EXCEPT ![allocated + 1].id = taken.body.id]
    /\ h2d' = Tail(h2d)
    /\ d2h' = Append(d2h, Frame(CHANNEL_ALLOCATION_RESPONSE, BROADCAST_CID,
                                Body("allocation", taken.body.id, allocated + 1, "none", 0)))
    /\ UNCHANGED <<conn, result, opened, sealed>>

\* What the device answers to a payload it accepts on channel s.
Answers(s, body) ==
    CASE s.phase = "init" -> {Body("init_response", s.id, 0, "none", 0)}
      [] s.phase = "completion" -> {Body("completion_response", s.id, 0, "none", 0)}
      [] s.phase = "app" ->
            {Body("app_response", s.id, s.nonce_send, msg,
                  IF body.msg = "request" THEN body.nonce ELSE s.request) :
                msg \in {"reply"} \cup FailureCodes
                            \cup (IF body.msg = "request" THEN {"ButtonRequest"} ELSE {})}

DevAccepts(s, body) ==
    CASE s.phase = "app" -> body.kind = "app" /\ body.id = s.id /\ body.nonce = s.nonce_recv
      [] OTHER -> body.kind = s.phase /\ body.id = s.id

reply_ctrl(phase) ==
    CASE phase = "init" -> HANDSHAKE_INIT_RESPONSE
      [] phase = "completion" -> HANDSHAKE_COMPLETION_RESPONSE
      [] phase = "app" -> ENCRYPTED_TRANSPORT

\* A fresh message is acknowledged, or not, and answered; a duplicate is
\* ignored.  One that does not decrypt gets a transport_error, and so may any
\* other: the device is locked, or has released the channel.
DevTakes ==
    /\ h2d # <<>> /\ taken.ctrl # CHANNEL_ALLOCATION_REQUEST /\ ~is_ack(taken.ctrl)
    /\ h2d' = Tail(h2d)
    /\ LET s == dev[taken.cid] IN
       IF seq_of(taken.ctrl) # s.recv_seq
       THEN UNCHANGED <<dev, d2h>>
       ELSE \/ d2h' = Append(d2h, Frame(TRANSPORT_ERROR, taken.cid, Empty)) /\ UNCHANGED dev
            \/ \E answer \in Answers(s, taken.body), acks \in BOOLEAN :
               /\ DevAccepts(s, taken.body)
               /\ d2h' = IF acks THEN Append(d2h, Frame(ack_for(s.recv_seq), taken.cid, Empty)) ELSE d2h
               /\ dev' = [dev EXCEPT ![taken.cid] =
                   [s EXCEPT !.recv_seq = Flip(@),
                             !.phase = IF @ = "init" THEN "completion" ELSE "app",
                             !.nonce_recv = IF s.phase = "app" THEN @ + 1 ELSE 0,
                             !.nonce_send = IF s.phase = "app" THEN @ + 1 ELSE 1,
                             !.request = answer.re,
                             !.out = Frame(with_seq(reply_ctrl(s.phase), s.send_seq), taken.cid, answer)]]
    /\ UNCHANGED <<conn, result, opened, sealed, allocated>>

\* The answer is sent, and sent again until it is acknowledged; at most one
\* copy of it is on its way at a time.
DevSends(i) ==
    /\ dev[i].out # NoFrame /\ Len(d2h) < MaxQueue /\ Len(h2d) < MaxQueue
    /\ \A k \in 1 .. Len(d2h) : d2h[k] # dev[i].out
    /\ d2h' = Append(d2h, dev[i].out)
    /\ UNCHANGED <<conn, result, opened, sealed, h2d, dev, allocated>>

DevGetsAck ==
    /\ h2d # <<>> /\ is_ack(taken.ctrl)
    /\ h2d' = Tail(h2d)
    /\ LET i == taken.cid IN
       dev' = IF dev[i].out # NoFrame /\ ack_seq_of(taken.ctrl) = dev[i].send_seq
              THEN [dev EXCEPT ![i].out = NoFrame, ![i].send_seq = Flip(@)]
              ELSE dev
    /\ UNCHANGED <<conn, result, opened, sealed, d2h, allocated>>

----------------------------------------------------------------------------
Next ==
    \/ \E c \in Conns :
        \/ Open(c) \/ Allocated(c) \/ AllocSkips(c)
        \/ Send(c) \/ SendGetsAck(c) \/ SendGetsData(c)
        \/ RecvPending(c) \/ RecvSkipsAck(c) \/ RecvData(c)
        \/ TransportFails(c) \/ ReadsError(c) \/ Close(c)
    \/ DevAllocates \/ DevTakes \/ DevGetsAck
    \/ \E i \in 1 .. MaxOpens : DevSends(i)

Spec == Init /\ [][Next]_vars

----------------------------------------------------------------------------
(* Properties.                                                             *)

Kinds == {"none", "nonce", "allocation", "init", "init_response", "completion",
          "completion_response", "app", "app_response"}
Messages == {"none", "request", "ButtonAck", "ButtonRequest", "reply"} \cup FailureCodes
BodyType == [kind: Kinds, id: Nat, nonce: Nat, msg: Messages, re: Nat]
FrameType == [ctrl: Byte, cid: 0 .. MaxOpens, body: BodyType]
Phases == {"init", "completion", "app"}

ConnType == [pc: {"closed", "alloc", "idle", "send", "recv", "button"}, id: 0 .. MaxOpens, cid: 0 .. MaxOpens,
             send_seq: {0, 1}, recv_seq: {0, 1}, pending_data: FrameType, phase: Phases,
             nonce_send: Nat, nonce_recv: Nat, reads: Nat, request: Nat]
ResultType == [kind: {"none", "ok", "Thp", "Transport", "TransportBusy", "UserCanceled", "DeviceRejected"},
               id: 0 .. MaxOpens, asked: Nat, body: BodyType]
DevType == [id: 0 .. MaxOpens, recv_seq: {0, 1}, send_seq: {0, 1}, phase: Phases,
            nonce_recv: Nat, nonce_send: Nat, request: Nat, out: FrameType]

\* The type invariant.
TypeOK ==
    /\ conn \in [Conns -> ConnType] /\ result \in [Conns -> ResultType]
    /\ opened \in 0 .. MaxOpens /\ allocated \in 0 .. MaxOpens
    /\ sealed \subseteq BodyType
    /\ h2d \in Seq(FrameType) /\ d2h \in Seq(FrameType)
    /\ dev \in [1 .. MaxOpens -> DevType]

\* transceive returns the device's reply to the very request it sent, on its
\* own channel, though connections steal each other's frames and acks, and a
\* dropped channel goes on retransmitting.
ReplyIsMine ==
    \A c \in Conns : result[c].kind = "ok" =>
        result[c].body.id = result[c].id /\ result[c].body.re = result[c].asked

\* A channel belongs to the connection whose allocation nonce the device
\* echoed: no two connections ever write on the same one.
ChannelIsMine ==
    \A c \in Conns : conn[c].pc \notin {"closed", "alloc"} => dev[conn[c].cid].id = conn[c].id

\* No key and nonce ever seal two messages (session.rs:73-85), though a
\* message may be sealed and its sending fail.
NonceUsedOnce ==
    \A x, y \in sealed : x.id = y.id /\ x.nonce = y.nonce => x = y

\* Between exchanges both ends agree on both nonces.
NoncesAgree ==
    \A c \in Conns : conn[c].pc \in {"idle", "button"} /\ conn[c].phase = "app" =>
        /\ conn[c].nonce_send = dev[conn[c].cid].nonce_recv
        /\ conn[c].nonce_recv = dev[conn[c].cid].nonce_send

\* "User-cancel (ActionCancelled / PinCancelled) is surfaced as UserCanceled
\* instead" (error.rs:26-28).
UserCancelSurfaces ==
    \A c \in Conns : result[c].body.msg \in {"ActionCancelled", "PinCancelled"} =>
        result[c].kind = "UserCanceled"
============================================================================
