----------------------------- MODULE AbpCancel -----------------------------
(***************************************************************************)
(* Abp, on the channel ensure_conn opens, when the future of a call may be *)
(* dropped at an await point of send_data or recv_data.  The methods of    *)
(* TrezorClient are exported async functions (client.rs:121), so the host  *)
(* application may cancel one.  Until ensure_conn puts the connection into *)
(* the slot it is a local of the future and goes with it.  From then on    *)
(* only the guard of the slot is released: the Connection stays pinned     *)
(* with whatever its fields hold, and the next call sends on it.           *)
(***************************************************************************)
EXTENDS Abp

\* The exchanges before the connection is pinned: two of the handshake,
\* end_request and create_seeded_session.
OpeningRequests == 4

\* What becomes of the connection of a call that is dropped in an exchange.
Dropped == pc' = IF asked > OpeningRequests THEN "idle" ELSE "failed"

\* Dropped in read_framed: nothing has been read.
Cancel ==
    /\ Reading
    /\ Dropped
    /\ UNCHANGED <<send_seq, recv_seq, pending_data, asked, answered, h2d, d2h, lost, devVars>>

\* Dropped in send_ack, with the ACK written or not: a data frame has been
\* read and is lost, send_data has moved its own bit, and recv_seq and
\* pending_data, which are set after the await, are as before.
CancelAck ==
    /\ Reading /\ Reads
    /\ ~is_ack(Head(d2h).ctrl)
    /\ send_ack(Head(d2h)) \/ UNCHANGED h2d
    /\ send_seq' = IF pc = "send" THEN Flip(send_seq) ELSE send_seq
    /\ Dropped
    /\ UNCHANGED <<recv_seq, pending_data, asked, answered, lost, devVars>>

CancelSpec == Init /\ [][Next \/ Cancel \/ CancelAck]_vars

\* "Send an application message and return the device's reply"
\* (connection.rs:312-313): the reply a call on the pinned connection returns
\* answers the request that call has sent.
ReplyMatches == [][answered' # answered => answered' = asked]_vars
============================================================================
