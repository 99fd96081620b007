------------------------------- MODULE Chains -------------------------------
(***************************************************************************)
(* The typed exchanges of the chain modules (chains/*.rs) and of           *)
(* pairing::get_features on one pinned connection, when the host may drop  *)
(* the future of a call at any await point.                                *)
(*                                                                         *)
(* A function sends a request, reads the next application message of the   *)
(* connection, checks its type and its contents and decodes it; Tron's and *)
(* Bitcoin's sign a transaction in several such steps.  A dropped call     *)
(* leaves the connection pinned with what it has not read.  If it is       *)
(* dropped before the ACK of its request, send_seq has not moved but the   *)
(* session's nonce has: the device takes the next request for a duplicate, *)
(* and cannot open the one after it.                                       *)
(*                                                                         *)
(* The device is outside the repository: it answers requests in order; a   *)
(* request that does not continue the transaction it is signing ends it.   *)
(***************************************************************************)
EXTENDS Naturals, Sequences, SequencesExt

CONSTANTS
    MaxCalls,     \* bound: calls made
    MaxCancels,   \* bound: calls dropped
    MaxRounds     \* bound: rounds in which the device asks for more of a PSBT

ASSUME ChainsAssumption == MaxCalls \in Nat \ {0} /\ MaxCancels \in Nat /\ MaxRounds \in Nat

----------------------------------------------------------------------------
(* Message types, and the size of what a reply carries: a signature's      *)
(* bytes, an address's characters, Absent for a field left out.            *)
(* TRON_TRANSFER_CONTRACT stands for the other kind of contract as well.   *)

FAILURE == 3
TRON_SIGN_TX == 2202
TRON_SIGNATURE == 2203
TRON_CONTRACT_REQUEST == 2204
TRON_TRANSFER_CONTRACT == 2205
BTC_SIGN_TX == 15
BTC_TX_REQUEST == 21
BTC_TX_ACK == 22

Absent == 1000
Sizes == {0, 63, 64, 65, Absent}

Step(sends, expects) == [sends |-> sends, expects |-> expects]

\* A function: its steps, the sizes it accepts, the size it cuts a signature
\* to, and whether it decodes its input before the first step.
Function(name, steps, accepts, cut, decodes) ==
    [name |-> name, steps |-> steps, accepts |-> accepts, cut |-> cut, decodes |-> decodes]
Query(name, sends, expects, accepts) == Function(name, <<Step(sends, expects)>>, accepts, 65, FALSE)

eth_get_address == Query("eth_get_address", 56, 57, Sizes \ {Absent})
eth_get_public_key == Query("eth_get_public_key", 450, 451, Sizes)
eth_sign_message == Function("eth_sign_message", <<Step(64, 66)>>, {64, 65}, 64, FALSE)
eth_sign_message_full == Query("eth_sign_message_full", 64, 66, {65})
sign_eip1559 == Function("sign_eip1559", <<Step(452, 59)>>, Sizes \ {Absent}, 65, TRUE)
sol_get_address == Query("sol_get_address", 902, 903, Sizes \ {0, Absent})
sol_sign_tx == Query("sol_sign_tx", 904, 905, {64})
sol_sign_message == Query("sol_sign_message", 906, 907, {64})
tron_get_address == Query("tron_get_address", 2200, 2201, Sizes \ {0, Absent})
tron_sign_tx ==
    Function("tron_sign_tx", <<Step(TRON_SIGN_TX, TRON_CONTRACT_REQUEST), Step(TRON_TRANSFER_CONTRACT, TRON_SIGNATURE)>>,
             {65}, 65, TRUE)
btc_sign_message == Query("btc_sign_message", 38, 40, Sizes)
get_account_xpub == Query("get_account_xpub", 11, 12, Sizes \ {0, Absent})
get_master_fingerprint == Query("get_master_fingerprint", 11, 12, Sizes \ {Absent})
sign_psbt ==
    Function("sign_psbt", <<Step(BTC_SIGN_TX, BTC_TX_REQUEST), Step(BTC_TX_ACK, BTC_TX_REQUEST)>>, Sizes, 65, TRUE)
get_features == Query("get_features", 55, 17, Sizes)

Functions == {eth_get_address, eth_get_public_key, eth_sign_message, eth_sign_message_full, sign_eip1559,
              sol_get_address, sol_sign_tx, sol_sign_message, tron_get_address, tron_sign_tx, btc_sign_message,
              get_account_xpub, get_master_fingerprint, sign_psbt, get_features}

----------------------------------------------------------------------------
VARIABLES
    call,       \* the running call: its number, function, step and await point
    result,     \* what the last call that returned Ok decoded, or NoResult
    conn,       \* the pinned connection: whether its next request repeats a
                \* sequence bit, whether its nonces have run ahead
    inbox,      \* replies the connection has not read
    todo,       \* requests the device has not handled
    flow,       \* the transaction the device is signing, or NoFlow
    calls,      \* how many calls were made
    dropped,    \* history: the calls dropped since the last error
    rounds      \* how often the device has asked for more of a PSBT

vars == <<call, result, conn, inbox, todo, flow, calls, dropped, rounds>>
deviceVars == <<todo, flow, rounds>>

Idle == [id |-> 0, of |-> get_features, step |-> 1, at |-> "idle", bad |-> FALSE]
NoResult == [id |-> 0]
Fresh == [repeats |-> FALSE, ahead |-> FALSE]
NoFlow == [sends |-> 0, id |-> 0]

\* A reply to a request of type sends of call id. A signature is over what
\* two calls sent: header the first message of the transaction, id the last.
Reply(type, req, header, more) ==
    [type |-> type, sends |-> req.sends, id |-> req.id, header |-> header, more |-> more]

Init ==
    /\ call = Idle /\ result = NoResult /\ conn = Fresh
    /\ inbox = <<>> /\ todo = <<>> /\ flow = NoFlow
    /\ calls = 0 /\ dropped = {} /\ rounds = 0

\* The error path of every call: the slot is cleared, the next call opens a
\* channel of its own and ignores what was sent on this one.
ReturnsErr ==
    /\ call' = Idle /\ conn' = Fresh /\ inbox' = <<>> /\ todo' = <<>> /\ flow' = NoFlow
    /\ dropped' = {}
    /\ UNCHANGED <<result, calls, rounds>>

\* A call holds the pinned connection; bad input is input it cannot decode.
Begin(m, bad) ==
    /\ call = Idle /\ calls < MaxCalls
    /\ bad => m.decodes
    /\ call' = [id |-> calls + 1, of |-> m, step |-> 1, at |-> "send", bad |-> bad]
    /\ calls' = calls + 1 /\ result' = NoResult /\ rounds' = 0
    /\ UNCHANGED <<conn, inbox, todo, flow, dropped>>

\* The input is decoded before anything is sent.
decode_input(c) == c.bad

RejectInput == call.at = "send" /\ decode_input(call) /\ ReturnsErr

\* Mutant: the nonce moves only when the request is acknowledged.
seal_ahead_mutant(c) == c.ahead

\* Every request sealed moves the nonce, one the device discards as well.
seal_ahead(c) == c.ahead \/ c.repeats

\* send_app: the request is sealed and written. The device discards it when it
\* repeats a sequence bit, and reports an error when it cannot open it.
SendRequest ==
    LET req == [sends |-> call.of.steps[call.step].sends, id |-> call.id] IN
    /\ call.at = "send" /\ ~decode_input(call)
    /\ call' = [call EXCEPT !.at = "ack"]
    /\ conn' = [conn EXCEPT !.ahead = seal_ahead(conn)]
    /\ inbox' = IF conn.ahead /\ ~conn.repeats THEN Append(inbox, Reply(FAILURE, req, req.id, FALSE)) ELSE inbox
    /\ todo' = IF conn.ahead \/ conn.repeats THEN todo ELSE Append(todo, req)
    /\ UNCHANGED <<result, flow, calls, dropped, rounds>>

\* send_data returns: an ACK, or a reply that counts as one, is read.
Acked ==
    /\ call.at = "ack"
    /\ call' = [call EXCEPT !.at = "recv"]
    /\ conn' = [conn EXCEPT !.repeats = FALSE]
    /\ UNCHANGED <<result, inbox, deviceVars, calls, dropped>>

----------------------------------------------------------------------------
(* recv_app, and what the function does with the message.                  *)

\* Mutant: a reply's type is not compared.
expected_mutant(c, r) == r.type # FAILURE

expected(c, r) == r.type = c.of.steps[c.step].expects

\* Another step follows: Tron's contract, or what the device asks for of a PSBT.
continues(c, r) == c.step < Len(c.of.steps) \/ r.more

\* Mutant: the connection stays pinned after an error.
ReplyRefusedMutant(size) ==
    LET r == Head(inbox) IN
    /\ call.at = "recv" /\ inbox # <<>>
    /\ ~expected(call, r) \/ (~continues(call, r) /\ size \notin call.of.accepts)
    /\ call' = Idle /\ inbox' = Tail(inbox) /\ dropped' = {}
    /\ UNCHANGED <<result, conn, deviceVars, calls>>

\* A Failure, a message of another type, or contents the function rejects.
ReplyRefused(size) ==
    LET r == Head(inbox) IN
    /\ call.at = "recv" /\ inbox # <<>>
    /\ ~expected(call, r) \/ (~continues(call, r) /\ size \notin call.of.accepts)
    /\ ReturnsErr

\* Mutant: every round of a PSBT's exchange counts as a step of its own.
NextStepMutant ==
    LET r == Head(inbox) IN
    /\ call.at = "recv" /\ inbox # <<>>
    /\ expected(call, r) /\ continues(call, r)
    /\ call' = [call EXCEPT !.at = "send", !.step = @ + 1]
    /\ inbox' = Tail(inbox)
    /\ UNCHANGED <<result, conn, deviceVars, calls, dropped>>

NextStep ==
    LET r == Head(inbox) IN
    /\ call.at = "recv" /\ inbox # <<>>
    /\ expected(call, r) /\ continues(call, r)
    /\ call' = [call EXCEPT !.at = "send", !.step = Len(call.of.steps)]
    /\ inbox' = Tail(inbox)
    /\ UNCHANGED <<result, conn, deviceVars, calls, dropped>>

\* The contents are cut to the size the caller is promised.
ReturnsOk(size) ==
    LET r == Head(inbox) IN
    /\ call.at = "recv" /\ inbox # <<>>
    /\ expected(call, r) /\ ~continues(call, r) /\ size \in call.of.accepts
    /\ result' = [id |-> call.id, of |-> call.of, reply |-> r,
                  size |-> IF size = 65 THEN call.of.cut ELSE size]
    /\ call' = Idle /\ inbox' = Tail(inbox)
    /\ UNCHANGED <<conn, deviceVars, calls, dropped>>

\* The host drops the call's future; sent: its request reached the device, or
\* was dropped before it was written.
Cancel(sent) ==
    /\ call.at \in {"ack", "recv"} /\ Cardinality(dropped) < MaxCancels
    /\ ~sent => call.at = "ack" /\ todo # <<>> /\ Last(todo).id = call.id
    /\ todo' = IF sent THEN todo ELSE Front(todo)
    /\ conn' = IF sent THEN [conn EXCEPT !.repeats = call.at = "ack"] ELSE [conn EXCEPT !.ahead = TRUE]
    /\ call' = Idle /\ dropped' = dropped \cup {call.id}
    /\ UNCHANGED <<result, inbox, flow, calls, rounds>>

----------------------------------------------------------------------------
(* The device.                                                             *)

Opens == {TRON_SIGN_TX, BTC_SIGN_TX}
Continues == [sends \in {TRON_TRANSFER_CONTRACT, BTC_TX_ACK} |->
                 IF sends = BTC_TX_ACK THEN BTC_SIGN_TX ELSE TRON_SIGN_TX]
Answers(sends) == {s.expects : s \in {s \in UNION {Range(m.steps) : m \in Functions} : s.sends = sends}}

Handled(reply, f) == todo' = Tail(todo) /\ inbox' = Append(inbox, reply) /\ flow' = f

\* A request that stands alone is answered, or refused by the user.
DeviceAnswers ==
    LET req == Head(todo) IN
    /\ todo # <<>> /\ req.sends \notin Opens \cup DOMAIN Continues
    /\ \E type \in Answers(req.sends) \cup {FAILURE} : Handled(Reply(type, req, req.id, FALSE), NoFlow)
    /\ UNCHANGED <<call, result, conn, calls, dropped, rounds>>

\* A transaction begins: the device asks for its first part.
DeviceOpens ==
    LET req == Head(todo) IN
    /\ todo # <<>> /\ req.sends \in Opens
    /\ \E type \in Answers(req.sends) : Handled(Reply(type, req, req.id, req.sends = BTC_SIGN_TX), req)
    /\ UNCHANGED <<call, result, conn, calls, dropped, rounds>>

\* A part of it arrives: the device asks for more or signs; it refuses a part
\* of a transaction it is not signing.
DeviceContinues ==
    LET req == Head(todo) IN
    /\ todo # <<>> /\ req.sends \in DOMAIN Continues
    /\ IF flow.sends # Continues[req.sends]
       THEN Handled(Reply(FAILURE, req, req.id, FALSE), NoFlow) /\ UNCHANGED rounds
       ELSE \E type \in Answers(req.sends), more \in BOOLEAN :
              /\ more => req.sends = BTC_TX_ACK /\ rounds < MaxRounds
              /\ Handled(Reply(type, req, flow.id, more), IF more THEN flow ELSE NoFlow)
              /\ rounds' = IF more THEN rounds + 1 ELSE rounds
    /\ UNCHANGED <<call, result, conn, calls, dropped>>

Next ==
    \/ \E m \in Functions, bad \in BOOLEAN : Begin(m, bad)
    \/ RejectInput \/ SendRequest \/ Acked \/ NextStep
    \/ \E size \in Sizes : ReplyRefused(size) \/ ReturnsOk(size)
    \/ \E sent \in BOOLEAN : Cancel(sent)
    \/ DeviceAnswers \/ DeviceOpens \/ DeviceContinues

Spec == Init /\ [][Next]_vars

----------------------------------------------------------------------------
(* Properties.                                                             *)

\* A call stays within its function's steps, and no more is unread than dropped
\* calls and the running one have asked for.
TypeOK ==
    /\ call.at \in {"idle", "send", "ack", "recv"} /\ call.of \in Functions
    /\ call.step \in DOMAIN call.of.steps
    /\ call.id \in 0 .. calls /\ calls \in 0 .. MaxCalls
    /\ dropped \subseteq 1 .. calls
    /\ Len(todo) + Len(inbox) <= MaxCancels + 1

\* Whatever was cancelled before, a call decodes only the answer to a request
\* of its own kind: never an address as a signature, or one chain's signature
\* as another's, and its result has the size the function documents.
TypedResult ==
    result # NoResult =>
        /\ result.reply.sends \in {s.sends : s \in Range(result.of.steps)}
        /\ result.of = eth_sign_message => result.size = 64
        /\ result.of \in {eth_sign_message_full, tron_sign_tx} => result.size = 65
        /\ result.of \in {sol_sign_tx, sol_sign_message} => result.size = 64

\* A call returns the answer to its own request; only a call dropped earlier on
\* the same connection makes it read an older one, of the dropped call or of
\* one made since. In particular every Ok after an error is its own.
OwnUnlessDropped ==
    result # NoResult /\ result.reply.id # result.id =>
        /\ result.reply.id < result.id
        /\ \E d \in dropped : d <= result.reply.id

\* A signature that a call returns is over the parts of one transaction: not
\* over the header one call sent and the contract or inputs of another, even
\* when calls are dropped between the parts.
OneTransaction ==
    result # NoResult => result.reply.header = result.reply.id
============================================================================
