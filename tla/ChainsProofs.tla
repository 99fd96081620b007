---------------------------- MODULE ChainsProofs ----------------------------
(***************************************************************************)
(* Proofs about the typed exchanges of the chain modules, for every number *)
(* of calls, cancellations and rounds of a PSBT.                           *)
(***************************************************************************)
EXTENDS Chains, FiniteSetTheorems, TLAPS

----------------------------------------------------------------------------
(* The table of functions.                                                 *)

\* A part of a transaction and the message that opens it.
LEMMA ContinuesTable ==
    /\ DOMAIN Continues = {TRON_TRANSFER_CONTRACT, BTC_TX_ACK}
    /\ Continues[TRON_TRANSFER_CONTRACT] = TRON_SIGN_TX
    /\ Continues[BTC_TX_ACK] = BTC_SIGN_TX
  BY DEF Continues, TRON_TRANSFER_CONTRACT, BTC_TX_ACK, TRON_SIGN_TX, BTC_SIGN_TX

\* Request and reply types of the functions with one exchange.
Pairs == {<<56, 57>>, <<450, 451>>, <<64, 66>>, <<452, 59>>, <<902, 903>>, <<904, 905>>, <<906, 907>>,
          <<2200, 2201>>, <<38, 40>>, <<11, 12>>, <<55, 17>>}

\* A function makes one exchange, or signs a transaction in two steps.
LEMMA Table ==
    ASSUME NEW m \in Functions
    PROVE  \/ \E p \in Pairs : m.steps = <<Step(p[1], p[2])>>
           \/ m.steps = <<Step(TRON_SIGN_TX, TRON_CONTRACT_REQUEST), Step(TRON_TRANSFER_CONTRACT, TRON_SIGNATURE)>>
           \/ m.steps = <<Step(BTC_SIGN_TX, BTC_TX_REQUEST), Step(BTC_TX_ACK, BTC_TX_REQUEST)>>
<1> USE DEF Query, Function
<1>1. CASE m \in {eth_get_address, eth_get_public_key, eth_sign_message, eth_sign_message_full, sign_eip1559}
  BY <1>1 DEF Pairs, eth_get_address, eth_get_public_key, eth_sign_message, eth_sign_message_full, sign_eip1559
<1>2. CASE m \in {sol_get_address, sol_sign_tx, sol_sign_message, tron_get_address}
  BY <1>2 DEF Pairs, sol_get_address, sol_sign_tx, sol_sign_message, tron_get_address
<1>3. CASE m \in {btc_sign_message, get_account_xpub, get_master_fingerprint, get_features}
  BY <1>3 DEF Pairs, btc_sign_message, get_account_xpub, get_master_fingerprint, get_features
<1>4. CASE m \in {tron_sign_tx, sign_psbt}
  BY <1>4 DEF tron_sign_tx, sign_psbt
<1> QED
  BY <1>1, <1>2, <1>3, <1>4 DEF Functions

\* What the invariant needs of the table: every function has a first step, it
\* opens no transaction half way, and no step expects a Failure.
LEMMA StepTypes ==
    ASSUME NEW m \in Functions
    PROVE  /\ m.steps \in Seq([sends: Nat, expects: Nat]) /\ Len(m.steps) \in {1, 2}
           /\ m.steps[1].sends \notin DOMAIN Continues
           /\ \A k \in DOMAIN m.steps : m.steps[k].sends \in Nat \ {0} /\ m.steps[k].expects \in Nat \ {FAILURE}
<1> USE DEF Step
<1>1. CASE \E p \in Pairs : m.steps = <<Step(p[1], p[2])>>
  <2>1. PICK p \in Pairs : m.steps = <<Step(p[1], p[2])>>
    BY <1>1
  <2>2. p[1] \in Nat \ {0, TRON_TRANSFER_CONTRACT, BTC_TX_ACK} /\ p[2] \in Nat \ {FAILURE}
    BY DEF Pairs, TRON_TRANSFER_CONTRACT, BTC_TX_ACK, FAILURE
  <2> QED
    BY <2>1, <2>2, ContinuesTable
<1>2. CASE m.steps = <<Step(TRON_SIGN_TX, TRON_CONTRACT_REQUEST), Step(TRON_TRANSFER_CONTRACT, TRON_SIGNATURE)>>
  BY <1>2, ContinuesTable DEF TRON_SIGN_TX, TRON_CONTRACT_REQUEST, TRON_TRANSFER_CONTRACT, TRON_SIGNATURE,
                              BTC_TX_ACK, FAILURE
<1>3. CASE m.steps = <<Step(BTC_SIGN_TX, BTC_TX_REQUEST), Step(BTC_TX_ACK, BTC_TX_REQUEST)>>
  BY <1>3, ContinuesTable DEF BTC_SIGN_TX, BTC_TX_REQUEST, BTC_TX_ACK, TRON_TRANSFER_CONTRACT, FAILURE
<1> QED
  BY <1>1, <1>2, <1>3, Table

\* The function an idle call stands at.
LEMMA FirstFunction == get_features \in Functions /\ 1 \in DOMAIN get_features.steps
<1>1. get_features \in Functions
  BY DEF Functions
<1>2. PICK s : s = get_features.steps
  OBVIOUS
<1>3. s \in Seq([sends: Nat, expects: Nat]) /\ Len(s) \in {1, 2}
  BY <1>1, <1>2, StepTypes
<1>4. 1 \in DOMAIN s
  BY ONLY <1>3
<1> QED
  BY ONLY <1>1, <1>2, <1>4

\* Two steps that expect the same reply send requests of one function.
LEMMA ReplyTypes ==
    ASSUME NEW m \in Functions, NEW k \in DOMAIN m.steps, NEW n \in Functions, NEW j \in DOMAIN n.steps,
           m.steps[k].expects = n.steps[j].expects
    PROVE  \E i \in DOMAIN m.steps : m.steps[i].sends = n.steps[j].sends
<1> USE DEF Step, Pairs, TRON_SIGN_TX, TRON_CONTRACT_REQUEST, TRON_TRANSFER_CONTRACT, TRON_SIGNATURE,
            BTC_SIGN_TX, BTC_TX_REQUEST, BTC_TX_ACK
<1>1. CASE \E p \in Pairs : m.steps = <<Step(p[1], p[2])>>
  <2>1. PICK p \in Pairs : m.steps = <<Step(p[1], p[2])>>
    BY <1>1
  <2>2. k = 1 /\ m.steps[k].sends = p[1] /\ m.steps[k].expects = p[2]
    BY <2>1
  <2>3. CASE \E q \in Pairs : n.steps = <<Step(q[1], q[2])>>
    <3>1. PICK q \in Pairs : n.steps = <<Step(q[1], q[2])>>
      BY <2>3
    <3>2. n.steps[j].sends = q[1] /\ p[2] = q[2]
      BY <2>2, <3>1
    <3>3. p[1] = q[1]
      BY <3>2
    <3> QED
      BY <2>2, <3>2, <3>3
  <2>4. CASE n.steps = <<Step(TRON_SIGN_TX, TRON_CONTRACT_REQUEST), Step(TRON_TRANSFER_CONTRACT, TRON_SIGNATURE)>>
    BY <2>2, <2>4
  <2>5. CASE n.steps = <<Step(BTC_SIGN_TX, BTC_TX_REQUEST), Step(BTC_TX_ACK, BTC_TX_REQUEST)>>
    BY <2>2, <2>5
  <2> QED
    BY <2>3, <2>4, <2>5, Table
<1>2. CASE m.steps = <<Step(TRON_SIGN_TX, TRON_CONTRACT_REQUEST), Step(TRON_TRANSFER_CONTRACT, TRON_SIGNATURE)>>
  <2>1. CASE \E q \in Pairs : n.steps = <<Step(q[1], q[2])>>
    BY <1>2, <2>1
  <2>2. CASE n.steps = <<Step(TRON_SIGN_TX, TRON_CONTRACT_REQUEST), Step(TRON_TRANSFER_CONTRACT, TRON_SIGNATURE)>>
    BY <1>2, <2>2
  <2>3. CASE n.steps = <<Step(BTC_SIGN_TX, BTC_TX_REQUEST), Step(BTC_TX_ACK, BTC_TX_REQUEST)>>
    BY <1>2, <2>3
  <2> QED
    BY <2>1, <2>2, <2>3, Table
<1>3. CASE m.steps = <<Step(BTC_SIGN_TX, BTC_TX_REQUEST), Step(BTC_TX_ACK, BTC_TX_REQUEST)>>
  <2>1. CASE \E q \in Pairs : n.steps = <<Step(q[1], q[2])>>
    BY <1>3, <2>1
  <2>2. CASE n.steps = <<Step(TRON_SIGN_TX, TRON_CONTRACT_REQUEST), Step(TRON_TRANSFER_CONTRACT, TRON_SIGNATURE)>>
    BY <1>3, <2>2
  <2>3. CASE n.steps = <<Step(BTC_SIGN_TX, BTC_TX_REQUEST), Step(BTC_TX_ACK, BTC_TX_REQUEST)>>
    BY <1>3, <2>3
  <2> QED
    BY <2>1, <2>2, <2>3, Table
<1> QED
  BY <1>1, <1>2, <1>3, Table

\* A reply of the expected type answers a request the function makes.
LEMMA AnswersTyped ==
    ASSUME NEW m \in Functions, NEW k \in DOMAIN m.steps, NEW sends, m.steps[k].expects \in Answers(sends)
    PROVE  sends \in {s.sends : s \in Range(m.steps)}
<1>1. PICK n \in Functions : \E s \in Range(n.steps) : s.sends = sends /\ s.expects = m.steps[k].expects
  BY DEF Answers
<1>2. PICK j \in DOMAIN n.steps : n.steps[j].sends = sends /\ n.steps[j].expects = m.steps[k].expects
  BY <1>1 DEF Range
<1>3. PICK i \in DOMAIN m.steps : m.steps[i].sends = sends
  BY <1>1, <1>2, ReplyTypes
<1>4. m.steps[i] \in Range(m.steps)
  BY <1>3 DEF Range
<1> QED
  BY <1>3, <1>4

----------------------------------------------------------------------------
(* The inductive invariant.                                                *)

Requests == [sends: Nat, id: Nat]
Replies == [type: Nat, sends: Nat, id: Nat, header: Nat, more: BOOLEAN]

\* The shape of the state.
Shapes ==
    /\ call \in [id: Nat, of: Functions, step: Nat, at: {"idle", "send", "ack", "recv"}, bad: BOOLEAN]
    /\ conn \in [repeats: BOOLEAN, ahead: BOOLEAN]
    /\ inbox \in Seq(Replies) /\ todo \in Seq(Requests) /\ flow \in Requests
    /\ calls \in Nat /\ IsFiniteSet(dropped) /\ rounds \in Nat

\* The running call is the last one made and has not been dropped; until it
\* returns there is no result. An error forgets what was dropped, and with it
\* what the sequence bit and the nonces remember.
Calling ==
    /\ call.at = "idle" => call = Idle
    /\ call.at # "idle" => call.id = calls /\ calls > 0 /\ calls \notin dropped /\ result = NoResult
    /\ dropped = {} => ~conn.repeats /\ ~conn.ahead
    /\ Cardinality(dropped) <= MaxCancels

\* What is unread, on its way either way, was asked for by the running call or
\* by one made after the first drop; each dropped call leaves at most one
\* request unanswered.
Unread(x) == x.id \in 1 .. calls /\ IF dropped = {} THEN x.id = calls ELSE \E d \in dropped : d <= x.id

Asked ==
    /\ Len(todo) + Len(inbox) <= Cardinality(dropped) + 1
    /\ call.at \in {"idle", "send"} => Len(todo) + Len(inbox) <= Cardinality(dropped)
    /\ \A k \in DOMAIN inbox : Unread(inbox[k])
    /\ \A k \in DOMAIN todo : Unread(todo[k])

\* A part of a transaction follows a message of the same call: in the queue, or
\* as what the device is signing. Unless the nonces have run ahead, so that the
\* device opens nothing more, the last request it has is the running call's.
LastIs(id) == IF todo = <<>> THEN flow # NoFlow => flow.id = id ELSE todo[Len(todo)].id = id

Flows ==
    /\ \A k \in DOMAIN todo : todo[k].sends \in DOMAIN Continues =>
         IF k = 1 THEN flow # NoFlow => flow.id = todo[k].id ELSE todo[k - 1].id = todo[k].id
    /\ ~conn.ahead /\ (call.at \in {"ack", "recv"} \/ (call.at = "send" /\ call.step > 1)) => LastIs(call.id)
    /\ \A k \in DOMAIN inbox : inbox[k].header = inbox[k].id /\ inbox[k].type \in Answers(inbox[k].sends) \cup {FAILURE}

Outcomes == TypedResult /\ OwnUnlessDropped /\ OneTransaction

Inv == Shapes /\ TypeOK /\ Calling /\ Asked /\ Flows /\ Outcomes

\* Sequences grow at the end and shrink at the front.
LEMMA AppendFacts ==
    ASSUME NEW S, NEW s \in Seq(S), NEW x \in S
    PROVE  /\ Append(s, x) \in Seq(S) /\ Len(Append(s, x)) = Len(s) + 1 /\ Append(s, x) # <<>>
           /\ DOMAIN Append(s, x) = DOMAIN s \cup {Len(s) + 1} /\ Append(s, x)[Len(s) + 1] = x
           /\ \A k \in DOMAIN s : Append(s, x)[k] = s[k]
  OBVIOUS

\* What is left of a queue when its first element is taken.
LEMMA TailFacts ==
    ASSUME NEW S, NEW s \in Seq(S), s # <<>>
    PROVE  /\ Head(s) \in S /\ Head(s) = s[1] /\ 1 \in DOMAIN s
           /\ Tail(s) \in Seq(S) /\ Len(Tail(s)) = Len(s) - 1 /\ Len(s) > 0
           /\ \A k \in DOMAIN Tail(s) : k + 1 \in DOMAIN s /\ Tail(s)[k] = s[k + 1]
  OBVIOUS

\* What is left of it when its last element is taken.
LEMMA FrontFacts ==
    ASSUME NEW S, NEW s \in Seq(S), s # <<>>
    PROVE  /\ Front(s) \in Seq(S) /\ Len(Front(s)) = Len(s) - 1 /\ Last(s) = s[Len(s)]
           /\ \A k \in DOMAIN Front(s) : k \in DOMAIN s /\ Front(s)[k] = s[k]
<1>1. PICK n \in Nat : Len(s) = n + 1
  OBVIOUS
<1>2. PICK f : f = SubSeq(s, 1, n)
  OBVIOUS
<1>3. Front(s) = f /\ Last(s) = s[Len(s)]
  BY <1>1, <1>2 DEF Front, Last
<1>4. f \in Seq(S) /\ Len(f) = n
  BY <1>1, <1>2
<1>5. \A k \in DOMAIN f : k \in DOMAIN s /\ f[k] = s[k]
  BY <1>1, <1>2
<1> QED
  BY ONLY <1>1, <1>3, <1>4, <1>5

\* A sequence of length zero.
LEMMA EmptyFacts ==
    ASSUME NEW S, NEW s \in Seq(S)
    PROVE  Len(s) \in Nat /\ DOMAIN s = 1 .. Len(s) /\ (Len(s) = 0 <=> s = <<>>)
  OBVIOUS

\* The numbers in Asked are numbers.
LEMMA Counts ==
    ASSUME Inv
    PROVE  /\ Cardinality(dropped) \in Nat /\ Len(todo) \in Nat /\ Len(inbox) \in Nat
           /\ DOMAIN todo = 1 .. Len(todo) /\ DOMAIN inbox = 1 .. Len(inbox)
  BY FS_CardinalityType, EmptyFacts DEF Inv, Shapes

\* Without a dropped call nothing is unread but what the running call awaits.
LEMMA NothingDropped ==
    ASSUME Inv, dropped = {}
    PROVE  /\ call.at \in {"idle", "send"} => todo = <<>> /\ inbox = <<>>
           /\ inbox # <<>> => Len(inbox) = 1 /\ todo = <<>>
<1>1. Cardinality(dropped) = 0
  BY FS_EmptySet
<1>2. Len(todo) = 0 <=> todo = <<>>
  BY EmptyFacts DEF Inv, Shapes
<1>3. Len(inbox) = 0 <=> inbox = <<>>
  BY EmptyFacts DEF Inv, Shapes
<1>4. Len(todo) + Len(inbox) <= 1 /\ (call.at \in {"idle", "send"} => Len(todo) + Len(inbox) <= 0)
  BY <1>1 DEF Inv, Asked
<1>5. Len(todo) \in Nat /\ Len(inbox) \in Nat
  BY Counts
<1>6. /\ call.at \in {"idle", "send"} => Len(todo) = 0 /\ Len(inbox) = 0
      /\ Len(inbox) # 0 => Len(inbox) = 1 /\ Len(todo) = 0
  <2>1. \A a, b \in Nat : (a + b <= 0 => a = 0 /\ b = 0) /\ (a + b <= 1 /\ b # 0 => b = 1 /\ a = 0)
    OBVIOUS
  <2> QED
    BY <1>4, <1>5, <2>1, Zenon
<1> QED
  BY <1>2, <1>3, <1>6

\* Before the first call.
LEMMA InitInv == Init => Inv
<1> SUFFICES ASSUME Init PROVE Inv
  OBVIOUS
<1>1. get_features \in Functions /\ 1 \in DOMAIN get_features.steps
  BY FirstFunction
<1>2. IsFiniteSet({}) /\ Cardinality({}) = 0
  BY FS_EmptySet
<1>3. Shapes
  BY <1>1, <1>2 DEF Init, Shapes, Idle, Fresh, NoFlow, Requests
<1>4. TypeOK /\ Calling /\ Asked /\ Flows /\ Outcomes
  BY <1>1, <1>2, ChainsAssumption
     DEF Init, TypeOK, Calling, Asked, Flows, Outcomes, TypedResult, OwnUnlessDropped, OneTransaction,
         Idle, Fresh, NoFlow, Unread, LastIs
<1> QED
  BY <1>3, <1>4 DEF Inv

\* Every error path: nothing is left of the connection.
LEMMA ReturnsErrInv ==
    ASSUME Inv, call.at # "idle", ReturnsErr
    PROVE  Inv'
<1>1. get_features \in Functions /\ 1 \in DOMAIN get_features.steps
  BY FirstFunction
<1>2. IsFiniteSet({}) /\ Cardinality({}) = 0
  BY FS_EmptySet
<1>3. Shapes'
  BY <1>1, <1>2 DEF Inv, Shapes, ReturnsErr, Idle, Fresh, NoFlow, Requests
<1>4. TypeOK' /\ Calling' /\ Asked' /\ Flows' /\ Outcomes'
  BY <1>1, <1>2, ChainsAssumption
     DEF Inv, Shapes, ReturnsErr, TypeOK, Calling, Asked, Flows, Outcomes, TypedResult, OwnUnlessDropped,
         OneTransaction, Idle, Fresh, NoFlow, Unread, LastIs
<1> QED
  BY <1>3, <1>4 DEF Inv

\* A call begins: nothing is unread unless a call was dropped.
LEMMA BeginInv ==
    ASSUME Inv, NEW m \in Functions, NEW bad \in BOOLEAN, Begin(m, bad)
    PROVE  Inv'
<1>1. Shapes'
  BY DEF Inv, Shapes, Begin
<1>2. call'.at = "send" /\ call'.id = calls + 1 /\ call'.step = 1 /\ call'.of = m /\ calls' = calls + 1
  BY DEF Begin
<1>3. TypeOK'
  <2>1. call'.step \in DOMAIN call'.of.steps
    BY <1>2, StepTypes
  <2>2. calls' \in 0 .. MaxCalls /\ call'.id \in 0 .. calls' /\ dropped' \subseteq 1 .. calls'
    BY <1>2, ChainsAssumption DEF Inv, Shapes, TypeOK, Begin
  <2> QED
    BY <1>2, <2>1, <2>2 DEF Inv, TypeOK, Begin
<1>4. Calling'
  BY <1>2 DEF Inv, Shapes, TypeOK, Calling, Begin
<1>5. Asked'
  <2>1. call.at = "idle" /\ UNCHANGED <<inbox, todo, dropped>>
    BY DEF Begin, Idle
  <2>2. CASE dropped = {}
    <3>1. inbox = <<>> /\ todo = <<>>
      BY <2>1, <2>2, NothingDropped
    <3>2. Len(todo) + Len(inbox) <= Cardinality(dropped) /\ Cardinality(dropped) \in Nat
      BY <2>1, Counts DEF Inv, Asked
    <3>3. DOMAIN inbox = {} /\ DOMAIN todo = {} /\ Len(inbox) = 0 /\ Len(todo) = 0
      BY <3>1
    <3>4. 0 <= Cardinality(dropped) /\ 0 <= Cardinality(dropped) + 1
      BY <3>2
    <3> QED
      BY <2>1, <3>3, <3>4 DEF Asked
  <2>3. CASE dropped # {}
    <3>1. \A n \in 1 .. calls : n \in 1 .. calls'
      BY <1>2 DEF Inv, Shapes
    <3>2. (\A k \in DOMAIN inbox : Unread(inbox[k])') /\ (\A k \in DOMAIN todo : Unread(todo[k])')
      BY <2>1, <2>3, <3>1 DEF Inv, Asked, Unread
    <3> QED
      BY <2>1, <3>2 DEF Inv, Asked
  <2> QED
    BY <2>2, <2>3
<1>6. Flows'
  BY <1>2 DEF Inv, Flows, Begin
<1>7. Outcomes'
  BY DEF Outcomes, TypedResult, OwnUnlessDropped, OneTransaction, Begin
<1> QED
  BY <1>1, <1>3, <1>4, <1>5, <1>6, <1>7 DEF Inv

\* A request is sealed and written: the device gets it, reports that it cannot
\* open it, or discards it, and then the nonces have run ahead.
LEMMA SendRequestInv ==
    ASSUME Inv, SendRequest
    PROVE  Inv'
<1> DEFINE req == [sends |-> call.of.steps[call.step].sends, id |-> call.id]
           failure == Reply(FAILURE, req, req.id, FALSE)
<1>1. /\ req \in Requests /\ req.id = calls /\ failure \in Replies
      /\ failure.id = calls /\ failure.header = calls /\ failure.type = FAILURE
  BY StepTypes DEF Inv, Shapes, TypeOK, Calling, SendRequest, Requests, Replies, Reply, FAILURE
<1>2. call.step = 1 => req.sends \notin DOMAIN Continues
  BY StepTypes DEF Inv, Shapes
<1>3. call.at = "send" /\ call' = [call EXCEPT !.at = "ack"]
  BY DEF SendRequest
<1>4. conn' = [conn EXCEPT !.ahead = conn.ahead \/ conn.repeats]
  BY DEF SendRequest, seal_ahead
<1>5. inbox' = IF conn.ahead /\ ~conn.repeats THEN Append(inbox, failure) ELSE inbox
  BY DEF SendRequest
<1>6. todo' = IF conn.ahead \/ conn.repeats THEN todo ELSE Append(todo, req)
  BY DEF SendRequest
<1>7. UNCHANGED <<result, flow, calls, dropped, rounds>>
  BY DEF SendRequest
<1> HIDE DEF req, failure
<1>8. /\ call' \in [id: Nat, of: Functions, step: Nat, at: {"idle", "send", "ack", "recv"}, bad: BOOLEAN]
      /\ call'.at = "ack" /\ call'.id = call.id /\ call'.of = call.of /\ call'.step = call.step
  BY <1>3 DEF Inv, Shapes
<1>9. conn' \in [repeats: BOOLEAN, ahead: BOOLEAN]
  BY <1>4, Zenon DEF Inv, Shapes
<1>10. conn'.ahead = (conn.ahead \/ conn.repeats) /\ conn'.repeats = conn.repeats
  BY <1>4 DEF Inv, Shapes
<1>11. Shapes'
  BY <1>1, <1>5, <1>6, <1>7, <1>8, <1>9 DEF Inv, Shapes
<1>12. Len(todo') \in Nat /\ Len(inbox') \in Nat
  BY <1>11, EmptyFacts DEF Shapes
<1>13. \A d \in dropped : d <= calls
  BY DEF Inv, Shapes, TypeOK
<1>14. Unread(req) /\ (dropped # {} => Unread(failure))
  BY <1>1, <1>3, <1>13 DEF Inv, Shapes, Calling, Unread
<1>15. ASSUME conn.ahead \/ conn.repeats PROVE Asked' /\ Flows'
  <2>1. conn'.ahead /\ todo' = todo /\ inbox' \in {inbox, Append(inbox, failure)}
    BY <1>15, <1>5, <1>6, <1>10
  <2>2. dropped # {}
    BY <1>15 DEF Inv, Calling
  <2>3. /\ Len(inbox') <= Len(inbox) + 1
        /\ \A k \in DOMAIN inbox' : (k \in DOMAIN inbox /\ inbox'[k] = inbox[k]) \/ inbox'[k] = failure
    <3>1. inbox \in Seq(Replies) /\ failure \in Replies /\ Len(inbox) \in Nat
      BY <1>1, Counts DEF Inv, Shapes
    <3>2. CASE inbox' = inbox
      BY ONLY <3>1, <3>2
    <3>3. CASE inbox' = Append(inbox, failure)
      <4>1. /\ Len(Append(inbox, failure)) = Len(inbox) + 1
            /\ DOMAIN Append(inbox, failure) = DOMAIN inbox \cup {Len(inbox) + 1}
            /\ Append(inbox, failure)[Len(inbox) + 1] = failure
            /\ \A k \in DOMAIN inbox : Append(inbox, failure)[k] = inbox[k]
        BY ONLY <3>1, AppendFacts
      <4> QED
        BY ONLY <3>1, <3>3, <4>1
    <3> QED
      BY ONLY <2>1, <3>2, <3>3
  <2>4. Len(todo) + Len(inbox) <= Cardinality(dropped)
    BY <1>3 DEF Inv, Asked
  <2>5. Len(todo') + Len(inbox') <= Cardinality(dropped) + 1
    BY <1>12, <2>1, <2>3, <2>4, Counts
  <2>6. (\A k \in DOMAIN inbox' : Unread(inbox'[k])) /\ (\A k \in DOMAIN todo' : Unread(todo'[k]))
    BY <1>14, <2>1, <2>2, <2>3 DEF Inv, Asked
  <2>7. Asked'
    BY <1>7, <1>8, <2>5, <2>6 DEF Asked, Unread
  <2>8. Flows'
    BY <1>1, <1>7, <2>1, <2>3 DEF Inv, Flows
  <2> QED
    BY <2>7, <2>8
<1>16. ASSUME ~conn.ahead, ~conn.repeats PROVE Asked' /\ Flows'
  <2>1. todo' = Append(todo, req) /\ inbox' = inbox
    BY <1>16, <1>5, <1>6
  <2>2. /\ Len(todo') = Len(todo) + 1 /\ todo' # <<>> /\ todo'[Len(todo) + 1] = req
        /\ DOMAIN todo' = DOMAIN todo \cup {Len(todo) + 1} /\ \A k \in DOMAIN todo : todo'[k] = todo[k]
    BY <2>1, <1>1, AppendFacts DEF Inv, Shapes
  <2>3. Len(todo) + Len(inbox) <= Cardinality(dropped)
    BY <1>3 DEF Inv, Asked
  <2>4. Len(todo') + Len(inbox') <= Cardinality(dropped) + 1
    BY <2>1, <2>2, <2>3, Counts
  <2>5. (\A k \in DOMAIN inbox' : Unread(inbox'[k])) /\ (\A k \in DOMAIN todo' : Unread(todo'[k]))
    BY <1>14, <2>1, <2>2 DEF Inv, Asked
  <2>6. Asked'
    BY <1>7, <1>8, <2>4, <2>5 DEF Asked, Unread
  <2>7. call.step # 1 => call.step > 1
    BY StepTypes DEF Inv, Shapes, TypeOK
  <2>8. req.sends \in DOMAIN Continues => LastIs(req.id)
    BY <1>1, <1>2, <1>3, <1>16, <2>7 DEF Inv, Calling, Flows
  <2>9. Flows'
    BY <1>1, <1>3, <1>7, <1>8, <2>1, <2>2, <2>8, Counts, SMTT(30) DEF Inv, Calling, Flows, LastIs
  <2> QED
    BY <2>6, <2>9
<1>17. Calling'
  BY <1>3, <1>7, <1>8, <1>10 DEF Inv, Calling
<1>18. TypeOK'
  <2>1. Len(todo') + Len(inbox') <= Cardinality(dropped) + 1
    BY <1>7, <1>15, <1>16 DEF Asked
  <2>2. Len(todo') + Len(inbox') <= MaxCancels + 1
    BY <1>12, <2>1, Counts, ChainsAssumption DEF Inv, Calling
  <2> QED
    BY <1>7, <1>8, <2>2 DEF Inv, TypeOK
<1>19. Outcomes'
  BY <1>7 DEF Inv, Outcomes, TypedResult, OwnUnlessDropped, OneTransaction
<1> QED
  BY <1>11, <1>15, <1>16, <1>17, <1>18, <1>19 DEF Inv

\* A request is acknowledged.
LEMMA AckedInv ==
    ASSUME Inv, Acked
    PROVE  Inv'
<1>1. /\ call' \in [id: Nat, of: Functions, step: Nat, at: {"idle", "send", "ack", "recv"}, bad: BOOLEAN]
      /\ call.at = "ack" /\ call'.at = "recv" /\ call'.id = call.id /\ call'.of = call.of /\ call'.step = call.step
  BY DEF Inv, Shapes, Acked
<1>2. conn' \in [repeats: BOOLEAN, ahead: BOOLEAN] /\ conn'.ahead = conn.ahead /\ ~conn'.repeats
  BY DEF Inv, Shapes, Acked
<1>3. UNCHANGED <<result, inbox, todo, flow, rounds, calls, dropped>>
  BY DEF Acked, deviceVars
<1>4. Shapes' /\ TypeOK'
  BY <1>1, <1>2, <1>3 DEF Inv, Shapes, TypeOK
<1>5. Calling' /\ Asked'
  BY <1>1, <1>2, <1>3 DEF Inv, Calling, Asked, Unread
<1>6. Flows'
  BY <1>1, <1>2, <1>3 DEF Inv, Flows, LastIs
<1>7. Outcomes'
  BY <1>3 DEF Inv, Outcomes, TypedResult, OwnUnlessDropped, OneTransaction
<1> QED
  BY <1>4, <1>5, <1>6, <1>7 DEF Inv

\* The call reads a reply and takes another step.
LEMMA NextStepInv ==
    ASSUME Inv, NextStep
    PROVE  Inv'
<1>1. /\ call.at = "recv" /\ inbox # <<>> /\ inbox' = Tail(inbox)
      /\ call' = [call EXCEPT !.at = "send", !.step = Len(call.of.steps)]
  BY DEF NextStep
<1>2. UNCHANGED <<result, conn, todo, flow, rounds, calls, dropped>>
  BY DEF NextStep, deviceVars
<1>3. /\ inbox' \in Seq(Replies) /\ Len(inbox') = Len(inbox) - 1
      /\ \A k \in DOMAIN inbox' : k + 1 \in DOMAIN inbox /\ inbox'[k] = inbox[k + 1]
  BY <1>1, TailFacts DEF Inv, Shapes
<1>4. /\ call' \in [id: Nat, of: Functions, step: Nat, at: {"idle", "send", "ack", "recv"}, bad: BOOLEAN]
      /\ call'.at = "send" /\ call'.id = call.id /\ call'.of = call.of /\ call'.step \in DOMAIN call'.of.steps
  <2> DEFINE n == Len(call.of.steps)
  <2>1. n \in Nat /\ n \in DOMAIN call.of.steps
    BY StepTypes, SMTT(30) DEF Inv, Shapes
  <2>2. call' = [call EXCEPT !.at = "send", !.step = n]
    BY <1>1
  <2> HIDE DEF n
  <2> QED
    BY <2>1, <2>2 DEF Inv, Shapes
<1>5. Shapes'
  BY <1>2, <1>3, <1>4 DEF Inv, Shapes
<1>6. TypeOK'
  <2>1. Len(todo) + Len(inbox') <= MaxCancels + 1
    BY <1>3, Counts, ChainsAssumption DEF Inv, TypeOK
  <2> QED
    BY <1>2, <1>4, <2>1 DEF Inv, TypeOK
<1>7. Calling'
  BY <1>1, <1>2, <1>4 DEF Inv, Calling
<1>8. Asked'
  <2>1. Len(todo) + Len(inbox') <= Cardinality(dropped)
    BY <1>3, Counts DEF Inv, Asked
  <2>2. \A k \in DOMAIN inbox' : Unread(inbox'[k])
    BY <1>3 DEF Inv, Asked
  <2> QED
    BY <1>2, <2>1, <2>2, Counts DEF Inv, Asked, Unread
<1>9. Flows'
  BY <1>1, <1>2, <1>3, <1>4 DEF Inv, Flows, LastIs
<1>10. Outcomes'
  BY <1>2 DEF Inv, Outcomes, TypedResult, OwnUnlessDropped, OneTransaction
<1> QED
  BY <1>5, <1>6, <1>7, <1>8, <1>9, <1>10 DEF Inv

\* A call returns Ok with the first reply it has not read.
LEMMA ReturnsOkInv ==
    ASSUME Inv, NEW size \in Sizes, ReturnsOk(size)
    PROVE  Inv'
<1> DEFINE r == Head(inbox)
<1>1. call.at = "recv" /\ inbox # <<>> /\ inbox' = Tail(inbox) /\ call' = Idle
  BY DEF ReturnsOk
<1>2. UNCHANGED <<conn, todo, flow, rounds, calls, dropped>>
  BY DEF ReturnsOk, deviceVars
<1>3. expected(call, r) /\ size \in call.of.accepts
  BY DEF ReturnsOk
<1>4. result' = [id |-> call.id, of |-> call.of, reply |-> r, size |-> IF size = 65 THEN call.of.cut ELSE size]
  BY DEF ReturnsOk
<1>5. /\ inbox' \in Seq(Replies) /\ Len(inbox') = Len(inbox) - 1
      /\ \A k \in DOMAIN inbox' : k + 1 \in DOMAIN inbox /\ inbox'[k] = inbox[k + 1]
      /\ r = inbox[1] /\ 1 \in DOMAIN inbox /\ r \in Replies
  BY <1>1, TailFacts DEF Inv, Shapes
<1> HIDE DEF r
<1>6. get_features \in Functions /\ 1 \in DOMAIN get_features.steps
  BY FirstFunction
<1>7. /\ call' \in [id: Nat, of: Functions, step: Nat, at: {"idle", "send", "ack", "recv"}, bad: BOOLEAN]
      /\ call'.at = "idle" /\ call'.id = 0 /\ call'.of = get_features /\ call'.step = 1
  BY <1>1, <1>6 DEF Idle
<1>8. Shapes'
  BY <1>2, <1>5, <1>7 DEF Inv, Shapes
<1>9. Len(todo) + Len(inbox') <= Cardinality(dropped)
  BY <1>5, Counts DEF Inv, Asked
<1>10. TypeOK'
  <2>1. Len(todo) + Len(inbox') <= MaxCancels + 1
    BY <1>5, Counts, ChainsAssumption DEF Inv, TypeOK
  <2> QED
    BY <1>2, <1>6, <1>7, <2>1 DEF Inv, Shapes, TypeOK
<1>11. Calling'
  BY <1>1, <1>2, <1>7 DEF Inv, Calling
<1>12. Asked'
  <2>1. \A k \in DOMAIN inbox' : Unread(inbox'[k])
    BY <1>5 DEF Inv, Asked
  <2>2. Len(todo) + Len(inbox') <= Cardinality(dropped) + 1
    BY <1>5, Counts DEF Inv, Asked
  <2> QED
    BY <1>2, <1>9, <2>1, <2>2 DEF Inv, Asked, Unread
<1>13. Flows'
  BY <1>2, <1>5, <1>7 DEF Inv, Flows
<1>14. TypedResult'
  <2>1. r.type \in Answers(r.sends) \cup {FAILURE} /\ r.type = call.of.steps[call.step].expects
    BY <1>3, <1>5 DEF Inv, Flows, expected
  <2>2. call.of \in Functions /\ call.step \in DOMAIN call.of.steps
    BY DEF Inv, Shapes, TypeOK
  <2>3. r.sends \in {s.sends : s \in Range(call.of.steps)}
    BY <2>1, <2>2, StepTypes, AnswersTyped
  <2>4. call.of = eth_sign_message => result'.size = 64
    BY <1>3, <1>4 DEF eth_sign_message, Function
  <2>5. call.of \in {eth_sign_message_full, tron_sign_tx} => result'.size = 65
    BY <1>3, <1>4 DEF eth_sign_message_full, tron_sign_tx, Query, Function
  <2>6. call.of \in {sol_sign_tx, sol_sign_message} => result'.size = 64
    BY <1>3, <1>4 DEF sol_sign_tx, sol_sign_message, Query, Function
  <2>7. result'.of = call.of /\ result'.reply = r
    BY <1>4
  <2> QED
    BY <2>3, <2>4, <2>5, <2>6, <2>7 DEF TypedResult
<1>15. OwnUnlessDropped'
  <2>1. Unread(r) /\ call.id = calls
    BY <1>1, <1>5 DEF Inv, Asked, Calling
  <2>2. result'.id = calls /\ result'.reply = r
    BY <1>4, <2>1
  <2>3. r.id # calls => r.id < calls /\ \E d \in dropped : d <= r.id
    BY <2>1 DEF Inv, Shapes, Unread
  <2> QED
    BY <1>2, <2>2, <2>3 DEF OwnUnlessDropped
<1>16. OneTransaction'
  BY <1>4, <1>5 DEF Inv, Flows, OneTransaction
<1> QED
  BY <1>8, <1>10, <1>11, <1>12, <1>13, <1>14, <1>15, <1>16 DEF Inv, Outcomes

\* A call is dropped; what it asked for stays unread.
LEMMA CancelInv ==
    ASSUME Inv, NEW sent \in BOOLEAN, Cancel(sent)
    PROVE  Inv'
<1>1. call.at \in {"ack", "recv"} /\ Cardinality(dropped) < MaxCancels /\ call' = Idle
  BY DEF Cancel
<1>2. UNCHANGED <<result, inbox, flow, calls, rounds>>
  BY DEF Cancel
<1>3. call.id = calls /\ calls > 0 /\ calls \notin dropped /\ result = NoResult
  BY <1>1 DEF Inv, Calling
<1>4. dropped' = dropped \cup {calls}
  BY <1>3 DEF Cancel
<1>5. IsFiniteSet(dropped') /\ Cardinality(dropped') = Cardinality(dropped) + 1
  BY <1>3, <1>4, FS_AddElement DEF Inv, Shapes
<1>6. /\ todo' \in Seq(Requests) /\ Len(todo') <= Len(todo)
      /\ \A k \in DOMAIN todo' : k \in DOMAIN todo /\ todo'[k] = todo[k]
  <2>1. CASE sent
    BY <2>1, Counts DEF Inv, Shapes, Cancel
  <2>2. CASE ~sent
    <3>1. todo # <<>> /\ todo' = Front(todo)
      BY <2>2 DEF Cancel
    <3>2. todo' \in Seq(Requests) /\ Len(todo') = Len(todo) - 1
      BY <3>1, FrontFacts DEF Inv, Shapes
    <3>3. \A k \in DOMAIN todo' : k \in DOMAIN todo /\ todo'[k] = todo[k]
      BY <3>1, FrontFacts DEF Inv, Shapes
    <3> QED
      BY <3>2, <3>3, Counts
  <2> QED
    BY <2>1, <2>2
<1>7. conn' \in [repeats: BOOLEAN, ahead: BOOLEAN]
  <2>1. CASE sent
    BY <2>1, Zenon DEF Inv, Shapes, Cancel
  <2>2. CASE ~sent
    BY <2>2 DEF Inv, Shapes, Cancel
  <2> QED
    BY <2>1, <2>2
<1>8. get_features \in Functions /\ 1 \in DOMAIN get_features.steps
  BY FirstFunction
<1>9. /\ call' \in [id: Nat, of: Functions, step: Nat, at: {"idle", "send", "ack", "recv"}, bad: BOOLEAN]
      /\ call'.at = "idle" /\ call'.id = 0 /\ call'.of = get_features /\ call'.step = 1
  BY <1>1, <1>8 DEF Idle
<1>10. Shapes'
  BY <1>2, <1>5, <1>6, <1>7, <1>9 DEF Inv, Shapes
<1>11. Len(todo') \in Nat /\ DOMAIN todo' = 1 .. Len(todo')
  BY <1>6, EmptyFacts
<1>12. Len(todo') + Len(inbox) <= Cardinality(dropped')
  BY <1>5, <1>6, <1>11, Counts DEF Inv, Asked
<1>13. TypeOK'
  <2>1. Len(todo') + Len(inbox) <= MaxCancels + 1
    BY <1>6, <1>11, Counts, ChainsAssumption DEF Inv, TypeOK
  <2>2. dropped' \subseteq 1 .. calls
    BY <1>3, <1>4 DEF Inv, Shapes, TypeOK
  <2> QED
    BY <1>2, <1>8, <1>9, <2>1, <2>2 DEF Inv, Shapes, TypeOK
<1>14. Calling'
  <2>1. Cardinality(dropped') <= MaxCancels
    BY <1>1, <1>5, Counts, ChainsAssumption
  <2> QED
    BY <1>1, <1>4, <1>9, <2>1 DEF Calling
<1>15. Asked'
  <2>1. ASSUME NEW x, Unread(x) PROVE Unread(x)'
    <3>1. CASE dropped = {}
      BY <2>1, <3>1, <1>2, <1>4 DEF Unread, Inv, Shapes
    <3>2. CASE dropped # {}
      BY <2>1, <3>2, <1>2, <1>4 DEF Unread
    <3> QED
      BY <3>1, <3>2
  <2>2. \A k \in DOMAIN inbox' : Unread(inbox[k])'
    BY <1>2, <2>1 DEF Inv, Asked, Unread
  <2>3. \A k \in DOMAIN todo' : Unread(todo[k])'
    BY <1>6, <2>1 DEF Inv, Asked, Unread
  <2>4. Len(todo') + Len(inbox) <= Cardinality(dropped') + 1
    BY <1>5, <1>11, <1>12, Counts
  <2> QED
    BY <1>2, <1>12, <2>2, <2>3, <2>4 DEF Asked
<1>16. Flows'
  BY <1>2, <1>6, <1>9, <1>11 DEF Inv, Flows
<1>17. Outcomes'
  BY <1>2, <1>3 DEF Outcomes, TypedResult, OwnUnlessDropped, OneTransaction
<1> QED
  BY <1>10, <1>13, <1>14, <1>15, <1>16, <1>17 DEF Inv

\* Whatever the device does with the first request it has, it replies to it,
\* signs for one call only and goes on, if at all, with what that call sent.
LEMMA HandledInv ==
    ASSUME Inv, todo # <<>>, NEW reply \in Replies, NEW f \in Requests, Handled(reply, f),
           reply.id = Head(todo).id, reply.header = reply.id,
           reply.type \in Answers(reply.sends) \cup {FAILURE}, f # NoFlow => f.id = Head(todo).id,
           UNCHANGED <<call, result, conn, calls, dropped>>, rounds' \in Nat
    PROVE  Inv'
<1>1. /\ Head(todo) = todo[1] /\ 1 \in DOMAIN todo /\ todo' \in Seq(Requests) /\ Len(todo') = Len(todo) - 1
      /\ \A k \in DOMAIN todo' : k + 1 \in DOMAIN todo /\ todo'[k] = todo[k + 1]
  BY TailFacts DEF Inv, Shapes, Handled
<1>2. /\ inbox' \in Seq(Replies) /\ Len(inbox') = Len(inbox) + 1 /\ inbox'[Len(inbox) + 1] = reply
      /\ DOMAIN inbox' = DOMAIN inbox \cup {Len(inbox) + 1} /\ \A k \in DOMAIN inbox : inbox'[k] = inbox[k]
  BY AppendFacts DEF Inv, Shapes, Handled
<1>3. flow' = f
  BY DEF Handled
<1>4. Shapes'
  BY <1>1, <1>2, <1>3 DEF Inv, Shapes
<1>5. Len(todo') + Len(inbox') = Len(todo) + Len(inbox)
  BY <1>1, <1>2, Counts
<1>6. TypeOK' /\ Calling' /\ Outcomes'
  BY <1>5 DEF Inv, TypeOK, Calling, Outcomes, TypedResult, OwnUnlessDropped, OneTransaction
<1>7. Asked'
  <2>1. Unread(reply)
    BY <1>1 DEF Inv, Asked, Unread
  <2>2. (\A k \in DOMAIN inbox' : Unread(inbox'[k])) /\ (\A k \in DOMAIN todo' : Unread(todo'[k]))
    BY <1>1, <1>2, <2>1 DEF Inv, Asked
  <2> QED
    BY <1>5, <2>2 DEF Inv, Asked, Unread
<1>8. Flows'
  <2>1. Len(todo') \in Nat /\ DOMAIN todo' = 1 .. Len(todo') /\ (Len(todo') = 0 <=> todo' = <<>>)
    BY <1>1, EmptyFacts
  <2>2. ASSUME NEW k \in DOMAIN todo', todo'[k].sends \in DOMAIN Continues
        PROVE  IF k = 1 THEN f # NoFlow => f.id = todo'[k].id ELSE todo'[k - 1].id = todo'[k].id
    <3>1. k + 1 \in DOMAIN todo /\ k + 1 # 1 /\ k + 1 - 1 = k /\ todo'[k] = todo[k + 1]
      BY <1>1, <2>1
    <3>2. todo[k].id = todo[k + 1].id
      <4>1. \A n \in DOMAIN todo : n # 1 /\ todo[n].sends \in DOMAIN Continues => todo[n - 1].id = todo[n].id
        BY DEF Inv, Flows
      <4> QED
        BY <2>2, <3>1, <4>1
    <3>3. CASE k = 1
      BY <1>1, <3>1, <3>2, <3>3
    <3>4. CASE k # 1
      <4>1. k - 1 \in DOMAIN todo' /\ k - 1 + 1 = k
        BY <2>1, <3>4
      <4> QED
        BY <1>1, <3>1, <3>2, <3>4, <4>1
    <3> QED
      BY <3>3, <3>4
  <2>3. ASSUME NEW id, LastIs(id) PROVE LastIs(id)'
    <3>1. todo[Len(todo)].id = id
      BY <2>3 DEF LastIs
    <3>2. CASE Len(todo') = 0
      BY <1>1, <1>3, <2>1, <3>1, <3>2, Counts DEF LastIs
    <3>3. CASE Len(todo') # 0
      <4>1. Len(todo') \in DOMAIN todo' /\ Len(todo') + 1 = Len(todo)
        BY <1>1, <2>1, <3>3, Counts
      <4> QED
        BY <1>1, <2>1, <3>1, <3>3, <4>1 DEF LastIs
    <3> QED
      BY <3>2, <3>3
  <2>4. \A k \in DOMAIN inbox' :
           inbox'[k].header = inbox'[k].id /\ inbox'[k].type \in Answers(inbox'[k].sends) \cup {FAILURE}
    BY <1>2 DEF Inv, Flows
  <2> QED
    BY <1>3, <2>2, <2>3, <2>4 DEF Inv, Flows
<1> QED
  BY <1>4, <1>6, <1>7, <1>8 DEF Inv

\* The device handles a request: alone, as the first of a transaction, as the
\* next part of the one it is signing, or of none.
LEMMA DeviceInv ==
    ASSUME Inv, DeviceAnswers \/ DeviceOpens \/ DeviceContinues
    PROVE  Inv'
<1> DEFINE req == Head(todo)
<1>1. todo # <<>> /\ UNCHANGED <<call, result, conn, calls, dropped>>
  BY DEF DeviceAnswers, DeviceOpens, DeviceContinues
<1>2. req \in Requests /\ req = todo[1] /\ 1 \in DOMAIN todo
  BY <1>1, TailFacts DEF Inv, Shapes
<1>3. ASSUME NEW type \in Answers(req.sends) \cup {FAILURE}, NEW more \in BOOLEAN
      PROVE  LET reply == Reply(type, req, req.id, more)
             IN  /\ reply \in Replies /\ reply.id = req.id /\ reply.header = reply.id
                 /\ reply.type \in Answers(reply.sends) \cup {FAILURE}
  <2>1. type \in Nat
    <3>1. CASE type = FAILURE
      BY <3>1 DEF FAILURE
    <3>2. CASE type \in Answers(req.sends)
      <4>1. PICK m \in Functions : \E s \in Range(m.steps) : type = s.expects
        BY <3>2 DEF Answers
      <4> QED
        BY <4>1, StepTypes DEF Range
    <3> QED
      BY <3>1, <3>2
  <2> QED
    BY <1>2, <2>1 DEF Reply, Requests, Replies
<1>4. NoFlow \in Requests /\ rounds \in Nat /\ flow \in Requests
  BY DEF Inv, Shapes, NoFlow, Requests
<1> HIDE DEF req
<1>5. CASE DeviceAnswers
  <2>1. PICK type \in Answers(req.sends) \cup {FAILURE} : Handled(Reply(type, req, req.id, FALSE), NoFlow)
    BY <1>5 DEF DeviceAnswers, req
  <2>2. rounds' = rounds
    BY <1>5 DEF DeviceAnswers
  <2> QED
    BY <1>1, <1>3, <1>4, <2>1, <2>2, HandledInv DEF req
<1>6. CASE DeviceOpens
  <2>1. PICK type \in Answers(req.sends) : Handled(Reply(type, req, req.id, req.sends = BTC_SIGN_TX), req)
    BY <1>6 DEF DeviceOpens, req
  <2>2. rounds' = rounds
    BY <1>6 DEF DeviceOpens
  <2>3. (req.sends = BTC_SIGN_TX) \in BOOLEAN
    OBVIOUS
  <2> QED
    BY <1>1, <1>2, <1>3, <1>4, <2>1, <2>2, <2>3, HandledInv DEF req
<1>7. CASE DeviceContinues
  <2>1. req.sends \in DOMAIN Continues
    BY <1>7 DEF DeviceContinues, req
  <2>2. CASE flow.sends # Continues[req.sends]
    <3>1. Handled(Reply(FAILURE, req, req.id, FALSE), NoFlow) /\ rounds' = rounds
      BY <1>7, <2>2 DEF DeviceContinues, req
    <3> QED
      BY <1>1, <1>3, <1>4, <3>1, HandledInv DEF req
  <2>3. CASE flow.sends = Continues[req.sends]
    <3>1. PICK type \in Answers(req.sends), more \in BOOLEAN :
             /\ Handled(Reply(type, req, flow.id, more), IF more THEN flow ELSE NoFlow)
             /\ rounds' = IF more THEN rounds + 1 ELSE rounds
      BY <1>7, <2>3 DEF DeviceContinues, req
    <3>2. flow # NoFlow
      BY <2>1, <2>3, ContinuesTable DEF NoFlow, TRON_SIGN_TX, BTC_SIGN_TX
    <3>3. flow.id = req.id
      BY <1>2, <2>1, <3>2 DEF Inv, Flows
    <3>4. (IF more THEN flow ELSE NoFlow) \in Requests /\ rounds' \in Nat
      BY <1>4, <3>1
    <3>5. (IF more THEN flow ELSE NoFlow) # NoFlow => (IF more THEN flow ELSE NoFlow).id = req.id
      BY <3>3
    <3> QED
      BY <1>1, <1>3, <3>1, <3>3, <3>4, <3>5, HandledInv DEF req
  <2> QED
    BY <2>2, <2>3
<1> QED
  BY <1>5, <1>6, <1>7

\* Every step preserves the invariant.
LEMMA NextInv == Inv /\ [Next]_vars => Inv'
<1> SUFFICES ASSUME Inv, [Next]_vars PROVE Inv'
  OBVIOUS
<1>1. CASE UNCHANGED vars
  <2>1. /\ call' = call /\ result' = result /\ conn' = conn /\ inbox' = inbox /\ todo' = todo /\ flow' = flow
        /\ rounds' = rounds /\ calls' = calls /\ dropped' = dropped
    BY <1>1 DEF vars
  <2>2. Shapes' /\ TypeOK'
    BY <2>1, Zenon DEF Inv, Shapes, TypeOK
  <2>3. Calling' /\ Asked'
    BY <2>1, Zenon DEF Inv, Calling, Asked, Unread
  <2>4. Flows'
    BY <2>1, Zenon DEF Inv, Flows, LastIs
  <2>5. Outcomes'
    BY <2>1, Zenon DEF Inv, Outcomes, TypedResult, OwnUnlessDropped, OneTransaction
  <2> QED
    BY ONLY <2>2, <2>3, <2>4, <2>5 DEF Inv
<1>2. ASSUME RejectInput \/ \E size \in Sizes : ReplyRefused(size) PROVE Inv'
  BY <1>2, ReturnsErrInv DEF RejectInput, ReplyRefused
<1> QED
  BY <1>1, <1>2, BeginInv, SendRequestInv, AckedInv, NextStepInv, ReturnsOkInv, CancelInv, DeviceInv DEF Next

\* The invariant holds in every state of every run of the calls.
LEMMA Invariance == Spec => []Inv
  BY InitInv, NextInv, PTL DEF Spec

----------------------------------------------------------------------------
(* What follows from it.                                                   *)

\* A call stays within the steps of its function (tron::sign_tx, sign_psbt),
\* and no more is unread than one message of each dropped call and one of the
\* running call.
THEOREM TypeCorrect == Spec => []TypeOK
<1>1. Inv => TypeOK
  BY DEF Inv
<1> QED
  BY <1>1, Invariance, PTL

\* A call never decodes an answer to a request its function does not make, and
\* its result has the size the function documents.
THEOREM ResultsAreTyped == Spec => []TypedResult
<1>1. Inv => TypedResult
  BY DEF Inv, Outcomes
<1> QED
  BY <1>1, Invariance, PTL

\* A call returns the answer to its own request, unless an earlier one was
\* dropped on the same connection.
THEOREM ResultsAreOwn == Spec => []OwnUnlessDropped
<1>1. Inv => OwnUnlessDropped
  BY DEF Inv, Outcomes
<1> QED
  BY <1>1, Invariance, PTL

\* A signature is over the parts of one transaction, however calls are dropped
\* between its parts.
THEOREM SignsOneTransaction == Spec => []OneTransaction
<1>1. Inv => OneTransaction
  BY DEF Inv, Outcomes
<1> QED
  BY <1>1, Invariance, PTL
============================================================================
