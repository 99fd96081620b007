------------------------------- MODULE SignTx -------------------------------
(***************************************************************************)
(* sign_psbt of chains/bitcoin.rs: the SignTx exchange, in which the       *)
(* device asks for the items of the transaction in an order of its own and *)
(* hands the signatures back with its questions.                           *)
(*                                                                         *)
(* The call runs in one of two environments.  In "honest" the device is    *)
(* Trezor's firmware as the source describes it (bitcoin.rs:198-204, 245,  *)
(* 257-258, 290-293): it reads the transaction, reads the previous         *)
(* transaction of every input and compares hash and amount, and signs. In  *)
(* "any" it sends whatever requests and signatures it likes, and the       *)
(* transport may fail.                                                     *)
(*                                                                         *)
(* Hashes are ideal: a txid is the transaction it was computed from, in    *)
(* one of two byte orders.  A signature is the message it signs and the    *)
(* key it was made with.                                                   *)
(***************************************************************************)
EXTENDS Integers, Sequences, Functions

CONSTANTS
    HonestPsbts, AnyPsbts,  \* the PSBTs callers pass, per environment
    CoinTypes,              \* the coin types they pass
    AnyRequests,            \* the requests of an arbitrary device
    MaxRounds               \* bound: how many of them it makes

VARIABLES
    env, psbt, coin_type,   \* the call's arguments and its environment
    pc,             \* "start", "device" (awaits a reply), "host" (has one), "ok", "err"
    ack,            \* last message of the host
    req,            \* last TxRequest of the device
    sigs,           \* input index -> signature
    partial_sigs,   \* what was merged into the PSBT
    dev,            \* the honest device
    history         \* the signatures an arbitrary device has sent

vars == <<env, psbt, coin_type, pc, ack, req, sigs, partial_sigs, dev, history>>
args == <<env, psbt, coin_type>>

----------------------------------------------------------------------------
(* Transactions, PSBTs and the messages made of them.  Indices count from  *)
(* 0 in messages.                                                          *)

NoTx == [meta |-> 0, inputs |-> <<>>, outputs |-> <<>>]
NoAmount == -1
NoIndex == -1
NoPsbt == [inputs |-> <<>>, outputs |-> <<>>, meta |-> 0, parses |-> FALSE]

compute_txid(tx) == [tx |-> tx, order |-> "consensus"]
NoHash == [tx |-> NoTx, order |-> "none"]
reverse(h) == [h EXCEPT !.order = IF h.order = "display" THEN "consensus" ELSE "display"]

\* A script: the type of address it pays and whose key it is.
Script(type, owner) == [type |-> type, owner |-> owner]
Own(path) == [wallet |-> "own", path |-> path]

\* The purpose is the first component, its hardened bit removed.
purpose(address_n) == IF address_n = <<>> THEN 0 ELSE Head(address_n).index

\* Mutant: nested SegWit is forgotten.
script_type_for_path_mutant(address_n) ==
    CASE purpose(address_n) = 44 -> "Spendaddress"
      [] OTHER -> "Spendwitness"

script_type_for_path(address_n) ==
    CASE purpose(address_n) = 44 -> "Spendaddress"
      [] purpose(address_n) = 49 -> "Spendp2shwitness"
      [] OTHER -> "Spendwitness"

output_script_type(address_n) ==
    CASE script_type_for_path(address_n) = "Spendp2shwitness" -> "Paytop2shwitness"
      [] script_type_for_path(address_n) = "Spendaddress" -> "Paytoaddress"
      [] OTHER -> "Paytowitness"

coin_name == IF coin_type = 1 THEN "Testnet" ELSE "Bitcoin"
network == IF coin_type = 1 THEN "Testnet" ELSE "Bitcoin"

\* The first entry of the bip32_derivation map, which is ordered by key.
derivation(item) == Head(item.bip32_derivation)
path_to_vec(key) == key.path

Err == [item |-> "err"]

\* The amount of an input: the witness UTXO's, else the matching output's of
\* the full previous transaction.
amount_of(pin) ==
    IF pin.witness_utxo # NoAmount THEN pin.witness_utxo
    ELSE IF pin.vout < Len(pin.non_witness_utxo.outputs)
         THEN pin.non_witness_utxo.outputs[pin.vout + 1].amount
         ELSE NoAmount

build_input_ack(i) ==
    IF i >= Len(psbt.inputs) THEN Err
    ELSE LET pin == psbt.inputs[i + 1] IN
         IF amount_of(pin) = NoAmount \/ pin.bip32_derivation = <<>> THEN Err
         ELSE [item |-> "input", address_n |-> path_to_vec(derivation(pin)),
               script_type |-> script_type_for_path(path_to_vec(derivation(pin))),
               prev_hash |-> reverse(pin.txid), prev_index |-> pin.vout,
               sequence |-> pin.sequence, amount |-> amount_of(pin)]

\* A change output goes by its path, any other by its address, which only
\* standard scripts have.
build_output_ack(i) ==
    IF i >= Len(psbt.outputs) THEN Err
    ELSE LET txout == psbt.outputs[i + 1] IN
         IF txout.bip32_derivation # <<>>
         THEN [item |-> "change", address_n |-> path_to_vec(derivation(txout)),
               script_type |-> output_script_type(path_to_vec(derivation(txout))),
               amount |-> txout.amount]
         ELSE IF txout.script.type = "nonstandard" THEN Err
         ELSE [item |-> "output", address |-> [script |-> txout.script, network |-> network],
               amount |-> txout.amount]

\* Mutant: the ids are compared in different byte orders.
find_prev_tx_mutant(tx_hash) ==
    LET found == {i \in DOMAIN psbt.inputs : /\ psbt.inputs[i].non_witness_utxo # NoTx
                                             /\ compute_txid(psbt.inputs[i].non_witness_utxo) = tx_hash}
    IN  IF found = {} THEN NoTx ELSE psbt.inputs[CHOOSE i \in found : TRUE].non_witness_utxo

\* The previous transaction among the inputs with that id.  The code takes the
\* first; ids are ideal, so that all with that id are the same transaction.
find_prev_tx(tx_hash) ==
    LET found == {i \in DOMAIN psbt.inputs : /\ psbt.inputs[i].non_witness_utxo # NoTx
                                             /\ reverse(compute_txid(psbt.inputs[i].non_witness_utxo)) = tx_hash}
    IN  IF found = {} THEN NoTx ELSE psbt.inputs[CHOOSE i \in found : TRUE].non_witness_utxo

build_prev_meta_ack(tx_hash) ==
    LET prev == find_prev_tx(tx_hash) IN
    IF prev = NoTx THEN Err
    ELSE [item |-> "prev meta", meta |-> prev.meta,
          inputs_count |-> Len(prev.inputs), outputs_count |-> Len(prev.outputs)]

build_prev_input_ack(tx_hash, i) ==
    LET prev == find_prev_tx(tx_hash) IN
    IF prev = NoTx \/ i >= Len(prev.inputs) THEN Err
    ELSE [item |-> "prev input", prev_hash |-> reverse(prev.inputs[i + 1].txid),
          prev_index |-> prev.inputs[i + 1].vout, script_sig |-> prev.inputs[i + 1].script_sig,
          sequence |-> prev.inputs[i + 1].sequence]

build_prev_output_ack(tx_hash, i) ==
    LET prev == find_prev_tx(tx_hash) IN
    IF prev = NoTx \/ i >= Len(prev.outputs) THEN Err
    ELSE [item |-> "prev output", output |-> prev.outputs[i + 1]]

----------------------------------------------------------------------------
(* What the types of the code say of the arguments and of the messages: a  *)
(* Psbt is made of vectors, keys and scripts, an input names the           *)
(* transaction it spends by its id, and an index is a u32 or missing.      *)

IsSeq(s) == s \in Seq(Range(s))

IsKey(key) == key = [wallet |-> key.wallet, path |-> key.path]

IsInput(pin) ==
    /\ pin.txid = compute_txid(pin.txid.tx) /\ pin.vout \in Nat
    /\ IsSeq(pin.non_witness_utxo.inputs) /\ IsSeq(pin.non_witness_utxo.outputs)
    /\ IsSeq(pin.bip32_derivation) /\ \A i \in DOMAIN pin.bip32_derivation : IsKey(pin.bip32_derivation[i])

IsOutput(txout) ==
    /\ txout.script = Script(txout.script.type, txout.script.owner)
    /\ IsSeq(txout.bip32_derivation) /\ \A i \in DOMAIN txout.bip32_derivation : IsKey(txout.bip32_derivation[i])

ASSUME SignTxAssumption ==
    /\ \A p \in HonestPsbts \cup AnyPsbts :
        /\ IsSeq(p.inputs) /\ \A i \in DOMAIN p.inputs : IsInput(p.inputs[i])
        /\ IsSeq(p.outputs) /\ \A i \in DOMAIN p.outputs : IsOutput(p.outputs[i])
    /\ \A r \in AnyRequests : r.index \in Nat \cup {NoIndex} /\ r.sig_index \in Nat \cup {NoIndex}
    /\ MaxRounds \in Nat

----------------------------------------------------------------------------
(* The host: sign_psbt.                                                    *)

\* A TxRequest: request_type, details and serialized, each of which may be
\* missing.
NoSig == [der |-> FALSE, signs |-> NoAmount]
TxRequest(type, index, hash) ==
    [type |-> type, index |-> index, hash |-> hash, sig_index |-> NoIndex, sig |-> NoSig]
NoRequest == TxRequest("none", NoIndex, NoHash)
NoDev == [todo |-> <<>>, signing |-> FALSE, coin |-> "", meta |-> 0, ins |-> <<>>, outs |-> <<>>,
          prev |-> NoTx, counts |-> <<0, 0>>, checking |-> 0]

Init ==
    /\ \/ env = "honest" /\ psbt \in HonestPsbts
       \/ env = "any" /\ psbt \in AnyPsbts
    /\ coin_type \in CoinTypes
    /\ pc = "start" /\ ack = Err /\ req = NoRequest
    /\ sigs = <<>> /\ partial_sigs = {}
    /\ dev = NoDev /\ history = <<>>

\* The PSBT is parsed and SignTx written.
Start ==
    /\ pc = "start"
    /\ IF psbt.parses
       THEN /\ pc' = "device"
            /\ ack' = [item |-> "SignTx", inputs_count |-> Len(psbt.inputs),
                       outputs_count |-> Len(psbt.outputs), coin_name |-> coin_name,
                       meta |-> psbt.meta]
       ELSE pc' = "err" /\ UNCHANGED ack
    /\ UNCHANGED <<args, req, sigs, partial_sigs, dev, history>>

\* A Failure, another message or one that does not decode.
NotTxRequest ==
    /\ pc = "host" /\ req.type = "other"
    /\ pc' = "err"
    /\ UNCHANGED <<args, ack, req, sigs, partial_sigs, dev, history>>

\* The signature that comes with the request replaces an earlier one.
collected ==
    IF req.sig_index # NoIndex /\ req.sig # NoSig
    THEN [i \in DOMAIN sigs \cup {req.sig_index} |-> IF i = req.sig_index THEN req.sig ELSE sigs[i]]
    ELSE sigs

request_index == IF req.index = NoIndex THEN 0 ELSE req.index
rtype == IF req.type = "none" THEN "Txfinished" ELSE req.type

\* The item the request names; TXMETA needs a hash, and the requests of
\* replacement transactions and extra data are not supported.
item ==
    CASE rtype = "Txinput" /\ req.hash # NoHash -> build_prev_input_ack(req.hash, request_index)
      [] rtype = "Txinput" /\ req.hash = NoHash -> build_input_ack(request_index)
      [] rtype = "Txoutput" /\ req.hash # NoHash -> build_prev_output_ack(req.hash, request_index)
      [] rtype = "Txoutput" /\ req.hash = NoHash -> build_output_ack(request_index)
      [] rtype = "Txmeta" /\ req.hash # NoHash -> build_prev_meta_ack(req.hash)
      [] OTHER -> Err

\* The loop answers a request with its item, or returns the error.
Answer ==
    /\ pc = "host" /\ rtype \notin {"other", "Txfinished"}
    /\ sigs' = collected
    /\ IF item = Err THEN pc' = "err" /\ UNCHANGED ack ELSE pc' = "device" /\ ack' = item
    /\ UNCHANGED <<args, req, partial_sigs, dev, history>>

\* Mutant: the DER encoding is not looked at.
mergeable_mutant(idx, sig) ==
    idx < Len(psbt.inputs) /\ psbt.inputs[idx + 1].bip32_derivation # <<>>

\* A signature that can be merged: of an input of the PSBT that has a key,
\* and readable.
mergeable(idx, sig) ==
    idx < Len(psbt.inputs) /\ psbt.inputs[idx + 1].bip32_derivation # <<>> /\ sig.der

merged(s) ==
    { [input |-> idx, key |-> derivation(psbt.inputs[idx + 1]), sig |-> s[idx]] : idx \in DOMAIN s }

\* Mutant: a signature for an unknown input is skipped.
FinishMutant ==
    /\ pc = "host" /\ rtype = "Txfinished"
    /\ sigs' = collected
    /\ LET known == [idx \in {k \in DOMAIN collected : mergeable(k, collected[k])} |-> collected[idx]]
       IN  pc' = "ok" /\ partial_sigs' = merged(known)
    /\ UNCHANGED <<args, ack, req, dev, history>>

\* The loop ends and the signatures are merged: one that cannot be fails the
\* call.
Finish ==
    /\ pc = "host" /\ rtype = "Txfinished"
    /\ sigs' = collected
    /\ IF \A idx \in DOMAIN collected : mergeable(idx, collected[idx])
       THEN pc' = "ok" /\ partial_sigs' = merged(collected)
       ELSE pc' = "err" /\ UNCHANGED partial_sigs
    /\ UNCHANGED <<args, ack, req, dev, history>>

----------------------------------------------------------------------------
(* The honest device (outside the repository).                             *)

Questions(type, n, hash) == [i \in 1 .. n |-> TxRequest(type, i - 1, hash)]
Failure == TxRequest("other", NoIndex, NoHash)

\* The next question, with the signature that is ready.  When all has been
\* read and checked, the inputs are read again, to be signed.
Asks(d, index, sig) ==
    LET todo == IF d.todo = <<>> /\ ~d.signing THEN Questions("Txinput", Len(d.ins), NoHash)
                ELSE d.todo
        next == IF todo = <<>> THEN TxRequest("Txfinished", NoIndex, NoHash) ELSE Head(todo)
    IN  /\ pc' = "host"
        /\ req' = [next EXCEPT !.sig_index = index, !.sig = sig]
        /\ dev' = [d EXCEPT !.todo = IF todo = <<>> THEN <<>> ELSE Tail(todo),
                            !.signing = d.signing \/ d.todo = <<>>]
        /\ UNCHANGED <<args, ack, sigs, partial_sigs, history>>

AsksNext(d) == Asks(d, NoIndex, NoSig)

Rejects == /\ pc' = "host" /\ req' = Failure
           /\ UNCHANGED <<args, ack, sigs, partial_sigs, dev, history>>

Gets(kind) == env = "honest" /\ pc = "device" /\ ack.item = kind

DevGetsSignTx ==
    /\ Gets("SignTx")
    /\ AsksNext([NoDev EXCEPT !.coin = ack.coin_name, !.meta = ack.meta,
            !.todo = Questions("Txinput", ack.inputs_count, NoHash)
                        \o Questions("Txoutput", ack.outputs_count, NoHash)])

\* The first reading of an input; its previous transaction is to be checked.
DevGetsInput ==
    /\ Gets("input") /\ ~dev.signing
    /\ AsksNext([dev EXCEPT !.ins = Append(@, ack),
                            !.todo = Append(@, TxRequest("Txmeta", NoIndex, ack.prev_hash))])

\* The output the device will sign: the script it derives from the path, or
\* reads from an address of its coin.
signed_output ==
    IF ack.item = "change"
    THEN [script |-> Script(ack.script_type, Own(ack.address_n)), amount |-> ack.amount]
    ELSE [script |-> ack.address.script, amount |-> ack.amount]

DevGetsOutput ==
    /\ Gets("output") \/ Gets("change")
    /\ IF ack.item = "output" /\ ack.address.network # dev.coin THEN Rejects
       ELSE AsksNext([dev EXCEPT !.outs = Append(@, signed_output)])

\* The output the input spends must be one of the previous transaction's.
DevGetsPrevMeta ==
    /\ Gets("prev meta")
    /\ IF dev.ins[dev.checking + 1].prev_index >= ack.outputs_count THEN Rejects
       ELSE AsksNext([dev EXCEPT
            !.prev = [NoTx EXCEPT !.meta = ack.meta],
            !.counts = <<ack.inputs_count, ack.outputs_count>>,
            !.checking = @ + 1,
            !.todo = Questions("Txinput", ack.inputs_count, req.hash)
                        \o Questions("Txoutput", ack.outputs_count, req.hash) \o @])

DevGetsPrevInput ==
    /\ Gets("prev input")
    /\ AsksNext([dev EXCEPT !.prev.inputs = Append(@,
            [txid |-> reverse(ack.prev_hash), vout |-> ack.prev_index, script_sig |-> ack.script_sig,
             sequence |-> ack.sequence])])

\* With the last output the previous transaction is complete: its hash and
\* the amount it gives the input must be the ones the host has declared.
DevGetsPrevOutput ==
    /\ Gets("prev output")
    /\ LET prev == [dev.prev EXCEPT !.outputs = Append(@, ack.output)]
           in == dev.ins[dev.checking]
       IN  IF Len(prev.outputs) < dev.counts[2] THEN AsksNext([dev EXCEPT !.prev = prev])
           ELSE IF /\ reverse(compute_txid(prev)) = in.prev_hash
                   /\ prev.outputs[in.prev_index + 1].amount = in.amount
                THEN AsksNext([dev EXCEPT !.prev = NoTx])
                ELSE Rejects

\* The second reading of an input: the same as the first, or no signature.
DevSigns ==
    /\ Gets("input") /\ dev.signing
    /\ LET index == req.index
           tx == [inputs |-> [i \in DOMAIN dev.ins |->
                                [txid |-> reverse(dev.ins[i].prev_hash), vout |-> dev.ins[i].prev_index,
                                 sequence |-> dev.ins[i].sequence]],
                  outputs |-> dev.outs, meta |-> dev.meta]
       IN  IF ack = dev.ins[index + 1]
           THEN Asks(dev, index, [der |-> TRUE,
                    signs |-> [tx |-> tx, key |-> Own(ack.address_n),
                               script_type |-> ack.script_type, amount |-> ack.amount]])
           ELSE Rejects

HonestDevice == \/ DevGetsSignTx \/ DevGetsInput \/ DevGetsOutput \/ DevGetsPrevMeta
                \/ DevGetsPrevInput \/ DevGetsPrevOutput \/ DevSigns

----------------------------------------------------------------------------
(* An arbitrary device, and a transport that fails.                        *)

AnyDevice ==
    /\ env = "any" /\ pc = "device"
    /\ Len(history) < MaxRounds
    /\ req' \in AnyRequests
    /\ history' = Append(history, [index |-> req'.sig_index, sig |-> req'.sig])
    /\ pc' = "host"
    /\ UNCHANGED <<args, ack, sigs, partial_sigs, dev>>

TransportFails ==
    /\ env = "any" /\ pc = "device"
    /\ pc' = "err"
    /\ UNCHANGED <<args, ack, req, sigs, partial_sigs, dev, history>>

Host == Start \/ NotTxRequest \/ Answer \/ Finish
Next == Host \/ HonestDevice \/ AnyDevice \/ TransportFails

\* The task that runs the call is polled and the honest device answers.
Spec == Init /\ [][Next]_vars /\ WF_vars(Host) /\ WF_vars(HonestDevice)

----------------------------------------------------------------------------
(* Properties.                                                             *)

\* The type invariant.
TypeOK ==
    /\ env \in {"honest", "any"} /\ psbt \in HonestPsbts \cup AnyPsbts /\ coin_type \in CoinTypes
    /\ pc \in {"start", "device", "host", "ok", "err"}
    /\ ack.item \in {"err", "SignTx", "input", "output", "change", "prev meta", "prev input", "prev output"}
    /\ req.index \in Nat \cup {NoIndex} /\ req.sig_index \in Nat \cup {NoIndex}
    /\ DOMAIN sigs \subseteq Nat
    /\ \A p \in partial_sigs : p.input < Len(psbt.inputs) /\ p.sig.der
    /\ dev.checking <= Len(dev.ins) /\ Len(dev.ins) <= Len(psbt.inputs)

\* The transaction of the PSBT, as its signatures must cover it, and the
\* output an input really spends, which its txid fixes.
unsigned_tx ==
    [inputs |-> [i \in DOMAIN psbt.inputs |->
                    [txid |-> psbt.inputs[i].txid, vout |-> psbt.inputs[i].vout,
                     sequence |-> psbt.inputs[i].sequence]],
     outputs |-> [i \in DOMAIN psbt.outputs |->
                    [script |-> psbt.outputs[i].script, amount |-> psbt.outputs[i].amount]],
     meta |-> psbt.meta]
spent(pin) == pin.txid.tx.outputs[pin.vout + 1]

\* A single-signature wallet of one of the supported purposes made this PSBT:
\* the first key of an input or change output is the one its script pays.
spend_type(script) ==
    CASE script.type = "Paytowitness" -> "Spendwitness"
      [] script.type = "Paytop2shwitness" -> "Spendp2shwitness"
      [] OTHER -> "Spendaddress"
Supported(key, script) ==
    /\ script.owner = key /\ key.wallet = "own" /\ purpose(key.path) \in {44, 49, 84}
    /\ script.type = CASE purpose(key.path) = 44 -> "Paytoaddress"
                       [] purpose(key.path) = 49 -> "Paytop2shwitness"
                       [] purpose(key.path) = 84 -> "Paytowitness"
OwnKeys ==
    /\ \A i \in DOMAIN psbt.inputs :
        LET pin == psbt.inputs[i] IN
        pin.bip32_derivation # <<>> => Supported(derivation(pin), spent(pin).script)
    /\ \A i \in DOMAIN psbt.outputs :
        LET txout == psbt.outputs[i] IN
        txout.bip32_derivation # <<>> => Supported(derivation(txout), txout.script)

Verifies(p) ==
    LET out == spent(psbt.inputs[p.input + 1]) IN
    p.sig.signs = [tx |-> unsigned_tx, key |-> out.script.owner,
                   script_type |-> spend_type(out.script), amount |-> out.amount]

\* What sign_psbt returns against the firmware finalises: every input has a
\* signature under the key whose path the device was given, over the PSBT's
\* own transaction and the amount really spent.  A PSBT that lies about an
\* amount or carries another previous transaction gives an error, never an
\* Ok (the fee attack of bitcoin.rs:198-200).
SignedPsbtVerifies ==
    env = "honest" /\ pc = "ok" /\ OwnKeys =>
        /\ \A i \in DOMAIN psbt.inputs :
            \E p \in partial_sigs : p.input = i - 1 /\ p.key = spent(psbt.inputs[i]).script.owner
        /\ \A p \in partial_sigs : Verifies(p)

\* All the items the firmware asks for are there and true.
Complete ==
    /\ psbt.parses
    /\ \A i \in DOMAIN psbt.inputs :
        LET pin == psbt.inputs[i] IN
        /\ pin.bip32_derivation # <<>>
        /\ compute_txid(pin.non_witness_utxo) = pin.txid /\ pin.vout < Len(pin.txid.tx.outputs)
        /\ pin.witness_utxo \in {NoAmount, spent(pin).amount}
    /\ \A i \in DOMAIN psbt.outputs :
        psbt.outputs[i].bip32_derivation # <<>> \/ psbt.outputs[i].script.type # "nonstandard"

\* A complete PSBT is signed: no question of the firmware, in whatever mix of
\* legacy, nested and native inputs, leads to an error or goes round in
\* circles. "BIP84/49/44 are all supported" (bitcoin.rs:203); the older comments
\* that exclude legacy inputs (client.rs:456-457) or all but native ones
\* (bitcoin.rs:7) are not what the code does.
CompletePsbtIsSigned == (env = "honest" /\ Complete) ~> pc = "ok"

\* Whatever the device sends, an Ok carries exactly the last signature it sent
\* for each input, under that input's first key; one for an input that does
\* not exist, has no key or does not parse is never dropped silently.
OkKeepsEverySignature ==
    env = "any" /\ pc = "ok" =>
        LET sent == {k \in DOMAIN history : history[k].index # NoIndex /\ history[k].sig # NoSig}
            last == {k \in sent : \A j \in sent : history[j].index = history[k].index => j <= k}
        IN  /\ \A k \in last : history[k].index < Len(psbt.inputs)
            /\ partial_sigs = { [input |-> history[k].index,
                                  key |-> Head(psbt.inputs[history[k].index + 1].bip32_derivation),
                                  sig |-> history[k].sig] : k \in last }
============================================================================
