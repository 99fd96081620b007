------------------------------ MODULE MCSignTx ------------------------------
(***************************************************************************)
(* PSBTs for SignTx: one or two inputs of the three supported purposes,    *)
(* complete or with one thing missing, wrong or added; one or two outputs. *)
(***************************************************************************)
EXTENDS SignTx

path(p, n) == <<[index |-> p, hardened |-> TRUE], [index |-> n, hardened |-> FALSE]>>
k44 == Own(path(44, 1))
k49 == Own(path(49, 1))
k84 == Own(path(84, 1))
k86 == Own(path(86, 1))
cosigner == [wallet |-> "other", path |-> path(84, 2)]

root == [meta |-> 9, inputs |-> <<>>, outputs |-> <<>>]
txA == [meta |-> 1,
        inputs |-> <<[txid |-> compute_txid(root), vout |-> 0, script_sig |-> 1, sequence |-> 1],
                     [txid |-> compute_txid(root), vout |-> 1, script_sig |-> 2, sequence |-> 0]>>,
        outputs |-> <<[script |-> Script("Paytowitness", k84), amount |-> 5],
                      [script |-> Script("Paytoaddress", k44), amount |-> 3]>>]
txB == [txA EXCEPT !.meta = 2, !.inputs = <<@[1]>>,
                   !.outputs = <<[script |-> Script("Paytop2shwitness", k49), amount |-> 7]>>]

native == [txid |-> compute_txid(txA), vout |-> 0, sequence |-> 1, witness_utxo |-> 5,
           non_witness_utxo |-> txA, bip32_derivation |-> <<k84>>]
legacy == [native EXCEPT !.vout = 1, !.witness_utxo = NoAmount, !.bip32_derivation = <<k44>>]
nested == [native EXCEPT !.txid = compute_txid(txB), !.witness_utxo = 7, !.non_witness_utxo = txB,
                         !.bip32_derivation = <<k49>>]

\* An amount that is not the one spent, no previous transaction, another one,
\* an output it does not have, no amount at all, no key, several keys.
variants ==
    {[native EXCEPT !.witness_utxo = 4], [native EXCEPT !.non_witness_utxo = NoTx],
     [native EXCEPT !.non_witness_utxo = txB], [legacy EXCEPT !.non_witness_utxo = txB],
     [native EXCEPT !.vout = 2], [legacy EXCEPT !.non_witness_utxo = NoTx], [native EXCEPT !.bip32_derivation = <<>>],
     [native EXCEPT !.bip32_derivation = <<k84, cosigner>>],
     [native EXCEPT !.bip32_derivation = <<cosigner, k84>>],
     [native EXCEPT !.bip32_derivation = <<k86>>]}

recipient == [script |-> Script("Paytowitness", cosigner), amount |-> 2, bip32_derivation |-> <<>>]
change == [script |-> Script("Paytop2shwitness", k49), amount |-> 1, bip32_derivation |-> <<k49>>]
lying == [recipient EXCEPT !.bip32_derivation = <<k84>>]
data == [recipient EXCEPT !.script = Script("nonstandard", cosigner)]

Psbt(ins, outs) == [inputs |-> ins, outputs |-> outs, meta |-> 1, parses |-> TRUE]

honest_psbts ==
    { Psbt(ins, outs) :
        ins \in {<<i>> : i \in {native, legacy, nested} \cup variants}
                \cup {<<i, j>> : i \in {native, legacy, nested}, j \in {native, legacy, nested} \cup variants},
        outs \in {<<recipient>>, <<data>>, <<lying, recipient>>, <<recipient, change>>} }
    \cup {NoPsbt}

any_psbts == {NoPsbt, Psbt(<<native, [native EXCEPT !.bip32_derivation = <<>>]>>, <<recipient, change>>),
              Psbt(<<legacy, [native EXCEPT !.bip32_derivation = <<k84, cosigner>>]>>, <<data>>)}

\* Requests of every type, with the parts that may be missing missing or not,
\* and signatures for inputs that exist or not, readable or not.
sig(n) == [der |-> n # 3, signs |-> n]
any_requests ==
    { [type |-> t, index |-> i, hash |-> h, sig_index |-> -1, sig |-> NoSig] :
        t \in {"none", "Txinput", "Txoutput", "Txmeta", "Txfinished", "Txextradata", "other"},
        i \in {NoIndex, 1, 2}, h \in {NoHash, native.txid, reverse(native.txid)} }
    \cup { [type |-> t, index |-> 0, hash |-> NoHash, sig_index |-> k, sig |-> s] :
        t \in {"none", "Txinput", "Txmeta"}, k \in {NoIndex, 0, 1, 2}, s \in {NoSig, sig(1), sig(2), sig(3)} }
============================================================================
