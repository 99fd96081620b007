---------------------------- MODULE SignTxProofs ----------------------------
(***************************************************************************)
(* Proofs about sign_psbt, for every PSBT and every device.                *)
(***************************************************************************)
EXTENDS SignTx, TLAPS

----------------------------------------------------------------------------
(* The inductive invariant.                                                *)

\* The arguments are a call's, and what is merged belongs to an input.
Arguments ==
    /\ env \in {"honest", "any"} /\ psbt \in HonestPsbts \cup AnyPsbts /\ coin_type \in CoinTypes
    /\ pc \in {"start", "device", "host", "ok", "err"}
    /\ ack.item \in {"err", "SignTx", "input", "output", "change", "prev meta", "prev input", "prev output"}
    /\ req.index \in Nat \cup {NoIndex} /\ req.sig_index \in Nat \cup {NoIndex}
    /\ DOMAIN sigs \subseteq Nat
    /\ \A p \in partial_sigs : p.input < Len(psbt.inputs) /\ p.sig.der

\* The signatures f are the last ones of the history h.
Sent(h) == {k \in DOMAIN h : h[k].index # NoIndex /\ h[k].sig # NoSig}
Last(h) == {k \in Sent(h) : \A j \in Sent(h) : h[j].index = h[k].index => j <= k}
Keeps(f, h) ==
    /\ DOMAIN f = {h[k].index : k \in Sent(h)}
    /\ \A k \in Last(h) : f[h[k].index] = h[k].sig
    /\ \A i \in DOMAIN f : \E k \in Last(h) : h[k].index = i

\* Against any device: nothing of what it sent is lost.
Kept ==
    env = "any" =>
        /\ IsSeq(history)
        /\ pc = "start" => sigs = <<>> /\ history = <<>>
        /\ pc = "device" => Keeps(sigs, history)
        /\ pc = "host" => Keeps(collected, history)
        /\ pc = "ok" => /\ Keeps(sigs, history) /\ partial_sigs = merged(sigs)
                        /\ \A idx \in DOMAIN sigs : mergeable(idx, sigs[idx])

\* What the firmware has to learn from a PSBT: the inputs declared to it, the
\* outputs it signs and the ones that can be streamed, the inputs whose
\* declared amount is the one spent, and the signatures it makes of them.
SignedOutput(a) ==
    IF a.item = "change"
    THEN [script |-> Script(a.script_type, Own(a.address_n)), amount |-> a.amount]
    ELSE [script |-> a.address.script, amount |-> a.amount]
SignedTx(ins, outs, meta) ==
    [inputs |-> [i \in DOMAIN ins |-> [txid |-> reverse(ins[i].prev_hash), vout |-> ins[i].prev_index,
                                       sequence |-> ins[i].sequence]],
     outputs |-> outs, meta |-> meta]
Signature(tx, in) ==
    [der |-> TRUE, signs |-> [tx |-> tx, key |-> Own(in.address_n),
                              script_type |-> in.script_type, amount |-> in.amount]]

ins_of == [i \in 1 .. Len(psbt.inputs) |-> build_input_ack(i - 1)]
outs_of == [i \in 1 .. Len(psbt.outputs) |->
             IF build_output_ack(i - 1) = Err THEN Err ELSE SignedOutput(build_output_ack(i - 1))]
World ==
    [ins |-> ins_of, outs |-> outs_of, meta |-> psbt.meta,
     good |-> {i \in 1 .. Len(psbt.outputs) : build_output_ack(i - 1) # Err},
     true |-> {i \in 1 .. Len(psbt.inputs) : spent(psbt.inputs[i]).amount = amount_of(psbt.inputs[i])},
     n |-> Len(psbt.inputs), m |-> Len(psbt.outputs)]

\* What the device d has read so far is what the host would stream, in order.
Read(d, w) ==
    /\ IsSeq(d.ins) /\ Len(d.ins) <= w.n /\ \A i \in 1 .. Len(d.ins) : d.ins[i] = w.ins[i] /\ w.ins[i] # Err
    /\ IsSeq(d.outs) /\ Len(d.outs) <= w.m /\ \A i \in 1 .. Len(d.outs) : d.outs[i] = w.outs[i] /\ i \in w.good
    /\ d.checking \in 0 .. Len(d.ins)

IsRequest(r) == r = [type |-> r.type, index |-> r.index, hash |-> r.hash, sig_index |-> r.sig_index, sig |-> r.sig]

\* The questions t it has still to ask: a inputs and r outputs of the
\* transaction h, then the previous transactions of the inputs not yet checked.
QueueOf(t, a, r, h, ins, c, n, m) ==
    /\ IsSeq(t) /\ Len(t) = a + r + (Len(ins) - c)
    /\ \A q \in 1 .. Len(t) : IsRequest(t[q]) /\ t[q].index \in Nat \cup {NoIndex}
    /\ \A q \in 1 .. a : t[q].type = "Txinput" /\ t[q].hash = h /\ (h = NoHash => t[q].index = n - a + q - 1)
    /\ \A q \in a + 1 .. a + r :
        t[q].type = "Txoutput" /\ t[q].hash = h /\ (h = NoHash => t[q].index = m - r + (q - a) - 1)
    /\ \A q \in a + r + 1 .. Len(t) : t[q].type = "Txmeta" /\ t[q].hash = ins[c + q - (a + r)].prev_hash
Queue(t, a, r, h, d, w) == QueueOf(t, a, r, h, d.ins, d.checking, w.n, w.m)

IsTx(tx) == tx = [meta |-> tx.meta, inputs |-> tx.inputs, outputs |-> tx.outputs]

\* It reads the transaction, checks the inputs one by one, and signs.
Reading(a, r, h, d, w) ==
    /\ h = NoHash /\ ~d.signing /\ d.checking = 0
    /\ a = w.n - Len(d.ins) /\ r = w.m - Len(d.outs) /\ (a > 0 => r = w.m)
Checking(a, r, h, d, w) ==
    /\ h # NoHash /\ ~d.signing /\ Len(d.ins) = w.n /\ Len(d.outs) = w.m /\ d.checking > 0
    /\ IsTx(d.prev) /\ IsSeq(d.prev.outputs) /\ d.counts[2] \in Nat
    /\ IF r = 0 THEN a = 0 ELSE r = d.counts[2] - Len(d.prev.outputs)
    /\ a > 0 => d.prev.outputs = <<>>
    /\ \A i \in 1 .. d.checking - 1 : i \in w.true
    /\ r = 0 => d.checking \in w.true
Signing(a, r, h, d, w) ==
    /\ h = NoHash /\ d.signing /\ Len(d.ins) = w.n /\ Len(d.outs) = w.m /\ d.checking = w.n
    /\ r = 0 /\ a <= w.n /\ \A i \in 1 .. w.n : i \in w.true

IsDev(d) == d = [todo |-> d.todo, signing |-> d.signing, coin |-> d.coin, meta |-> d.meta, ins |-> d.ins,
                 outs |-> d.outs, prev |-> d.prev, counts |-> d.counts, checking |-> d.checking]

Plan(t, d, w) ==
    /\ IsDev(d) /\ d.meta = w.meta /\ d.signing \in BOOLEAN /\ Read(d, w)
    /\ \E a, r \in Nat, h \in {NoHash} \cup {d.ins[i].prev_hash : i \in 1 .. Len(d.ins)} :
        /\ Queue(t, a, r, h, d, w)
        /\ Reading(a, r, h, d, w) \/ Checking(a, r, h, d, w) \/ Signing(a, r, h, d, w)

\* The question r that is being answered comes before those in d.todo.
Waiting(r, d) == [q \in 1 .. Len(d.todo) + 1 |-> IF q = 1 THEN r ELSE d.todo[q - 1]]
Asked(r, d, w) ==
    /\ IsSeq(d.todo)
    /\ IF r.type = "Txfinished" THEN d.signing /\ Plan(<<>>, d, w) ELSE Plan(Waiting(r, d), d, w)

\* The first j signatures are there.
Signed(f, j, w) ==
    /\ DOMAIN f = 0 .. j - 1
    /\ \A i \in 0 .. j - 1 : f[i] = Signature(SignedTx(w.ins, w.outs, w.meta), w.ins[i + 1])
Done(r, d, w) == IF ~d.signing THEN 0 ELSE IF r.type = "Txfinished" THEN w.n ELSE r.index

Firmware ==
    /\ Read(dev, World)
    /\ env = "honest" =>
        /\ pc = "start" => dev = NoDev /\ sigs = <<>>
        /\ pc = "device" /\ ack.item = "SignTx" =>
            /\ dev = NoDev /\ sigs = <<>>
            /\ ack = [item |-> "SignTx", inputs_count |-> Len(psbt.inputs), outputs_count |-> Len(psbt.outputs),
                      coin_name |-> coin_name, meta |-> psbt.meta]
        /\ pc = "device" /\ ack.item # "SignTx" =>
            /\ ack = item /\ rtype # "Txfinished" /\ Asked(req, dev, World)
            /\ Signed(sigs, Done(req, dev, World), World)
        /\ pc = "host" => \/ req.type = "other"
                          \/ Asked(req, dev, World) /\ Signed(collected, Done(req, dev, World), World)
        /\ pc = "ok" => /\ partial_sigs = merged(sigs) /\ dev.signing /\ Plan(<<>>, dev, World)
                        /\ Signed(sigs, World.n, World)

Inv == Arguments /\ Kept /\ Firmware

----------------------------------------------------------------------------
(* Sequences.                                                              *)

LEMMA SeqFacts ==
    ASSUME NEW s, IsSeq(s)
    PROVE  /\ Len(s) \in Nat /\ DOMAIN s = 1 .. Len(s) /\ (s = <<>> <=> Len(s) = 0)
           /\ s = [i \in 1 .. Len(s) |-> s[i]]
  BY DEF IsSeq

LEMMA SeqIsSeq ==
    ASSUME NEW S, NEW s \in Seq(S)
    PROVE  IsSeq(s)
<1>1. s \in [1 .. Len(s) -> Range(s)] /\ Len(s) \in Nat
  BY DEF Range
<1> QED
  BY <1>1 DEF IsSeq

LEMMA EmptyIsSeq == IsSeq(<<>>) /\ Len(<<>>) = 0
<1>1. <<>> \in Seq({})
  OBVIOUS
<1>2. IsSeq(<<>>)
  BY <1>1, SeqIsSeq
<1> QED
  BY <1>2

LEMMA AppendFacts ==
    ASSUME NEW s, IsSeq(s), NEW x
    PROVE  /\ IsSeq(Append(s, x)) /\ Len(Append(s, x)) = Len(s) + 1
           /\ Append(s, x)[Len(s) + 1] = x /\ \A i \in 1 .. Len(s) : Append(s, x)[i] = s[i]
<1> DEFINE S == Range(s) \cup {x}
<1>1. s \in Seq(S) /\ x \in S
  BY DEF IsSeq
<1> HIDE DEF S
<1>2. Append(s, x) \in Seq(S)
  BY <1>1
<1>3. IsSeq(Append(s, x))
  BY <1>2, SeqIsSeq
<1> QED
  BY <1>1, <1>2, <1>3

LEMMA TailFacts ==
    ASSUME NEW s, IsSeq(s), s # <<>>
    PROVE  /\ IsSeq(Tail(s)) /\ Len(Tail(s)) = Len(s) - 1 /\ Head(s) = s[1]
           /\ \A i \in 1 .. Len(s) - 1 : Tail(s)[i] = s[i + 1]
<1>1. s \in Seq(Range(s)) /\ Tail(s) \in Seq(Range(s))
  BY DEF IsSeq
<1>2. IsSeq(Tail(s))
  BY <1>1, SeqIsSeq
<1> QED
  BY <1>1, <1>2

LEMMA ConcatFacts ==
    ASSUME NEW s, IsSeq(s), NEW t, IsSeq(t)
    PROVE  /\ IsSeq(s \o t) /\ Len(s \o t) = Len(s) + Len(t)
           /\ \A i \in 1 .. Len(s) : (s \o t)[i] = s[i]
           /\ \A i \in 1 .. Len(t) : (s \o t)[Len(s) + i] = t[i]
           /\ \A i \in Len(s) + 1 .. Len(s) + Len(t) : (s \o t)[i] = t[i - Len(s)]
<1> DEFINE S == Range(s) \cup Range(t)
<1>1. s \in Seq(S) /\ t \in Seq(S)
  BY DEF IsSeq
<1> HIDE DEF S
<1>2. s \o t \in Seq(S)
  BY <1>1
<1>3. IsSeq(s \o t)
  BY <1>2, SeqIsSeq
<1> QED
  BY <1>1, <1>2, <1>3

LEMMA SameInterval ==
    ASSUME NEW n \in Nat, NEW m \in Nat, 1 .. n = 1 .. m
    PROVE  n = m
<1>1. n > 0 => n \in 1 .. m
  OBVIOUS
<1>2. m > 0 => m \in 1 .. n
  OBVIOUS
<1> QED
  BY <1>1, <1>2

LEMMA QuestionsFacts ==
    ASSUME NEW type, NEW n \in Nat, NEW hash
    PROVE  /\ IsSeq(Questions(type, n, hash)) /\ Len(Questions(type, n, hash)) = n
           /\ \A i \in 1 .. n : Questions(type, n, hash)[i] = TxRequest(type, i - 1, hash)
<1> DEFINE S == {TxRequest(type, i - 1, hash) : i \in 1 .. n}
<1>1. Questions(type, n, hash) \in [1 .. n -> S]
  BY DEF Questions
<1> HIDE DEF S
<1>2. Questions(type, n, hash) \in Seq(S)
  BY <1>1
<1>3. IsSeq(Questions(type, n, hash))
  BY <1>2, SeqIsSeq
<1>4. Len(Questions(type, n, hash)) = n
  <2>1. DOMAIN Questions(type, n, hash) = 1 .. n
    BY <1>1
  <2>2. Len(Questions(type, n, hash)) \in Nat /\ 1 .. n = 1 .. Len(Questions(type, n, hash))
    BY <1>2, <2>1
  <2> QED
    BY <2>2, SameInterval
<1> QED
  BY <1>3, <1>4 DEF Questions


----------------------------------------------------------------------------
(* An arbitrary device.                                                    *)

\* The signature that is collected replaces an earlier one.
Put(f, index, sig) == [i \in DOMAIN f \cup {index} |-> IF i = index THEN sig ELSE f[i]]
Takes(f, index, sig) == IF index # NoIndex /\ sig # NoSig THEN Put(f, index, sig) ELSE f

LEMMA Collects == collected = Takes(sigs, req.sig_index, req.sig)
  BY DEF collected, Takes, Put

\* A message without a signature changes nothing, one with a signature is the
\* last of its input.
LEMMA KeepsAppend ==
    ASSUME NEW f, NEW h, IsSeq(h), Keeps(f, h), NEW i \in Nat \cup {NoIndex}, NEW s
    PROVE  Keeps(Takes(f, i, s), Append(h, [index |-> i, sig |-> s]))
<1> DEFINE g == Append(h, [index |-> i, sig |-> s])
           e == Len(h) + 1
<1>1. /\ IsSeq(g) /\ Len(g) = e /\ g[e].index = i /\ g[e].sig = s
      /\ \A k \in 1 .. Len(h) : g[k] = h[k]
  BY AppendFacts
<1>2. Len(h) \in Nat /\ DOMAIN h = 1 .. Len(h) /\ DOMAIN g = 1 .. e
  BY <1>1, SeqFacts
<1> HIDE DEF g
<1>3. CASE i # NoIndex /\ s # NoSig
  <2>1. Sent(g) = Sent(h) \cup {e}
    BY <1>1, <1>2, <1>3 DEF Sent
  <2>2. \A k : k \in Last(g) <=> k = e \/ (k \in Last(h) /\ h[k].index # i)
    <3>1. \A k \in Sent(h) : k \in 1 .. Len(h) /\ g[k] = h[k] /\ k < e
      BY <1>1, <1>2 DEF Sent
    <3> QED
      BY <1>1, <1>2, <2>1, <3>1 DEF Last
  <2>3. Takes(f, i, s) = Put(f, i, s)
    BY <1>3 DEF Takes
  <2>4. DOMAIN Put(f, i, s) = {g[k].index : k \in Sent(g)}
    <3>1. \A k \in Sent(h) : g[k].index = h[k].index
      BY <1>1, <1>2 DEF Sent
    <3> QED
      BY <1>1, <2>1, <3>1 DEF Put, Keeps
  <2>5. \A k \in Last(h) : k \in 1 .. Len(h) /\ k \in Sent(h)
    BY <1>2 DEF Last, Sent
  <2>6. \A k \in Last(g) : Put(f, i, s)[g[k].index] = g[k].sig
    <3>1. Put(f, i, s)[g[e].index] = g[e].sig
      BY <1>1 DEF Put
    <3>2. ASSUME NEW k \in Last(h), h[k].index # i
          PROVE  Put(f, i, s)[g[k].index] = g[k].sig
      <4>1. g[k] = h[k] /\ h[k].index \in DOMAIN f /\ f[h[k].index] = h[k].sig
        BY <1>1, <2>5 DEF Keeps
      <4> QED
        BY <4>1, <3>2 DEF Put
    <3> QED
      BY <2>2, <3>1, <3>2
  <2>7. \A x \in DOMAIN Put(f, i, s) : \E k \in Last(g) : g[k].index = x
    <3>1. ASSUME NEW x \in DOMAIN f, x # i
          PROVE  \E k \in Last(g) : g[k].index = x
      BY <1>1, <2>2, <2>5, <3>1 DEF Keeps
    <3>2. \E k \in Last(g) : g[k].index = i
      BY <1>1, <2>2
    <3> QED
      BY <3>1, <3>2 DEF Put
  <2> QED
    BY <2>3, <2>4, <2>6, <2>7 DEF Keeps, g
<1>4. CASE ~(i # NoIndex /\ s # NoSig)
  <2>1. Sent(g) = Sent(h)
    BY <1>1, <1>2, <1>4 DEF Sent
  <2>2. \A k \in Sent(h) : g[k] = h[k]
    BY <1>1, <1>2 DEF Sent
  <2>3. Last(g) = Last(h)
    BY <2>1, <2>2 DEF Last
  <2>4. Last(h) \subseteq Sent(h)
    BY DEF Last
  <2>5. Keeps(f, g)
    BY <2>1, <2>2, <2>3, <2>4 DEF Keeps
  <2> QED
    BY <1>4, <2>5 DEF Takes, g
<1> QED
  BY <1>3, <1>4

----------------------------------------------------------------------------
(* The arguments of the call do not change.                                *)

\* What the host streams of a PSBT stays the same.
LEMMA Frozen ==
    ASSUME UNCHANGED args
    PROVE  /\ World' = World /\ coin_name' = coin_name
           /\ \A f : merged(f)' = merged(f)
           /\ \A idx, s : mergeable(idx, s)' <=> mergeable(idx, s)
<1>1. psbt' = psbt /\ coin_type' = coin_type
  BY DEF args
<1>2. \A i : build_input_ack(i)' = build_input_ack(i)
  BY <1>1 DEF build_input_ack
<1>3. network' = network
  BY <1>1 DEF network
<1>4. \A i : build_output_ack(i)' = build_output_ack(i)
  BY <1>1, <1>3 DEF build_output_ack
<1>5. ins_of' = ins_of
  BY <1>1, <1>2 DEF ins_of
<1>6. outs_of' = outs_of
  BY <1>1, <1>4 DEF outs_of
<1>7. World' = World
  BY <1>1, <1>4, <1>5, <1>6 DEF World
<1>8. coin_name' = coin_name
  BY <1>1 DEF coin_name
<1>9. \A f : merged(f)' = merged(f)
  BY <1>1 DEF merged
<1>10. \A idx, s : mergeable(idx, s)' <=> mergeable(idx, s)
  BY <1>1 DEF mergeable
<1> QED
  BY <1>7, <1>8, <1>9, <1>10

\* Nor does the item that answers a question.
LEMMA SameItem ==
    ASSUME UNCHANGED <<args, req>>
    PROVE  item' = item /\ rtype' = rtype /\ request_index' = request_index
<1>1. psbt' = psbt /\ coin_type' = coin_type /\ req' = req
  BY DEF args
<1>2. \A h : find_prev_tx(h)' = find_prev_tx(h)
  BY <1>1 DEF find_prev_tx
<1>3. \A i : build_input_ack(i)' = build_input_ack(i)
  BY <1>1 DEF build_input_ack
<1>4. network' = network
  BY <1>1 DEF network
<1>5. \A i : build_output_ack(i)' = build_output_ack(i)
  BY <1>1, <1>4 DEF build_output_ack
<1>6. \A h, i : build_prev_input_ack(h, i)' = build_prev_input_ack(h, i)
  BY <1>2 DEF build_prev_input_ack
<1>7. \A h, i : build_prev_output_ack(h, i)' = build_prev_output_ack(h, i)
  BY <1>2 DEF build_prev_output_ack
<1>8. \A h : build_prev_meta_ack(h)' = build_prev_meta_ack(h)
  BY <1>2 DEF build_prev_meta_ack
<1>9. rtype' = rtype /\ request_index' = request_index
  BY <1>1 DEF rtype, request_index
<1> QED
  BY <1>1, <1>3, <1>5, <1>6, <1>7, <1>8, <1>9 DEF item

\* The arguments have the types of the code.
LEMMA PsbtFacts ==
    ASSUME Arguments
    PROVE  /\ IsSeq(psbt.inputs) /\ \A i \in 1 .. Len(psbt.inputs) : IsInput(psbt.inputs[i])
           /\ IsSeq(psbt.outputs) /\ \A i \in 1 .. Len(psbt.outputs) : IsOutput(psbt.outputs[i])
           /\ Len(psbt.inputs) \in Nat /\ Len(psbt.outputs) \in Nat
<1>1. /\ IsSeq(psbt.inputs) /\ \A i \in DOMAIN psbt.inputs : IsInput(psbt.inputs[i])
      /\ IsSeq(psbt.outputs) /\ \A i \in DOMAIN psbt.outputs : IsOutput(psbt.outputs[i])
  BY SignTxAssumption DEF Arguments
<1>2. DOMAIN psbt.inputs = 1 .. Len(psbt.inputs) /\ Len(psbt.inputs) \in Nat
  BY <1>1, SeqFacts
<1>3. DOMAIN psbt.outputs = 1 .. Len(psbt.outputs) /\ Len(psbt.outputs) \in Nat
  BY <1>1, SeqFacts
<1> QED
  BY <1>1, <1>2, <1>3

\* What the parts of World are.
LEMMA WorldFacts ==
    /\ World.n = Len(psbt.inputs) /\ World.m = Len(psbt.outputs) /\ World.meta = psbt.meta
    /\ World.ins = ins_of /\ World.outs = outs_of
    /\ \A i \in 1 .. Len(psbt.inputs) : World.ins[i] = build_input_ack(i - 1)
    /\ \A i \in 1 .. Len(psbt.outputs) :
        /\ i \in World.good <=> build_output_ack(i - 1) # Err
        /\ i \in World.good => World.outs[i] = SignedOutput(build_output_ack(i - 1))
    /\ \A i \in 1 .. Len(psbt.inputs) :
        i \in World.true <=> spent(psbt.inputs[i]).amount = amount_of(psbt.inputs[i])
  BY DEF World, ins_of, outs_of

\* Every item has a kind, and the kind of an item is that of the request.
Kinds == {"err", "SignTx", "input", "output", "change", "prev meta", "prev input", "prev output"}
LEMMA Items ==
    /\ item.item \in Kinds /\ item.item # "SignTx" /\ (item.item = "err" => item = Err)
    /\ item.item = "input" => rtype = "Txinput" /\ req.hash = NoHash /\ item = build_input_ack(request_index)
    /\ item.item \in {"output", "change"} =>
        rtype = "Txoutput" /\ req.hash = NoHash /\ item = build_output_ack(request_index)
    /\ item.item = "prev meta" => rtype = "Txmeta" /\ req.hash # NoHash /\ item = build_prev_meta_ack(req.hash)
    /\ item.item = "prev input" => rtype = "Txinput" /\ req.hash # NoHash
    /\ item.item = "prev output" => rtype = "Txoutput" /\ req.hash # NoHash
<1>1. \A i : build_input_ack(i) = Err \/ build_input_ack(i).item = "input"
  BY DEF build_input_ack
<1>2. \A i : build_output_ack(i) = Err \/ build_output_ack(i).item \in {"output", "change"}
  BY DEF build_output_ack
<1>3. \A h, i : build_prev_input_ack(h, i) = Err \/ build_prev_input_ack(h, i).item = "prev input"
  BY DEF build_prev_input_ack
<1>4. \A h, i : build_prev_output_ack(h, i) = Err \/ build_prev_output_ack(h, i).item = "prev output"
  BY DEF build_prev_output_ack
<1>5. \A h : build_prev_meta_ack(h) = Err \/ build_prev_meta_ack(h).item = "prev meta"
  BY DEF build_prev_meta_ack
<1>6. Err.item = "err"
  BY DEF Err
<1> QED
  BY <1>1, <1>2, <1>3, <1>4, <1>5, <1>6 DEF item, Kinds

----------------------------------------------------------------------------
(* The questions of the firmware.                                          *)

\* A request has five fields.
LEMMA MadeRequest ==
    ASSUME NEW type, NEW index, NEW hash
    PROVE  /\ IsRequest(TxRequest(type, index, hash))
           /\ TxRequest(type, index, hash).type = type /\ TxRequest(type, index, hash).hash = hash
           /\ TxRequest(type, index, hash).index = index
  BY DEF TxRequest, IsRequest

Parts(d) == <<d.signing, d.meta, d.ins, d.outs, d.prev, d.counts, d.checking>>

\* What a device has read does not depend on what it will ask.
LEMMA SameParts ==
    ASSUME NEW d, NEW e, NEW w, Parts(e) = Parts(d), IsDev(e),
           NEW t, NEW u, Plan(t, d, w), IsSeq(u), Len(u) = Len(t),
           \A q \in 1 .. Len(t) : IsRequest(u[q]) /\ u[q].type = t[q].type /\ u[q].hash = t[q].hash
                                  /\ u[q].index = t[q].index
    PROVE  Plan(u, e, w)
<1>1. /\ e.signing = d.signing /\ e.meta = d.meta /\ e.ins = d.ins /\ e.outs = d.outs /\ e.prev = d.prev
      /\ e.counts = d.counts /\ e.checking = d.checking
  BY DEF Parts
<1>2. Read(e, w) /\ e.meta = w.meta /\ e.signing \in BOOLEAN
  BY <1>1 DEF Plan, Read
<1> DEFINE Hashes(x) == {NoHash} \cup {x.ins[i].prev_hash : i \in 1 .. Len(x.ins)}
<1>3. PICK a \in Nat, r \in Nat, h \in Hashes(d) :
        /\ Queue(t, a, r, h, d, w)
        /\ Reading(a, r, h, d, w) \/ Checking(a, r, h, d, w) \/ Signing(a, r, h, d, w)
  BY DEF Plan
<1>4. h \in Hashes(e)
  BY <1>1, <1>3
<1>5. Reading(a, r, h, e, w) \/ Checking(a, r, h, e, w) \/ Signing(a, r, h, e, w)
  BY <1>1, <1>3 DEF Reading, Checking, Signing
<1>6. Len(d.ins) \in Nat /\ d.checking \in 0 .. Len(d.ins)
  BY <1>1, SeqFacts DEF Plan, Read
<1>7. Queue(u, a, r, h, e, w)
  <2>1. /\ Len(t) = a + r + (Len(d.ins) - d.checking)
        /\ \A q \in 1 .. Len(t) : t[q].index \in Nat \cup {NoIndex}
        /\ \A q \in 1 .. a : t[q].type = "Txinput" /\ t[q].hash = h /\ (h = NoHash => t[q].index = w.n - a + q - 1)
        /\ \A q \in a + 1 .. a + r : t[q].type = "Txoutput" /\ t[q].hash = h
                                      /\ (h = NoHash => t[q].index = w.m - r + (q - a) - 1)
        /\ \A q \in a + r + 1 .. Len(t) :
             t[q].type = "Txmeta" /\ t[q].hash = d.ins[d.checking + q - (a + r)].prev_hash
    BY <1>3 DEF Queue, QueueOf
  <2>2. 1 .. a \subseteq 1 .. Len(t) /\ a + 1 .. a + r \subseteq 1 .. Len(t) /\ a + r + 1 .. Len(t) \subseteq 1 .. Len(t)
    BY <1>6, <2>1, SMTT(30)
  <2>3. \A q \in 1 .. Len(u) : IsRequest(u[q]) /\ u[q].index \in Nat \cup {NoIndex}
    BY <2>1
  <2>4. ASSUME NEW q \in 1 .. a
        PROVE  u[q].type = "Txinput" /\ u[q].hash = h /\ (h = NoHash => u[q].index = w.n - a + q - 1)
    <3>1. q \in 1 .. Len(t)
      BY ONLY <2>2, <2>4
    <3> QED
      BY <2>1, <3>1
  <2>5. ASSUME NEW q \in a + 1 .. a + r
        PROVE  u[q].type = "Txoutput" /\ u[q].hash = h /\ (h = NoHash => u[q].index = w.m - r + (q - a) - 1)
    <3>1. q \in 1 .. Len(t)
      BY ONLY <2>2, <2>5
    <3> QED
      BY <2>1, <3>1
  <2>6. ASSUME NEW q \in a + r + 1 .. Len(u)
        PROVE  u[q].type = "Txmeta" /\ u[q].hash = d.ins[d.checking + q - (a + r)].prev_hash
    <3>1. q \in a + r + 1 .. Len(t) /\ q \in 1 .. Len(t)
      BY <2>2
    <3> QED
      BY <2>1, <3>1
  <2>7. IsSeq(u) /\ Len(u) = a + r + (Len(d.ins) - d.checking)
    BY <2>1
  <2>8. QueueOf(u, a, r, h, d.ins, d.checking, w.n, w.m)
    BY ONLY <2>3, <2>4, <2>5, <2>6, <2>7 DEF QueueOf
  <2> QED
    BY ONLY <1>1, <2>8 DEF Queue
<1> QED
  BY <1>2, <1>4, <1>5, <1>7 DEF Plan

\* When nothing is left to ask, everything has been read and checked.
LEMMA AllChecked ==
    ASSUME NEW d, NEW w, w.n \in Nat, w.m \in Nat, Plan(<<>>, d, w)
    PROVE  /\ Len(d.ins) = w.n /\ Len(d.outs) = w.m /\ d.checking = w.n
           /\ \A i \in 1 .. w.n : i \in w.true
<1>1. PICK a \in Nat, r \in Nat, h \in {NoHash} \cup {d.ins[i].prev_hash : i \in 1 .. Len(d.ins)} :
        /\ Queue(<<>>, a, r, h, d, w)
        /\ Reading(a, r, h, d, w) \/ Checking(a, r, h, d, w) \/ Signing(a, r, h, d, w)
  BY DEF Plan
<1>2. Len(d.ins) \in Nat /\ Len(d.outs) \in Nat /\ d.checking \in 0 .. Len(d.ins)
  BY SeqFacts DEF Plan, Read
<1>3. a = 0 /\ r = 0 /\ Len(d.ins) = d.checking
  BY <1>1, <1>2, EmptyIsSeq DEF Queue, QueueOf
<1>4. CASE Reading(a, r, h, d, w)
  BY <1>2, <1>3, <1>4 DEF Reading
<1>5. CASE Checking(a, r, h, d, w)
  BY <1>2, <1>3, <1>5 DEF Checking
<1>6. CASE Signing(a, r, h, d, w)
  BY <1>2, <1>3, <1>6 DEF Signing
<1> QED
  BY <1>1, <1>4, <1>5, <1>6

\* Then the inputs are read again.
LEMMA SignQueue ==
    ASSUME NEW n \in Nat, NEW e, NEW w, w.n = n, Len(e.ins) = n, e.checking = n
    PROVE  Queue(Questions("Txinput", n, NoHash), n, 0, NoHash, e, w)
<1> DEFINE t == Questions("Txinput", n, NoHash)
<1>1. IsSeq(t) /\ Len(t) = n /\ \A q \in 1 .. n : t[q] = TxRequest("Txinput", q - 1, NoHash)
  BY QuestionsFacts
<1> HIDE DEF t
<1>2. \A q \in 1 .. n : t[q].type = "Txinput" /\ t[q].hash = NoHash /\ t[q].index = q - 1 /\ IsRequest(t[q])
  BY <1>1, MadeRequest
<1>3. \A q \in 1 .. n : q - 1 \in Nat /\ n - n + q - 1 = q - 1
  OBVIOUS
<1>4. n + 1 .. n + 0 = {} /\ n + 0 + 1 .. n = {} /\ n = n + 0 + (n - n)
  OBVIOUS
<1>5. Queue(t, n, 0, NoHash, e, w)
  BY <1>1, <1>2, <1>3, <1>4 DEF Queue, QueueOf
<1> QED
  BY <1>5 DEF t

LEMMA SignsNext ==
    ASSUME NEW d, NEW w, w.n \in Nat, w.m \in Nat, Plan(<<>>, d, w), NEW e, IsDev(e),
           /\ e.signing = TRUE /\ e.meta = d.meta /\ e.ins = d.ins /\ e.outs = d.outs
           /\ e.prev = d.prev /\ e.counts = d.counts /\ e.checking = d.checking
    PROVE  Plan(Questions("Txinput", w.n, NoHash), e, w)
<1>1. /\ e.signing /\ e.signing \in BOOLEAN /\ e.meta = d.meta /\ e.ins = d.ins /\ e.outs = d.outs /\ e.prev = d.prev
      /\ e.counts = d.counts /\ e.checking = d.checking
  OBVIOUS
<1>2. Read(e, w) /\ e.meta = w.meta
  BY <1>1 DEF Plan, Read
<1>3. Signing(w.n, 0, NoHash, e, w)
  BY <1>1, AllChecked DEF Signing
<1>4. Len(e.ins) = w.n /\ e.checking = w.n
  BY <1>1, AllChecked
<1>5. Queue(Questions("Txinput", w.n, NoHash), w.n, 0, NoHash, e, w)
  BY <1>4, SignQueue
<1> QED
  BY <1>1, <1>2, <1>3, <1>5 DEF Plan

\* A device asks the first of its questions.
LEMMA NextQuestion ==
    ASSUME NEW d, NEW w, w.n \in Nat, w.m \in Nat, NEW t, Plan(t, d, w), t # <<>>,
           NEW r, IsRequest(r), r.type = Head(t).type, r.hash = Head(t).hash, r.index = Head(t).index,
           NEW e, IsDev(e), Parts(e) = Parts(d), e.todo = Tail(t)
    PROVE  /\ Asked(r, e, w) /\ r.index \in Nat \cup {NoIndex}
           /\ r.type \in {"Txinput", "Txoutput", "Txmeta"}
           /\ d.signing => r.index = w.n - Len(t)
<1>1. PICK a \in Nat, b \in Nat, h \in {NoHash} \cup {d.ins[k].prev_hash : k \in 1 .. Len(d.ins)} :
        /\ Queue(t, a, b, h, d, w)
        /\ Reading(a, b, h, d, w) \/ Checking(a, b, h, d, w) \/ Signing(a, b, h, d, w)
  BY DEF Plan
<1>2. Len(d.ins) \in Nat /\ d.checking \in 0 .. Len(d.ins)
  BY SeqFacts DEF Plan, Read
<1>3. IsSeq(t) /\ Len(t) \in Nat \ {0} /\ \A q \in 1 .. Len(t) : IsRequest(t[q]) /\ t[q].index \in Nat \cup {NoIndex}
  BY <1>1, SeqFacts DEF Queue, QueueOf
<1>4. IsSeq(Tail(t)) /\ Len(Tail(t)) = Len(t) - 1 /\ Head(t) = t[1] /\ \A q \in 1 .. Len(t) - 1 : Tail(t)[q] = t[q + 1]
  BY <1>3, TailFacts
<1>5. r.type = t[1].type /\ r.hash = t[1].hash /\ r.index = t[1].index
  BY <1>4
<1>6. r.type \in {"Txinput", "Txoutput", "Txmeta"}
  <2>1. 1 \in 1 .. a \/ 1 \in a + 1 .. a + b \/ 1 \in a + b + 1 .. Len(t)
    BY <1>3
  <2>2. t[1].type \in {"Txinput", "Txoutput", "Txmeta"}
    BY <1>1, <2>1 DEF Queue, QueueOf
  <2> QED
    BY <1>5, <2>2
<1>7. ASSUME d.signing
      PROVE  r.index = w.n - Len(t)
  <2>1. Signing(a, b, h, d, w)
    BY <1>1, <1>7 DEF Reading, Checking
  <2>2. Len(t) = a /\ h = NoHash
    BY <1>1, <1>2, <2>1 DEF Queue, QueueOf, Signing
  <2>3. 1 \in 1 .. a
    BY <1>3, <2>2
  <2>4. t[1].index = w.n - a + 1 - 1
    BY <1>1, <2>2, <2>3 DEF Queue, QueueOf
  <2> QED
    BY <1>5, <2>2, <2>4
<1>8. Plan(Waiting(r, e), e, w)
  <2> DEFINE u == Waiting(r, e)
  <2>1. /\ IsSeq(u) /\ Len(u) = Len(t) /\ u[1] = r /\ \A q \in 2 .. Len(t) : u[q] = t[q]
    <3> DEFINE S == {r} \cup Range(t)
    <3>1. \A q \in 2 .. Len(t) : e.todo[q - 1] = t[q] /\ t[q] \in S
      BY <1>3, <1>4, SeqFacts, SMTT(30) DEF Range
    <3>2. u = [q \in 1 .. Len(t) |-> IF q = 1 THEN r ELSE e.todo[q - 1]]
      BY <1>3, <1>4 DEF Waiting
    <3> HIDE DEF u
    <3>3. u \in [1 .. Len(t) -> S]
      BY <3>1, <3>2, <1>3
    <3> HIDE DEF S
    <3>4. u \in Seq(S)
      BY <3>3, <1>3
    <3>5. IsSeq(u)
      BY <3>4, SeqIsSeq
    <3>6. Len(u) = Len(t)
      <4>1. 1 .. Len(u) = 1 .. Len(t) /\ Len(u) \in Nat
        BY <3>3, <3>4
      <4> QED
        BY <4>1, <1>3, SameInterval
    <3>7. u[1] = r
      BY ONLY <1>3, <3>2
    <3>8. ASSUME NEW q \in 2 .. Len(t) PROVE u[q] = t[q]
      <4>1. q \in 1 .. Len(t) /\ q # 1
        BY ONLY <1>3, <3>8
      <4>2. u[q] = e.todo[q - 1]
        BY ONLY <3>2, <4>1
      <4> QED
        BY ONLY <3>1, <3>8, <4>2
    <3> QED
      BY ONLY <3>5, <3>6, <3>7, <3>8
  <2> HIDE DEF u
  <2>2. \A q \in 1 .. Len(t) : IsRequest(u[q]) /\ u[q].type = t[q].type /\ u[q].hash = t[q].hash /\ u[q].index = t[q].index
    BY <1>3, <1>5, <2>1
  <2>3. Plan(u, e, w)
    BY <2>1, <2>2, SameParts
  <2> QED
    BY <2>3 DEF u
<1>9. Asked(r, e, w)
  BY <1>4, <1>6, <1>8 DEF Asked
<1> QED
  BY <1>3, <1>5, <1>6, <1>7, <1>9

\* The device d, with the questions d.todo, asks r and becomes e.
Todo(d) == IF d.todo = <<>> /\ ~d.signing THEN Questions("Txinput", Len(d.ins), NoHash) ELSE d.todo
First(todo) == IF todo = <<>> THEN TxRequest("Txfinished", NoIndex, NoHash) ELSE Head(todo)
Others(todo) == IF todo = <<>> THEN <<>> ELSE Tail(todo)
Pops(d, r, e, i, s) ==
    /\ LET next == First(Todo(d)) IN
       IsRequest(next) => /\ IsRequest(r) /\ r.type = next.type /\ r.hash = next.hash /\ r.index = next.index
                          /\ r.sig_index = i /\ r.sig = s
    /\ IsDev(e) /\ e.todo = Others(Todo(d)) /\ e.signing = (d.signing \/ d.todo = <<>>) /\ e.meta = d.meta
    /\ e.ins = d.ins /\ e.outs = d.outs /\ e.prev = d.prev /\ e.counts = d.counts /\ e.checking = d.checking
\* The queue of a plan holds requests.
LEMMA PlanIsSeq ==
    ASSUME NEW t, NEW d, NEW w, Plan(t, d, w)
    PROVE  IsSeq(t) /\ \A q \in 1 .. Len(t) : IsRequest(t[q])
<1>1. PICK a, b, h : Queue(t, a, b, h, d, w)
  BY DEF Plan
<1> QED
  BY ONLY <1>1 DEF Queue, QueueOf

\* What the device asks, and how many signatures it has made, follows from its
\* plan.
LEMMA AskedNext ==
    ASSUME NEW d, NEW w, w.n \in Nat, w.m \in Nat, Plan(d.todo, d, w), NEW i, NEW s, NEW r, NEW e, Pops(d, r, e, i, s)
    PROVE  /\ Asked(r, e, w) /\ r.index \in Nat \cup {NoIndex} /\ r.sig_index = i /\ r.sig = s
           /\ Done(r, e, w) = (IF d.signing THEN w.n - Len(d.todo) ELSE 0) /\ Read(e, w)
<1> DEFINE todo == Todo(d)
           next == First(todo)
           rest == Others(todo)
           signing == d.signing \/ d.todo = <<>>
<1>a. todo = IF d.todo = <<>> /\ ~d.signing THEN Questions("Txinput", Len(d.ins), NoHash) ELSE d.todo
  BY DEF Todo
<1>b. next = IF todo = <<>> THEN TxRequest("Txfinished", NoIndex, NoHash) ELSE Head(todo)
  BY DEF First
<1>c. rest = IF todo = <<>> THEN <<>> ELSE Tail(todo)
  BY DEF Others
<1>d. IsRequest(next) => /\ IsRequest(r) /\ r.type = next.type /\ r.hash = next.hash /\ r.index = next.index
                         /\ r.sig_index = i /\ r.sig = s
  BY DEF Pops
<1>e. /\ IsDev(e) /\ e.todo = rest /\ e.signing = signing /\ e.meta = d.meta /\ e.ins = d.ins /\ e.outs = d.outs
      /\ e.prev = d.prev /\ e.counts = d.counts /\ e.checking = d.checking
  BY DEF Pops
<1> HIDE DEF todo, next, rest, signing
<1> USE <1>a, <1>b, <1>c, <1>d, <1>e DEF signing
<1>1. IsDev(d) /\ d.signing \in BOOLEAN
  BY DEF Plan
<1>2. /\ IsDev(e) /\ e.todo = rest /\ e.signing = signing /\ e.meta = d.meta /\ e.ins = d.ins /\ e.outs = d.outs
      /\ e.prev = d.prev /\ e.counts = d.counts /\ e.checking = d.checking
  OBVIOUS
<1>3. Read(e, w)
  BY <1>2 DEF Plan, Read
<1>4. d.todo = <<>> => Len(d.ins) = w.n
  BY AllChecked
<1>5. IsSeq(d.todo)
  BY DEF Plan, Queue, QueueOf
<1>6. PICK g : IsDev(g) /\ Parts(g) = Parts(e) /\ Plan(todo, g, w) /\ g.signing = signing
  <2>1. CASE d.todo = <<>> /\ ~d.signing
    <3>2. Plan(Questions("Txinput", w.n, NoHash), e, w)
      BY <1>2, <2>1, SignsNext
    <3> QED
      BY <1>2, <1>4, <2>1, <3>2
  <2>2. CASE ~(d.todo = <<>> /\ ~d.signing)
    <3>1. Parts(d) = Parts(e) /\ d.signing = signing
      BY <1>1, <1>2, <2>2 DEF Parts
    <3> QED
      BY <1>1, <2>2, <3>1
  <2> QED
    BY <2>1, <2>2
<1>7. CASE todo = <<>>
  <2>1. next = TxRequest("Txfinished", NoIndex, NoHash) /\ rest = <<>>
    BY <1>7
  <2>2. /\ r.type = "Txfinished" /\ r.index = NoIndex /\ r.sig_index = i /\ r.sig = s
    BY <2>1, MadeRequest
  <2>3. d.todo = <<>> /\ signing
    <3>1. CASE d.todo = <<>> /\ ~d.signing
      BY <3>1
    <3>2. CASE ~(d.todo = <<>> /\ ~d.signing)
      BY <1>7, <3>2
    <3> QED
      BY <3>1, <3>2
  <2>4. Plan(<<>>, e, w)
    BY <1>2, <1>6, <1>7, SameParts, EmptyIsSeq
  <2>5. Asked(r, e, w)
    BY <1>2, <2>1, <2>2, <2>3, <2>4, EmptyIsSeq DEF Asked
  <2>6. Done(r, e, w) = w.n /\ (~d.signing => w.n = 0)
    <3>1. Done(r, e, w) = w.n
      BY <1>2, <2>2, <2>3 DEF Done
    <3>2. ~d.signing => Len(Questions("Txinput", w.n, NoHash)) = 0
      BY <1>4, <1>7, <2>3, EmptyIsSeq
    <3> QED
      BY <3>1, <3>2, QuestionsFacts
  <2> QED
    BY <1>3, <2>2, <2>3, <2>5, <2>6, EmptyIsSeq
<1>8. CASE todo # <<>>
  <2>1. IsSeq(todo) /\ Len(todo) \in Nat \ {0} /\ IsRequest(Head(todo))
    <3>1. IsSeq(todo) /\ \A q \in 1 .. Len(todo) : IsRequest(todo[q])
      BY ONLY <1>6, PlanIsSeq
    <3>2. Len(todo) \in Nat \ {0}
      BY <1>8, <3>1, SeqFacts
    <3>3. Head(todo) = todo[1]
      BY <1>8, <3>1, TailFacts
    <3> QED
      BY <3>1, <3>2, <3>3
  <2>2. next = Head(todo) /\ rest = Tail(todo)
    BY <1>8
  <2>3. /\ IsRequest(r) /\ r.type = Head(todo).type /\ r.hash = Head(todo).hash /\ r.index = Head(todo).index
        /\ r.sig_index = i /\ r.sig = s
    BY <2>1, <2>2
  <2>4. /\ Asked(r, e, w) /\ r.index \in Nat \cup {NoIndex}
        /\ r.type \in {"Txinput", "Txoutput", "Txmeta"} /\ (g.signing => r.index = w.n - Len(todo))
    <3>1. IsDev(e) /\ Parts(e) = Parts(g) /\ e.todo = Tail(todo) /\ Plan(todo, g, w) /\ todo # <<>>
      BY <1>2, <1>6, <1>8, <2>2
    <3>2. w.n \in Nat /\ w.m \in Nat
      OBVIOUS
    <3> QED
      BY ONLY <2>3, <3>1, <3>2, NextQuestion
  <2>5. Done(r, e, w) = IF d.signing THEN w.n - Len(d.todo) ELSE 0
    <3>1. CASE ~signing
      BY <1>2, <3>1 DEF Done
    <3>2. CASE d.signing
      BY <1>2, <1>6, <2>4, <3>2 DEF Done
    <3>3. CASE ~d.signing /\ d.todo = <<>>
      <4>1. Len(todo) = w.n
        BY <1>4, <3>3, QuestionsFacts
      <4> QED
        BY <1>2, <1>6, <2>4, <3>3, <4>1 DEF Done
    <3> QED
      BY <3>1, <3>2, <3>3
  <2> QED
    BY <1>3, <2>3, <2>4, <2>5
<1> QED
  BY <1>7, <1>8

----------------------------------------------------------------------------
(* The firmware's next question, its plan being right.                     *)

LEMMA AsksKeeps ==
    ASSUME Inv, env = "honest", NEW d, Plan(d.todo, d, World), NEW i \in Nat \cup {NoIndex}, NEW s, Asks(d, i, s),
           Signed(Takes(sigs, i, s), IF d.signing THEN World.n - Len(d.todo) ELSE 0, World)
    PROVE  Inv'
<1> DEFINE w == World
           todo == Todo(d)
           next == First(todo)
           rest == Others(todo)
           signing == d.signing \/ d.todo = <<>>
<1>1. /\ pc' = "host" /\ UNCHANGED <<args, ack, sigs, partial_sigs, history>>
      /\ req' = [next EXCEPT !.sig_index = i, !.sig = s]
      /\ dev' = [d EXCEPT !.todo = rest, !.signing = signing]
  BY DEF Asks, Todo, First, Others
<1>2. Arguments /\ w.n \in Nat /\ w.m \in Nat /\ w' = w
  BY <1>1, PsbtFacts, WorldFacts, Frozen DEF Inv
<1>3. IsDev(d)
  BY DEF Plan
<1> HIDE DEF todo, next, rest, signing, w
<1>4. /\ IsDev(dev') /\ dev'.todo = rest /\ dev'.signing = signing /\ dev'.meta = d.meta /\ dev'.ins = d.ins
      /\ dev'.outs = d.outs /\ dev'.prev = d.prev /\ dev'.counts = d.counts /\ dev'.checking = d.checking
  <2>1. dev' = [d EXCEPT !.todo = rest, !.signing = signing]
    BY <1>1
  <2>2. dev' = [todo |-> rest, signing |-> signing, coin |-> d.coin, meta |-> d.meta, ins |-> d.ins,
                outs |-> d.outs, prev |-> d.prev, counts |-> d.counts, checking |-> d.checking]
    BY ONLY <1>3, <2>1 DEF IsDev
  <2> QED
    BY ONLY <2>2 DEF IsDev
<1>5. IsRequest(next) => /\ IsRequest(req') /\ req'.type = next.type /\ req'.hash = next.hash /\ req'.index = next.index
                         /\ req'.sig_index = i /\ req'.sig = s
  <2>1. req' = [next EXCEPT !.sig_index = i, !.sig = s]
    BY <1>1
  <2>2. IsRequest(next) => req' = [type |-> next.type, index |-> next.index, hash |-> next.hash, sig_index |-> i, sig |-> s]
    BY ONLY <2>1 DEF IsRequest
  <2> QED
    BY ONLY <2>2 DEF IsRequest
<1>6. /\ Asked(req', dev', w) /\ req'.index \in Nat \cup {NoIndex} /\ req'.sig_index = i /\ req'.sig = s
      /\ Done(req', dev', w) = (IF d.signing THEN w.n - Len(d.todo) ELSE 0) /\ Read(dev', w)
  <2>1. Plan(d.todo, d, w)
    BY DEF w
  <2>2. Pops(d, req', dev', i, s)
    BY <1>4, <1>5 DEF Pops, todo, next, rest, signing
  <2> QED
    BY ONLY <1>2, <2>1, <2>2, AskedNext
<1>7. Signed(collected', Done(req', dev', w), w)
  <2>1. collected' = Takes(sigs, i, s)
    BY <1>1, <1>6, Collects DEF collected, Takes, Put
  <2> QED
    BY <1>6, <2>1 DEF w
<1>8. Arguments'
  BY <1>1, <1>2, <1>6 DEF Arguments, args
<1>9. Kept'
  BY <1>1 DEF Kept, args
<1>10. Firmware'
  BY <1>1, <1>2, <1>6, <1>7 DEF Firmware, w
<1> QED
  BY <1>8, <1>9, <1>10 DEF Inv

\* The question being answered, and the ones after it.
RestOf(t, a, b, h, ins, c, n, m) ==
    /\ IsSeq(t) /\ Len(t) = a + b + (Len(ins) - c) - 1
    /\ \A q \in 1 .. Len(t) : IsRequest(t[q]) /\ t[q].index \in Nat \cup {NoIndex}
    /\ \A q \in 1 .. a - 1 : t[q].type = "Txinput" /\ t[q].hash = h /\ (h = NoHash => t[q].index = n - a + q)
    /\ \A q \in 1 .. Len(t) : a <= q /\ q < a + b =>
        t[q].type = "Txoutput" /\ t[q].hash = h /\ (h = NoHash => t[q].index = m - b + (q - a))
    /\ \A q \in 1 .. Len(t) : a + b <= q => t[q].type = "Txmeta" /\ t[q].hash = ins[c + q + 1 - (a + b)].prev_hash
Rest(t, a, b, h, d, w) == RestOf(t, a, b, h, d.ins, d.checking, w.n, w.m)

LEMMA CurrentQuestion ==
    ASSUME NEW r, NEW d, NEW w, w.n \in Nat, w.m \in Nat, Plan(Waiting(r, d), d, w), IsSeq(d.todo)
    PROVE  \E a, b \in Nat, h \in {NoHash} \cup {d.ins[k].prev_hash : k \in 1 .. Len(d.ins)} :
              /\ Rest(d.todo, a, b, h, d, w)
              /\ Reading(a, b, h, d, w) \/ Checking(a, b, h, d, w) \/ Signing(a, b, h, d, w)
              /\ r.type = "Txinput" => a > 0 /\ r.hash = h /\ (h = NoHash => r.index = w.n - a)
              /\ r.type = "Txoutput" => a = 0 /\ b > 0 /\ r.hash = h /\ (h = NoHash => r.index = w.m - b)
              /\ r.type = "Txmeta" => /\ a = 0 /\ b = 0 /\ d.checking < Len(d.ins)
                                      /\ r.hash = d.ins[d.checking + 1].prev_hash
              /\ r.type \in {"Txinput", "Txoutput", "Txmeta"}
<1> DEFINE t == d.todo
           u == Waiting(r, d)
<1>1. PICK a \in Nat, b \in Nat, h \in {NoHash} \cup {d.ins[k].prev_hash : k \in 1 .. Len(d.ins)} :
        /\ Queue(u, a, b, h, d, w)
        /\ Reading(a, b, h, d, w) \/ Checking(a, b, h, d, w) \/ Signing(a, b, h, d, w)
  BY DEF Plan
<1>2. Len(d.ins) \in Nat /\ d.checking \in 0 .. Len(d.ins)
  BY SeqFacts DEF Plan, Read
<1>3. Len(t) \in Nat
  BY SeqFacts
<1>4. Len(u) = Len(t) + 1 /\ u[1] = r /\ \A q \in 1 .. Len(t) : u[q + 1] = t[q]
  <2>1. u = [q \in 1 .. Len(t) + 1 |-> IF q = 1 THEN r ELSE t[q - 1]]
    BY DEF Waiting
  <2> HIDE DEF u, t
  <2>2. Len(u) \in Nat /\ DOMAIN u = 1 .. Len(u)
    BY <1>1, SeqFacts DEF Queue, QueueOf
  <2>3. Len(u) = Len(t) + 1
    <3>1. 1 .. Len(u) = 1 .. Len(t) + 1 /\ Len(t) + 1 \in Nat
      BY <1>3, <2>1, <2>2
    <3> QED
      BY <3>1, <2>2, SameInterval
  <2>4. u[1] = r
    BY <1>3, <2>1
  <2>5. \A q \in 1 .. Len(t) : u[q + 1] = t[q]
    BY <1>3, <2>1
  <2> QED
    BY <2>3, <2>4, <2>5
<1> HIDE DEF t, u
<1>5. /\ Len(u) = a + b + (Len(d.ins) - d.checking)
      /\ \A q \in 1 .. Len(u) : IsRequest(u[q]) /\ u[q].index \in Nat \cup {NoIndex}
      /\ \A q \in 1 .. a : u[q].type = "Txinput" /\ u[q].hash = h /\ (h = NoHash => u[q].index = w.n - a + q - 1)
      /\ \A q \in a + 1 .. a + b : u[q].type = "Txoutput" /\ u[q].hash = h
                                    /\ (h = NoHash => u[q].index = w.m - b + (q - a) - 1)
      /\ \A q \in a + b + 1 .. Len(u) :
           u[q].type = "Txmeta" /\ u[q].hash = d.ins[d.checking + q - (a + b)].prev_hash
  BY <1>1 DEF Queue, QueueOf
<1>6. \A q \in 1 .. Len(t) : q + 1 \in 1 .. Len(u)
  BY <1>3, <1>4
<1>7. Rest(t, a, b, h, d, w)
  <2>1. IsSeq(t) /\ Len(t) = a + b + (Len(d.ins) - d.checking) - 1
    <3>1. Len(t) + 1 = a + b + (Len(d.ins) - d.checking)
      BY <1>4, <1>5
    <3>2. IsSeq(t)
      BY DEF t
    <3> QED
      BY ONLY a \in Nat, b \in Nat, <1>2, <1>3, <3>1, <3>2
  <2>2. \A q \in 1 .. Len(t) : IsRequest(t[q]) /\ t[q].index \in Nat \cup {NoIndex}
    BY <1>4, <1>5, <1>6
  <2>3. ASSUME NEW q \in 1 .. a - 1
        PROVE  t[q].type = "Txinput" /\ t[q].hash = h /\ (h = NoHash => t[q].index = w.n - a + q)
    <3>1. q \in Nat /\ a \in Nat /\ w.n \in Nat /\ 1 <= q /\ q + 1 <= a
      BY ONLY a \in Nat, w.n \in Nat, <2>3
    <3>2. a <= Len(t) + 1 /\ Len(t) \in Nat
      BY <1>2, <1>3, <2>1
    <3>3. q \in 1 .. Len(t) /\ q + 1 \in 1 .. a /\ w.n - a + (q + 1) - 1 = w.n - a + q
      BY ONLY <3>1, <3>2
    <3>4. t[q] = u[q + 1]
      BY ONLY <1>4, <3>3
    <3>5. /\ u[q + 1].type = "Txinput" /\ u[q + 1].hash = h
          /\ h = NoHash => u[q + 1].index = w.n - a + (q + 1) - 1
      BY ONLY <1>5, <3>3
    <3> QED
      BY ONLY <3>3, <3>4, <3>5
  <2>4. ASSUME NEW q \in 1 .. Len(t), a <= q, q < a + b
        PROVE  t[q].type = "Txoutput" /\ t[q].hash = h /\ (h = NoHash => t[q].index = w.m - b + (q - a))
    <3>1. q + 1 \in a + 1 .. a + b /\ w.m - b + ((q + 1) - a) - 1 = w.m - b + (q - a)
      BY ONLY a \in Nat, b \in Nat, w.m \in Nat, <1>3, <2>4
    <3>2. t[q] = u[q + 1]
      BY ONLY <1>4, <2>4
    <3>3. /\ u[q + 1].type = "Txoutput" /\ u[q + 1].hash = h
          /\ h = NoHash => u[q + 1].index = w.m - b + ((q + 1) - a) - 1
      BY ONLY <1>5, <3>1
    <3> QED
      BY ONLY <3>1, <3>2, <3>3
  <2>5. ASSUME NEW q \in 1 .. Len(t), a + b <= q
        PROVE  t[q].type = "Txmeta" /\ t[q].hash = d.ins[d.checking + q + 1 - (a + b)].prev_hash
    <3>1. q + 1 \in a + b + 1 .. Len(t) + 1 /\ d.checking + (q + 1) - (a + b) = d.checking + q + 1 - (a + b)
      BY ONLY a \in Nat, b \in Nat, <1>2, <1>3, <2>5
    <3>2. t[q] = u[q + 1] /\ Len(u) = Len(t) + 1
      BY ONLY <1>4, <2>5
    <3>3. u[q + 1].type = "Txmeta" /\ u[q + 1].hash = d.ins[d.checking + (q + 1) - (a + b)].prev_hash
      BY ONLY <1>5, <3>1, <3>2
    <3> QED
      BY ONLY <3>1, <3>2, <3>3
  <2> QED
    BY <2>1, <2>2, <2>3, <2>4, <2>5 DEF Rest, RestOf
<1>8. CASE a > 0
  <2>1. 1 \in 1 .. a /\ w.n - a + 1 - 1 = w.n - a
    BY <1>8
  <2>2. r.type = "Txinput" /\ r.hash = h /\ (h = NoHash => r.index = w.n - a)
    BY ONLY <1>4, <1>5, <2>1
  <2> QED
    BY <1>1, <1>7, <1>8, <2>2 DEF t
<1>9. CASE a = 0 /\ b > 0
  <2>1. 1 \in a + 1 .. a + b /\ w.m - b + (1 - a) - 1 = w.m - b
    BY <1>9
  <2>2. r.type = "Txoutput" /\ r.hash = h /\ (h = NoHash => r.index = w.m - b)
    BY ONLY <1>4, <1>5, <2>1
  <2> QED
    BY <1>1, <1>7, <1>9, <2>2 DEF t
<1>10. CASE a = 0 /\ b = 0
  <2>1. 1 \in a + b + 1 .. Len(u) /\ d.checking + 1 - (a + b) = d.checking + 1 /\ d.checking < Len(d.ins)
    BY <1>2, <1>3, <1>4, <1>5, <1>10
  <2>2. r.type = "Txmeta" /\ r.hash = d.ins[d.checking + 1].prev_hash
    BY ONLY <1>4, <1>5, <2>1
  <2> QED
    BY <1>1, <1>7, <1>10, <2>1, <2>2 DEF t
<1> QED
  BY <1>8, <1>9, <1>10

----------------------------------------------------------------------------
(* What the firmware's plan is when it has an answer.                      *)

\* A plan from its parts.
LEMMA MakePlan ==
    ASSUME NEW t, NEW d, NEW w, IsDev(d), d.meta = w.meta, d.signing \in BOOLEAN, Read(d, w),
           NEW a \in Nat, NEW b \in Nat, NEW h \in {NoHash} \cup {d.ins[i].prev_hash : i \in 1 .. Len(d.ins)},
           Queue(t, a, b, h, d, w),
           Reading(a, b, h, d, w) \/ Checking(a, b, h, d, w) \/ Signing(a, b, h, d, w)
    PROVE  Plan(t, d, w)
  BY DEF Plan

\* With the answer to an input the next question is the first one left.
LEMMA InputAnswered ==
    ASSUME NEW t, NEW a \in Nat, NEW b \in Nat, NEW h, NEW ins, NEW c \in Nat, NEW n \in Nat, NEW m \in Nat,
           IsSeq(ins), c <= Len(ins), a > 0, RestOf(t, a, b, h, ins, c, n, m)
    PROVE  QueueOf(t, a - 1, b, h, ins, c, n, m)
<1>1. Len(ins) \in Nat
  BY SeqFacts
<1>2. IsSeq(t) /\ Len(t) = (a - 1) + b + (Len(ins) - c)
  BY <1>1 DEF RestOf
<1>3. ASSUME NEW q \in 1 .. a - 1
      PROVE  t[q].type = "Txinput" /\ t[q].hash = h /\ (h = NoHash => t[q].index = n - (a - 1) + q - 1)
  BY DEF RestOf
<1>4. ASSUME NEW q \in (a - 1) + 1 .. (a - 1) + b
      PROVE  t[q].type = "Txoutput" /\ t[q].hash = h /\ (h = NoHash => t[q].index = m - b + (q - (a - 1)) - 1)
  <2>1. q \in 1 .. Len(t) /\ a <= q /\ q < a + b /\ m - b + (q - a) = m - b + (q - (a - 1)) - 1
    BY <1>1, <1>2
  <2> QED
    BY <2>1 DEF RestOf
<1>5. ASSUME NEW q \in (a - 1) + b + 1 .. Len(t)
      PROVE  t[q].type = "Txmeta" /\ t[q].hash = ins[c + q - ((a - 1) + b)].prev_hash
  <2>1. q \in 1 .. Len(t) /\ a + b <= q /\ c + q + 1 - (a + b) = c + q - ((a - 1) + b)
    BY <1>1, <1>2
  <2> QED
    BY <2>1 DEF RestOf
<1>6. \A q \in 1 .. Len(t) : IsRequest(t[q]) /\ t[q].index \in Nat \cup {NoIndex}
  BY DEF RestOf
<1> QED
  BY <1>2, <1>3, <1>4, <1>5, <1>6 DEF QueueOf

LEMMA OutputAnswered ==
    ASSUME NEW t, NEW b \in Nat, NEW h, NEW ins, NEW c \in Nat, NEW n \in Nat, NEW m \in Nat,
           IsSeq(ins), c <= Len(ins), b > 0, RestOf(t, 0, b, h, ins, c, n, m)
    PROVE  QueueOf(t, 0, b - 1, h, ins, c, n, m)
<1>1. Len(ins) \in Nat
  BY SeqFacts
<1>2. IsSeq(t) /\ Len(t) = 0 + (b - 1) + (Len(ins) - c)
  BY <1>1 DEF RestOf
<1>3. 1 .. 0 = {}
  OBVIOUS
<1>4. ASSUME NEW q \in 0 + 1 .. 0 + (b - 1)
      PROVE  t[q].type = "Txoutput" /\ t[q].hash = h /\ (h = NoHash => t[q].index = m - (b - 1) + (q - 0) - 1)
  <2>1. q \in 1 .. Len(t) /\ 0 <= q /\ q < 0 + b /\ m - b + (q - 0) = m - (b - 1) + (q - 0) - 1
    BY <1>1, <1>2
  <2> QED
    BY <2>1 DEF RestOf
<1>5. ASSUME NEW q \in 0 + (b - 1) + 1 .. Len(t)
      PROVE  t[q].type = "Txmeta" /\ t[q].hash = ins[c + q - (0 + (b - 1))].prev_hash
  <2>1. q \in 1 .. Len(t) /\ 0 + b <= q /\ c + q + 1 - (0 + b) = c + q - (0 + (b - 1))
    BY <1>1, <1>2
  <2> QED
    BY <2>1 DEF RestOf
<1>6. \A q \in 1 .. Len(t) : IsRequest(t[q]) /\ t[q].index \in Nat \cup {NoIndex}
  BY DEF RestOf
<1> QED
  BY <1>2, <1>3, <1>4, <1>5, <1>6 DEF QueueOf

\* The previous transaction of the next input is put in front.
LEMMA MetaAnswered ==
    ASSUME NEW t, NEW h, NEW ins, NEW c \in Nat, NEW n \in Nat, NEW m \in Nat, IsSeq(ins), c < Len(ins),
           NEW g, RestOf(t, 0, 0, g, ins, c, n, m), h # NoHash, NEW a \in Nat, NEW b \in Nat
    PROVE  QueueOf(Questions("Txinput", a, h) \o Questions("Txoutput", b, h) \o t, a, b, h, ins, c + 1, n, m)
<1> DEFINE x == Questions("Txinput", a, h)
           y == Questions("Txoutput", b, h)
           z == x \o y
           u == z \o t
<1>1. IsSeq(x) /\ Len(x) = a /\ \A q \in 1 .. a : x[q] = TxRequest("Txinput", q - 1, h)
  BY QuestionsFacts
<1>2. IsSeq(y) /\ Len(y) = b /\ \A q \in 1 .. b : y[q] = TxRequest("Txoutput", q - 1, h)
  BY QuestionsFacts
<1>4. IsSeq(t) /\ Len(t) = Len(ins) - c - 1 /\ Len(ins) \in Nat
  BY SeqFacts DEF RestOf
<1> HIDE DEF x, y
<1>5. /\ IsSeq(z) /\ Len(z) = a + b /\ \A q \in 1 .. a : z[q] = x[q]
      /\ \A q \in a + 1 .. a + b : z[q] = y[q - a]
  <2>1. IsSeq(x) /\ IsSeq(y)
    BY ONLY <1>1, <1>2
  <2>2. /\ IsSeq(z) /\ Len(z) = Len(x) + Len(y) /\ \A q \in 1 .. Len(x) : z[q] = x[q]
        /\ \A q \in Len(x) + 1 .. Len(x) + Len(y) : z[q] = y[q - Len(x)]
    BY ONLY <2>1, ConcatFacts
  <2>3. Len(x) = a /\ Len(y) = b
    BY ONLY <1>1, <1>2
  <2> QED
    BY ONLY <2>2, <2>3
<1> HIDE DEF z
<1>6. /\ IsSeq(u) /\ Len(u) = a + b + Len(t) /\ \A q \in 1 .. a + b : u[q] = z[q]
      /\ \A q \in a + b + 1 .. a + b + Len(t) : u[q] = t[q - (a + b)]
  <2>1. IsSeq(z) /\ IsSeq(t)
    BY <1>4, <1>5
  <2>2. /\ IsSeq(u) /\ Len(u) = Len(z) + Len(t) /\ \A q \in 1 .. Len(z) : u[q] = z[q]
        /\ \A q \in Len(z) + 1 .. Len(z) + Len(t) : u[q] = t[q - Len(z)]
    BY ONLY <2>1, ConcatFacts
  <2> QED
    BY ONLY <1>5, <2>2
<1> HIDE DEF u
<1>7. ASSUME NEW q \in 1 .. a
      PROVE  /\ u[q].type = "Txinput" /\ u[q].hash = h /\ IsRequest(u[q]) /\ u[q].index \in Nat
  <2>1. u[q] = TxRequest("Txinput", q - 1, h) /\ q - 1 \in Nat
    <3>1. q - 1 \in Nat /\ q \in 1 .. a + b
      OBVIOUS
    <3> QED
      BY ONLY <1>1, <1>5, <1>6, <1>7, <3>1
  <2> QED
    BY ONLY <2>1, MadeRequest
<1>8. ASSUME NEW q \in a + 1 .. a + b
      PROVE  /\ u[q].type = "Txoutput" /\ u[q].hash = h /\ IsRequest(u[q]) /\ u[q].index \in Nat
  <2>1. q - a \in 1 .. b /\ q \in 1 .. a + b /\ (q - a) - 1 \in Nat
    OBVIOUS
  <2>2. u[q] = TxRequest("Txoutput", (q - a) - 1, h)
    BY ONLY <1>2, <1>5, <1>6, <1>8, <2>1
  <2> QED
    BY ONLY <2>1, <2>2, MadeRequest
<1>9. ASSUME NEW q \in a + b + 1 .. Len(u)
      PROVE  /\ u[q].type = "Txmeta" /\ u[q].hash = ins[(c + 1) + q - (a + b)].prev_hash
             /\ IsRequest(u[q]) /\ u[q].index \in Nat \cup {NoIndex}
  <2>1. q - (a + b) \in 1 .. Len(t) /\ u[q] = t[q - (a + b)] /\ 0 + 0 <= q - (a + b)
    <3>1. /\ a \in Nat /\ b \in Nat /\ q \in a + b + 1 .. Len(u) /\ Len(u) = a + b + Len(t)
          /\ Len(t) = Len(ins) - c - 1 /\ Len(ins) \in Nat /\ c \in Nat
      BY <1>4, <1>6
    <3>2. q - (a + b) \in 1 .. Len(t) /\ 0 + 0 <= q - (a + b) /\ q \in a + b + 1 .. a + b + Len(t)
      BY ONLY <3>1
    <3> QED
      BY ONLY <1>6, <3>2
  <2>2. c + (q - (a + b)) + 1 - (0 + 0) = (c + 1) + q - (a + b)
    <3>1. q \in Int
      BY ONLY <1>6, <1>9
    <3> QED
      BY ONLY a \in Nat, b \in Nat, c \in Nat, <3>1
  <2>3. /\ t[q - (a + b)].type = "Txmeta" /\ t[q - (a + b)].hash = ins[c + (q - (a + b)) + 1 - (0 + 0)].prev_hash
        /\ IsRequest(t[q - (a + b)]) /\ t[q - (a + b)].index \in Nat \cup {NoIndex}
    BY <2>1 DEF RestOf
  <2> QED
    BY <2>1, <2>2, <2>3
<1>10. Len(u) = a + b + (Len(ins) - (c + 1))
  BY <1>4, <1>6
<1>11. \A q \in 1 .. Len(u) : q \in 1 .. a \/ q \in a + 1 .. a + b \/ q \in a + b + 1 .. Len(u)
  BY <1>4, <1>6
<1>12. \A q \in 1 .. Len(u) : IsRequest(u[q]) /\ u[q].index \in Nat \cup {NoIndex}
  BY <1>7, <1>8, <1>9, <1>11
<1>13. QueueOf(u, a, b, h, ins, c + 1, n, m)
  BY <1>6, <1>7, <1>8, <1>9, <1>10, <1>12 DEF QueueOf
<1> QED
  BY <1>13 DEF x, y, z, u

\* The questions of the first reading.
LEMMA FirstQueue ==
    ASSUME NEW n \in Nat, NEW m \in Nat
    PROVE  QueueOf(Questions("Txinput", n, NoHash) \o Questions("Txoutput", m, NoHash), n, m, NoHash, <<>>, 0, n, m)
<1> DEFINE x == Questions("Txinput", n, NoHash)
           y == Questions("Txoutput", m, NoHash)
           t == x \o y
<1>1. IsSeq(x) /\ Len(x) = n /\ \A q \in 1 .. n : x[q] = TxRequest("Txinput", q - 1, NoHash)
  BY QuestionsFacts
<1>2. IsSeq(y) /\ Len(y) = m /\ \A q \in 1 .. m : y[q] = TxRequest("Txoutput", q - 1, NoHash)
  BY QuestionsFacts
<1> HIDE DEF x, y
<1>4. /\ IsSeq(t) /\ Len(t) = n + m
      /\ \A q \in 1 .. n : t[q] = x[q]
      /\ \A q \in n + 1 .. n + m : t[q] = y[q - n]
  <2>1. IsSeq(x) /\ IsSeq(y)
    BY ONLY <1>1, <1>2
  <2>2. /\ IsSeq(t) /\ Len(t) = Len(x) + Len(y) /\ \A q \in 1 .. Len(x) : t[q] = x[q]
        /\ \A q \in Len(x) + 1 .. Len(x) + Len(y) : t[q] = y[q - Len(x)]
    BY ONLY <2>1, ConcatFacts
  <2>3. Len(x) = n /\ Len(y) = m
    BY ONLY <1>1, <1>2
  <2> QED
    BY ONLY <2>2, <2>3
<1> HIDE DEF t
<1>5. ASSUME NEW q \in 1 .. n
      PROVE  /\ t[q].type = "Txinput" /\ t[q].hash = NoHash /\ t[q].index = n - n + q - 1 /\ IsRequest(t[q])
             /\ t[q].index \in Nat
  <2>1. q - 1 \in Nat /\ q - 1 = n - n + q - 1 /\ t[q] = TxRequest("Txinput", q - 1, NoHash)
    BY <1>1, <1>4
  <2> QED
    BY <2>1, MadeRequest
<1>6. ASSUME NEW q \in n + 1 .. n + m
      PROVE  /\ t[q].type = "Txoutput" /\ t[q].hash = NoHash /\ t[q].index = m - m + (q - n) - 1
             /\ IsRequest(t[q]) /\ t[q].index \in Nat
  <2>1. q - n \in 1 .. m /\ (q - n) - 1 \in Nat /\ (q - n) - 1 = m - m + (q - n) - 1
    OBVIOUS
  <2>2. t[q] = TxRequest("Txoutput", (q - n) - 1, NoHash)
    BY <1>2, <1>4, <2>1
  <2> QED
    BY <2>1, <2>2, MadeRequest
<1>7. \A q \in 1 .. Len(t) : q \in 1 .. n \/ q \in n + 1 .. n + m
  BY <1>4
<1>8. n + m + 1 .. Len(t) = {} /\ Len(t) = n + m + (Len(<<>>) - 0)
  BY <1>4, EmptyIsSeq
<1>9. \A q \in 1 .. Len(t) : IsRequest(t[q]) /\ t[q].index \in Nat \cup {NoIndex}
  BY <1>5, <1>6, <1>7
<1>10. QueueOf(t, n, m, NoHash, <<>>, 0, n, m)
  BY <1>4, <1>5, <1>6, <1>8, <1>9 DEF QueueOf
<1> QED
  BY <1>10 DEF x, y, t

\* The first reading of an input puts its previous transaction at the end.
LEMMA InputRead ==
    ASSUME NEW t, NEW a \in Nat, NEW b \in Nat, NEW ins, NEW n \in Nat, NEW m \in Nat,
           IsSeq(ins), QueueOf(t, a, b, NoHash, ins, 0, n, m), NEW x
    PROVE  QueueOf(Append(t, TxRequest("Txmeta", NoIndex, x.prev_hash)), a, b, NoHash, Append(ins, x), 0, n, m)
<1>1. Len(ins) \in Nat /\ IsSeq(t) /\ Len(t) = a + b + (Len(ins) - 0)
  BY SeqFacts DEF QueueOf
<1> DEFINE e == Append(ins, x)
           u == Append(t, TxRequest("Txmeta", NoIndex, x.prev_hash))
<1>2. IsSeq(e) /\ Len(e) = Len(ins) + 1 /\ e[Len(ins) + 1] = x /\ \A i \in 1 .. Len(ins) : e[i] = ins[i]
  BY AppendFacts
<1>3. /\ IsSeq(u) /\ Len(u) = Len(t) + 1 /\ u[Len(t) + 1] = TxRequest("Txmeta", NoIndex, x.prev_hash)
      /\ \A q \in 1 .. Len(t) : u[q] = t[q]
  BY <1>1, AppendFacts
<1> HIDE DEF e, u
<1>4. 1 .. a \subseteq 1 .. Len(t) /\ a + 1 .. a + b \subseteq 1 .. Len(t)
  BY <1>1
<1>5. ASSUME NEW q \in a + b + 1 .. Len(u)
      PROVE  u[q].type = "Txmeta" /\ u[q].hash = e[0 + q - (a + b)].prev_hash
  <2>1. CASE q = Len(t) + 1
    <3>1. 0 + q - (a + b) = Len(ins) + 1
      BY <1>1, <2>1
    <3> QED
      BY <1>2, <1>3, <2>1, <3>1, MadeRequest
  <2>2. CASE q # Len(t) + 1
    <3>1. q \in a + b + 1 .. Len(t) /\ q \in 1 .. Len(t) /\ 0 + q - (a + b) \in 1 .. Len(ins)
      BY <1>1, <1>3, <2>2
    <3>2. t[q].type = "Txmeta" /\ t[q].hash = ins[0 + q - (a + b)].prev_hash
      BY <3>1 DEF QueueOf
    <3> QED
      BY <1>2, <1>3, <3>1, <3>2
  <2> QED
    BY <2>1, <2>2
<1>6. ASSUME NEW q \in 1 .. Len(u)
      PROVE  IsRequest(u[q]) /\ u[q].index \in Nat \cup {NoIndex}
  <2>1. CASE q \in 1 .. Len(t)
    BY <1>3, <2>1 DEF QueueOf
  <2>2. CASE q = Len(t) + 1
    BY <1>3, <2>2, MadeRequest
  <2> QED
    BY <1>1, <1>3, <2>1, <2>2
<1>7. Len(u) = a + b + (Len(e) - 0)
  BY <1>1, <1>2, <1>3
<1>8. \A q \in 1 .. a : u[q].type = "Txinput" /\ u[q].hash = NoHash /\ u[q].index = n - a + q - 1
  BY <1>3, <1>4 DEF QueueOf
<1>9. \A q \in a + 1 .. a + b : u[q].type = "Txoutput" /\ u[q].hash = NoHash /\ u[q].index = m - b + (q - a) - 1
  BY <1>3, <1>4 DEF QueueOf
<1>10. QueueOf(u, a, b, NoHash, e, 0, n, m)
  BY <1>3, <1>5, <1>6, <1>7, <1>8, <1>9 DEF QueueOf
<1> QED
  BY <1>10 DEF e, u

\* What a plan says of its device.
LEMMA PlanTypes ==
    ASSUME NEW t, NEW d, NEW w, Plan(t, d, w)
    PROVE  /\ IsDev(d) /\ d.meta = w.meta /\ d.signing \in BOOLEAN /\ Read(d, w)
           /\ IsSeq(d.ins) /\ Len(d.ins) \in Nat /\ IsSeq(d.outs) /\ Len(d.outs) \in Nat
           /\ d.checking \in Nat /\ d.checking <= Len(d.ins)
<1>1. IsDev(d) /\ d.meta = w.meta /\ d.signing \in BOOLEAN /\ Read(d, w)
  BY DEF Plan
<1>2. IsSeq(d.ins) /\ IsSeq(d.outs) /\ d.checking \in 0 .. Len(d.ins)
  BY <1>1 DEF Read
<1>3. Len(d.ins) \in Nat /\ Len(d.outs) \in Nat
  BY <1>2, SeqFacts
<1> QED
  BY <1>1, <1>2, <1>3

LEMMA PlanBegins ==
    ASSUME NEW d, NEW w, w.n \in Nat, w.m \in Nat, IsDev(d), d.signing = FALSE, d.meta = w.meta,
           d.ins = <<>>, d.outs = <<>>, d.checking = 0,
           d.todo = Questions("Txinput", w.n, NoHash) \o Questions("Txoutput", w.m, NoHash)
    PROVE  Plan(d.todo, d, w)
<1>1. Queue(d.todo, w.n, w.m, NoHash, d, w)
  BY FirstQueue DEF Queue
<1>2. Read(d, w)
  BY EmptyIsSeq DEF Read
<1>3. Reading(w.n, w.m, NoHash, d, w)
  BY EmptyIsSeq DEF Reading
<1> QED
  BY <1>1, <1>2, <1>3, MakePlan

\* The device d becomes e with the input x, which r asked for.
ReadsInput(r, d, x, e, w) ==
    /\ x # Err /\ \A k \in 1 .. w.n : r.index = k - 1 => x = w.ins[k]
    /\ IsDev(e) /\ e.signing = d.signing /\ e.meta = d.meta /\ e.ins = Append(d.ins, x) /\ e.outs = d.outs
    /\ e.checking = d.checking /\ e.todo = Append(d.todo, TxRequest("Txmeta", NoIndex, x.prev_hash))

LEMMA PlanInput ==
    ASSUME NEW r, NEW d, NEW w, w.n \in Nat, w.m \in Nat, Plan(Waiting(r, d), d, w), IsSeq(d.todo),
           r.type = "Txinput", r.hash = NoHash, ~d.signing, NEW x, NEW e, ReadsInput(r, d, x, e, w)
    PROVE  Plan(e.todo, e, w)
<1>0. /\ x # Err /\ \A k \in 1 .. w.n : r.index = k - 1 => x = w.ins[k]
      /\ IsDev(e) /\ e.signing = d.signing /\ e.meta = d.meta /\ e.ins = Append(d.ins, x) /\ e.outs = d.outs
      /\ e.checking = d.checking /\ e.todo = Append(d.todo, TxRequest("Txmeta", NoIndex, x.prev_hash))
  BY DEF ReadsInput
<1> USE <1>0
<1>1. PICK a \in Nat, b \in Nat, h \in {NoHash} \cup {d.ins[k].prev_hash : k \in 1 .. Len(d.ins)} :
        /\ Rest(d.todo, a, b, h, d, w)
        /\ Reading(a, b, h, d, w) \/ Checking(a, b, h, d, w) \/ Signing(a, b, h, d, w)
        /\ a > 0 /\ r.hash = h /\ (h = NoHash => r.index = w.n - a)
  BY CurrentQuestion
<1>2. Reading(a, b, NoHash, d, w) /\ h = NoHash /\ r.index = w.n - a
  BY <1>1 DEF Checking, Signing
<1>3. /\ IsSeq(d.ins) /\ Len(d.ins) \in Nat /\ Len(d.outs) \in Nat /\ Read(d, w)
      /\ d.meta = w.meta /\ d.signing \in BOOLEAN
  BY PlanTypes
<1>4. d.checking = 0 /\ a = w.n - Len(d.ins) /\ b = w.m - Len(d.outs) /\ b = w.m
  BY <1>1, <1>2 DEF Reading
<1>5. x = w.ins[Len(d.ins) + 1] /\ Len(d.ins) + 1 \in 1 .. w.n
  <2>1. PICK l \in Nat : l = Len(d.ins)
    BY ONLY <1>3
  <2>2. a = w.n - l /\ a > 0 /\ r.index = w.n - a /\ w.n \in Nat
    BY <1>1, <1>2, <1>4, <2>1
  <2>3. l + 1 \in 1 .. w.n /\ r.index = (l + 1) - 1
    BY ONLY <2>1, <2>2
  <2>4. x = w.ins[l + 1]
    BY ONLY <1>0, <2>3
  <2> QED
    BY ONLY <2>1, <2>3, <2>4
<1>6. /\ IsSeq(e.ins) /\ Len(e.ins) = Len(d.ins) + 1 /\ e.ins[Len(d.ins) + 1] = x
      /\ \A i \in 1 .. Len(d.ins) : e.ins[i] = d.ins[i]
  BY <1>3, AppendFacts
<1>7. Queue(e.todo, a - 1, b, NoHash, e, w)
  <2>1. QueueOf(d.todo, a - 1, b, NoHash, d.ins, 0, w.n, w.m)
    <3>1. RestOf(d.todo, a, b, NoHash, d.ins, 0, w.n, w.m)
      BY <1>1, <1>2, <1>4 DEF Rest
    <3>2. w.n \in Nat /\ w.m \in Nat /\ a \in Nat /\ b \in Nat /\ a > 0 /\ 0 \in Nat
      BY <1>1, <1>3
    <3>3. IsSeq(d.ins) /\ 0 <= Len(d.ins)
      BY ONLY <1>3
    <3> QED
      BY ONLY <3>1, <3>2, <3>3, InputAnswered
  <2>2. a - 1 \in Nat
    BY <1>1
  <2>3. QueueOf(e.todo, a - 1, b, NoHash, e.ins, 0, w.n, w.m)
    <3>1. w.n \in Nat /\ w.m \in Nat /\ b \in Nat /\ IsSeq(d.ins)
      BY <1>3
    <3>2. QueueOf(Append(d.todo, TxRequest("Txmeta", NoIndex, x.prev_hash)), a - 1, b, NoHash,
                  Append(d.ins, x), 0, w.n, w.m)
      BY ONLY <2>1, <2>2, <3>1, InputRead
    <3> QED
      BY ONLY <1>0, <3>2
  <2> QED
    BY <1>4, <2>3 DEF Queue
<1>8. Reading(a - 1, b, NoHash, e, w)
  <2>1. ~e.signing /\ e.checking = 0 /\ b = w.m - Len(e.outs) /\ b = w.m
    BY ONLY <1>0, <1>2, <1>4 DEF Reading
  <2>2. PICK l \in Nat : l = Len(d.ins)
    BY ONLY <1>3
  <2>3. a - 1 = w.n - Len(e.ins)
    <3>1. a = w.n - l /\ Len(e.ins) = l + 1
      BY ONLY <1>4, <1>6, <2>2
    <3>2. a - 1 = w.n - (l + 1)
      BY ONLY w.n \in Nat, <2>2, <3>1
    <3> QED
      BY ONLY <3>1, <3>2
  <2> QED
    BY ONLY <2>1, <2>3 DEF Reading
<1>9. Read(e, w)
  <2>1. \A i \in 1 .. Len(e.ins) : i \in 1 .. Len(d.ins) \/ i = Len(d.ins) + 1
    BY <1>3, <1>6
  <2>2. \A i \in 1 .. Len(e.ins) : e.ins[i] = w.ins[i] /\ w.ins[i] # Err
    BY <1>3, <1>5, <1>6, <2>1 DEF Read
  <2>3. Len(e.ins) <= w.n /\ e.checking \in 0 .. Len(e.ins)
    BY ONLY w.n \in Nat, <1>0, <1>3, <1>4, <1>5, <1>6
  <2> QED
    BY <1>3, <1>6, <2>2, <2>3 DEF Read
<1> QED
  <2>1. a - 1 \in Nat
    BY <1>1
  <2> QED
    BY <1>3, <1>7, <1>8, <1>9, <2>1, MakePlan

\* The same with the output x.
ReadsOutput(r, d, x, e, w) ==
    /\ \A k \in 1 .. w.m : r.index = k - 1 => x = w.outs[k] /\ k \in w.good
    /\ IsDev(e) /\ e.signing = d.signing /\ e.meta = d.meta /\ e.ins = d.ins /\ e.outs = Append(d.outs, x)
    /\ e.checking = d.checking /\ e.todo = d.todo

LEMMA PlanOutput ==
    ASSUME NEW r, NEW d, NEW w, w.n \in Nat, w.m \in Nat, Plan(Waiting(r, d), d, w), IsSeq(d.todo),
           r.type = "Txoutput", r.hash = NoHash, NEW x, NEW e, ReadsOutput(r, d, x, e, w)
    PROVE  Plan(e.todo, e, w) /\ ~d.signing
<1>0. /\ \A k \in 1 .. w.m : r.index = k - 1 => x = w.outs[k] /\ k \in w.good
      /\ IsDev(e) /\ e.signing = d.signing /\ e.meta = d.meta /\ e.ins = d.ins /\ e.outs = Append(d.outs, x)
      /\ e.checking = d.checking /\ e.todo = d.todo
  BY DEF ReadsOutput
<1> USE <1>0
<1>1. PICK a \in Nat, b \in Nat, h \in {NoHash} \cup {d.ins[k].prev_hash : k \in 1 .. Len(d.ins)} :
        /\ Rest(d.todo, a, b, h, d, w)
        /\ Reading(a, b, h, d, w) \/ Checking(a, b, h, d, w) \/ Signing(a, b, h, d, w)
        /\ a = 0 /\ b > 0 /\ r.hash = h /\ (h = NoHash => r.index = w.m - b)
  BY CurrentQuestion
<1>2. Reading(0, b, NoHash, d, w) /\ h = NoHash /\ r.index = w.m - b
  BY <1>1 DEF Checking, Signing
<1>3. /\ IsSeq(d.ins) /\ IsSeq(d.outs) /\ Len(d.ins) \in Nat /\ Len(d.outs) \in Nat /\ Read(d, w)
      /\ d.meta = w.meta /\ d.signing \in BOOLEAN
  BY PlanTypes
<1>4. d.checking = 0 /\ 0 = w.n - Len(d.ins) /\ b = w.m - Len(d.outs) /\ ~d.signing
  BY <1>1, <1>2 DEF Reading
<1>5. x = w.outs[Len(d.outs) + 1] /\ Len(d.outs) + 1 \in 1 .. w.m /\ Len(d.outs) + 1 \in w.good
  <2>1. PICK l \in Nat : l = Len(d.outs)
    BY ONLY <1>3
  <2>2. b = w.m - l /\ b > 0 /\ r.index = w.m - b /\ w.m \in Nat
    BY <1>1, <1>2, <1>4, <2>1
  <2>3. l + 1 \in 1 .. w.m /\ r.index = (l + 1) - 1
    BY ONLY <2>1, <2>2
  <2>4. x = w.outs[l + 1] /\ l + 1 \in w.good
    BY ONLY <1>0, <2>3
  <2> QED
    BY ONLY <2>1, <2>3, <2>4
<1>6. /\ IsSeq(e.outs) /\ Len(e.outs) = Len(d.outs) + 1 /\ e.outs[Len(d.outs) + 1] = x
      /\ \A i \in 1 .. Len(d.outs) : e.outs[i] = d.outs[i]
  BY <1>3, AppendFacts
<1>7. Queue(e.todo, 0, b - 1, NoHash, e, w)
  <2>1. QueueOf(d.todo, 0, b - 1, NoHash, d.ins, 0, w.n, w.m)
    <3>1. RestOf(d.todo, 0, b, NoHash, d.ins, 0, w.n, w.m)
      BY <1>1, <1>2, <1>4 DEF Rest
    <3>2. w.n \in Nat /\ w.m \in Nat /\ b \in Nat /\ b > 0 /\ 0 \in Nat
      BY <1>1
    <3>3. IsSeq(d.ins) /\ 0 <= Len(d.ins)
      BY ONLY <1>3
    <3> QED
      BY ONLY <3>1, <3>2, <3>3, OutputAnswered
  <2> QED
    BY <1>4, <2>1 DEF Queue
<1>8. Reading(0, b - 1, NoHash, e, w)
  <2>1. ~e.signing /\ e.checking = 0 /\ 0 = w.n - Len(e.ins)
    BY ONLY <1>0, <1>4
  <2>2. PICK l \in Nat : l = Len(d.outs)
    BY ONLY <1>3
  <2>3. b - 1 = w.m - Len(e.outs)
    <3>1. b = w.m - l /\ Len(e.outs) = l + 1
      BY ONLY <1>4, <1>6, <2>2
    <3>2. b - 1 = w.m - (l + 1)
      BY ONLY w.m \in Nat, <2>2, <3>1
    <3> QED
      BY ONLY <3>1, <3>2
  <2> QED
    BY ONLY <2>1, <2>3 DEF Reading
<1>9. Read(e, w)
  <2>1. \A i \in 1 .. Len(e.outs) : i \in 1 .. Len(d.outs) \/ i = Len(d.outs) + 1
    BY <1>3, <1>6
  <2>2. \A i \in 1 .. Len(e.outs) : e.outs[i] = w.outs[i] /\ i \in w.good
    BY <1>3, <1>5, <1>6, <2>1 DEF Read
  <2>3. Len(e.outs) <= w.m
    BY <1>3, <1>5, <1>6
  <2> QED
    BY <1>3, <1>6, <2>2, <2>3 DEF Read
<1> QED
  <2>1. b - 1 \in Nat
    BY <1>1
  <2> QED
    BY <1>3, <1>4, <1>7, <1>8, <1>9, <2>1, MakePlan

\* The check of the next input begins: its previous transaction has x inputs
\* and y outputs.
ReadsMeta(r, d, x, y, e) ==
    /\ x \in Nat /\ y \in Nat /\ y > 0
    /\ IsDev(e) /\ e.signing = d.signing /\ e.meta = d.meta /\ e.ins = d.ins /\ e.outs = d.outs
    /\ e.checking = d.checking + 1 /\ IsTx(e.prev) /\ e.prev.outputs = <<>> /\ e.counts[2] = y
    /\ e.todo = Questions("Txinput", x, r.hash) \o Questions("Txoutput", y, r.hash) \o d.todo

LEMMA PlanMeta ==
    ASSUME NEW r, NEW d, NEW w, w.n \in Nat, w.m \in Nat, Plan(Waiting(r, d), d, w), IsSeq(d.todo),
           r.type = "Txmeta", r.hash # NoHash, NEW x, NEW y, NEW e, ReadsMeta(r, d, x, y, e)
    PROVE  Plan(e.todo, e, w) /\ ~d.signing
<1>0. /\ x \in Nat /\ y \in Nat /\ y > 0
      /\ IsDev(e) /\ e.signing = d.signing /\ e.meta = d.meta /\ e.ins = d.ins /\ e.outs = d.outs
      /\ e.checking = d.checking + 1 /\ IsTx(e.prev) /\ e.prev.outputs = <<>> /\ e.counts[2] = y
      /\ e.todo = Questions("Txinput", x, r.hash) \o Questions("Txoutput", y, r.hash) \o d.todo
  BY DEF ReadsMeta
<1> USE <1>0
<1>1. PICK a \in Nat, b \in Nat, h \in {NoHash} \cup {d.ins[k].prev_hash : k \in 1 .. Len(d.ins)} :
        /\ Rest(d.todo, a, b, h, d, w)
        /\ Reading(a, b, h, d, w) \/ Checking(a, b, h, d, w) \/ Signing(a, b, h, d, w)
        /\ a = 0 /\ b = 0 /\ d.checking < Len(d.ins) /\ r.hash = d.ins[d.checking + 1].prev_hash
  BY CurrentQuestion
<1>2. /\ IsSeq(d.ins) /\ Len(d.ins) \in Nat /\ Len(d.outs) \in Nat /\ Read(d, w)
      /\ d.meta = w.meta /\ d.signing \in BOOLEAN /\ d.checking \in Nat
  BY PlanTypes
<1>3. Reading(0, 0, h, d, w) \/ Checking(0, 0, h, d, w)
  <2>1. ASSUME Signing(0, 0, h, d, w) PROVE FALSE
    <3>1. d.checking = w.n /\ Len(d.ins) = w.n /\ d.checking < Len(d.ins) /\ d.checking \in Nat
      BY ONLY <1>1, <1>2, <2>1 DEF Signing
    <3> QED
      BY ONLY <3>1
  <2>2. Reading(0, 0, h, d, w) \/ Checking(0, 0, h, d, w) \/ Signing(0, 0, h, d, w)
    BY ONLY <1>1
  <2> QED
    BY ONLY <2>1, <2>2
<1>4. /\ ~d.signing /\ Len(d.ins) = w.n /\ Len(d.outs) = w.m
      /\ \A i \in 1 .. d.checking : i \in w.true
  <2>1. CASE Reading(0, 0, h, d, w)
    BY <1>2, <2>1 DEF Reading
  <2>2. CASE Checking(0, 0, h, d, w)
    BY <1>2, <2>2 DEF Checking
  <2> QED
    BY <1>3, <2>1, <2>2
<1>5. QueueOf(e.todo, x, y, r.hash, d.ins, d.checking + 1, w.n, w.m)
  <2>1. RestOf(d.todo, 0, 0, h, d.ins, d.checking, w.n, w.m)
    BY <1>1 DEF Rest
  <2>2. /\ d.checking < Len(d.ins) /\ d.checking \in Nat /\ IsSeq(d.ins) /\ r.hash # NoHash
        /\ w.n \in Nat /\ w.m \in Nat /\ x \in Nat /\ y \in Nat
    BY <1>1, <1>2
  <2>3. QueueOf(Questions("Txinput", x, r.hash) \o Questions("Txoutput", y, r.hash) \o d.todo,
                x, y, r.hash, d.ins, d.checking + 1, w.n, w.m)
    BY ONLY <2>1, <2>2, MetaAnswered
  <2> QED
    BY ONLY <1>0, <2>3
<1>6. Queue(e.todo, x, y, r.hash, e, w)
  BY <1>5 DEF Queue
<1>7. Checking(x, y, r.hash, e, w)
  <2>1. \A i \in 1 .. e.checking - 1 : i \in w.true
    BY <1>2, <1>4
  <2> QED
    BY <1>2, <1>4, <2>1, EmptyIsSeq DEF Checking
<1>8a. e.ins = d.ins /\ e.outs = d.outs /\ e.checking = d.checking + 1 /\ d.checking + 1 \in 1 .. Len(d.ins)
  <2>1. d.checking < Len(d.ins) /\ d.checking \in Nat /\ Len(d.ins) \in Nat
    BY ONLY <1>1, <1>2
  <2>2. d.checking + 1 \in 1 .. Len(d.ins)
    BY ONLY <2>1
  <2> QED
    BY ONLY <1>0, <2>2
<1>8. Read(e, w)
  <2>1. e.checking \in 0 .. Len(e.ins)
    BY ONLY <1>2, <1>8a
  <2> QED
    BY ONLY <1>2, <1>8a, <2>1 DEF Read
<1>9. r.hash \in {NoHash} \cup {e.ins[k].prev_hash : k \in 1 .. Len(e.ins)}
  <2>1. d.checking + 1 \in 1 .. Len(d.ins)
    BY ONLY <1>8a
  <2> QED
    BY <1>1, <2>1
<1> QED
  BY <1>2, <1>4, <1>6, <1>7, <1>8, <1>9, MakePlan

\* Only the previous transaction is another one.
ReadsPrev(d, e) ==
    /\ IsDev(e) /\ e.signing = d.signing /\ e.meta = d.meta /\ e.ins = d.ins /\ e.outs = d.outs
    /\ e.checking = d.checking /\ IsTx(e.prev) /\ e.counts = d.counts /\ e.todo = d.todo

\* An input of a previous transaction.
LEMMA PlanPrevInput ==
    ASSUME NEW r, NEW d, NEW w, w.n \in Nat, w.m \in Nat, Plan(Waiting(r, d), d, w), IsSeq(d.todo),
           r.type = "Txinput", r.hash # NoHash, NEW e, ReadsPrev(d, e), e.prev.outputs = d.prev.outputs
    PROVE  Plan(e.todo, e, w) /\ ~d.signing
<1>0. /\ IsDev(e) /\ e.signing = d.signing /\ e.meta = d.meta /\ e.ins = d.ins /\ e.outs = d.outs
      /\ e.checking = d.checking /\ IsTx(e.prev) /\ e.counts = d.counts /\ e.todo = d.todo
  BY DEF ReadsPrev
<1> USE <1>0
<1>1. PICK a \in Nat, b \in Nat, h \in {NoHash} \cup {d.ins[k].prev_hash : k \in 1 .. Len(d.ins)} :
        /\ Rest(d.todo, a, b, h, d, w)
        /\ Reading(a, b, h, d, w) \/ Checking(a, b, h, d, w) \/ Signing(a, b, h, d, w)
        /\ a > 0 /\ r.hash = h
  BY CurrentQuestion
<1>2. /\ IsSeq(d.ins) /\ Read(d, w) /\ d.meta = w.meta /\ d.signing \in BOOLEAN
      /\ d.checking \in Nat /\ d.checking <= Len(d.ins)
  BY PlanTypes
<1>3. Checking(a, b, h, d, w) /\ ~d.signing
  BY <1>1 DEF Reading, Checking, Signing
<1>4. a - 1 \in Nat
  BY <1>1
<1>5. Queue(e.todo, a - 1, b, h, e, w)
  <2>1. QueueOf(d.todo, a - 1, b, h, d.ins, d.checking, w.n, w.m)
    BY <1>1, <1>2, InputAnswered DEF Rest
  <2> QED
    BY <2>1 DEF Queue
<1>6. Checking(a - 1, b, h, e, w)
  BY <1>1, <1>3 DEF Checking
<1>7. Read(e, w)
  BY <1>2 DEF Read
<1>8. h \in {NoHash} \cup {e.ins[k].prev_hash : k \in 1 .. Len(e.ins)}
  BY <1>1
<1> QED
  BY <1>2, <1>3, <1>4, <1>5, <1>6, <1>7, <1>8, MakePlan

\* An output of a previous transaction; the last one completes the check.
LEMMA PlanPrevOutput ==
    ASSUME NEW r, NEW d, NEW w, w.n \in Nat, w.m \in Nat, Plan(Waiting(r, d), d, w), IsSeq(d.todo),
           r.type = "Txoutput", r.hash # NoHash, NEW e, ReadsPrev(d, e), IsSeq(e.prev.outputs),
           IF Len(d.prev.outputs) + 1 < d.counts[2] THEN Len(e.prev.outputs) = Len(d.prev.outputs) + 1
           ELSE d.checking \in w.true
    PROVE  Plan(e.todo, e, w) /\ ~d.signing
<1>0. /\ IsDev(e) /\ e.signing = d.signing /\ e.meta = d.meta /\ e.ins = d.ins /\ e.outs = d.outs
      /\ e.checking = d.checking /\ IsTx(e.prev) /\ e.counts = d.counts /\ e.todo = d.todo
  BY DEF ReadsPrev
<1> USE <1>0
<1>1. PICK a \in Nat, b \in Nat, h \in {NoHash} \cup {d.ins[k].prev_hash : k \in 1 .. Len(d.ins)} :
        /\ Rest(d.todo, a, b, h, d, w)
        /\ Reading(a, b, h, d, w) \/ Checking(a, b, h, d, w) \/ Signing(a, b, h, d, w)
        /\ a = 0 /\ b > 0 /\ r.hash = h
  BY CurrentQuestion
<1>2. /\ IsSeq(d.ins) /\ Read(d, w) /\ d.meta = w.meta /\ d.signing \in BOOLEAN
      /\ d.checking \in Nat /\ d.checking <= Len(d.ins)
  BY PlanTypes
<1>3. Checking(0, b, h, d, w) /\ ~d.signing
  BY <1>1 DEF Reading, Checking, Signing
<1>4. b - 1 \in Nat
  BY <1>1
<1>5. Queue(e.todo, 0, b - 1, h, e, w)
  <2>1. QueueOf(d.todo, 0, b - 1, h, d.ins, d.checking, w.n, w.m)
    BY <1>1, <1>2, OutputAnswered DEF Rest
  <2> QED
    BY <2>1 DEF Queue
<1>6. Checking(0, b - 1, h, e, w)
  <2>1. Len(d.prev.outputs) \in Nat /\ d.counts[2] \in Nat /\ b = d.counts[2] - Len(d.prev.outputs)
    BY <1>1, <1>3, SeqFacts DEF Checking
  <2>2. CASE Len(d.prev.outputs) + 1 < d.counts[2]
    <3>1. Len(e.prev.outputs) = Len(d.prev.outputs) + 1
      BY <2>2
    <3>2. b - 1 # 0 /\ b - 1 = e.counts[2] - Len(e.prev.outputs) /\ e.counts[2] \in Nat
      <4>1. PICK l \in Nat, k \in Nat : l = Len(d.prev.outputs) /\ k = d.counts[2]
        BY ONLY <2>1
      <4>2. b = k - l /\ l + 1 < k
        BY ONLY <2>1, <2>2, <4>1
      <4>3. Len(e.prev.outputs) = l + 1 /\ e.counts[2] = k
        BY ONLY <1>0, <3>1, <4>1
      <4>4. b - 1 # 0 /\ b - 1 = k - (l + 1) /\ k \in Nat
        BY ONLY l \in Nat, k \in Nat, <4>2
      <4> QED
        BY ONLY <4>3, <4>4, Zenon
    <3>3. /\ h # NoHash /\ ~e.signing /\ Len(e.ins) = w.n /\ Len(e.outs) = w.m /\ e.checking > 0
          /\ \A i \in 1 .. e.checking - 1 : i \in w.true
      BY <1>3 DEF Checking
    <3> QED
      BY ONLY <3>2, <3>3, IsTx(e.prev), IsSeq(e.prev.outputs) DEF Checking
  <2>3. CASE ~(Len(d.prev.outputs) + 1 < d.counts[2])
    <3>1. d.checking \in w.true
      BY <2>3
    <3>2. b - 1 = 0
      BY <1>1, <2>1, <2>3
    <3> QED
      BY <1>3, <3>1, <3>2 DEF Checking
  <2> QED
    BY <2>2, <2>3
<1>7. Read(e, w)
  BY <1>2 DEF Read
<1>8. h \in {NoHash} \cup {e.ins[k].prev_hash : k \in 1 .. Len(e.ins)}
  BY <1>1
<1> QED
  BY <1>2, <1>3, <1>4, <1>5, <1>6, <1>7, <1>8, MakePlan

\* The second reading of an input.
LEMMA PlanSign ==
    ASSUME NEW r, NEW d, NEW w, w.n \in Nat, w.m \in Nat, Plan(Waiting(r, d), d, w), IsSeq(d.todo),
           r.type = "Txinput", r.hash = NoHash, d.signing
    PROVE  /\ Plan(d.todo, d, w) /\ r.index \in 0 .. w.n - 1 /\ w.n - Len(d.todo) = r.index + 1
           /\ Len(d.ins) = w.n /\ Len(d.outs) = w.m
<1>1. PICK a \in Nat, b \in Nat, h \in {NoHash} \cup {d.ins[k].prev_hash : k \in 1 .. Len(d.ins)} :
        /\ Rest(d.todo, a, b, h, d, w)
        /\ Reading(a, b, h, d, w) \/ Checking(a, b, h, d, w) \/ Signing(a, b, h, d, w)
        /\ a > 0 /\ r.hash = h /\ (h = NoHash => r.index = w.n - a)
  BY CurrentQuestion
<1>2. /\ IsSeq(d.ins) /\ Read(d, w) /\ d.meta = w.meta /\ d.signing \in BOOLEAN /\ IsDev(d)
      /\ d.checking \in Nat /\ d.checking <= Len(d.ins) /\ Len(d.ins) \in Nat
  BY PlanTypes
<1>3. Signing(a, b, h, d, w) /\ r.index = w.n - a
  BY <1>1 DEF Reading, Checking, Signing
<1>4. b = 0 /\ a <= w.n /\ Len(d.ins) = w.n /\ Len(d.outs) = w.m /\ d.checking = w.n
  BY <1>3 DEF Signing
<1>5. a - 1 \in Nat
  BY <1>1
<1>6. Queue(d.todo, a - 1, b, h, d, w)
  BY <1>1, <1>2, InputAnswered DEF Rest, Queue
<1>7. Signing(a - 1, b, h, d, w)
  BY <1>3, <1>4, <1>5 DEF Signing
<1>8. Len(d.todo) = a - 1
  BY <1>1, <1>2, <1>4, <1>5, <1>6 DEF Queue, QueueOf
<1>9. Plan(d.todo, d, w)
  BY <1>1, <1>2, <1>5, <1>6, <1>7, MakePlan
<1> QED
  BY <1>1, <1>3, <1>4, <1>8, <1>9

\* What is known while the device waits for a part of a previous transaction.
LEMMA PlanChecks ==
    ASSUME NEW r, NEW d, NEW w, w.n \in Nat, w.m \in Nat, Plan(Waiting(r, d), d, w), IsSeq(d.todo),
           r.type \in {"Txinput", "Txoutput"}, r.hash # NoHash
    PROVE  IsTx(d.prev) /\ IsSeq(d.prev.outputs) /\ d.checking \in 1 .. Len(d.ins)
<1>1. PICK a \in Nat, b \in Nat, h \in {NoHash} \cup {d.ins[k].prev_hash : k \in 1 .. Len(d.ins)} :
        /\ Reading(a, b, h, d, w) \/ Checking(a, b, h, d, w) \/ Signing(a, b, h, d, w)
        /\ r.hash = h
  BY CurrentQuestion
<1>2. Checking(a, b, h, d, w)
  BY <1>1 DEF Reading, Signing
<1>3. d.checking \in Nat /\ d.checking <= Len(d.ins) /\ Len(d.ins) \in Nat
  BY PlanTypes
<1> QED
  BY <1>2, <1>3 DEF Checking

LEMMA PlanChecksNext ==
    ASSUME NEW r, NEW d, NEW w, w.n \in Nat, w.m \in Nat, Plan(Waiting(r, d), d, w), IsSeq(d.todo),
           r.type = "Txmeta"
    PROVE  d.checking + 1 \in 1 .. Len(d.ins)
<1>1. d.checking < Len(d.ins)
  BY CurrentQuestion
<1>2. d.checking \in Nat /\ d.checking <= Len(d.ins) /\ Len(d.ins) \in Nat
  BY PlanTypes
<1> QED
  BY <1>1, <1>2

----------------------------------------------------------------------------
(* The steps of the firmware.                                              *)

\* What the invariant says while the device has an item to read.
LEMMA Answered ==
    ASSUME Inv, env = "honest", pc = "device", ack.item # "SignTx"
    PROVE  /\ Arguments /\ World.n \in Nat /\ World.m \in Nat /\ ack = item
           /\ rtype = req.type /\ IsSeq(dev.todo) /\ IsDev(dev) /\ dev.signing \in BOOLEAN
           /\ Plan(Waiting(req, dev), dev, World) /\ Read(dev, World)
           /\ ~dev.signing => Signed(sigs, 0, World)
           /\ dev.signing => Signed(sigs, req.index, World)
<1>1. Arguments /\ World.n \in Nat /\ World.m \in Nat
  BY PsbtFacts, WorldFacts DEF Inv
<1>2. ack = item /\ rtype # "Txfinished" /\ Asked(req, dev, World) /\ Signed(sigs, Done(req, dev, World), World)
  BY DEF Inv, Firmware
<1>3. rtype = req.type /\ req.type # "Txfinished"
  BY <1>2 DEF rtype
<1>4. IsSeq(dev.todo) /\ Plan(Waiting(req, dev), dev, World)
  BY <1>2, <1>3 DEF Asked
<1>5. IsDev(dev) /\ dev.signing \in BOOLEAN /\ Read(dev, World)
  BY <1>4, PlanTypes
<1> QED
  BY <1>1, <1>2, <1>3, <1>4, <1>5 DEF Done

\* A question without a signature.
LEMMA AsksNextKeeps ==
    ASSUME Inv, env = "honest", NEW d, Plan(d.todo, d, World), ~d.signing, AsksNext(d), Signed(sigs, 0, World)
    PROVE  Inv'
<1>1. Asks(d, NoIndex, NoSig)
  BY DEF AsksNext
<1>2. Takes(sigs, NoIndex, NoSig) = sigs
  BY DEF Takes
<1>3. Signed(Takes(sigs, NoIndex, NoSig), IF d.signing THEN World.n - Len(d.todo) ELSE 0, World)
  BY <1>2
<1>4. NoIndex \in Nat \cup {NoIndex}
  OBVIOUS
<1> QED
  BY <1>1, <1>3, <1>4, AsksKeeps

LEMMA RejectsKeeps ==
    ASSUME Inv, env = "honest", Rejects
    PROVE  Inv'
<1>1. pc' = "host" /\ req' = Failure /\ UNCHANGED <<args, ack, sigs, partial_sigs, dev, history>>
  BY DEF Rejects
<1>2. req'.type = "other" /\ req'.index = NoIndex /\ req'.sig_index = NoIndex
  BY <1>1 DEF Failure, TxRequest
<1>3. World' = World
  BY <1>1, Frozen
<1>4. Arguments'
  BY <1>1, <1>2 DEF Inv, Arguments, args
<1>5. Kept'
  BY <1>1 DEF Kept, args
<1>6. Firmware'
  BY <1>1, <1>2, <1>3 DEF Inv, Firmware
<1> QED
  BY <1>4, <1>5, <1>6 DEF Inv

LEMMA StepSignTx ==
    ASSUME Inv, DevGetsSignTx
    PROVE  Inv'
<1>1. env = "honest" /\ pc = "device" /\ ack.item = "SignTx"
  BY DEF DevGetsSignTx, Gets
<1>2. /\ sigs = <<>> /\ ack.inputs_count = World.n /\ ack.outputs_count = World.m /\ ack.meta = World.meta
      /\ World.n \in Nat /\ World.m \in Nat
  <2>1. /\ sigs = <<>>
        /\ ack = [item |-> "SignTx", inputs_count |-> Len(psbt.inputs), outputs_count |-> Len(psbt.outputs),
                  coin_name |-> coin_name, meta |-> psbt.meta]
    BY <1>1 DEF Inv, Firmware
  <2>2. ack.inputs_count = Len(psbt.inputs) /\ ack.outputs_count = Len(psbt.outputs) /\ ack.meta = psbt.meta
    BY ONLY <2>1
  <2> QED
    BY <2>1, <2>2, PsbtFacts, WorldFacts DEF Inv
<1> DEFINE t == Questions("Txinput", ack.inputs_count, NoHash) \o Questions("Txoutput", ack.outputs_count, NoHash)
           c == ack.coin_name
           y == ack.meta
<1>b. AsksNext([NoDev EXCEPT !.coin = c, !.meta = y, !.todo = t])
  BY DEF DevGetsSignTx
<1> HIDE DEF t, c, y
<1>c. PICK d : d = [NoDev EXCEPT !.coin = c, !.meta = y, !.todo = t]
  OBVIOUS
<1>3. AsksNext(d)
  BY <1>b, <1>c
<1>4. d = [todo |-> t, signing |-> FALSE, coin |-> c, meta |-> y, ins |-> <<>>, outs |-> <<>>,
           prev |-> NoTx, counts |-> <<0, 0>>, checking |-> 0]
  BY ONLY <1>c DEF NoDev
<1>5. /\ IsDev(d) /\ d.todo = t /\ d.signing = FALSE /\ d.meta = y /\ d.ins = <<>> /\ d.outs = <<>>
      /\ d.checking = 0
  BY ONLY <1>4 DEF IsDev
<1>6. Plan(d.todo, d, World)
  <2>1. d.meta = World.meta /\ d.todo = Questions("Txinput", World.n, NoHash) \o Questions("Txoutput", World.m, NoHash)
    BY <1>2, <1>5 DEF t, y
  <2> QED
    BY ONLY <1>2, <1>5, <2>1, PlanBegins
<1>7. Signed(sigs, 0, World)
  BY <1>2 DEF Signed
<1> QED
  BY <1>1, <1>3, <1>5, <1>6, <1>7, AsksNextKeeps

LEMMA StepInput ==
    ASSUME Inv, DevGetsInput
    PROVE  Inv'
<1>1. env = "honest" /\ pc = "device" /\ ack.item = "input" /\ ~dev.signing
  BY DEF DevGetsInput, Gets
<1>2. /\ Arguments /\ World.n \in Nat /\ World.m \in Nat /\ ack = item /\ rtype = req.type /\ IsSeq(dev.todo)
      /\ IsDev(dev) /\ Plan(Waiting(req, dev), dev, World) /\ Signed(sigs, 0, World)
  BY <1>1, Answered
<1>3. req.type = "Txinput" /\ req.hash = NoHash /\ ack = build_input_ack(request_index)
  BY <1>1, <1>2, Items
<1>4. ack # Err
  BY <1>1 DEF Err
<1>5. \A k \in 1 .. World.n : req.index = k - 1 => ack = World.ins[k]
  BY <1>3, WorldFacts DEF request_index, NoIndex
<1> DEFINE t == Append(dev.todo, TxRequest("Txmeta", NoIndex, ack.prev_hash))
           x == Append(dev.ins, ack)
<1>a. AsksNext([dev EXCEPT !.ins = x, !.todo = t])
  BY DEF DevGetsInput
<1> HIDE DEF t, x
<1>b. PICK d : d = [dev EXCEPT !.ins = x, !.todo = t]
  OBVIOUS
<1>6. AsksNext(d)
  BY <1>a, <1>b
<1>c. IsDev(dev)
  BY <1>2
<1>7. d = [todo |-> t, signing |-> dev.signing, coin |-> dev.coin, meta |-> dev.meta, ins |-> x,
           outs |-> dev.outs, prev |-> dev.prev, counts |-> dev.counts, checking |-> dev.checking]
  BY ONLY <1>b, <1>c DEF IsDev
<1>8. /\ IsDev(d) /\ d.todo = t /\ d.signing = dev.signing /\ d.meta = dev.meta /\ d.ins = x
      /\ d.outs = dev.outs /\ d.checking = dev.checking
  BY ONLY <1>7 DEF IsDev
<1>9. Plan(d.todo, d, World)
  <2>1. ReadsInput(req, dev, ack, d, World)
    BY <1>4, <1>5, <1>8 DEF ReadsInput, t, x
  <2> QED
    BY ONLY <1>1, <1>2, <1>3, <2>1, PlanInput
<1> QED
  BY <1>1, <1>2, <1>6, <1>8, <1>9, AsksNextKeeps

LEMMA StepOutput ==
    ASSUME Inv, DevGetsOutput
    PROVE  Inv'
<1>1. env = "honest" /\ pc = "device" /\ ack.item \in {"output", "change"}
  BY DEF DevGetsOutput, Gets
<1>2. /\ Arguments /\ World.n \in Nat /\ World.m \in Nat /\ ack = item /\ rtype = req.type /\ IsSeq(dev.todo)
      /\ IsDev(dev) /\ Plan(Waiting(req, dev), dev, World) /\ (~dev.signing => Signed(sigs, 0, World))
  BY <1>1, Answered
<1>3. req.type = "Txoutput" /\ req.hash = NoHash /\ ack = build_output_ack(request_index)
  BY <1>1, <1>2, Items
<1>4. CASE Rejects
  BY <1>1, <1>4, RejectsKeeps
<1>5. CASE AsksNext([dev EXCEPT !.outs = Append(@, signed_output)])
  <2>1. signed_output = SignedOutput(ack)
    BY DEF signed_output, SignedOutput
  <2>2. \A k \in 1 .. World.m : req.index = k - 1 => signed_output = World.outs[k] /\ k \in World.good
    <3>1. ack # Err
      BY <1>1 DEF Err
    <3> QED
      BY <1>3, <2>1, <3>1, WorldFacts DEF request_index, NoIndex
  <2> DEFINE x == Append(dev.outs, signed_output)
  <2>3. AsksNext([dev EXCEPT !.outs = x])
    BY <1>5
  <2> HIDE DEF x
  <2>4. PICK d : d = [dev EXCEPT !.outs = x]
    OBVIOUS
  <2>5. AsksNext(d)
    BY <2>3, <2>4
  <2>6. IsDev(dev)
    BY <1>2
  <2>7. d = [todo |-> dev.todo, signing |-> dev.signing, coin |-> dev.coin, meta |-> dev.meta, ins |-> dev.ins,
             outs |-> x, prev |-> dev.prev, counts |-> dev.counts, checking |-> dev.checking]
    BY ONLY <2>4, <2>6 DEF IsDev
  <2>8. /\ IsDev(d) /\ d.todo = dev.todo /\ d.signing = dev.signing /\ d.meta = dev.meta /\ d.ins = dev.ins
        /\ d.outs = x /\ d.checking = dev.checking
    BY ONLY <2>7 DEF IsDev
  <2>9. Plan(d.todo, d, World) /\ ~dev.signing
    <3>1. ReadsOutput(req, dev, signed_output, d, World)
      BY <2>2, <2>8 DEF ReadsOutput, x
    <3> QED
      BY ONLY <1>2, <1>3, <3>1, PlanOutput
  <2> QED
    BY <1>1, <1>2, <2>5, <2>8, <2>9, AsksNextKeeps
<1> QED
  BY <1>4, <1>5 DEF DevGetsOutput

\* The lengths of a previous transaction.
LEMMA PrevTxFacts ==
    ASSUME Arguments, NEW h
    PROVE  IsSeq(find_prev_tx(h).inputs) /\ IsSeq(find_prev_tx(h).outputs)
<1> DEFINE found == {i \in DOMAIN psbt.inputs : /\ psbt.inputs[i].non_witness_utxo # NoTx
                                                /\ reverse(compute_txid(psbt.inputs[i].non_witness_utxo)) = h}
<1>1. find_prev_tx(h) = IF found = {} THEN NoTx ELSE psbt.inputs[CHOOSE i \in found : TRUE].non_witness_utxo
  BY DEF find_prev_tx
<1>2. found \subseteq 1 .. Len(psbt.inputs)
  BY PsbtFacts, SeqFacts
<1> HIDE DEF found
<1>3. CASE found = {}
  <2>1. find_prev_tx(h).inputs = <<>> /\ find_prev_tx(h).outputs = <<>>
    BY <1>1, <1>3 DEF NoTx
  <2> QED
    BY <2>1, EmptyIsSeq
<1>4. CASE found # {}
  <2> DEFINE j == CHOOSE i \in found : TRUE
  <2>1. j \in found
    BY <1>4
  <2>2. find_prev_tx(h) = psbt.inputs[j].non_witness_utxo
    BY <1>1, <1>4
  <2> HIDE DEF j
  <2>3. IsInput(psbt.inputs[j])
    BY <1>2, <2>1, PsbtFacts
  <2> QED
    BY <2>2, <2>3 DEF IsInput
<1> QED
  BY <1>3, <1>4

\* What is declared of an input.
LEMMA DeclaredInput ==
    ASSUME Arguments, Read(dev, World), NEW i \in 1 .. Len(dev.ins)
    PROVE  /\ i \in 1 .. Len(psbt.inputs) /\ dev.ins[i].prev_index = psbt.inputs[i].vout
           /\ dev.ins[i].prev_index \in Nat
           /\ dev.ins[i].prev_hash = reverse(psbt.inputs[i].txid) /\ IsInput(psbt.inputs[i])
           /\ dev.ins[i].amount = amount_of(psbt.inputs[i])
           /\ psbt.inputs[i].bip32_derivation # <<>>
           /\ dev.ins[i].address_n = derivation(psbt.inputs[i]).path
           /\ dev.ins[i].script_type = script_type_for_path(derivation(psbt.inputs[i]).path)
           /\ dev.ins[i].sequence = psbt.inputs[i].sequence
<1>1. Len(dev.ins) \in Nat /\ Len(dev.ins) <= World.n /\ dev.ins[i] = World.ins[i] /\ World.ins[i] # Err
  BY SeqFacts DEF Read
<1>2. i \in 1 .. Len(psbt.inputs) /\ World.ins[i] = build_input_ack(i - 1)
  BY <1>1, PsbtFacts, WorldFacts
<1>3. IsInput(psbt.inputs[i]) /\ psbt.inputs[i].vout \in Nat
  BY <1>2, PsbtFacts DEF IsInput
<1>4. ~(i - 1 >= Len(psbt.inputs)) /\ (i - 1) + 1 = i
  BY <1>2, PsbtFacts
<1> DEFINE pin == psbt.inputs[i]
<1>5. build_input_ack(i - 1) = IF amount_of(pin) = NoAmount \/ pin.bip32_derivation = <<>> THEN Err
         ELSE [item |-> "input", address_n |-> path_to_vec(derivation(pin)),
               script_type |-> script_type_for_path(path_to_vec(derivation(pin))),
               prev_hash |-> reverse(pin.txid), prev_index |-> pin.vout,
               sequence |-> pin.sequence, amount |-> amount_of(pin)]
  BY <1>4 DEF build_input_ack
<1> HIDE DEF pin
<1>6. /\ dev.ins[i].prev_index = pin.vout /\ dev.ins[i].prev_hash = reverse(pin.txid)
      /\ dev.ins[i].amount = amount_of(pin) /\ pin.bip32_derivation # <<>>
      /\ dev.ins[i].address_n = derivation(pin).path
      /\ dev.ins[i].script_type = script_type_for_path(derivation(pin).path)
      /\ dev.ins[i].sequence = pin.sequence
  BY <1>1, <1>2, <1>5 DEF path_to_vec
<1> QED
  BY <1>2, <1>3, <1>6 DEF pin

LEMMA StepPrevMeta ==
    ASSUME Inv, DevGetsPrevMeta
    PROVE  Inv'
<1>1. env = "honest" /\ pc = "device" /\ ack.item = "prev meta"
  BY DEF DevGetsPrevMeta, Gets
<1>2. /\ Arguments /\ World.n \in Nat /\ World.m \in Nat /\ ack = item /\ rtype = req.type /\ IsSeq(dev.todo)
      /\ IsDev(dev) /\ Plan(Waiting(req, dev), dev, World) /\ (~dev.signing => Signed(sigs, 0, World))
      /\ Read(dev, World)
  BY <1>1, Answered
<1>3. req.type = "Txmeta" /\ req.hash # NoHash /\ ack = build_prev_meta_ack(req.hash)
  BY <1>1, <1>2, Items
<1>a. ack # Err
  <2>1. Err.item = "err"
    BY DEF Err
  <2>2. ack.item # "err"
    BY <1>1
  <2> QED
    BY <2>1, <2>2
<1> DEFINE a == ack.inputs_count
           b == ack.outputs_count
           i == dev.checking + 1
<1>4. a \in Nat /\ b \in Nat
  <2>2. a = Len(find_prev_tx(req.hash).inputs) /\ b = Len(find_prev_tx(req.hash).outputs)
    BY <1>3, <1>a DEF build_prev_meta_ack
  <2> QED
    BY <1>2, <2>2, PrevTxFacts, SeqFacts
<1>5. dev.ins[i].prev_index \in Nat
  <2>1. i \in 1 .. Len(dev.ins)
    BY <1>2, <1>3, PlanChecksNext
  <2> HIDE DEF i
  <2> QED
    BY <1>2, <2>1, DeclaredInput
<1>6. CASE Rejects
  BY <1>1, <1>6, RejectsKeeps
<1>7. CASE ~Rejects
  <2> DEFINE t == Questions("Txinput", a, req.hash) \o Questions("Txoutput", b, req.hash) \o dev.todo
             m == ack.meta
             p == [NoTx EXCEPT !.meta = m]
             c == <<a, b>>
  <2>1. ~(dev.ins[i].prev_index >= b) /\ AsksNext([dev EXCEPT !.prev = p, !.counts = c, !.checking = i, !.todo = t])
    BY <1>7 DEF DevGetsPrevMeta
  <2>2. b > 0
    BY <1>4, <1>5, <2>1
  <2>3. c[2] = b
    OBVIOUS
  <2> HIDE DEF t, m, c, i
  <2>4. PICK q : q = [NoTx EXCEPT !.meta = m]
    OBVIOUS
  <2>5. q = [meta |-> m, inputs |-> <<>>, outputs |-> <<>>]
    BY ONLY <2>4 DEF NoTx
  <2>6. IsTx(q) /\ q.outputs = <<>>
    BY ONLY <2>5 DEF IsTx
  <2>7. PICK d : d = [dev EXCEPT !.prev = q, !.counts = c, !.checking = i, !.todo = t]
    OBVIOUS
  <2>8. AsksNext(d)
    BY <2>1, <2>4, <2>7
  <2>9. IsDev(dev)
    BY <1>2
  <2>10. d = [todo |-> t, signing |-> dev.signing, coin |-> dev.coin, meta |-> dev.meta, ins |-> dev.ins,
              outs |-> dev.outs, prev |-> q, counts |-> c, checking |-> i]
    BY ONLY <2>7, <2>9 DEF IsDev
  <2>11. /\ IsDev(d) /\ d.todo = t /\ d.signing = dev.signing /\ d.meta = dev.meta /\ d.ins = dev.ins
         /\ d.outs = dev.outs /\ d.checking = i /\ d.prev = q /\ d.counts = c
    BY ONLY <2>10 DEF IsDev
  <2>12. Plan(d.todo, d, World) /\ ~dev.signing
    <3>1. ReadsMeta(req, dev, a, b, d)
      BY <1>4, <2>2, <2>3, <2>6, <2>11 DEF ReadsMeta, t, i
    <3> HIDE DEF a, b
    <3> QED
      BY ONLY <1>2, <1>3, <3>1, PlanMeta
  <2> QED
    BY <1>1, <1>2, <2>8, <2>11, <2>12, AsksNextKeeps
<1> QED
  BY <1>6, <1>7

LEMMA StepPrevInput ==
    ASSUME Inv, DevGetsPrevInput
    PROVE  Inv'
<1>1. env = "honest" /\ pc = "device" /\ ack.item = "prev input"
  BY DEF DevGetsPrevInput, Gets
<1>2. /\ World.n \in Nat /\ World.m \in Nat /\ ack = item /\ rtype = req.type /\ IsSeq(dev.todo)
      /\ IsDev(dev) /\ Plan(Waiting(req, dev), dev, World) /\ (~dev.signing => Signed(sigs, 0, World))
  BY <1>1, Answered
<1>3. req.type = "Txinput" /\ req.hash # NoHash
  BY <1>1, <1>2, Items
<1>4. IsTx(dev.prev)
  BY <1>2, <1>3, PlanChecks
<1> DEFINE x == Append(dev.prev.inputs,
                       [txid |-> reverse(ack.prev_hash), vout |-> ack.prev_index, script_sig |-> ack.script_sig,
                        sequence |-> ack.sequence])
<1>5. AsksNext([dev EXCEPT !.prev.inputs = x])
  BY DEF DevGetsPrevInput
<1> HIDE DEF x
<1>6. PICK d : d = [dev EXCEPT !.prev.inputs = x]
  OBVIOUS
<1>7. AsksNext(d)
  BY <1>5, <1>6
<1>8. IsDev(dev)
  BY <1>2
<1>9. PICK q : q = [dev.prev EXCEPT !.inputs = x]
  OBVIOUS
<1>10. q = [meta |-> dev.prev.meta, inputs |-> x, outputs |-> dev.prev.outputs]
  BY ONLY <1>4, <1>9 DEF IsTx
<1>11. IsTx(q) /\ q.outputs = dev.prev.outputs
  BY ONLY <1>10 DEF IsTx
<1>12. d = [todo |-> dev.todo, signing |-> dev.signing, coin |-> dev.coin, meta |-> dev.meta, ins |-> dev.ins,
            outs |-> dev.outs, prev |-> q, counts |-> dev.counts, checking |-> dev.checking]
  <2>1. d = [dev EXCEPT !.prev = q]
    BY ONLY <1>6, <1>9
  <2> QED
    BY ONLY <2>1, <1>8 DEF IsDev
<1>13. /\ IsDev(d) /\ d.todo = dev.todo /\ d.signing = dev.signing /\ d.meta = dev.meta /\ d.ins = dev.ins
       /\ d.outs = dev.outs /\ d.checking = dev.checking /\ d.prev = q /\ d.counts = dev.counts
  BY ONLY <1>12 DEF IsDev
<1>14. Plan(d.todo, d, World) /\ ~dev.signing
  <2>1. ReadsPrev(dev, d) /\ d.prev.outputs = dev.prev.outputs
    BY <1>11, <1>13 DEF ReadsPrev
  <2> QED
    BY ONLY <1>2, <1>3, <2>1, PlanPrevInput
<1> QED
  BY <1>1, <1>2, <1>7, <1>13, <1>14, AsksNextKeeps

\* A previous transaction that has the hash and the amount of the input is the
\* one it spends, and the amount is the one spent.
LEMMA AmountIsSpent ==
    ASSUME Arguments, Read(dev, World), dev.checking \in 1 .. Len(dev.ins), NEW q,
           reverse(compute_txid(q)) = dev.ins[dev.checking].prev_hash,
           q.outputs[dev.ins[dev.checking].prev_index + 1].amount = dev.ins[dev.checking].amount
    PROVE  dev.checking \in World.true
<1> DEFINE i == dev.checking
           pin == psbt.inputs[i]
<1>1. /\ i \in 1 .. Len(psbt.inputs) /\ dev.ins[i].prev_index = pin.vout
      /\ dev.ins[i].prev_hash = reverse(pin.txid) /\ IsInput(pin)
      /\ dev.ins[i].amount = amount_of(pin)
  BY DeclaredInput
<1> HIDE DEF pin
<1>2. pin.txid = compute_txid(pin.txid.tx)
  BY <1>1 DEF IsInput
<1>3. \A u : reverse(compute_txid(u)).tx = u
  BY DEF reverse, compute_txid
<1>4. q = pin.txid.tx
  <2>1. reverse(compute_txid(q)) = reverse(compute_txid(pin.txid.tx))
    BY <1>1, <1>2
  <2> QED
    BY <2>1, <1>3
<1>5. pin.txid.tx.outputs[pin.vout + 1].amount = amount_of(pin)
  BY <1>1, <1>4
<1>6. spent(psbt.inputs[i]).amount = amount_of(psbt.inputs[i])
  BY <1>5 DEF spent, pin
<1> QED
  BY <1>1, <1>6, WorldFacts

LEMMA StepPrevOutput ==
    ASSUME Inv, DevGetsPrevOutput
    PROVE  Inv'
<1>1. env = "honest" /\ pc = "device" /\ ack.item = "prev output"
  BY DEF DevGetsPrevOutput, Gets
<1>2. /\ Arguments /\ World.n \in Nat /\ World.m \in Nat /\ ack = item /\ rtype = req.type /\ IsSeq(dev.todo)
      /\ IsDev(dev) /\ Plan(Waiting(req, dev), dev, World) /\ (~dev.signing => Signed(sigs, 0, World))
      /\ Read(dev, World)
  BY <1>1, Answered
<1>3. req.type = "Txoutput" /\ req.hash # NoHash
  BY <1>1, <1>2, Items
<1>4. IsTx(dev.prev) /\ IsSeq(dev.prev.outputs) /\ dev.checking \in 1 .. Len(dev.ins)
  BY <1>2, <1>3, PlanChecks
<1> DEFINE x == Append(dev.prev.outputs, ack.output)
           full == [dev.prev EXCEPT !.outputs = x]
           in == dev.ins[dev.checking]
<1>5. IF Len(full.outputs) < dev.counts[2] THEN AsksNext([dev EXCEPT !.prev = full])
      ELSE IF reverse(compute_txid(full)) = in.prev_hash /\ full.outputs[in.prev_index + 1].amount = in.amount
           THEN AsksNext([dev EXCEPT !.prev = NoTx])
           ELSE Rejects
  BY DEF DevGetsPrevOutput
<1>6. IsSeq(x) /\ Len(x) = Len(dev.prev.outputs) + 1
  BY <1>4, AppendFacts
<1> HIDE DEF x
<1>7. PICK q : q = [dev.prev EXCEPT !.outputs = x]
  OBVIOUS
<1>8. IsTx(dev.prev)
  BY <1>4
<1>9. q = [meta |-> dev.prev.meta, inputs |-> dev.prev.inputs, outputs |-> x]
  BY ONLY <1>7, <1>8 DEF IsTx
<1>10. IsTx(q) /\ q.outputs = x
  BY ONLY <1>9 DEF IsTx
<1>11. IF Len(x) < dev.counts[2] THEN AsksNext([dev EXCEPT !.prev = q])
       ELSE IF reverse(compute_txid(q)) = in.prev_hash /\ q.outputs[in.prev_index + 1].amount = in.amount
            THEN AsksNext([dev EXCEPT !.prev = NoTx])
            ELSE Rejects
  BY <1>5, <1>7, <1>10
<1>12. IsDev(dev)
  BY <1>2
<1>13. ASSUME NEW p, IsTx(p), IsSeq(p.outputs), AsksNext([dev EXCEPT !.prev = p]),
              IF Len(dev.prev.outputs) + 1 < dev.counts[2] THEN Len(p.outputs) = Len(dev.prev.outputs) + 1
              ELSE dev.checking \in World.true
       PROVE  Inv'
  <2>1. PICK d : d = [dev EXCEPT !.prev = p]
    OBVIOUS
  <2>2. AsksNext(d)
    BY <1>13, <2>1
  <2>3. d = [todo |-> dev.todo, signing |-> dev.signing, coin |-> dev.coin, meta |-> dev.meta, ins |-> dev.ins,
             outs |-> dev.outs, prev |-> p, counts |-> dev.counts, checking |-> dev.checking]
    BY ONLY <2>1, <1>12 DEF IsDev
  <2>4. /\ IsDev(d) /\ d.todo = dev.todo /\ d.signing = dev.signing /\ d.meta = dev.meta /\ d.ins = dev.ins
        /\ d.outs = dev.outs /\ d.checking = dev.checking /\ d.prev = p /\ d.counts = dev.counts
    BY ONLY <2>3 DEF IsDev
  <2>5. Plan(d.todo, d, World) /\ ~dev.signing
    <3>1. ReadsPrev(dev, d)
      BY <1>13, <2>4 DEF ReadsPrev
    <3>2. /\ IsSeq(d.prev.outputs)
          /\ IF Len(dev.prev.outputs) + 1 < dev.counts[2] THEN Len(d.prev.outputs) = Len(dev.prev.outputs) + 1
             ELSE dev.checking \in World.true
      BY <1>13, <2>4
    <3> QED
      BY ONLY <1>2, <1>3, <3>1, <3>2, PlanPrevOutput
  <2> QED
    BY <1>1, <1>2, <2>2, <2>4, <2>5, AsksNextKeeps
<1>14. CASE Len(x) < dev.counts[2]
  BY <1>6, <1>10, <1>11, <1>13, <1>14
<1>15. CASE ~(Len(x) < dev.counts[2])
  <2>1. CASE reverse(compute_txid(q)) = in.prev_hash /\ q.outputs[in.prev_index + 1].amount = in.amount
    <3>1. dev.checking \in World.true
      BY <1>2, <1>4, <2>1, AmountIsSpent
    <3>2. IsTx(NoTx) /\ NoTx.outputs = <<>>
      BY DEF IsTx, NoTx
    <3>3. AsksNext([dev EXCEPT !.prev = NoTx])
      BY <1>11, <1>15, <2>1
    <3> QED
      BY <1>6, <1>13, <1>15, <3>1, <3>2, <3>3, EmptyIsSeq
  <2>2. CASE ~(reverse(compute_txid(q)) = in.prev_hash /\ q.outputs[in.prev_index + 1].amount = in.amount)
    <3>1. Rejects
      BY <1>11, <1>15, <2>2
    <3> QED
      BY <1>1, <3>1, RejectsKeeps
  <2> QED
    BY <2>1, <2>2
<1> QED
  BY <1>14, <1>15

\* Everything read, the device has the inputs and the outputs of the PSBT.
LEMMA AllRead ==
    ASSUME Arguments, Read(dev, World), Len(dev.ins) = World.n, Len(dev.outs) = World.m
    PROVE  dev.ins = World.ins /\ dev.outs = World.outs
<1>1. /\ IsSeq(dev.ins) /\ \A i \in 1 .. Len(dev.ins) : dev.ins[i] = World.ins[i]
      /\ IsSeq(dev.outs) /\ \A i \in 1 .. Len(dev.outs) : dev.outs[i] = World.outs[i]
  BY DEF Read
<1>2. /\ dev.ins = [i \in 1 .. Len(dev.ins) |-> dev.ins[i]]
      /\ dev.outs = [i \in 1 .. Len(dev.outs) |-> dev.outs[i]]
  BY <1>1, SeqFacts
<1>3. DOMAIN World.ins = 1 .. World.n /\ DOMAIN World.outs = 1 .. World.m
  BY WorldFacts DEF ins_of, outs_of
<1>4. /\ World.ins = [i \in 1 .. World.n |-> World.ins[i]]
      /\ World.outs = [i \in 1 .. World.m |-> World.outs[i]]
  BY WorldFacts DEF ins_of, outs_of
<1> QED
  BY <1>1, <1>2, <1>4

LEMMA StepSign ==
    ASSUME Inv, DevSigns
    PROVE  Inv'
<1>1. env = "honest" /\ pc = "device" /\ ack.item = "input" /\ dev.signing
  BY DEF DevSigns, Gets
<1>2. /\ Arguments /\ World.n \in Nat /\ World.m \in Nat /\ ack = item /\ rtype = req.type /\ IsSeq(dev.todo)
      /\ IsDev(dev) /\ Plan(Waiting(req, dev), dev, World) /\ Signed(sigs, req.index, World) /\ Read(dev, World)
  BY <1>1, Answered
<1>3. req.type = "Txinput" /\ req.hash = NoHash
  BY <1>1, <1>2, Items
<1>4. /\ Plan(dev.todo, dev, World) /\ req.index \in 0 .. World.n - 1 /\ World.n - Len(dev.todo) = req.index + 1
      /\ Len(dev.ins) = World.n /\ Len(dev.outs) = World.m
  BY ONLY <1>1, <1>2, <1>3, PlanSign
<1>5. dev.ins = World.ins /\ dev.outs = World.outs /\ dev.meta = World.meta
  BY <1>2, <1>4, AllRead, PlanTypes
<1> DEFINE tx == SignedTx(World.ins, World.outs, World.meta)
           s == Signature(tx, ack)
           i == req.index
<1>6. CASE Rejects
  BY <1>1, <1>6, RejectsKeeps
<1>7. CASE ~Rejects
  <2>1. ack = dev.ins[i + 1] /\ Asks(dev, i, s)
    <3>1. ack = dev.ins[i + 1]
      BY <1>7 DEF DevSigns
    <3>2. Asks(dev, i, Signature(SignedTx(dev.ins, dev.outs, dev.meta), ack))
      BY <3>1 DEF DevSigns, Signature, SignedTx
    <3> QED
      BY <1>5, <3>1, <3>2
  <2>2. s = Signature(tx, World.ins[i + 1]) /\ s # NoSig
    <3>1. s.der = TRUE
      BY DEF Signature
    <3>2. NoSig.der = FALSE
      BY DEF NoSig
    <3> QED
      BY <1>5, <2>1, <3>1, <3>2
  <2>3. Takes(sigs, i, s) = Put(sigs, i, s)
    BY <1>4, <2>2 DEF Takes, NoIndex
  <2> HIDE DEF tx, s
  <2>4. Signed(Put(sigs, i, s), i + 1, World)
    <3>1. DOMAIN sigs = 0 .. i - 1 /\ \A k \in 0 .. i - 1 : sigs[k] = Signature(tx, World.ins[k + 1])
      BY <1>2 DEF Signed, tx
    <3>2. DOMAIN Put(sigs, i, s) = 0 .. (i + 1) - 1
      BY <1>4, <3>1 DEF Put
    <3>3. ASSUME NEW k \in 0 .. (i + 1) - 1
          PROVE  Put(sigs, i, s)[k] = Signature(tx, World.ins[k + 1])
      <4>1. CASE k = i
        BY <2>2, <4>1 DEF Put
      <4>2. CASE k # i
        <5>1. k \in 0 .. i - 1
          BY <1>4, <4>2
        <5> QED
          BY <3>1, <4>2, <5>1 DEF Put
      <4> QED
        BY <4>1, <4>2
    <3> QED
      BY <3>2, <3>3 DEF Signed, tx
  <2>5. Signed(Takes(sigs, i, s), IF dev.signing THEN World.n - Len(dev.todo) ELSE 0, World)
    BY <1>1, <1>4, <2>3, <2>4
  <2>6. i \in Nat \cup {NoIndex}
    BY <1>4
  <2> HIDE DEF i
  <2> QED
    BY <1>1, <1>4, <2>1, <2>5, <2>6, AsksKeeps
<1> QED
  BY <1>6, <1>7

----------------------------------------------------------------------------
(* The steps of the host and of an arbitrary device.                       *)

LEMMA StepStart ==
    ASSUME Inv, Start
    PROVE  Inv'
<1>1. pc = "start" /\ UNCHANGED <<args, req, sigs, partial_sigs, dev, history>>
  BY DEF Start
<1>2. World' = World /\ coin_name' = coin_name
  BY <1>1, Frozen
<1>3. CASE pc' = "err" /\ ack' = ack
  <2>1. Arguments'
    BY <1>1, <1>3 DEF Inv, Arguments, args
  <2>2. Kept'
    BY <1>1, <1>3 DEF Inv, Kept, args
  <2>3. Firmware'
    BY <1>1, <1>2, <1>3 DEF Inv, Firmware, args
  <2> QED
    BY <2>1, <2>2, <2>3 DEF Inv
<1>4. CASE /\ pc' = "device"
           /\ ack' = [item |-> "SignTx", inputs_count |-> Len(psbt.inputs), outputs_count |-> Len(psbt.outputs),
                      coin_name |-> coin_name, meta |-> psbt.meta]
  <2>1. ack'.item = "SignTx"
    BY <1>4
  <2>2. Arguments'
    BY <1>1, <1>4, <2>1 DEF Inv, Arguments, args
  <2>3. Kept'
    <3>1. Keeps(<<>>, <<>>)
      <4>1. Sent(<<>>) = {}
        BY DEF Sent
      <4>2. Last(<<>>) = {}
        BY <4>1 DEF Last
      <4> QED
        BY <4>1, <4>2 DEF Keeps
    <3> QED
      BY <1>1, <1>4, <3>1 DEF Inv, Kept, args
  <2>4. Firmware'
    <3>1. psbt' = psbt /\ env' = env
      BY <1>1 DEF args
    <3> QED
      BY <1>1, <1>2, <1>4, <2>1, <3>1 DEF Inv, Firmware
  <2> QED
    BY <2>2, <2>3, <2>4 DEF Inv
<1> QED
  BY <1>3, <1>4 DEF Start

LEMMA StepNotTxRequest ==
    ASSUME Inv, NotTxRequest \/ TransportFails
    PROVE  Inv'
<1>1. pc' = "err" /\ UNCHANGED <<args, ack, req, sigs, partial_sigs, dev, history>>
  BY DEF NotTxRequest, TransportFails
<1>2. World' = World
  BY <1>1, Frozen
<1>3. Arguments'
  BY <1>1 DEF Inv, Arguments, args
<1>4. Kept'
  BY <1>1 DEF Inv, Kept, args
<1>5. Firmware'
  BY <1>1, <1>2 DEF Inv, Firmware, args
<1> QED
  BY <1>3, <1>4, <1>5 DEF Inv

\* What is collected has natural indices.
LEMMA CollectedIndices ==
    ASSUME Arguments
    PROVE  DOMAIN collected \subseteq Nat
<1>1. DOMAIN sigs \subseteq Nat /\ req.sig_index \in Nat \cup {NoIndex}
  BY DEF Arguments
<1> QED
  BY <1>1 DEF collected

LEMMA StepAnswer ==
    ASSUME Inv, Answer
    PROVE  Inv'
<1>1. /\ pc = "host" /\ rtype \notin {"other", "Txfinished"} /\ sigs' = collected
      /\ UNCHANGED <<args, req, partial_sigs, dev, history>>
  BY DEF Answer
<1>2. World' = World /\ item' = item /\ rtype' = rtype
  BY <1>1, Frozen, SameItem
<1>3. DOMAIN collected \subseteq Nat
  BY CollectedIndices DEF Inv
<1>4. rtype = req.type
  BY <1>1 DEF rtype
<1>5. CASE pc' = "err" /\ ack' = ack
  <2>1. Arguments'
    BY <1>1, <1>3, <1>5 DEF Inv, Arguments, args
  <2>2. Kept'
    BY <1>1, <1>5 DEF Inv, Kept, args
  <2>3. Firmware'
    BY <1>1, <1>2, <1>5 DEF Inv, Firmware, args
  <2> QED
    BY <2>1, <2>2, <2>3 DEF Inv
<1>6. CASE pc' = "device" /\ ack' = item
  <2>1. ack'.item \in Kinds /\ ack'.item # "SignTx"
    BY <1>6, Items
  <2>2. Arguments'
    BY <1>1, <1>3, <1>6, <2>1 DEF Inv, Arguments, args, Kinds
  <2>3. Kept'
    BY <1>1, <1>6 DEF Inv, Kept, args
  <2>4. Firmware'
    <3>1. env' = env
      BY <1>1 DEF args
    <3>2. env = "honest" => Asked(req, dev, World) /\ Signed(collected, Done(req, dev, World), World)
      BY <1>1, <1>4 DEF Inv, Firmware
    <3>3. Read(dev, World)
      BY DEF Inv, Firmware
    <3> QED
      BY <1>1, <1>2, <1>6, <2>1, <3>1, <3>2, <3>3 DEF Firmware
  <2> QED
    BY <2>2, <2>3, <2>4 DEF Inv
<1> QED
  BY <1>5, <1>6 DEF Answer

LEMMA StepFinish ==
    ASSUME Inv, Finish
    PROVE  Inv'
<1>1. /\ pc = "host" /\ rtype = "Txfinished" /\ sigs' = collected
      /\ UNCHANGED <<args, ack, req, dev, history>>
  BY DEF Finish
<1>2. /\ World' = World /\ \A f : merged(f)' = merged(f)
      /\ \A idx, s : mergeable(idx, s)' <=> mergeable(idx, s)
  BY <1>1, Frozen
<1>3. DOMAIN collected \subseteq Nat
  BY CollectedIndices DEF Inv
<1>4. psbt' = psbt /\ env' = env
  BY <1>1 DEF args
<1>5. CASE pc' = "err" /\ partial_sigs' = partial_sigs
  <2>1. Arguments'
    BY <1>1, <1>3, <1>5 DEF Inv, Arguments, args
  <2>2. Kept'
    BY <1>1, <1>5 DEF Inv, Kept, args
  <2>3. Firmware'
    BY <1>1, <1>2, <1>5 DEF Inv, Firmware, args
  <2> QED
    BY <2>1, <2>2, <2>3 DEF Inv
<1>6. CASE /\ \A idx \in DOMAIN collected : mergeable(idx, collected[idx])
           /\ pc' = "ok" /\ partial_sigs' = merged(collected)
  <2>1. \A p \in merged(collected) : p.input < Len(psbt.inputs) /\ p.sig.der
    BY <1>6 DEF merged, mergeable
  <2>2. Arguments'
    BY <1>1, <1>3, <1>4, <1>6, <2>1 DEF Inv, Arguments, args
  <2>3. Kept'
    <3>1. env = "any" => IsSeq(history) /\ Keeps(collected, history)
      BY <1>1 DEF Inv, Kept
    <3>2. merged(sigs)' = merged(sigs')
      BY <1>4 DEF merged
    <3>3. merged(sigs') = merged(collected)
      BY <1>1
    <3>4. \A idx \in DOMAIN sigs' : mergeable(idx, sigs[idx])'
      BY <1>1, <1>4, <1>6 DEF mergeable
    <3> QED
      BY <1>1, <1>4, <1>6, <3>1, <3>2, <3>3, <3>4 DEF Kept
  <2>4. Firmware'
    <3>1. Read(dev, World)
      BY DEF Inv, Firmware
    <3>2. ASSUME env = "honest"
          PROVE  dev.signing /\ Plan(<<>>, dev, World) /\ Signed(collected, World.n, World)
      <4>1. req.type # "other"
        BY <1>1 DEF rtype
      <4>2. Asked(req, dev, World) /\ Signed(collected, Done(req, dev, World), World)
        BY <1>1, <3>2, <4>1 DEF Inv, Firmware
      <4>3. req.type = "Txfinished"
        <5>1. CASE req.type # "Txfinished"
          <6>1. Plan(Waiting(req, dev), dev, World) /\ IsSeq(dev.todo)
            BY <4>2, <5>1 DEF Asked
          <6>2. World.n \in Nat /\ World.m \in Nat
            BY PsbtFacts, WorldFacts DEF Inv
          <6>3. req.type \in {"Txinput", "Txoutput", "Txmeta"}
            BY <6>1, <6>2, CurrentQuestion
          <6> QED
            BY <1>1, <5>1, <6>3 DEF rtype
        <5> QED
          BY <5>1
      <4> QED
        BY <4>2, <4>3 DEF Asked, Done
    <3>3. merged(sigs)' = merged(collected)
      BY <1>1, <1>4 DEF merged
    <3> QED
      BY <1>1, <1>2, <1>4, <1>6, <3>1, <3>2, <3>3 DEF Firmware
  <2> QED
    BY <2>2, <2>3, <2>4 DEF Inv
<1> QED
  BY <1>5, <1>6 DEF Finish

LEMMA StepAnyDevice ==
    ASSUME Inv, AnyDevice
    PROVE  Inv'
<1>1. /\ env = "any" /\ pc = "device" /\ pc' = "host" /\ req' \in AnyRequests
      /\ history' = Append(history, [index |-> req'.sig_index, sig |-> req'.sig])
      /\ UNCHANGED <<args, ack, sigs, partial_sigs, dev>>
  BY DEF AnyDevice
<1>2. req'.index \in Nat \cup {NoIndex} /\ req'.sig_index \in Nat \cup {NoIndex}
  BY <1>1, SignTxAssumption
<1>3. World' = World
  BY <1>1, Frozen
<1>4. Arguments'
  BY <1>1, <1>2 DEF Inv, Arguments, args
<1>5. Kept'
  <2>1. IsSeq(history) /\ Keeps(sigs, history)
    BY <1>1 DEF Inv, Kept
  <2>2. Keeps(Takes(sigs, req'.sig_index, req'.sig), history')
    BY <1>1, <1>2, <2>1, KeepsAppend
  <2>3. collected' = Takes(sigs, req'.sig_index, req'.sig)
    BY <1>1 DEF collected, Takes, Put
  <2>4. IsSeq(history')
    BY <1>1, <2>1, AppendFacts
  <2> QED
    BY <1>1, <2>2, <2>3, <2>4 DEF Kept
<1>6. Firmware'
  BY <1>1, <1>3 DEF Inv, Firmware, args
<1> QED
  BY <1>4, <1>5, <1>6 DEF Inv

----------------------------------------------------------------------------
(* The invariant holds.                                                    *)

LEMMA InitInv == Init => Inv
<1> SUFFICES ASSUME Init PROVE Inv
  OBVIOUS
<1>1. /\ pc = "start" /\ ack = Err /\ req = NoRequest /\ sigs = <<>> /\ partial_sigs = {}
      /\ dev = NoDev /\ history = <<>> /\ coin_type \in CoinTypes
      /\ env \in {"honest", "any"} /\ psbt \in HonestPsbts \cup AnyPsbts
  BY DEF Init
<1>2. req.index = NoIndex /\ req.sig_index = NoIndex /\ ack.item = "err"
  BY <1>1 DEF NoRequest, TxRequest, Err
<1>3. Arguments
  BY <1>1, <1>2 DEF Arguments
<1>4. Kept
  BY <1>1, EmptyIsSeq DEF Kept
<1>5. Read(dev, World)
  <2>1. dev.ins = <<>> /\ dev.outs = <<>> /\ dev.checking = 0
    BY <1>1 DEF NoDev
  <2>2. World.n \in Nat /\ World.m \in Nat
    BY <1>3, PsbtFacts, WorldFacts
  <2> QED
    BY <2>1, <2>2, EmptyIsSeq DEF Read
<1>6. Firmware
  BY <1>1, <1>5 DEF Firmware
<1> QED
  BY <1>3, <1>4, <1>6 DEF Inv

LEMMA StutterInv ==
    ASSUME Inv, UNCHANGED vars
    PROVE  Inv'
<1>1. UNCHANGED <<args, ack, req, sigs, partial_sigs, dev, history, pc>>
  BY DEF vars, args
<1>2. World' = World /\ coin_name' = coin_name /\ item' = item /\ rtype' = rtype
  BY <1>1, Frozen, SameItem
<1>3. collected' = collected
  BY <1>1 DEF collected
<1>4. merged(sigs)' = merged(sigs) /\ \A idx : mergeable(idx, sigs[idx])' <=> mergeable(idx, sigs[idx])
  BY <1>1 DEF merged, mergeable, args
<1>5. Arguments'
  BY <1>1 DEF Inv, Arguments, args
<1>6. Kept'
  BY <1>1, <1>3, <1>4 DEF Inv, Kept, args
<1>7. Firmware'
  BY <1>1, <1>2, <1>3, <1>4 DEF Inv, Firmware, args
<1> QED
  BY <1>5, <1>6, <1>7 DEF Inv

LEMMA NextInv == Inv /\ [Next]_vars => Inv'
<1> SUFFICES ASSUME Inv, [Next]_vars PROVE Inv'
  OBVIOUS
<1>1. CASE Host
  BY <1>1, StepStart, StepNotTxRequest, StepAnswer, StepFinish DEF Host
<1>2. CASE HonestDevice
  BY <1>2, StepSignTx, StepInput, StepOutput, StepPrevMeta, StepPrevInput, StepPrevOutput, StepSign DEF HonestDevice
<1>3. CASE AnyDevice
  BY <1>3, StepAnyDevice
<1>4. CASE TransportFails
  BY <1>4, StepNotTxRequest
<1>5. CASE UNCHANGED vars
  BY <1>5, StutterInv
<1> QED
  BY <1>1, <1>2, <1>3, <1>4, <1>5 DEF Next

\* The invariant of sign_psbt: whatever the PSBT and the device, its arguments
\* have their types, no signature is lost, and the firmware has read what the
\* host streams.
LEMMA Invariance == Spec => []Inv
  BY InitInv, NextInv, PTL DEF Spec

\* Whatever the PSBT and the device, the state of sign_psbt keeps its type; in
\* particular what is merged is a readable signature of an input of the PSBT.
THEOREM TypeCorrect == Spec => []TypeOK
<1>1. Inv => TypeOK
  <2> SUFFICES ASSUME Inv PROVE TypeOK
    OBVIOUS
  <2>1. dev.checking <= Len(dev.ins) /\ Len(dev.ins) <= Len(psbt.inputs)
    <3>1. Len(dev.ins) \in Nat /\ dev.checking \in 0 .. Len(dev.ins) /\ Len(dev.ins) <= World.n
      BY SeqFacts DEF Inv, Firmware, Read
    <3> QED
      BY <3>1, WorldFacts
  <2> QED
    BY <2>1 DEF Inv, Arguments, TypeOK
<1> QED
  BY <1>1, Invariance, PTL

\* Whatever the device sends and wherever the transport fails, an Ok of
\* sign_psbt carries exactly the last signature sent for each input, under that
\* input's first key, and none was dropped: for every PSBT, every set of
\* requests and any number of them.
THEOREM SignaturesAreKept == Spec => []OkKeepsEverySignature
<1>1. Inv => OkKeepsEverySignature
  <2> SUFFICES ASSUME Inv, env = "any", pc = "ok"
               PROVE  /\ \A k \in Last(history) : history[k].index < Len(psbt.inputs)
                      /\ partial_sigs = { [input |-> history[k].index,
                                            key |-> Head(psbt.inputs[history[k].index + 1].bip32_derivation),
                                            sig |-> history[k].sig] : k \in Last(history) }
    BY DEF OkKeepsEverySignature, Last, Sent
  <2>1. /\ Keeps(sigs, history) /\ partial_sigs = merged(sigs)
        /\ \A idx \in DOMAIN sigs : mergeable(idx, sigs[idx])
    BY DEF Inv, Kept
  <2>2. \A k \in Last(history) : history[k].index \in DOMAIN sigs /\ sigs[history[k].index] = history[k].sig
    BY <2>1 DEF Keeps, Last
  <2>3. \A i \in DOMAIN sigs : \E k \in Last(history) : history[k].index = i
    BY <2>1 DEF Keeps
  <2>4. \A k \in Last(history) : history[k].index < Len(psbt.inputs)
    BY <2>1, <2>2 DEF mergeable
  <2> DEFINE Item(i, s) == [input |-> i, key |-> Head(psbt.inputs[i + 1].bip32_derivation), sig |-> s]
  <2>5. merged(sigs) = {Item(i, sigs[i]) : i \in DOMAIN sigs}
    BY DEF merged, derivation
  <2> HIDE DEF Item
  <2>6. {Item(i, sigs[i]) : i \in DOMAIN sigs} = {Item(history[k].index, history[k].sig) : k \in Last(history)}
    BY <2>2, <2>3
  <2> QED
    BY <2>1, <2>4, <2>5, <2>6 DEF Item
<1> QED
  BY <1>1, Invariance, PTL

\* The outputs the firmware signs are the PSBT's.
LEMMA OutputsAreSigned ==
    ASSUME Arguments, OwnKeys, NEW i \in 1 .. Len(psbt.outputs), i \in World.good
    PROVE  World.outs[i] = [script |-> psbt.outputs[i].script, amount |-> psbt.outputs[i].amount]
<1> DEFINE txout == psbt.outputs[i]
           key == derivation(txout)
<1>1. World.outs[i] = SignedOutput(build_output_ack(i - 1)) /\ build_output_ack(i - 1) # Err
  BY WorldFacts
<1>2. Len(psbt.outputs) \in Nat /\ IsOutput(txout) /\ DOMAIN psbt.outputs = 1 .. Len(psbt.outputs)
  BY PsbtFacts, SeqFacts
<1>3. ~(i - 1 >= Len(psbt.outputs)) /\ (i - 1) + 1 = i
  BY <1>2
<1>4. build_output_ack(i - 1) =
         IF txout.bip32_derivation # <<>>
         THEN [item |-> "change", address_n |-> path_to_vec(key),
               script_type |-> output_script_type(path_to_vec(key)), amount |-> txout.amount]
         ELSE IF txout.script.type = "nonstandard" THEN Err
         ELSE [item |-> "output", address |-> [script |-> txout.script, network |-> network],
               amount |-> txout.amount]
  BY <1>3 DEF build_output_ack
<1>5. txout.bip32_derivation # <<>> => Supported(key, txout.script) /\ IsKey(key)
  <2>1. txout.bip32_derivation # <<>> => Supported(key, txout.script)
    BY <1>2 DEF OwnKeys
  <2>2. IsSeq(txout.bip32_derivation) /\ \A k \in DOMAIN txout.bip32_derivation : IsKey(txout.bip32_derivation[k])
    BY <1>2 DEF IsOutput
  <2>3. txout.bip32_derivation # <<>> => key = txout.bip32_derivation[1] /\ 1 \in DOMAIN txout.bip32_derivation
    BY <2>2, SeqFacts, TailFacts DEF derivation
  <2> QED
    BY <2>1, <2>2, <2>3
<1> HIDE DEF txout, key
<1>6. CASE txout.bip32_derivation = <<>>
  <2>1. build_output_ack(i - 1) = [item |-> "output", address |-> [script |-> txout.script, network |-> network],
                                   amount |-> txout.amount]
    BY <1>1, <1>4, <1>6
  <2>2. SignedOutput(build_output_ack(i - 1)) = [script |-> txout.script, amount |-> txout.amount]
    BY <2>1 DEF SignedOutput
  <2> QED
    BY <1>1, <2>2 DEF txout
<1>7. CASE txout.bip32_derivation # <<>>
  <2>1. SignedOutput(build_output_ack(i - 1)) =
            [script |-> Script(output_script_type(key.path), Own(key.path)), amount |-> txout.amount]
    BY <1>4, <1>7 DEF SignedOutput, path_to_vec
  <2>2. Own(key.path) = key
    BY <1>5, <1>7 DEF IsKey, Own, Supported
  <2>3. output_script_type(key.path) = txout.script.type
    BY <1>5, <1>7 DEF Supported, output_script_type, script_type_for_path
  <2>4. Script(output_script_type(key.path), Own(key.path)) = txout.script
    BY <1>2, <1>5, <1>7, <2>2, <2>3 DEF Supported, IsOutput, txout
  <2> QED
    BY <1>1, <2>1, <2>4 DEF txout
<1> QED
  BY <1>6, <1>7

\* So is the transaction.
LEMMA TransactionIsSigned ==
    ASSUME Arguments, OwnKeys, Read(dev, World), Len(dev.ins) = World.n, Len(dev.outs) = World.m
    PROVE  SignedTx(World.ins, World.outs, World.meta) = unsigned_tx
<1>1. dev.ins = World.ins /\ dev.outs = World.outs /\ World.meta = psbt.meta
  BY AllRead, WorldFacts
<1>2. /\ DOMAIN psbt.inputs = 1 .. World.n /\ DOMAIN psbt.outputs = 1 .. World.m
      /\ World.n = Len(psbt.inputs) /\ World.m = Len(psbt.outputs)
  BY PsbtFacts, SeqFacts, WorldFacts
<1>3. DOMAIN World.ins = 1 .. World.n
  BY WorldFacts DEF ins_of
<1>4. ASSUME NEW i \in 1 .. World.n
      PROVE  /\ reverse(World.ins[i].prev_hash) = psbt.inputs[i].txid /\ World.ins[i].prev_index = psbt.inputs[i].vout
             /\ World.ins[i].sequence = psbt.inputs[i].sequence
  <2>1. /\ dev.ins[i].prev_index = psbt.inputs[i].vout /\ dev.ins[i].prev_hash = reverse(psbt.inputs[i].txid)
        /\ IsInput(psbt.inputs[i]) /\ dev.ins[i].sequence = psbt.inputs[i].sequence
    BY DeclaredInput
  <2>2. psbt.inputs[i].txid = compute_txid(psbt.inputs[i].txid.tx)
    BY <2>1 DEF IsInput
  <2>3. \A u : reverse(reverse(compute_txid(u))) = compute_txid(u)
    <3>1. ASSUME NEW u
          PROVE  reverse(compute_txid(u)) = [tx |-> u, order |-> "display"]
      BY DEF reverse, compute_txid
    <3>2. ASSUME NEW u
          PROVE  reverse([tx |-> u, order |-> "display"]) = compute_txid(u)
      BY DEF reverse, compute_txid
    <3> QED
      BY <3>1, <3>2
  <2> QED
    BY <1>1, <2>1, <2>2, <2>3
<1>5. World.outs = [i \in DOMAIN psbt.outputs |-> [script |-> psbt.outputs[i].script, amount |-> psbt.outputs[i].amount]]
  <2>1. World.outs = [i \in 1 .. World.m |-> World.outs[i]]
    BY WorldFacts DEF outs_of
  <2>2. \A i \in 1 .. World.m : i \in World.good
    BY DEF Read
  <2>3. \A i \in 1 .. World.m :
          World.outs[i] = [script |-> psbt.outputs[i].script, amount |-> psbt.outputs[i].amount]
    BY <1>2, <2>2, OutputsAreSigned
  <2> QED
    BY <1>2, <2>1, <2>3
<1>6. [i \in DOMAIN World.ins |-> [txid |-> reverse(World.ins[i].prev_hash), vout |-> World.ins[i].prev_index,
                                   sequence |-> World.ins[i].sequence]]
      = [i \in DOMAIN psbt.inputs |-> [txid |-> psbt.inputs[i].txid, vout |-> psbt.inputs[i].vout,
                                       sequence |-> psbt.inputs[i].sequence]]
  BY <1>2, <1>3, <1>4
<1> QED
  BY <1>1, <1>5, <1>6 DEF SignedTx, unsigned_tx

\* Against the firmware, what sign_psbt returns finalises, for every PSBT of a
\* single-signature wallet however long: every input has a signature under the
\* key of the output it spends, over the PSBT's own transaction and the amount
\* really spent.
THEOREM SignedPsbtsVerify == Spec => []SignedPsbtVerifies
<1>1. Inv => SignedPsbtVerifies
  <2> SUFFICES ASSUME Inv, env = "honest", pc = "ok", OwnKeys
               PROVE  /\ \A i \in DOMAIN psbt.inputs :
                          \E p \in partial_sigs : p.input = i - 1 /\ p.key = spent(psbt.inputs[i]).script.owner
                      /\ \A p \in partial_sigs : Verifies(p)
    BY DEF SignedPsbtVerifies
  <2>1. /\ Arguments /\ partial_sigs = merged(sigs) /\ Plan(<<>>, dev, World) /\ Signed(sigs, World.n, World)
        /\ Read(dev, World)
    BY DEF Inv, Firmware
  <2>2. World.n = Len(psbt.inputs) /\ World.n \in Nat /\ World.m \in Nat /\ DOMAIN psbt.inputs = 1 .. World.n
    BY <2>1, PsbtFacts, SeqFacts, WorldFacts
  <2>3. Len(dev.ins) = World.n /\ Len(dev.outs) = World.m /\ \A i \in 1 .. World.n : i \in World.true
    BY <2>1, <2>2, AllChecked
  <2>4. SignedTx(World.ins, World.outs, World.meta) = unsigned_tx /\ dev.ins = World.ins
    BY <2>1, <2>3, TransactionIsSigned, AllRead
  <2> DEFINE key(i) == derivation(psbt.inputs[i])
             out(i) == spent(psbt.inputs[i])
  <2>5. ASSUME NEW i \in 1 .. World.n
        PROVE  /\ key(i) = out(i).script.owner /\ Own(World.ins[i].address_n) = key(i)
               /\ World.ins[i].script_type = spend_type(out(i).script) /\ World.ins[i].amount = out(i).amount
    <3>1. /\ World.ins[i].amount = amount_of(psbt.inputs[i]) /\ psbt.inputs[i].bip32_derivation # <<>>
          /\ World.ins[i].address_n = key(i).path /\ World.ins[i].script_type = script_type_for_path(key(i).path)
          /\ IsInput(psbt.inputs[i])
      BY <2>1, <2>3, <2>4, DeclaredInput
    <3>2. amount_of(psbt.inputs[i]) = out(i).amount
      BY <2>2, <2>3, WorldFacts
    <3>3. Supported(key(i), out(i).script)
      BY <2>2, <3>1 DEF OwnKeys
    <3>4. IsKey(key(i))
      <4>1. /\ IsSeq(psbt.inputs[i].bip32_derivation)
            /\ \A k \in DOMAIN psbt.inputs[i].bip32_derivation : IsKey(psbt.inputs[i].bip32_derivation[k])
        BY <3>1 DEF IsInput
      <4>2. key(i) = psbt.inputs[i].bip32_derivation[1] /\ 1 \in DOMAIN psbt.inputs[i].bip32_derivation
        BY <3>1, <4>1, SeqFacts, TailFacts DEF derivation
      <4> QED
        BY <4>1, <4>2
    <3> HIDE DEF key, out
    <3>5. Own(key(i).path) = key(i)
      BY <3>3, <3>4 DEF IsKey, Own, Supported
    <3>6. script_type_for_path(key(i).path) = spend_type(out(i).script)
      BY <3>3 DEF Supported, script_type_for_path, spend_type
    <3>7. key(i) = out(i).script.owner
      BY <3>3 DEF Supported
    <3> QED
      BY <3>1, <3>2, <3>5, <3>6, <3>7
  <2>6. \A i \in 0 .. World.n - 1 : sigs[i] = Signature(unsigned_tx, World.ins[i + 1])
    BY <2>1, <2>4 DEF Signed
  <2>7. DOMAIN sigs = 0 .. World.n - 1
    BY <2>1 DEF Signed
  <2>8. partial_sigs = {[input |-> idx, key |-> key(idx + 1), sig |-> sigs[idx]] : idx \in 0 .. World.n - 1}
    BY <2>1, <2>7 DEF merged
  <2> HIDE DEF key, out
  <2>9. ASSUME NEW i \in 1 .. World.n
        PROVE  \E p \in partial_sigs : p.input = i - 1 /\ p.key = out(i).script.owner
    <3>1. i - 1 \in 0 .. World.n - 1 /\ (i - 1) + 1 = i
      BY <2>2
    <3>2. [input |-> i - 1, key |-> key(i), sig |-> sigs[i - 1]] \in partial_sigs
      BY <2>8, <3>1
    <3> QED
      BY <2>5, <3>2
  <2>10. ASSUME NEW idx \in 0 .. World.n - 1
         PROVE  Verifies([input |-> idx, key |-> key(idx + 1), sig |-> sigs[idx]])
    <3>1. idx + 1 \in 1 .. World.n
      BY <2>2
    <3>2. sigs[idx].signs = [tx |-> unsigned_tx, key |-> out(idx + 1).script.owner,
                             script_type |-> spend_type(out(idx + 1).script), amount |-> out(idx + 1).amount]
      <4>1. sigs[idx].signs = [tx |-> unsigned_tx, key |-> Own(World.ins[idx + 1].address_n),
                               script_type |-> World.ins[idx + 1].script_type, amount |-> World.ins[idx + 1].amount]
        <5>1. \A tx, in : Signature(tx, in).signs = [tx |-> tx, key |-> Own(in.address_n),
                                                     script_type |-> in.script_type, amount |-> in.amount]
          BY DEF Signature
        <5>2. sigs[idx] = Signature(unsigned_tx, World.ins[idx + 1])
          BY <2>6
        <5> QED
          BY ONLY <5>1, <5>2
      <4>2. /\ Own(World.ins[idx + 1].address_n) = out(idx + 1).script.owner
            /\ World.ins[idx + 1].script_type = spend_type(out(idx + 1).script)
            /\ World.ins[idx + 1].amount = out(idx + 1).amount
        BY <2>5, <3>1
      <4> QED
        BY ONLY <4>1, <4>2
    <3> QED
      BY <3>2 DEF Verifies, out
  <2> QED
    BY <2>2, <2>8, <2>9, <2>10 DEF out
<1> QED
  BY <1>1, Invariance, PTL
=============================================================================
