--------------------------- MODULE PairingProofs ---------------------------
(***************************************************************************)
(* Proofs about Pairing, for any number of calls at a time, codes, numbers *)
(* typed and wipes of the device.                                          *)
(*                                                                         *)
(* First the handshake as an algorithm: what both sides compute, that they *)
(* arrive at the same keys, and that a response of another channel does    *)
(* not open.  Then the invariant, which follows one call through the       *)
(* handshake and the pairing, with one lemma per step.                     *)
(***************************************************************************)
EXTENDS Pairing, TLAPS

\* What PairingAssumption says of each constant.
LEMMA Bounds ==
    /\ \A n \in Typed : n \in Nat
    /\ \A code \in Codes : format_code(code) = code
    /\ MaxForgets \in Nat
  BY PairingAssumption, SMT DEF format_code

----------------------------------------------------------------------------
(* The handshake of call c with its HostHandshake h, as both sides compute *)
(* it: chaining keys, transcript hashes and ciphertexts, in order.         *)

Shown(c) == public_key(trezor_ephemeral(c))
Masked(c) == x25519(<<"mask", c>>, public_key(trezor_static))

H1(c, h) == transcript(device_properties, public_key(h.ephemeral), Shown(c))
K1(c, h) == hkdf(ck_0, x25519(h.ephemeral, Shown(c)))
EncStatic(c, h) == aead_encrypt(K1(c, h)[2], IV_ZERO, H1(c, h), Masked(c))
H2(c, h) == mix(H1(c, h), EncStatic(c, h))
K2(c, h) == hkdf(K1(c, h)[1], x25519(h.ephemeral, Masked(c)))
Tag(c, h) == aead_encrypt(K2(c, h)[2], IV_ZERO, H2(c, h), <<>>)
H3(c, h) == mix(H2(c, h), Tag(c, h))
EncHost(c, h) == aead_encrypt(K2(c, h)[2], IV_ONE, H3(c, h), public_key(h.static))
H4(c, h) == mix(H3(c, h), EncHost(c, h))
K3(c, h) == hkdf(K2(c, h)[1], x25519(h.static, Shown(c)))
EncCredential(c, h) == aead_encrypt(K3(c, h)[2], IV_ZERO, H4(c, h), h.credential)
HH(c, h) == mix(H4(c, h), EncCredential(c, h))
Keys(c, h) == hkdf(K3(c, h)[1], {})

Hello(c, h) == handle_init_request(device_properties, trezor_ephemeral(c), <<"mask", c>>,
                                   trezor_static, init_request_payload(h))
Completion(c, h) == read_init_response(h, device_properties, Hello(c, h).resp)

\* What was encrypted opens under the key, nonce and data it was made with.
LEMMA Opens == \A key, iv, ad, msg : LET ct == aead_encrypt(key, iv, ad, msg) IN
     ct.msg = msg /\ ct.key = key /\ ct.ad = ad /\ opens(key, iv, ad, ct)
  BY DEF aead_encrypt, opens

\* The device's answer to the init request, in the host's terms: the two compute
\* the same Diffie-Hellman values.
LEMMA HelloIs ==
    ASSUME NEW c, NEW h
    PROVE  /\ Hello(c, h).resp = [kind |-> "init response", ephemeral |-> Shown(c),
                                  enc_static |-> EncStatic(c, h), tag |-> Tag(c, h)]
           /\ Hello(c, h).h = H3(c, h)
           /\ Hello(c, h).ck = K2(c, h)[1] /\ Hello(c, h).k = K2(c, h)[2]
<1>1. init_request_payload(h).ephemeral = public_key(h.ephemeral)
  BY DEF init_request_payload
<1>2. \A s : x25519(s, public_key(h.ephemeral)) = x25519(h.ephemeral, public_key(s))
  BY DEF x25519, public_key
<1>3. \A s, t : x25519(s, x25519(t, public_key(h.ephemeral))) = x25519(h.ephemeral, x25519(s, public_key(t)))
  BY DEF x25519, public_key
<1> QED
  BY <1>1, <1>2, <1>3 DEF handle_init_request, Hello, Shown, Masked, H1, K1, EncStatic, H2, K2, Tag, H3

LEMMA HelloKeys ==
    \A c, h : Hello(c, h).h = H3(c, h) /\ Hello(c, h).ck = K2(c, h)[1] /\ Hello(c, h).k = K2(c, h)[2]
<1> TAKE c, h
<1> QED
  BY HelloIs

\* It is told from other replies by its size.
LEMMA HelloKind == \A c, h : Hello(c, h).resp.kind = "init response"
  BY DEF Hello, handle_init_request

\* The host accepts its own channel's answer (read_init_response).
LEMMA CompletionIs ==
    ASSUME NEW c, NEW h
    PROVE  Completion(c, h) = [kind |-> "completion request", enc_host_static |-> EncHost(c, h),
                               enc_payload |-> EncCredential(c, h), h |-> HH(c, h), ck |-> K3(c, h)[1]]
<1> DEFINE resp == [kind |-> "init response", ephemeral |-> Shown(c),
                    enc_static |-> EncStatic(c, h), tag |-> Tag(c, h)]
<1>1. Completion(c, h) = read_init_response(h, device_properties, resp)
  BY HelloIs DEF Completion
<1>2. EncStatic(c, h).msg = Masked(c) /\ opens(K1(c, h)[2], IV_ZERO, H1(c, h), EncStatic(c, h))
  BY Opens DEF EncStatic
<1>3. opens(K2(c, h)[2], IV_ZERO, H2(c, h), Tag(c, h))
  BY Opens DEF Tag
<1> QED
  BY <1>1, <1>2, <1>3, ZenonT(60) DEF read_init_response, H1, K1, H2, K2, H3, EncHost, H4, K3, EncCredential, HH

\* The transcript hash and chaining key it goes on with.
LEMMA CompletionCarries ==
    \A c, h : Completion(c, h).h = HH(c, h) /\ Completion(c, h).ck = K3(c, h)[1]
<1> TAKE c, h
<1> QED
  BY CompletionIs

\* The device accepts the completion request and arrives at the same keys.
LEMMA Accepted ==
    ASSUME NEW c, NEW h, NEW d, d.h = H3(c, h), d.ck = K2(c, h)[1], d.k = K2(c, h)[2]
    PROVE  handle_completion_request(d, trezor_ephemeral(c), Completion(c, h)) =
             [kind |-> "accepted", host_static |-> public_key(h.static), credential |-> h.credential,
              keys |-> Keys(c, h), h |-> HH(c, h)]
<1> DEFINE rq == [kind |-> "completion request", enc_host_static |-> EncHost(c, h),
                               enc_payload |-> EncCredential(c, h), h |-> HH(c, h), ck |-> K3(c, h)[1]]
<1>1. Completion(c, h) = rq
  BY CompletionIs
<1>2. EncHost(c, h).msg = public_key(h.static) /\ opens(K2(c, h)[2], IV_ONE, H3(c, h), EncHost(c, h))
  BY Opens DEF EncHost
<1>3. EncCredential(c, h).msg = h.credential /\ opens(K3(c, h)[2], IV_ZERO, H4(c, h), EncCredential(c, h))
  BY Opens DEF EncCredential
<1>4. x25519(trezor_ephemeral(c), public_key(h.static)) = x25519(h.static, Shown(c))
  BY DEF x25519, public_key, Shown
<1>5. rq.enc_host_static = EncHost(c, h) /\ rq.enc_payload = EncCredential(c, h)
  OBVIOUS
<1> HIDE DEF rq
<1>6. mix(d.h, EncHost(c, h)) = H4(c, h) /\ hkdf(d.ck, x25519(trezor_ephemeral(c), EncHost(c, h).msg)) = K3(c, h)
  BY <1>2, <1>4 DEF H4, K3
<1> QED
  BY <1>1, <1>2, <1>3, <1>5, <1>6 DEF handle_completion_request, Keys, HH

\* Equal hashes were made of equal parts.
LEMMA MixInjective == \A a, b, c, d : mix(a, b) = mix(c, d) => a = c /\ b = d
  BY DEF mix

\* So were equal keys, and equal chaining keys.
LEMMA HkdfInjective ==
    \A ck, x, cl, y : \A i \in {1, 2} : hkdf(ck, x)[i] = hkdf(cl, y)[i] => ck.chain = cl.chain /\ x = y
  BY DEF hkdf
LEMMA HkdfChain ==
    \A ck, x, cl, y : hkdf(ck, x)[1].chain = hkdf(cl, y)[1].chain => ck.chain = cl.chain /\ x = y
  BY DEF hkdf

\* The HostHandshake h is that of call c.
Named(c, h) == h.ephemeral = <<"host ephemeral", c>>

\* A call that accepts an init response has read its own channel's: the
\* transcript holds its ephemeral key.
LEMMA OwnHello ==
    ASSUME NEW c, NEW h, Named(c, h), NEW d, NEW g, Named(d, g),
           read_init_response(h, device_properties, Hello(d, g).resp) # Failed
    PROVE  c = d
<1> DEFINE resp == [kind |-> "init response", ephemeral |-> Shown(d),
                    enc_static |-> EncStatic(d, g), tag |-> Tag(d, g)]
<1>1. Hello(d, g).resp = resp
  BY HelloIs
<1>a. resp.ephemeral = Shown(d) /\ resp.enc_static = EncStatic(d, g) /\ resp.kind = "init response"
  OBVIOUS
<1>b. read_init_response(h, device_properties, resp) # Failed
  BY <1>1
<1> HIDE DEF resp
<1>2. EncStatic(d, g).ad = transcript(device_properties, public_key(h.ephemeral), Shown(d))
  BY <1>a, <1>b DEF read_init_response, opens
<1>3. EncStatic(d, g).ad = H1(d, g)
  BY Opens DEF EncStatic
<1>4. public_key(h.ephemeral) = public_key(g.ephemeral)
  BY <1>2, <1>3, MixInjective DEF H1, transcript
<1>5. <<"host ephemeral", c>> = <<"host ephemeral", d>>
  BY <1>4 DEF public_key, Named
<1> QED
  BY <1>5

\* Two channels share no key: the first secret holds both ephemeral keys.
LEMMA OwnKeys ==
    ASSUME NEW c, NEW h, Named(c, h), NEW d, NEW g, Named(d, g), NEW i \in {1, 2},
           Keys(c, h)[i] = Keys(d, g)[i]
    PROVE  c = d
<1>1. K3(c, h)[1].chain = K3(d, g)[1].chain
  BY HkdfInjective DEF Keys
<1>2. K2(c, h)[1].chain = K2(d, g)[1].chain
  BY <1>1, HkdfChain DEF K3
<1>3. K1(c, h)[1].chain = K1(d, g)[1].chain
  BY <1>2, HkdfChain DEF K2
<1>4. x25519(h.ephemeral, Shown(c)) = x25519(g.ephemeral, Shown(d))
  BY <1>3, HkdfChain DEF K1
<1>5. {trezor_ephemeral(c), h.ephemeral} = {trezor_ephemeral(d), g.ephemeral}
  BY <1>4 DEF x25519, Shown, public_key
<1>6. <<"host ephemeral", c>> \in {<<"trezor ephemeral", d>>, <<"host ephemeral", d>>}
  BY <1>5 DEF trezor_ephemeral, Named
<1>7. <<"host ephemeral", c>> # <<"trezor ephemeral", d>>
  OBVIOUS
<1>8. <<"host ephemeral", c>> = <<"host ephemeral", d>>
  BY <1>6, <1>7
<1> QED
  BY <1>8
----------------------------------------------------------------------------
(* The inductive invariant.  It speaks of one call at a time, through the  *)
(* values the variables have for it: p its pc, kd its kind, h its hs, ks   *)
(* its keys, pr its pairing, cr its credential, rq and rp its request and  *)
(* reply, d the device's side, and e the epoch.                            *)

Phases == {"idle", "ok", "err", "init", "completion", "approved", "commitment", "cpace", "code",
           "secret", "credential", "end", "features"}
Kinds == {"probe", "establish", "open"}

\* The fields of the records that actions update.
IsPairing(pr) == pr = [commitment |-> pr.commitment, trezor_public |-> pr.trezor_public,
                       code |-> pr.code, secret |-> pr.secret]
IsChannel(d) == d = [state |-> d.state, h |-> d.h, ck |-> d.ck, k |-> d.k, host |-> d.host,
                     keys |-> d.keys, epoch |-> d.epoch, code |-> d.code, accepted |-> d.accepted]

IssuedTo(h, e) == [for |-> public_key(h.static), epoch |-> e]
StateByte(d) == IF d.accepted THEN 1 ELSE 0

\* The device has answered the init request of call c.
Greeted(c, h, d) ==
    /\ d.state \in {"handshake", "gone"}
    /\ d.h = H3(c, h) /\ d.ck = K2(c, h)[1] /\ d.k = K2(c, h)[2]

\* It has accepted the completion request: both sides have the same keys, and
\* a credential it accepted is one of its own.
Agreed(c, h, d) ==
    /\ d.state \notin {"new", "handshake"}
    /\ d.keys = Keys(c, h) /\ d.h = HH(c, h) /\ d.host = public_key(h.static)
    /\ d.accepted \in BOOLEAN
    /\ d.accepted => h.credential = IssuedTo(h, d.epoch)

CompletionResponse(c, h, d) ==
    [kind |-> "completion response",
     enc_state |-> aead_encrypt(Keys(c, h)[2], IV_ZERO, <<>>, StateByte(d))]
SessionKeys(c, h, d) ==
    [kind |-> "keys", key_request |-> Keys(c, h)[1], key_response |-> Keys(c, h)[2],
     trezor_state |-> StateByte(d), handshake_hash |-> HH(c, h)]

\* How far the handshake is.
Handshaking(c, p, h, ks, rq, rp, d) ==
    /\ p = "idle" => d.state = "new"
    /\ p # "idle" => Named(c, h)
    /\ p \in {"idle", "init", "completion"} => ks = Failed
    /\ p = "init" => /\ rq = init_request_payload(h)
                     /\ \/ rp = NoReply /\ d.state = "new"
                        \/ rp = Hello(c, h).resp /\ Greeted(c, h, d)
    /\ p = "completion" => /\ rq = Completion(c, h)
                           /\ \/ rp = NoReply /\ Greeted(c, h, d)
                              \/ rp = CompletionResponse(c, h, d) /\ Agreed(c, h, d)
    /\ p \notin {"idle", "init", "completion", "err"} => ks # Failed
    /\ ks # Failed => ks = SessionKeys(c, h, d) /\ Agreed(c, h, d)
    /\ p \in Done => rp = NoReply

TrezorPublic(c, h, code) == x25519(<<"trezor cpace", c>>, generator(format_code(code), HH(c, h)))

\* The message that is awaited belongs to what was sent.
Asking(p, h, rq, rp) ==
    /\ p = "approved" => rq.type = T_PAIRING_REQUEST
    /\ p = "commitment" => rq.type = T_SELECT_METHOD
    /\ p \in {"cpace", "code"} => rq.type = T_CODE_ENTRY_CHALLENGE
    /\ p = "code" => rp # NoReply
    /\ p = "secret" => rq.type = T_CODE_ENTRY_CPACE_HOST_TAG
    /\ p = "credential" => rq.type = T_CREDENTIAL_REQUEST /\ rq.host = public_key(h.static)
    /\ p = "end" => rq.type = T_END_REQUEST
    /\ p = "features" => rq.type = MGMT_GET_FEATURES

\* A reply, and the device that sent it.
Answered(c, p, h, pr, rp, d) ==
    p \notin Done \cup {"init", "completion"} =>
        \/ rp = NoReply
        \/ /\ rp.kind = "reply"
           /\ rp.type = T_CODE_ENTRY_COMMITMENT => rp.commitment = committed(c)
           /\ rp.type = T_CODE_ENTRY_CPACE_TREZOR => rp.public = TrezorPublic(c, h, d.code)
           /\ rp.type = T_CODE_ENTRY_SECRET => format_code(pr.code) = d.code
           /\ rp.type = T_CREDENTIAL_RESPONSE => rp.credential = IssuedTo(h, d.epoch)

\* What the call has learned of the pairing.
Learned(c, p, h, pr, rq, d) ==
    /\ pr.code \in Nat /\ format_code(d.code) = d.code
    /\ p \in {"cpace", "code", "secret", "credential"} => pr.commitment = committed(c)
    /\ p \in {"code", "secret"} => pr.trezor_public = TrezorPublic(c, h, d.code)
    /\ p = "secret" =>
        /\ rq.host_public = x25519(<<"host cpace", c>>, generator(format_code(pr.code), HH(c, h)))
        /\ rq.tag = x25519(<<"host cpace", c>>, TrezorPublic(c, h, d.code))
    /\ p = "credential" => format_code(pr.code) = d.code /\ pr.secret = committed(c)

\* Why establish_paired_session may go on, and with which credential.
Entitled(c, p, kd, h, pr, cr, d) ==
    /\ p \in {"approved", "commitment", "cpace", "code", "secret", "credential", "features"}
            => kd = "establish"
    /\ p = "end" => kd # "probe"
    /\ p \in {"init", "completion"} => cr = h.credential
    /\ p \in {"end", "features", "ok"} /\ kd = "establish" =>
        /\ cr = IssuedTo(h, d.epoch)
        /\ \/ d.accepted
           \/ format_code(pr.code) = d.code /\ pr.commitment = committed(c) /\ pr.secret = committed(c)

\* A channel that can still be used was opened since the last wipe.
Current(d, e) ==
    d.state \in {"unpaired", "approved", "committed", "challenged", "verified", "paired", "transport"}
        => d.epoch = e

CallInv(c, p, kd, h, ks, pr, cr, rq, rp, d, e) ==
    /\ IsPairing(pr) /\ IsChannel(d)
    /\ Handshaking(c, p, h, ks, rq, rp, d)
    /\ Asking(p, h, rq, rp)
    /\ Answered(c, p, h, pr, rp, d)
    /\ Learned(c, p, h, pr, rq, d)
    /\ Entitled(c, p, kd, h, pr, cr, d)
    /\ Current(d, e)

Shapes ==
    /\ env \in {"good", "any"} /\ epoch \in 1 .. MaxForgets + 1
    /\ pc \in [Calls -> Phases] /\ kind \in [Calls -> Kinds]
    /\ hs = [c \in Calls |-> hs[c]] /\ keys = [c \in Calls |-> keys[c]]
    /\ pairing = [c \in Calls |-> pairing[c]] /\ credential = [c \in Calls |-> credential[c]]
    /\ req = [c \in Calls |-> req[c]] /\ rep = [c \in Calls |-> rep[c]]
    /\ dev = [c \in Calls |-> dev[c]]

CallOK(c) == CallInv(c, pc[c], kind[c], hs[c], keys[c], pairing[c], credential[c], req[c], rep[c],
                     dev[c], epoch)

Inv == Shapes /\ \A c \in Calls : CallOK(c)

\* A step of call c leaves the others alone.
StepOf(c) ==
    /\ Shapes' /\ epoch' = epoch
    /\ \A b \in Calls \ {c} :
        /\ pc'[b] = pc[b] /\ kind'[b] = kind[b] /\ hs'[b] = hs[b] /\ keys'[b] = keys[b]
        /\ pairing'[b] = pairing[b] /\ credential'[b] = credential[b]
        /\ req'[b] = req[b] /\ rep'[b] = rep[b] /\ dev'[b] = dev[b]

\* The invariant of the others is not disturbed.
LEMMA OneCall ==
    ASSUME Inv, NEW c \in Calls, StepOf(c), CallOK(c)'
    PROVE  Inv'
<1> SUFFICES ASSUME NEW b \in Calls, b # c PROVE CallOK(b)'
  BY DEF Inv, StepOf
<1> QED
  BY DEF Inv, CallOK, StepOf

\* The parts of the invariant for call c.
LEMMA Parts ==
    ASSUME Inv, NEW c \in Calls
    PROVE  /\ Shapes /\ IsPairing(pairing[c]) /\ IsChannel(dev[c])
           /\ Handshaking(c, pc[c], hs[c], keys[c], req[c], rep[c], dev[c])
           /\ Asking(pc[c], hs[c], req[c], rep[c])
           /\ Answered(c, pc[c], hs[c], pairing[c], rep[c], dev[c])
           /\ Learned(c, pc[c], hs[c], pairing[c], req[c], dev[c])
           /\ Entitled(c, pc[c], kind[c], hs[c], pairing[c], credential[c], dev[c])
           /\ Current(dev[c], epoch)
  BY DEF Inv, CallOK, CallInv

\* A call that returns an error.
LEMMA ErrKeeps ==
    ASSUME Inv, NEW c \in Calls, pc[c] # "idle", Ends(c, "err"),
           UNCHANGED <<env, kind, hs, keys, pairing, credential, dev, epoch, stored>>
    PROVE  Inv'
<1>1. StepOf(c)
  BY Parts DEF StepOf, Shapes, Ends, Phases
<1>2. pc'[c] = "err" /\ rep'[c] = NoReply
  BY Parts DEF Shapes, Ends
<1>3. CallOK(c)'
  BY <1>2, Parts DEF CallOK, CallInv, Handshaking, Asking, Answered, Learned, Entitled, Done
<1> QED
  BY <1>1, <1>3, OneCall

\* The messages of the pairing, one by one.
LEMMA GetsApprovalKeeps ==
    ASSUME Inv, NEW c \in Calls, GetsApproval(c)
    PROVE  Inv'
<1>1. StepOf(c)
  BY Parts DEF GetsApproval, StepOf, Shapes, Sends, Phases
<1>2. /\ pc[c] = "approved" /\ pc'[c] = "commitment" /\ rep'[c] = NoReply
      /\ req'[c].type = T_SELECT_METHOD
  BY Parts DEF GetsApproval, Gets, Sends, Shapes
<1>3. UNCHANGED <<kind, hs, keys, pairing, credential, dev, epoch>>
  BY DEF GetsApproval
<1>4. CallOK(c)'
  BY <1>2, <1>3, Parts DEF CallOK, CallInv, Handshaking, Asking, Answered, Learned, Entitled, Done
<1> QED
  BY <1>1, <1>4, OneCall

\* A call begins.
LEMMA CallKeeps ==
    ASSUME Inv, NEW c \in Calls, NEW k \in Kinds, NEW cred, Call(c, k, cred)
    PROVE  Inv'
<1> DEFINE h == HostHandshake(<<"host ephemeral", c>>, host_static(c)', cred)
<1>1. StepOf(c)
  BY Parts DEF Call, StepOf, Shapes, Sends, Phases
<1>2. /\ pc[c] = "idle" /\ pc'[c] = "init" /\ rep'[c] = NoReply /\ kind'[c] = k
      /\ credential'[c] = cred /\ hs'[c] = h /\ req'[c] = init_request_payload(h)
  BY Parts DEF Call, Sends, Shapes
<1>3. UNCHANGED <<keys, pairing, dev, epoch>>
  BY DEF Call
<1>4. Named(c, h) /\ h.credential = cred
  BY DEF Named, HostHandshake
<1> HIDE DEF h
<1>5. CallOK(c)'
  BY <1>2, <1>3, <1>4, Parts
     DEF CallOK, CallInv, Handshaking, Asking, Answered, Learned, Entitled, Done
<1> QED
  BY <1>1, <1>5, OneCall

\* The init response that is accepted is the call's own.
LEMMA GetsInitResponseKeeps ==
    ASSUME Inv, NEW c \in Calls, GetsInitResponse(c)
    PROVE  Inv'
<1>1. PICK resp \in Responses(c) :
        \/ HandshakeFails(c)
        \/ /\ read_init_response(hs[c], device_properties, resp) # Failed
           /\ Sends(c, read_init_response(hs[c], device_properties, resp), "completion")
           /\ UNCHANGED <<env, kind, hs, keys, pairing, credential, dev, epoch, stored>>
  BY DEF GetsInitResponse
<1>2. pc[c] = "init"
  BY DEF GetsInitResponse
<1>3. CASE HandshakeFails(c)
  BY <1>2, <1>3, ErrKeeps DEF HandshakeFails
<1>4. CASE /\ read_init_response(hs[c], device_properties, resp) # Failed
           /\ Sends(c, read_init_response(hs[c], device_properties, resp), "completion")
           /\ UNCHANGED <<env, kind, hs, keys, pairing, credential, dev, epoch, stored>>
  <2>1. PICK b \in Calls : resp = rep[b] /\ resp # NoReply /\ (b = c \/ pc[b] \notin Done)
    BY DEF Responses, Running
  <2>2. resp.kind = "init response"
    BY <1>4 DEF read_init_response
  <2>3. pc[b] = "init" /\ resp = Hello(b, hs[b]).resp
    <3>1. CompletionResponse(b, hs[b], dev[b]).kind # "init response"
      BY DEF CompletionResponse
    <3>2. /\ Handshaking(b, pc[b], hs[b], keys[b], req[b], rep[b], dev[b])
          /\ Answered(b, pc[b], hs[b], pairing[b], rep[b], dev[b])
      BY Parts
    <3>3. pc[b] \notin Done
      BY <2>1, <1>2 DEF Done
    <3> QED
      BY <2>1, <2>2, <3>1, <3>2, <3>3 DEF Handshaking, Answered
  <2>4. Named(b, hs[b]) /\ Named(c, hs[c])
    BY <2>3, <1>2, Parts DEF Handshaking
  <2>5. b = c
    BY <2>3, <2>4, <1>4, OwnHello
  <2>6. req'[c] = Completion(c, hs[c]) /\ pc'[c] = "completion" /\ rep'[c] = NoReply
    BY <2>3, <2>5, <1>4, Parts DEF Sends, Shapes, Completion
  <2>7. Greeted(c, hs[c], dev[c])
    BY <2>1, <2>5, <1>2, Parts DEF Handshaking
  <2>8. StepOf(c)
    BY <1>4, Parts DEF StepOf, Shapes, Sends, Phases
  <2>9. CallOK(c)'
    BY <1>2, <1>4, <2>6, <2>7, Parts
       DEF CallOK, CallInv, Handshaking, Asking, Answered, Learned, Entitled, Done
  <2> QED
    BY <2>8, <2>9, OneCall
<1> QED
  BY <1>1, <1>3, <1>4

\* So is the completion response: the keys are those of the call's own channel.
LEMMA CompletionReadIs ==
    ASSUME Inv, NEW c \in Calls, pc[c] = "completion", NEW resp \in Responses(c),
           read_completion_response(req[c].h, req[c].ck, resp) # Failed
    PROVE  /\ read_completion_response(req[c].h, req[c].ck, resp) = SessionKeys(c, hs[c], dev[c])
           /\ Agreed(c, hs[c], dev[c])
<1>1. PICK b \in Calls : resp = rep[b] /\ resp # NoReply /\ (b = c \/ pc[b] \notin Done)
  BY DEF Responses, Running
<1>2. req[c].h = HH(c, hs[c]) /\ req[c].ck = K3(c, hs[c])[1]
  <2>1. req[c] = Completion(c, hs[c])
    BY Parts DEF Handshaking
  <2> QED
    BY <2>1, CompletionCarries
<1>3. hkdf(req[c].ck, {}) = Keys(c, hs[c])
  BY <1>2 DEF Keys
<1>4. resp.kind = "completion response" /\ opens(Keys(c, hs[c])[2], IV_ZERO, <<>>, resp.enc_state)
  BY <1>3 DEF read_completion_response
<1>5. pc[b] = "completion" /\ resp = CompletionResponse(b, hs[b], dev[b]) /\ Agreed(b, hs[b], dev[b])
  <2>1. Hello(b, hs[b]).resp.kind = "init response"
    BY HelloKind
  <2>2. /\ Handshaking(b, pc[b], hs[b], keys[b], req[b], rep[b], dev[b])
        /\ Answered(b, pc[b], hs[b], pairing[b], rep[b], dev[b])
    BY Parts
  <2>3. pc[b] \notin Done
    BY <1>1 DEF Done
  <2> QED
    BY <2>1, <2>2, <2>3, <1>1, <1>4 DEF Handshaking, Answered
<1>6. resp.enc_state = aead_encrypt(Keys(b, hs[b])[2], IV_ZERO, <<>>, StateByte(dev[b]))
  BY <1>5 DEF CompletionResponse
<1>7. resp.enc_state.key = Keys(b, hs[b])[2] /\ resp.enc_state.msg = StateByte(dev[b])
  BY <1>6, Opens
<1>8. Named(b, hs[b]) /\ Named(c, hs[c])
  BY <1>5, Parts DEF Handshaking
<1>9. Keys(c, hs[c])[2] = Keys(b, hs[b])[2]
  BY <1>4, <1>7 DEF opens
<1>10. b = c
  BY <1>8, <1>9, OwnKeys
<1> QED
  BY <1>2, <1>3, <1>4, <1>5, <1>7, <1>10 DEF read_completion_response, SessionKeys

\* The keys are installed, and the call goes on as its kind demands.
LEMMA GetsCompletionResponseKeeps ==
    ASSUME Inv, NEW c \in Calls, GetsCompletionResponse(c)
    PROVE  Inv'
<1>1. PICK resp \in Responses(c) :
        LET result == read_completion_response(req[c].h, req[c].ck, resp) IN
        \/ HandshakeFails(c)
        \/ /\ result # Failed /\ keys' = [keys EXCEPT ![c] = result]
           /\ UNCHANGED <<env, kind, hs, pairing, credential, dev, epoch, stored>>
           /\ \/ kind[c] = "probe" /\ Ends(c, "ok")
              \/ kind[c] = "open" /\ Ends(c, "err")
              \/ kind[c] = "open" /\ Sends(c, [type |-> T_END_REQUEST], "end")
              \/ /\ kind[c] = "establish" /\ already_paired(c, result.trezor_state)
                 /\ Sends(c, [type |-> T_END_REQUEST], "end")
              \/ kind[c] = "establish" /\ Sends(c, [type |-> T_PAIRING_REQUEST], "approved")
  BY Parts DEF GetsCompletionResponse, Shapes, Kinds
<1> DEFINE ks == SessionKeys(c, hs[c], dev[c])
<1>2. pc[c] = "completion"
  BY DEF GetsCompletionResponse
<1>3. CASE HandshakeFails(c)
  BY <1>2, <1>3, ErrKeeps DEF HandshakeFails
<1>4. CASE ~HandshakeFails(c)
  <2>1. /\ read_completion_response(req[c].h, req[c].ck, resp) = ks
        /\ Agreed(c, hs[c], dev[c])
    BY <1>1, <1>2, <1>4, CompletionReadIs
  <2>2. ks # Failed /\ ks.trezor_state = StateByte(dev[c])
    BY DEF SessionKeys, Failed
  <2> HIDE DEF ks
  <2>3. /\ keys' = [keys EXCEPT ![c] = ks]
        /\ UNCHANGED <<env, kind, hs, pairing, credential, dev, epoch, stored>>
        /\ \/ kind[c] = "probe" /\ Ends(c, "ok")
           \/ kind[c] = "open" /\ Ends(c, "err")
           \/ kind[c] = "open" /\ Sends(c, [type |-> T_END_REQUEST], "end")
           \/ kind[c] = "establish" /\ dev[c].accepted /\ Sends(c, [type |-> T_END_REQUEST], "end")
           \/ kind[c] = "establish" /\ Sends(c, [type |-> T_PAIRING_REQUEST], "approved")
    BY <1>1, <1>4, <2>1, <2>2 DEF already_paired, StateByte
  <2>4. keys'[c] = ks /\ rep'[c] = NoReply /\ pc'[c] \in Phases
    BY <2>3, Parts DEF Shapes, Ends, Sends, Phases
  <2>5. \/ pc'[c] = "ok" /\ kind[c] = "probe"
        \/ pc'[c] = "err"
        \/ /\ pc'[c] = "end" /\ req'[c].type = T_END_REQUEST
           /\ kind[c] = "open" \/ (kind[c] = "establish" /\ dev[c].accepted)
        \/ pc'[c] = "approved" /\ kind[c] = "establish" /\ req'[c].type = T_PAIRING_REQUEST
    BY <2>3, Parts DEF Shapes, Ends, Sends
  <2>6. dev[c].accepted => hs[c].credential = IssuedTo(hs[c], dev[c].epoch)
    BY <2>1 DEF Agreed
  <2>7. StepOf(c)
    BY <2>3, <2>4, Parts DEF StepOf, Shapes, Sends, Ends
  <2>8. CallOK(c)'
    <3>1. Handshaking(c, pc'[c], hs[c], ks, req'[c], rep'[c], dev[c])
      BY <1>2, <2>1, <2>4, <2>5, <2>2, Parts DEF Handshaking, Done, ks
    <3> QED
      BY <3>1, <1>2, <2>3, <2>4, <2>5, <2>6, Parts
         DEF CallOK, CallInv, Asking, Answered, Learned, Entitled, Done
  <2> QED
    BY <2>7, <2>8, OneCall
<1> QED
  BY <1>3, <1>4

\* The commitment is this channel's.
LEMMA GetsCommitmentKeeps ==
    ASSUME Inv, NEW c \in Calls, GetsCommitment(c)
    PROVE  Inv'
<1>1. StepOf(c)
  BY Parts DEF GetsCommitment, StepOf, Shapes, Sends, Phases
<1>2. /\ pc[c] = "commitment" /\ pc'[c] = "cpace" /\ rep'[c] = NoReply
      /\ req'[c].type = T_CODE_ENTRY_CHALLENGE
      /\ rep[c].kind = "reply" /\ rep[c].type = T_CODE_ENTRY_COMMITMENT
      /\ pairing'[c] = [pairing[c] EXCEPT !.commitment = rep[c].commitment]
  BY Parts DEF GetsCommitment, Gets, Sends, Shapes
<1>3. UNCHANGED <<kind, hs, keys, credential, dev, epoch>>
  BY DEF GetsCommitment
<1>4. rep[c].commitment = committed(c)
  BY <1>2, Parts DEF Answered, NoReply, Done
<1>5. /\ IsPairing(pairing'[c]) /\ pairing'[c].commitment = committed(c)
      /\ pairing'[c].code = pairing[c].code
  BY <1>2, <1>4, Parts DEF IsPairing
<1>6. CallOK(c)'
  BY <1>2, <1>3, <1>5, Parts
     DEF CallOK, CallInv, Handshaking, Asking, Answered, Learned, Entitled, Done
<1> QED
  BY <1>1, <1>6, OneCall

\* The CPace key is the one the device derived from the code it shows.
LEMMA GetsCpaceTrezorKeeps ==
    ASSUME Inv, NEW c \in Calls, GetsCpaceTrezor(c)
    PROVE  Inv'
<1>1. StepOf(c)
  BY Parts DEF GetsCpaceTrezor, StepOf, Shapes, Phases
<1>2. /\ pc[c] = "cpace" /\ pc'[c] = "code"
      /\ rep[c].kind = "reply" /\ rep[c].type = T_CODE_ENTRY_CPACE_TREZOR
      /\ pairing'[c] = [pairing[c] EXCEPT !.trezor_public = rep[c].public]
  BY Parts DEF GetsCpaceTrezor, Gets, Shapes
<1>3. UNCHANGED <<kind, hs, keys, credential, req, rep, dev, epoch>>
  BY DEF GetsCpaceTrezor
<1>4. rep[c].public = TrezorPublic(c, hs[c], dev[c].code) /\ rep[c] # NoReply
  BY <1>2, Parts DEF Answered, NoReply, Done
<1>5. /\ IsPairing(pairing'[c]) /\ pairing'[c].trezor_public = TrezorPublic(c, hs[c], dev[c].code)
      /\ pairing'[c].code = pairing[c].code /\ pairing'[c].commitment = pairing[c].commitment
  BY <1>2, <1>4, Parts DEF IsPairing
<1>6. CallOK(c)'
  BY <1>2, <1>3, <1>4, <1>5, Parts, ZenonT(30)
     DEF CallOK, CallInv, Handshaking, Asking, Answered, Learned, Entitled, Done
<1> QED
  BY <1>1, <1>6, OneCall

\* The host's CPace key and tag are made of the code that was typed.
LEMMA CodeEnteredKeeps ==
    ASSUME Inv, NEW c \in Calls, NEW n \in Typed, CodeEntered(c, n)
    PROVE  Inv'
<1> DEFINE host == host_cpace(format_code(n), keys[c].handshake_hash, pairing[c].trezor_public,
                              <<"host cpace", c>>)
<1>1. StepOf(c)
  BY Parts DEF CodeEntered, StepOf, Shapes, Sends, Phases
<1>2. /\ pc[c] = "code" /\ pc'[c] = "secret" /\ rep'[c] = NoReply
      /\ req'[c].type = T_CODE_ENTRY_CPACE_HOST_TAG
      /\ req'[c].host_public = host.host_public /\ req'[c].tag = host.tag
      /\ pairing'[c] = [pairing[c] EXCEPT !.code = n]
  BY Parts DEF CodeEntered, Sends, Shapes
<1>3. UNCHANGED <<kind, hs, keys, credential, dev, epoch>>
  BY DEF CodeEntered
<1>4. keys[c].handshake_hash = HH(c, hs[c])
  <2>1. keys[c] = SessionKeys(c, hs[c], dev[c])
    BY <1>2, Parts DEF Handshaking
  <2> QED
    BY <2>1 DEF SessionKeys
<1>5. pairing[c].trezor_public = TrezorPublic(c, hs[c], dev[c].code)
  BY <1>2, Parts DEF Learned
<1>6. /\ host.host_public = x25519(<<"host cpace", c>>, generator(format_code(n), HH(c, hs[c])))
      /\ host.tag = x25519(<<"host cpace", c>>, TrezorPublic(c, hs[c], dev[c].code))
  BY <1>4, <1>5 DEF host_cpace
<1> HIDE DEF host
<1>7. /\ IsPairing(pairing'[c]) /\ pairing'[c].code = n
      /\ pairing'[c].trezor_public = pairing[c].trezor_public
      /\ pairing'[c].commitment = pairing[c].commitment
  BY <1>2, Parts DEF IsPairing
<1>8. n \in Nat
  BY Bounds
<1>9. CallOK(c)'
  BY <1>2, <1>3, <1>5, <1>6, <1>7, <1>8, Parts
     DEF CallOK, CallInv, Handshaking, Asking, Answered, Learned, Entitled, Done
<1> QED
  BY <1>1, <1>9, OneCall

\* The secret came after the tags agreed, and is the committed one.
LEMMA GetsSecretKeeps ==
    ASSUME Inv, NEW c \in Calls, GetsSecret(c)
    PROVE  Inv'
<1>1. StepOf(c)
  BY Parts DEF GetsSecret, StepOf, Shapes, Sends, Ends, Phases
<1>2. /\ pc[c] = "secret" /\ rep'[c] = NoReply
      /\ rep[c].kind = "reply" /\ rep[c].type = T_CODE_ENTRY_SECRET
      /\ pairing'[c] = [pairing[c] EXCEPT !.secret = rep[c].secret]
      /\ \/ pc'[c] = "err"
         \/ /\ pc'[c] = "credential" /\ rep[c].secret = pairing[c].commitment
            /\ req'[c].type = T_CREDENTIAL_REQUEST /\ req'[c].host = public_key(hs[c].static)
  BY Parts DEF GetsSecret, Gets, Sends, Ends, Shapes
<1>3. UNCHANGED <<kind, hs, keys, credential, dev, epoch>>
  BY DEF GetsSecret
<1>4. format_code(pairing[c].code) = dev[c].code /\ pairing[c].commitment = committed(c)
  <2>1. rep[c] # NoReply
    BY <1>2 DEF NoReply
  <2> QED
    BY <2>1, <1>2, Parts DEF Answered, Learned, Done
<1>5. /\ IsPairing(pairing'[c]) /\ pairing'[c].secret = rep[c].secret
      /\ pairing'[c].code = pairing[c].code /\ pairing'[c].commitment = pairing[c].commitment
  BY <1>2, Parts DEF IsPairing
<1>6. CallOK(c)'
  BY <1>2, <1>3, <1>4, <1>5, Parts
     DEF CallOK, CallInv, Handshaking, Asking, Answered, Learned, Entitled, Done
<1> QED
  BY <1>1, <1>6, OneCall

\* The credential was issued to this host key on this channel.
LEMMA GetsCredentialKeeps ==
    ASSUME Inv, NEW c \in Calls, GetsCredential(c)
    PROVE  Inv'
<1>1. StepOf(c)
  BY Parts DEF GetsCredential, StepOf, Shapes, Sends, Phases
<1>2. /\ pc[c] = "credential" /\ pc'[c] = "end" /\ rep'[c] = NoReply
      /\ req'[c].type = T_END_REQUEST /\ credential'[c] = rep[c].credential
      /\ rep[c].kind = "reply" /\ rep[c].type = T_CREDENTIAL_RESPONSE
  BY Parts DEF GetsCredential, Gets, Sends, Shapes
<1>3. UNCHANGED <<kind, hs, keys, pairing, dev, epoch>>
  BY DEF GetsCredential
<1>4. rep[c].credential = IssuedTo(hs[c], dev[c].epoch)
  <2>1. rep[c] # NoReply
    BY <1>2 DEF NoReply
  <2> QED
    BY <2>1, <1>2, Parts DEF Answered, Done
<1>5. CallOK(c)'
  BY <1>2, <1>3, <1>4, Parts
     DEF CallOK, CallInv, Handshaking, Asking, Answered, Learned, Entitled, Done
<1> QED
  BY <1>1, <1>5, OneCall

\* The pairing phase ends with the credential that entitles to it.
LEMMA GetsEndResponseKeeps ==
    ASSUME Inv, NEW c \in Calls, GetsEndResponse(c)
    PROVE  Inv'
<1>1. StepOf(c)
  BY Parts DEF GetsEndResponse, StepOf, Shapes, Sends, Ends, Phases
<1>2. /\ pc[c] = "end" /\ rep'[c] = NoReply
      /\ \/ pc'[c] = "ok" /\ kind[c] = "open"
         \/ pc'[c] = "features" /\ kind[c] # "open" /\ req'[c].type = MGMT_GET_FEATURES
  BY Parts DEF GetsEndResponse, Gets, Sends, Ends, Shapes
<1>3. UNCHANGED <<kind, hs, keys, pairing, credential, dev, epoch>>
  BY DEF GetsEndResponse
<1>4. kind[c] \in {"establish", "open"}
  BY <1>2, Parts DEF Entitled, Shapes, Kinds
<1>5. CallOK(c)'
  BY <1>2, <1>3, <1>4, Parts
     DEF CallOK, CallInv, Handshaking, Asking, Answered, Learned, Entitled, Done
<1> QED
  BY <1>1, <1>5, OneCall

\* The call returns it.
LEMMA GetsFeaturesKeeps ==
    ASSUME Inv, NEW c \in Calls, GetsFeatures(c)
    PROVE  Inv'
<1>1. StepOf(c)
  BY Parts DEF GetsFeatures, StepOf, Shapes, Ends, Phases
<1>2. pc[c] = "features" /\ rep'[c] = NoReply /\ pc'[c] = "ok"
  BY Parts DEF GetsFeatures, Gets, Ends, Shapes
<1>3. UNCHANGED <<kind, hs, keys, pairing, credential, dev, epoch>>
  BY DEF GetsFeatures
<1>4. CallOK(c)'
  BY <1>2, <1>3, Parts
     DEF CallOK, CallInv, Handshaking, Asking, Answered, Learned, Entitled, Done
<1> QED
  BY <1>1, <1>4, OneCall

\* Every step of a call.
LEMMA HostStepKeeps ==
    ASSUME Inv, NEW c \in Calls, HostStep(c) \/ Fails(c)
    PROVE  Inv'
<1>1. CASE UnexpectedReply(c) \/ CodeRefused(c) \/ Fails(c)
  BY <1>1, ErrKeeps DEF UnexpectedReply, CodeRefused, Fails, Done
<1> QED
  BY <1>1, GetsInitResponseKeeps, GetsCompletionResponseKeeps, GetsApprovalKeeps,
     GetsCommitmentKeeps, GetsCpaceTrezorKeeps, CodeEnteredKeeps, GetsSecretKeeps,
     GetsCredentialKeeps, GetsEndResponseKeeps, GetsFeaturesKeeps DEF HostStep

\* Fields of a channel that was updated.
LEMMA Moved ==
    ASSUME NEW d, IsChannel(d), NEW s, NEW n, n = [d EXCEPT !.state = s]
    PROVE  /\ IsChannel(n) /\ n.state = s /\ n.h = d.h /\ n.ck = d.ck /\ n.k = d.k /\ n.host = d.host
           /\ n.keys = d.keys /\ n.epoch = d.epoch /\ n.code = d.code /\ n.accepted = d.accepted
  BY DEF IsChannel

\* A step of the device on channel c.
LEMMA DevKeeps ==
    ASSUME Inv, NEW c \in Calls, NEW r, NEW d, Replies(c, r, d), IsChannel(d),
           Handshaking(c, pc[c], hs[c], keys[c], req[c], r, d),
           Asking(pc[c], hs[c], req[c], r),
           Answered(c, pc[c], hs[c], pairing[c], r, d),
           Learned(c, pc[c], hs[c], pairing[c], req[c], d),
           Entitled(c, pc[c], kind[c], hs[c], pairing[c], credential[c], d),
           Current(d, epoch)
    PROVE  Inv'
<1>1. /\ UNCHANGED <<env, pc, kind, hs, keys, pairing, credential, req, epoch>>
      /\ rep' = [rep EXCEPT ![c] = r] /\ dev' = [dev EXCEPT ![c] = d]
  BY DEF Replies
<1>2. rep'[c] = r /\ dev'[c] = d
  BY <1>1, Parts DEF Shapes
<1>3. StepOf(c)
  BY <1>1, Parts DEF StepOf, Shapes
<1>4. CallOK(c)'
  BY <1>1, <1>2, Parts DEF CallOK, CallInv
<1> QED
  BY <1>3, <1>4, OneCall

\* The device answers the init request.
LEMMA DevInitKeeps ==
    ASSUME Inv, NEW c \in Calls, DevInit(c)
    PROVE  Inv'
<1>1. pc[c] = "init" /\ req[c] = init_request_payload(hs[c])
  BY Parts DEF DevInit, Handshaking
<1>2. PICK n : n = [dev[c] EXCEPT !.state = "handshake", !.h = Hello(c, hs[c]).h,
                                  !.ck = Hello(c, hs[c]).ck, !.k = Hello(c, hs[c]).k]
  OBVIOUS
<1>3. Replies(c, Hello(c, hs[c]).resp, n)
  BY <1>1, <1>2 DEF DevInit, Hello
<1>4. /\ IsChannel(n) /\ n.state = "handshake" /\ n.h = Hello(c, hs[c]).h
      /\ n.ck = Hello(c, hs[c]).ck /\ n.k = Hello(c, hs[c]).k /\ n.code = dev[c].code
  <2>1. IsChannel(dev[c])
    BY Parts
  <2> QED
    BY <1>2, <2>1 DEF IsChannel
<1>5. Greeted(c, hs[c], n)
  <2>1. Hello(c, hs[c]).h = H3(c, hs[c]) /\ Hello(c, hs[c]).ck = K2(c, hs[c])[1]
        /\ Hello(c, hs[c]).k = K2(c, hs[c])[2]
    BY ONLY HelloKeys
  <2> QED
    BY <1>4, <2>1 DEF Greeted
<1>6. Handshaking(c, pc[c], hs[c], keys[c], req[c], Hello(c, hs[c]).resp, n)
  BY <1>1, <1>5, Parts DEF Handshaking, Done
<1>7. /\ Asking(pc[c], hs[c], req[c], Hello(c, hs[c]).resp)
      /\ Answered(c, pc[c], hs[c], pairing[c], Hello(c, hs[c]).resp, n)
      /\ Entitled(c, pc[c], kind[c], hs[c], pairing[c], credential[c], n)
  BY <1>1, Parts DEF Asking, Answered, Entitled
<1>8. Learned(c, pc[c], hs[c], pairing[c], req[c], n) /\ Current(n, epoch)
  BY <1>1, <1>4, Parts DEF Learned, Current
<1> QED
  BY <1>3, <1>4, <1>6, <1>7, <1>8, DevKeeps

\* The device accepts the completion request, and the credential if it is good.
LEMMA DevCompletesKeeps ==
    ASSUME Inv, NEW c \in Calls, DevCompletes(c)
    PROVE  Inv'
<1>1. pc[c] = "completion" /\ req[c] = Completion(c, hs[c]) /\ Greeted(c, hs[c], dev[c])
  <2>1. dev[c].state = "handshake" /\ pc[c] = "completion"
    BY DEF DevCompletes
  <2> QED
    BY <2>1, Parts DEF Handshaking, Agreed
<1>2. PICK q : q = handle_completion_request(dev[c], trezor_ephemeral(c), req[c])
  OBVIOUS
<1>3. /\ q.host_static = public_key(hs[c].static) /\ q.credential = hs[c].credential
      /\ q.keys = Keys(c, hs[c]) /\ q.h = HH(c, hs[c])
  <2>1. q = [kind |-> "accepted", host_static |-> public_key(hs[c].static),
             credential |-> hs[c].credential, keys |-> Keys(c, hs[c]), h |-> HH(c, hs[c])]
    BY <1>1, <1>2, Accepted DEF Greeted
  <2> QED
    BY <2>1
<1>4. PICK good \in BOOLEAN : good = (hs[c].credential = IssuedTo(hs[c], epoch))
  OBVIOUS
<1>5. PICK n : n = [dev[c] EXCEPT !.state = IF good THEN "paired" ELSE "unpaired", !.h = q.h,
                                  !.host = q.host_static, !.keys = q.keys, !.epoch = epoch,
                                  !.accepted = good]
  OBVIOUS
<1>6. /\ IsChannel(n) /\ n.state \in {"paired", "unpaired"} /\ n.h = q.h /\ n.host = q.host_static
      /\ n.keys = q.keys /\ n.epoch = epoch /\ n.accepted = good /\ n.code = dev[c].code
  <2>1. IsChannel(dev[c])
    BY Parts
  <2>2. PICK s \in {"paired", "unpaired"} : s = IF good THEN "paired" ELSE "unpaired"
    OBVIOUS
  <2> QED
    BY <1>5, <2>1, <2>2 DEF IsChannel
<1>7. Replies(c, CompletionResponse(c, hs[c], n), n)
  <2>1. good <=> q.credential = [for |-> q.host_static, epoch |-> epoch]
    BY <1>3, <1>4 DEF IssuedTo
  <2>2. CompletionResponse(c, hs[c], n) =
          [kind |-> "completion response",
           enc_state |-> aead_encrypt(q.keys[2], IV_ZERO, <<>>, IF good THEN 1 ELSE 0)]
    BY <1>3, <1>6 DEF CompletionResponse, StateByte
  <2> QED
    BY <1>2, <1>5, <2>1, <2>2 DEF DevCompletes
<1>8. Agreed(c, hs[c], n)
  BY <1>3, <1>4, <1>6 DEF Agreed
<1>9. Handshaking(c, pc[c], hs[c], keys[c], req[c], CompletionResponse(c, hs[c], n), n)
  BY <1>1, <1>8, Parts DEF Handshaking, Done
<1>10. /\ Asking(pc[c], hs[c], req[c], CompletionResponse(c, hs[c], n))
       /\ Answered(c, pc[c], hs[c], pairing[c], CompletionResponse(c, hs[c], n), n)
       /\ Entitled(c, pc[c], kind[c], hs[c], pairing[c], credential[c], n)
  BY <1>1, Parts DEF Asking, Answered, Entitled
<1>11. Learned(c, pc[c], hs[c], pairing[c], req[c], n) /\ Current(n, epoch)
  BY <1>1, <1>6, Parts DEF Learned, Current
<1> QED
  BY <1>6, <1>7, <1>9, <1>10, <1>11, DevKeeps

\* A reply to a pairing message: the keys stay, and the code is not shown anew.
LEMMA RepliesKeeps ==
    ASSUME Inv, NEW c \in Calls, pc[c] \notin Done \cup {"init", "completion"},
           NEW r, NEW n, Replies(c, r, n), IsChannel(n), n.state \notin {"new", "handshake"},
           n.h = dev[c].h, n.keys = dev[c].keys, n.host = dev[c].host, n.epoch = dev[c].epoch,
           n.accepted = dev[c].accepted, format_code(n.code) = n.code,
           n.code = dev[c].code \/ pc[c] = "cpace", Current(n, epoch),
           r # NoReply, Answered(c, pc[c], hs[c], pairing[c], r, n)
    PROVE  Inv'
<1>1. keys[c] = SessionKeys(c, hs[c], n) /\ Agreed(c, hs[c], n)
  <2>1. keys[c] = SessionKeys(c, hs[c], dev[c]) /\ Agreed(c, hs[c], dev[c])
    BY Parts DEF Handshaking, Done
  <2> QED
    BY <2>1 DEF SessionKeys, Agreed, StateByte
<1>2. Handshaking(c, pc[c], hs[c], keys[c], req[c], r, n)
  BY <1>1, Parts DEF Handshaking, Done
<1>3. Asking(pc[c], hs[c], req[c], r)
  BY Parts DEF Asking
<1>4. Learned(c, pc[c], hs[c], pairing[c], req[c], n)
  BY Parts DEF Learned
<1>5. Entitled(c, pc[c], kind[c], hs[c], pairing[c], credential[c], n)
  BY Parts DEF Entitled, Done
<1> QED
  BY <1>2, <1>3, <1>4, <1>5, DevKeeps

\* The same when the device only moves to state s.
LEMMA MovesKeeps ==
    ASSUME Inv, NEW c \in Calls, pc[c] \notin Done \cup {"init", "completion"},
           NEW r, NEW s, Replies(c, r, [dev[c] EXCEPT !.state = s]), s \notin {"new", "handshake"},
           s = "failed" \/ dev[c].epoch = epoch, r # NoReply,
           \A n : (n.code = dev[c].code /\ n.epoch = dev[c].epoch)
                    => Answered(c, pc[c], hs[c], pairing[c], r, n)
    PROVE  Inv'
<1>1. PICK n : n = [dev[c] EXCEPT !.state = s]
  OBVIOUS
<1>2. IsChannel(dev[c]) /\ format_code(dev[c].code) = dev[c].code
  BY Parts DEF Learned
<1>3. /\ IsChannel(n) /\ n.state = s /\ n.h = dev[c].h /\ n.host = dev[c].host
      /\ n.keys = dev[c].keys /\ n.epoch = dev[c].epoch /\ n.code = dev[c].code
      /\ n.accepted = dev[c].accepted
  BY <1>1, <1>2, Moved
<1>4. Current(n, epoch)
  BY <1>3 DEF Current
<1>5. Replies(c, r, n)
  BY <1>1
<1> QED
  BY <1>2, <1>3, <1>4, <1>5, RepliesKeeps

\* Replies that carry nothing the call checks later, or the commitment.
LEMMA PlainRepliesKeep ==
    ASSUME Inv, NEW c \in Calls,
           \/ DevApproves(c) \/ DevCommits(c) \/ DevEnds(c) \/ DevFeatures(c) \/ DevRefuses(c)
    PROVE  Inv'
<1>1. /\ pc[c] \notin Done \cup {"init", "completion"}
      /\ \/ DevRefuses(c)
         \/ dev[c].state \in {"unpaired", "approved", "paired", "transport"}
  BY DEF DevApproves, DevCommits, DevEnds, DevFeatures, DevRefuses, DevGets
<1>2. IsChannel(dev[c]) /\ (DevRefuses(c) \/ dev[c].epoch = epoch)
  BY <1>1, Parts DEF Current
<1>3. ASSUME NEW t \in {T_PAIRING_REQUEST_APPROVED, T_END_RESPONSE, MGMT_FEATURES, FAILURE}
      PROVE  /\ Reply(t) # NoReply
             /\ \A n : Answered(c, pc[c], hs[c], pairing[c], Reply(t), n)
  BY DEF Reply, NoReply, Answered, T_PAIRING_REQUEST_APPROVED, T_END_RESPONSE, MGMT_FEATURES, FAILURE,
         T_CODE_ENTRY_COMMITMENT, T_CODE_ENTRY_CPACE_TREZOR, T_CODE_ENTRY_SECRET,
         T_CREDENTIAL_RESPONSE
<1>4. CASE DevApproves(c)
  <2>1. Replies(c, Reply(T_PAIRING_REQUEST_APPROVED), [dev[c] EXCEPT !.state = "approved"])
        /\ dev[c].epoch = epoch
    BY <1>4, Parts DEF DevApproves, DevGets, Current
  <2>2. /\ Reply(T_PAIRING_REQUEST_APPROVED) # NoReply
        /\ \A n : Answered(c, pc[c], hs[c], pairing[c], Reply(T_PAIRING_REQUEST_APPROVED), n)
    BY <1>3
  <2> QED
    BY <1>1, <2>1, <2>2, MovesKeeps
<1>5. CASE DevCommits(c)
  <2> DEFINE r == [kind |-> "reply", type |-> T_CODE_ENTRY_COMMITMENT, commitment |-> committed(c)]
  <2>1. Replies(c, r, [dev[c] EXCEPT !.state = "committed"]) /\ dev[c].epoch = epoch
    BY <1>5, Parts DEF DevCommits, DevGets, Current
  <2>2. r # NoReply /\ \A n : Answered(c, pc[c], hs[c], pairing[c], r, n)
    BY DEF NoReply, Answered, T_CODE_ENTRY_COMMITMENT, T_CODE_ENTRY_CPACE_TREZOR,
           T_CODE_ENTRY_SECRET, T_CREDENTIAL_RESPONSE
  <2> HIDE DEF r
  <2> QED
    BY <1>1, <2>1, <2>2, MovesKeeps
<1>6. CASE DevEnds(c)
  <2>1. Replies(c, Reply(T_END_RESPONSE), [dev[c] EXCEPT !.state = "transport"])
        /\ dev[c].epoch = epoch
    BY <1>6, Parts DEF DevEnds, DevGets, Current
  <2> QED
    BY <1>1, <1>3, <2>1, MovesKeeps
<1>7. CASE DevFeatures(c)
  <2>1. Replies(c, Reply(MGMT_FEATURES), dev[c]) /\ dev[c].state = "transport"
    BY <1>7 DEF DevFeatures, DevGets
  <2>2. format_code(dev[c].code) = dev[c].code /\ Current(dev[c], epoch)
    BY Parts DEF Learned
  <2> QED
    BY <1>1, <1>2, <1>3, <2>1, <2>2, RepliesKeeps
<1>8. CASE DevRefuses(c)
  <2>1. Replies(c, Reply(FAILURE), [dev[c] EXCEPT !.state = "failed"])
    BY <1>8 DEF DevRefuses
  <2> QED
    BY <1>1, <1>3, <2>1, MovesKeeps
<1> QED
  BY <1>4, <1>5, <1>6, <1>7, <1>8

\* The device shows its code.
LEMMA DevShowsCodeKeeps ==
    ASSUME Inv, NEW c \in Calls, NEW code \in Codes, DevShowsCode(c, code)
    PROVE  Inv'
<1>1. pc[c] = "cpace" /\ dev[c].state = "committed"
  <2>1. /\ pc[c] \notin Done \cup {"init", "completion"} /\ rep[c] = NoReply
        /\ req[c].type = T_CODE_ENTRY_CHALLENGE /\ dev[c].state = "committed"
    BY DEF DevShowsCode, DevGets
  <2> QED
    BY <2>1, Parts
       DEF Asking, Shapes, Phases, Done, T_PAIRING_REQUEST, T_SELECT_METHOD, T_CODE_ENTRY_CHALLENGE,
           T_CODE_ENTRY_CPACE_HOST_TAG, T_CREDENTIAL_REQUEST, T_END_REQUEST, MGMT_GET_FEATURES
<1>2. dev[c].h = HH(c, hs[c])
  BY <1>1, Parts DEF Handshaking, Agreed
<1> DEFINE r == [kind |-> "reply", type |-> T_CODE_ENTRY_CPACE_TREZOR,
                 public |-> TrezorPublic(c, hs[c], code)]
<1>3. PICK n : n = [dev[c] EXCEPT !.state = "challenged", !.code = code]
  OBVIOUS
<1>4. Replies(c, r, n)
  BY <1>2, <1>3 DEF DevShowsCode, TrezorPublic
<1>5. IsChannel(dev[c])
  BY Parts
<1>6. /\ IsChannel(n) /\ n.state = "challenged" /\ n.h = dev[c].h /\ n.host = dev[c].host
      /\ n.keys = dev[c].keys /\ n.epoch = dev[c].epoch /\ n.code = code
      /\ n.accepted = dev[c].accepted
  BY <1>3, <1>5 DEF IsChannel
<1>7. format_code(code) = code
  BY Bounds
<1>8. Current(n, epoch)
  BY <1>1, <1>6, Parts DEF Current
<1>9. r # NoReply /\ Answered(c, pc[c], hs[c], pairing[c], r, n)
  BY <1>6 DEF NoReply, Answered, T_CODE_ENTRY_COMMITMENT, T_CODE_ENTRY_CPACE_TREZOR,
              T_CODE_ENTRY_SECRET, T_CREDENTIAL_RESPONSE
<1>10. pc[c] \notin Done \cup {"init", "completion"}
  BY <1>1 DEF Done
<1> HIDE DEF r
<1> QED
  BY <1>1, <1>4, <1>6, <1>7, <1>8, <1>9, <1>10, RepliesKeeps

\* The tags agree only when both sides derived the generator from one code.
LEMMA TagsAgree ==
    ASSUME NEW c, NEW hash, NEW code, NEW typed,
           x25519(<<"trezor cpace", c>>, x25519(<<"host cpace", c>>, generator(typed, hash)))
             = x25519(<<"host cpace", c>>, x25519(<<"trezor cpace", c>>, generator(code, hash)))
    PROVE  typed = code
<1>1. <<"generator", typed, hash>> \in
        {<<"host cpace", c>>, <<"trezor cpace", c>>, <<"generator", code, hash>>}
  BY DEF x25519, generator
<1>2. /\ <<"generator", typed, hash>> # <<"host cpace", c>>
      /\ <<"generator", typed, hash>> # <<"trezor cpace", c>>
  OBVIOUS
<1>3. <<"generator", typed, hash>> = <<"generator", code, hash>>
  BY <1>1, <1>2
<1> QED
  BY <1>3

\* The secret is revealed only when the typed code is the shown one.
LEMMA DevChecksTagKeeps ==
    ASSUME Inv, NEW c \in Calls, DevChecksTag(c)
    PROVE  Inv'
<1>1. pc[c] = "secret" /\ dev[c].state = "challenged"
  <2>1. /\ pc[c] \notin Done \cup {"init", "completion"} /\ rep[c] = NoReply
        /\ req[c].type = T_CODE_ENTRY_CPACE_HOST_TAG /\ dev[c].state = "challenged"
    BY DEF DevChecksTag, DevGets
  <2> QED
    BY <2>1, Parts
       DEF Asking, Shapes, Phases, Done, T_PAIRING_REQUEST, T_SELECT_METHOD, T_CODE_ENTRY_CHALLENGE,
           T_CODE_ENTRY_CPACE_HOST_TAG, T_CREDENTIAL_REQUEST, T_END_REQUEST, MGMT_GET_FEATURES
<1>2. pc[c] \notin Done \cup {"init", "completion"} /\ dev[c].epoch = epoch
  BY <1>1, Parts DEF Done, Current
<1>3. CASE x25519(<<"trezor cpace", c>>, req[c].host_public) = req[c].tag
  <2>1. PICK s : Replies(c, [kind |-> "reply", type |-> T_CODE_ENTRY_SECRET, secret |-> s],
                         [dev[c] EXCEPT !.state = "verified"])
    BY <1>3 DEF DevChecksTag
  <2> DEFINE r == [kind |-> "reply", type |-> T_CODE_ENTRY_SECRET, secret |-> s]
  <2>2. format_code(pairing[c].code) = dev[c].code
    <3>1. /\ req[c].host_public = x25519(<<"host cpace", c>>,
                                         generator(format_code(pairing[c].code), HH(c, hs[c])))
          /\ req[c].tag = x25519(<<"host cpace", c>>, TrezorPublic(c, hs[c], dev[c].code))
          /\ format_code(dev[c].code) = dev[c].code
      BY <1>1, Parts DEF Learned
    <3>2. TrezorPublic(c, hs[c], dev[c].code)
            = x25519(<<"trezor cpace", c>>, generator(dev[c].code, HH(c, hs[c])))
      BY <3>1 DEF TrezorPublic
    <3>3. x25519(<<"trezor cpace", c>>, x25519(<<"host cpace", c>>,
                 generator(format_code(pairing[c].code), HH(c, hs[c]))))
            = x25519(<<"host cpace", c>>, x25519(<<"trezor cpace", c>>,
                     generator(dev[c].code, HH(c, hs[c]))))
      BY <1>3, <3>1, <3>2
    <3> QED
      BY <3>3, TagsAgree
  <2>3. r # NoReply /\ \A n : (n.code = dev[c].code /\ n.epoch = dev[c].epoch)
                                => Answered(c, pc[c], hs[c], pairing[c], r, n)
    BY <2>2 DEF NoReply, Answered, T_CODE_ENTRY_COMMITMENT, T_CODE_ENTRY_CPACE_TREZOR,
                T_CODE_ENTRY_SECRET, T_CREDENTIAL_RESPONSE
  <2> HIDE DEF r
  <2> QED
    BY <1>2, <2>1, <2>3, MovesKeeps DEF r
<1>4. CASE ~(x25519(<<"trezor cpace", c>>, req[c].host_public) = req[c].tag)
  <2>1. Replies(c, Reply(FAILURE), [dev[c] EXCEPT !.state = "failed"])
    BY <1>4 DEF DevChecksTag
  <2>2. Reply(FAILURE) # NoReply /\ \A n : Answered(c, pc[c], hs[c], pairing[c], Reply(FAILURE), n)
    BY DEF Reply, NoReply, Answered, FAILURE, T_CODE_ENTRY_COMMITMENT, T_CODE_ENTRY_CPACE_TREZOR,
           T_CODE_ENTRY_SECRET, T_CREDENTIAL_RESPONSE
  <2> QED
    BY <1>2, <2>1, <2>2, MovesKeeps
<1> QED
  BY <1>3, <1>4

\* The credential is issued on a channel opened since the last wipe.
LEMMA DevIssuesKeeps ==
    ASSUME Inv, NEW c \in Calls, DevIssues(c)
    PROVE  Inv'
<1> DEFINE r == [kind |-> "reply", type |-> T_CREDENTIAL_RESPONSE,
                 credential |-> IssuedTo(hs[c], epoch)]
<1>1. pc[c] = "credential" /\ dev[c].state = "verified"
  <2>1. /\ pc[c] \notin Done \cup {"init", "completion"} /\ rep[c] = NoReply
        /\ req[c].type = T_CREDENTIAL_REQUEST /\ dev[c].state = "verified"
    BY DEF DevIssues, DevGets
  <2> QED
    BY <2>1, Parts
       DEF Asking, Shapes, Phases, Done, T_PAIRING_REQUEST, T_SELECT_METHOD, T_CODE_ENTRY_CHALLENGE,
           T_CODE_ENTRY_CPACE_HOST_TAG, T_CREDENTIAL_REQUEST, T_END_REQUEST, MGMT_GET_FEATURES
<1>2. pc[c] \notin Done \cup {"init", "completion"} /\ dev[c].epoch = epoch
  BY <1>1, Parts DEF Done, Current
<1>3. req[c].host = public_key(hs[c].static)
  BY <1>1, Parts DEF Asking
<1>4. Replies(c, r, [dev[c] EXCEPT !.state = "paired"])
  BY <1>3 DEF DevIssues, IssuedTo
<1>5. r # NoReply /\ \A n : (n.code = dev[c].code /\ n.epoch = dev[c].epoch)
                              => Answered(c, pc[c], hs[c], pairing[c], r, n)
  BY <1>2 DEF NoReply, Answered, T_CODE_ENTRY_COMMITMENT, T_CODE_ENTRY_CPACE_TREZOR,
              T_CODE_ENTRY_SECRET, T_CREDENTIAL_RESPONSE
<1> HIDE DEF r
<1> QED
  BY <1>2, <1>4, <1>5, MovesKeeps

\* A wipe closes every channel, and leaves what was agreed.
LEMMA ForgetKeeps ==
    ASSUME Inv, Forget
    PROVE  Inv'
<1>1. /\ UNCHANGED <<env, pc, kind, hs, keys, pairing, credential, req, rep>>
      /\ epoch' = epoch + 1 /\ epoch <= MaxForgets
      /\ dev' = [c \in Calls |-> IF dev[c].state = "new" THEN dev[c]
                                 ELSE [dev[c] EXCEPT !.state = "gone"]]
  BY DEF Forget
<1>2. Shapes'
  BY <1>1, Bounds DEF Inv, Shapes
<1>3. ASSUME NEW c \in Calls PROVE CallOK(c)'
  <2>1. CASE dev[c].state = "new"
    <3>1. dev'[c] = dev[c] /\ Current(dev[c], epoch')
      BY <1>1, <2>1 DEF Current
    <3> QED
      BY <1>1, <3>1, Parts DEF CallOK, CallInv
  <2>2. CASE dev[c].state # "new"
    <3>1. PICK n : n = [dev[c] EXCEPT !.state = "gone"]
      OBVIOUS
    <3>2. IsChannel(dev[c])
      BY Parts
    <3>3. /\ IsChannel(n) /\ n.state = "gone" /\ n.h = dev[c].h /\ n.ck = dev[c].ck
          /\ n.k = dev[c].k /\ n.host = dev[c].host /\ n.keys = dev[c].keys
          /\ n.epoch = dev[c].epoch /\ n.code = dev[c].code /\ n.accepted = dev[c].accepted
      BY <3>1, <3>2, Moved
    <3>4. dev'[c] = n
      BY <1>1, <2>2, <3>1
    <3>5. /\ Greeted(c, hs[c], dev[c]) => Greeted(c, hs[c], n)
          /\ Agreed(c, hs[c], dev[c]) => Agreed(c, hs[c], n)
          /\ SessionKeys(c, hs[c], dev[c]) = SessionKeys(c, hs[c], n)
          /\ CompletionResponse(c, hs[c], dev[c]) = CompletionResponse(c, hs[c], n)
      BY <3>3 DEF Greeted, Agreed, SessionKeys, CompletionResponse, StateByte
    <3>6. Handshaking(c, pc[c], hs[c], keys[c], req[c], rep[c], n)
      BY <2>2, <3>5, Parts DEF Handshaking
    <3>7. /\ Answered(c, pc[c], hs[c], pairing[c], rep[c], n)
          /\ Learned(c, pc[c], hs[c], pairing[c], req[c], n)
          /\ Entitled(c, pc[c], kind[c], hs[c], pairing[c], credential[c], n)
      <4>1. Answered(c, pc[c], hs[c], pairing[c], rep[c], n)
        <5>1. Answered(c, pc[c], hs[c], pairing[c], rep[c], dev[c])
          BY Parts
        <5> QED
          BY ONLY <3>3, <5>1 DEF Answered
      <4>2. Learned(c, pc[c], hs[c], pairing[c], req[c], n)
        <5>1. Learned(c, pc[c], hs[c], pairing[c], req[c], dev[c])
          BY Parts
        <5> QED
          BY ONLY <3>3, <5>1 DEF Learned
      <4>3. Entitled(c, pc[c], kind[c], hs[c], pairing[c], credential[c], n)
        <5>1. Entitled(c, pc[c], kind[c], hs[c], pairing[c], credential[c], dev[c])
          BY Parts
        <5> QED
          BY ONLY <3>3, <5>1 DEF Entitled
      <4> QED
        BY ONLY <4>1, <4>2, <4>3
    <3>8. Current(n, epoch')
      BY <3>3 DEF Current
    <3> QED
      BY <1>1, <3>3, <3>4, <3>6, <3>7, <3>8, Parts DEF CallOK, CallInv
  <2> QED
    BY <2>1, <2>2
<1> QED
  BY <1>2, <1>3 DEF Inv

\* The invariant holds at first,
LEMMA InitInv == Init => Inv
<1> SUFFICES ASSUME Init PROVE Inv
  OBVIOUS
<1>1. Shapes
  BY Bounds DEF Init, Shapes, Phases, Kinds
<1>2. ASSUME NEW c \in Calls PROVE CallOK(c)
  <2>1. /\ pc[c] = "idle" /\ pairing[c] = NoPairing /\ dev[c] = NoChannel /\ keys[c] = Failed
        /\ rep[c] = NoReply
    BY DEF Init
  <2>2. format_code(0) = 0
    BY SMT DEF format_code
  <2>3. IsPairing(NoPairing) /\ IsChannel(NoChannel)
    BY DEF NoPairing, IsPairing, NoChannel, IsChannel
  <2>4. NoPairing.code = 0 /\ NoChannel.code = 0 /\ NoChannel.state = "new"
    BY DEF NoPairing, NoChannel
  <2> QED
    BY <2>1, <2>2, <2>3, <2>4
       DEF CallOK, CallInv, Handshaking, Asking, Answered, Learned, Entitled, Current, Done
<1> QED
  BY <1>1, <1>2 DEF Inv

\* every step preserves it,
LEMMA NextInv == Inv /\ [Next]_vars => Inv'
<1> SUFFICES ASSUME Inv, [Next]_vars PROVE Inv'
  OBVIOUS
<1>1. ASSUME NEW c \in Calls, NEW k \in {"probe", "establish", "open"}, NEW cred, Call(c, k, cred)
      PROVE  Inv'
  BY <1>1, CallKeeps DEF Kinds
<1>2. ASSUME NEW c \in Calls, HostStep(c) \/ Fails(c) PROVE Inv'
  BY <1>2, HostStepKeeps
<1>3. ASSUME NEW c \in Calls, DevStep(c) \/ DevRefuses(c) PROVE Inv'
  BY <1>3, DevInitKeeps, DevCompletesKeeps, PlainRepliesKeep, DevShowsCodeKeeps, DevChecksTagKeeps,
     DevIssuesKeeps DEF DevStep
<1>4. CASE Forget
  BY <1>4, ForgetKeeps
<1>5. CASE UNCHANGED vars
  BY <1>5 DEF vars, Inv, Shapes, CallOK
<1> QED
  BY <1>1, <1>2, <1>3, <1>4, <1>5 DEF Next

\* and it therefore always holds.
LEMMA Invariance == Spec => []Inv
  BY InitInv, NextInv, PTL DEF Spec

\* Pairing's variables keep their types; only establish_paired_session is ever in
\* the pairing phase, and never without session keys (client.rs, pairing.rs).
THEOREM TypeCorrect == Spec => []TypeOK
<1>1. Inv => TypeOK
  <2> SUFFICES ASSUME Inv PROVE TypeOK
    OBVIOUS
  <2>1. ASSUME NEW c \in Calls
        PROVE  /\ pc[c] \in Phases /\ pairing[c].code \in Nat
               /\ pc[c] \in {"approved", "commitment", "cpace", "code", "secret", "credential",
                             "features"} => kind[c] = "establish"
               /\ pc[c] \notin Done \cup {"init", "completion"} => keys[c] # Failed
    BY Parts DEF Shapes, Handshaking, Learned, Entitled, Done
  <2> QED
    BY <2>1 DEF TypeOK, Inv, Shapes, Phases, Kinds, Done
<1> QED
  BY <1>1, Invariance, PTL

\* A call that has completed the handshake has the keys, transcript hash and
\* static key of its own channel, whichever responses it read
\* (noise.rs, read_init_response and read_completion_response).
THEOREM HandshakesAgree == Spec => []HandshakeAgrees
<1>1. Inv => HandshakeAgrees
  <2> SUFFICES ASSUME Inv, NEW c \in Calls, keys[c] # Failed
               PROVE  /\ <<keys[c].key_request, keys[c].key_response>> = dev[c].keys
                      /\ keys[c].handshake_hash = dev[c].h
                      /\ dev[c].host = public_key(hs[c].static)
                      /\ keys[c].trezor_state = IF dev[c].accepted THEN 1 ELSE 0
                      /\ \A b \in Calls \ {c} :
                            keys[b] # Failed => keys[b].key_request # keys[c].key_request
    BY DEF HandshakeAgrees
  <2>1. ASSUME NEW b \in Calls, keys[b] # Failed
        PROVE  /\ Named(b, hs[b]) /\ Agreed(b, hs[b], dev[b])
               /\ keys[b].key_request = Keys(b, hs[b])[1]
               /\ keys[b].key_response = Keys(b, hs[b])[2]
               /\ keys[b].trezor_state = StateByte(dev[b])
               /\ keys[b].handshake_hash = HH(b, hs[b])
    <3>1. /\ keys[b] = SessionKeys(b, hs[b], dev[b]) /\ Agreed(b, hs[b], dev[b])
          /\ Named(b, hs[b])
      BY <2>1, Parts DEF Handshaking
    <3> QED
      BY <3>1 DEF SessionKeys
  <2>2. <<Keys(c, hs[c])[1], Keys(c, hs[c])[2]>> = Keys(c, hs[c])
    BY DEF Keys, hkdf
  <2>3. ASSUME NEW b \in Calls \ {c}, keys[b] # Failed
        PROVE  keys[b].key_request # keys[c].key_request
    BY <2>1, <2>3, OwnKeys
  <2> QED
    BY <2>1, <2>2, <2>3 DEF Agreed, StateByte
<1> QED
  BY <1>1, Invariance, PTL

\* establish_paired_session returns Ok only after the device accepted the stored
\* credential, or the typed code and the revealed secret were the right ones
\* (pairing.rs, run_codeentry_pairing).
THEOREM OksAreAuthenticated == Spec => []OkIsAuthenticated
<1>1. Inv => OkIsAuthenticated
  <2> SUFFICES ASSUME Inv, NEW c \in Calls, pc[c] = "ok", kind[c] = "establish", ~dev[c].accepted
               PROVE  /\ pairing[c].code % 1000000 = dev[c].code
                      /\ pairing[c].secret = pairing[c].commitment
                      /\ pairing[c].commitment = committed(c)
    BY SMT DEF OkIsAuthenticated
  <2>1. /\ format_code(pairing[c].code) = dev[c].code
        /\ pairing[c].secret = committed(c) /\ pairing[c].commitment = committed(c)
    BY Parts DEF Entitled
  <2> QED
    BY <2>1, SMT DEF format_code
<1> QED
  BY <1>1, Invariance, PTL

\* The credential it returns was issued to its host key since the last wipe
\* before the handshake: a rejected one is not handed back (client.rs).
THEOREM CredentialsAreFresh == Spec => []CredentialIsFresh
<1>1. Inv => CredentialIsFresh
  BY Parts DEF Entitled, IssuedTo, CredentialIsFresh
<1> QED
  BY <1>1, Invariance, PTL
============================================================================
