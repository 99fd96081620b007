------------------------------- MODULE Noise -------------------------------
(***************************************************************************)
(* The Noise XX handshake of thp/noise.rs and the host's CPace step of     *)
(* thp/cpace.rs on symbolic values: a scalar is a tuple that names it, a   *)
(* point the set of scalars it was multiplied by, a hash or a chaining key *)
(* the pair of what it was before and what went into it, a ciphertext the  *)
(* record of what it was made from.  Two values are equal only if they     *)
(* were computed alike.                                                    *)
(***************************************************************************)
EXTENDS Naturals

PROTOCOL_NAME == "Noise_XX_25519_AESGCM_SHA256"
IV_ZERO == 0
IV_ONE == 1

public_key(scalar) == {scalar}
x25519(scalar, point) == point \cup {scalar}

\* sha256_concat(&[h, x])
mix(h, x) == <<h, x>>

\* The two outputs of hkdf: the next chaining key and the key.
hkdf(ck, input) == <<[chain |-> <<ck.chain, input>>, out |-> 1],
                     [chain |-> <<ck.chain, input>>, out |-> 2]>>
ck_0 == [chain |-> <<>>, out |-> 0]

aead_encrypt(key, iv, ad, msg) == [key |-> key, iv |-> iv, ad |-> ad, msg |-> msg]

\* Mutant: the tag is not compared.
opens_mutant(key, iv, ad, ct) == TRUE
opens(key, iv, ad, ct) == ct.key = key /\ ct.iv = iv /\ ct.ad = ad

----------------------------------------------------------------------------
(* HostHandshake.  The credential is the host's or NoCredential; a failed  *)
(* step returns Failed.                                                    *)

NoCredential == [for |-> {}, epoch |-> 0]
Failed == [kind |-> "failed"]

HostHandshake(ephemeral, static, credential) ==
    [ephemeral |-> ephemeral, static |-> static, credential |-> credential]

init_request_payload(hs) == [kind |-> "init request", ephemeral |-> public_key(hs.ephemeral)]

\* The transcript up to the ephemeral keys; try_to_unlock is always 0.
transcript(device_properties, host, trezor) ==
    mix(mix(mix(<<PROTOCOL_NAME, device_properties>>, host), 0), trezor)

\* The completion request, or Failed: a payload of another size, a static key
\* or a tag that does not open.
read_init_response(hs, device_properties, resp) ==
    IF resp.kind # "init response" THEN Failed
    ELSE LET h1 == transcript(device_properties, public_key(hs.ephemeral), resp.ephemeral)
             k1 == hkdf(ck_0, x25519(hs.ephemeral, resp.ephemeral))
             h2 == mix(h1, resp.enc_static)
             k2 == hkdf(k1[1], x25519(hs.ephemeral, resp.enc_static.msg))
             h3 == mix(h2, resp.tag)
             enc_host_static == aead_encrypt(k2[2], IV_ONE, h3, public_key(hs.static))
             h4 == mix(h3, enc_host_static)
             k3 == hkdf(k2[1], x25519(hs.static, resp.ephemeral))
             enc_payload == aead_encrypt(k3[2], IV_ZERO, h4, hs.credential)
         IN  IF opens(k1[2], IV_ZERO, h1, resp.enc_static) /\ opens(k2[2], IV_ZERO, h2, resp.tag)
             THEN [kind |-> "completion request", enc_host_static |-> enc_host_static,
                   enc_payload |-> enc_payload, h |-> mix(h4, enc_payload), ck |-> k3[1]]
             ELSE Failed

\* The session keys and the device's state, or Failed.
read_completion_response(h, ck, resp) ==
    LET keys == hkdf(ck, {}) IN
    IF resp.kind = "completion response" /\ opens(keys[2], IV_ZERO, <<>>, resp.enc_state)
    THEN [kind |-> "keys", key_request |-> keys[1], key_response |-> keys[2],
          trezor_state |-> resp.enc_state.msg, handshake_hash |-> h]
    ELSE Failed

----------------------------------------------------------------------------
(* The device's side, as the responder of the unit tests computes it.      *)

handle_init_request(device_properties, ephemeral, mask, static, req) ==
    LET h1 == transcript(device_properties, req.ephemeral, public_key(ephemeral))
        k1 == hkdf(ck_0, x25519(ephemeral, req.ephemeral))
        enc_static == aead_encrypt(k1[2], IV_ZERO, h1, x25519(mask, public_key(static)))
        h2 == mix(h1, enc_static)
        k2 == hkdf(k1[1], x25519(mask, x25519(static, req.ephemeral)))
        tag == aead_encrypt(k2[2], IV_ZERO, h2, <<>>)
    IN  [resp |-> [kind |-> "init response", ephemeral |-> public_key(ephemeral),
                   enc_static |-> enc_static, tag |-> tag],
         h |-> mix(h2, tag), ck |-> k2[1], k |-> k2[2]]

\* What the device learns from the completion request, or Failed.
handle_completion_request(d, ephemeral, req) ==
    LET k3 == hkdf(d.ck, x25519(ephemeral, req.enc_host_static.msg))
        h4 == mix(d.h, req.enc_host_static)
    IN  IF opens(d.k, IV_ONE, d.h, req.enc_host_static) /\ opens(k3[2], IV_ZERO, h4, req.enc_payload)
        THEN [kind |-> "accepted", host_static |-> req.enc_host_static.msg,
              credential |-> req.enc_payload.msg, keys |-> hkdf(k3[1], {}),
              h |-> mix(h4, req.enc_payload)]
        ELSE Failed

----------------------------------------------------------------------------
(* CPace.                                                                  *)

\* Six decimal digits: the number modulo a million.
format_code(code) == code % 1000000

generator(code, handshake_hash) == {<<"generator", code, handshake_hash>>}

host_cpace(code, handshake_hash, trezor_public, host_private) ==
    [host_public |-> x25519(host_private, generator(code, handshake_hash)),
     tag |-> x25519(host_private, trezor_public)]
============================================================================
