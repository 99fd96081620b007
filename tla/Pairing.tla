------------------------------ MODULE Pairing ------------------------------
(***************************************************************************)
(* The calls that open a channel of their own: thp_probe and               *)
(* establish_paired_session (client.rs) and open_paired_connection, which  *)
(* ensure_conn uses.  Each runs the Noise handshake; establish goes on     *)
(* with CodeEntry pairing (thp/pairing.rs) unless the device has accepted  *)
(* the stored credential; both end with ThpEndRequest.                     *)
(*                                                                         *)
(* Nothing serialises these calls: two of them share the transport, and as *)
(* recv_data looks neither at the channel id nor at the control byte, one  *)
(* may read a handshake response that was meant for the other.  Once the   *)
(* keys are installed that is an error (Connection, ReplyIsMine), so that  *)
(* later replies are the call's own.                                       *)
(*                                                                         *)
(* env = "good": the user approves and types what is on the screen, the    *)
(* device answers, nothing is lost.  env = "any": replies may be of        *)
(* another type, undecodable or missing, the device may reveal a secret it *)
(* did not commit to or forget its hosts, and the user types what he likes.*)
(***************************************************************************)
EXTENDS Noise, Integers, FiniteSets

CONSTANTS
    Calls,          \* calls, made in any order
    MaxConcurrent,  \* bound: calls under way at a time
    Codes,          \* codes the device shows
    Typed,          \* numbers the user types
    MaxForgets      \* bound: times the device is wiped

ASSUME PairingAssumption ==
    /\ \A code \in Codes : code \in Nat /\ code < 1000000
    /\ Typed \subseteq Nat /\ MaxForgets \in Nat

VARIABLES
    env,
    pc,         \* the reply call c awaits; "code": it awaits the code provider
    kind,       \* which method call c is
    hs,         \* its HostHandshake
    keys,       \* its session keys, Failed before the handshake is complete
    pairing,    \* commitment and CPace key it got, code typed, secret it got
    credential, \* the credential it presents, then the one it returns
    req,        \* its last message, and whether the device has answered it
    rep,        \* that answer
    dev,        \* the device's side of the channel
    epoch,      \* counts how often the device was wiped
    stored      \* the credential the application has persisted

vars == <<env, pc, kind, hs, keys, pairing, credential, req, rep, dev, epoch, stored>>

T_PAIRING_REQUEST == 1008
T_PAIRING_REQUEST_APPROVED == 1009
T_SELECT_METHOD == 1010
T_CREDENTIAL_REQUEST == 1016
T_CREDENTIAL_RESPONSE == 1017
T_END_REQUEST == 1018
T_END_RESPONSE == 1019
T_CODE_ENTRY_COMMITMENT == 1024
T_CODE_ENTRY_CHALLENGE == 1025
T_CODE_ENTRY_CPACE_TREZOR == 1026
T_CODE_ENTRY_CPACE_HOST_TAG == 1027
T_CODE_ENTRY_SECRET == 1028
MGMT_GET_FEATURES == 55
MGMT_FEATURES == 17
FAILURE == 3

device_properties == "T3W1"
trezor_static == <<"trezor static", 0>>
host_static(c) == IF kind[c] = "probe" THEN <<"random static", c>> ELSE <<"host static", 0>>

NoHost == HostHandshake(<<"none", 0>>, <<"none", 0>>, NoCredential)
NoPairing == [commitment |-> 0, trezor_public |-> {}, code |-> 0, secret |-> 0]
NoMessage == [type |-> 0]
NoReply == [kind |-> "none"]
NoChannel == [state |-> "new", h |-> <<>>, ck |-> ck_0, k |-> ck_0, host |-> {}, keys |-> <<ck_0, ck_0>>,
              epoch |-> 0, code |-> 0, accepted |-> FALSE]

Init ==
    /\ env \in {"good", "any"}
    /\ pc = [c \in Calls |-> "idle"] /\ kind = [c \in Calls |-> "probe"]
    /\ hs = [c \in Calls |-> NoHost] /\ keys = [c \in Calls |-> Failed]
    /\ pairing = [c \in Calls |-> NoPairing] /\ credential = [c \in Calls |-> NoCredential]
    /\ req = [c \in Calls |-> NoMessage] /\ rep = [c \in Calls |-> NoReply]
    /\ dev = [c \in Calls |-> NoChannel]
    /\ epoch = 1 /\ stored = NoCredential

----------------------------------------------------------------------------
(* The host.                                                               *)

Done == {"idle", "ok", "err"}
Running == {c \in Calls : pc[c] \notin Done}

\* transceive: the message is sent, the call awaits its reply.
Sends(c, msg, next) ==
    /\ req' = [req EXCEPT ![c] = msg] /\ rep' = [rep EXCEPT ![c] = NoReply]
    /\ pc' = [pc EXCEPT ![c] = next]

\* The call returns; its connection is dropped or handed on.
Ends(c, result) ==
    /\ pc' = [pc EXCEPT ![c] = result]
    /\ req' = [req EXCEPT ![c] = NoMessage] /\ rep' = [rep EXCEPT ![c] = NoReply]

\* A method is called and its handshake begins.  open_paired_connection is
\* given the stored credential, establish_paired_session may be.
Call(c, k, cred) ==
    /\ pc[c] = "idle" /\ Cardinality(Running) < MaxConcurrent
    /\ k = "probe" => cred = NoCredential
    /\ k = "establish" => cred \in {NoCredential, stored}
    /\ k = "open" => cred = stored /\ stored # NoCredential
    /\ kind' = [kind EXCEPT ![c] = k]
    /\ credential' = [credential EXCEPT ![c] = cred]
    /\ LET h == HostHandshake(<<"host ephemeral", c>>, host_static(c)', cred) IN
        /\ hs' = [hs EXCEPT ![c] = h]
        /\ Sends(c, init_request_payload(h), "init")
    /\ UNCHANGED <<env, keys, pairing, dev, epoch, stored>>

\* recv_data returns a handshake response: its own or, off good days, any.
Responses(c) == {rep[d] : d \in IF env = "good" THEN {c} ELSE Running} \ {NoReply}

HandshakeFails(c) ==
    /\ Ends(c, "err")
    /\ UNCHANGED <<env, kind, hs, keys, pairing, credential, dev, epoch, stored>>

GetsInitResponse(c) ==
    /\ pc[c] = "init"
    /\ \E resp \in Responses(c) :
        LET completion == read_init_response(hs[c], device_properties, resp) IN
        IF completion = Failed THEN HandshakeFails(c)
        ELSE /\ Sends(c, completion, "completion")
             /\ UNCHANGED <<env, kind, hs, keys, pairing, credential, dev, epoch, stored>>

\* Mutant: the state byte is read the wrong way round.
already_paired_mutant(c, state) == credential[c] # NoCredential /\ state = 0

already_paired(c, state) == credential[c] # NoCredential /\ state # 0

\* After the handshake: the probe is over, establish pairs or, as open does,
\* ends the pairing phase; open fails when the credential was rejected.
GetsCompletionResponse(c) ==
    /\ pc[c] = "completion"
    /\ \E resp \in Responses(c) :
        LET result == read_completion_response(req[c].h, req[c].ck, resp) IN
        IF result = Failed THEN HandshakeFails(c)
        ELSE /\ keys' = [keys EXCEPT ![c] = result]
             /\ CASE kind[c] = "probe" -> Ends(c, "ok")
                  [] kind[c] = "open" /\ result.trezor_state = 0 -> Ends(c, "err")
                  [] kind[c] = "open" /\ result.trezor_state # 0
                        -> Sends(c, [type |-> T_END_REQUEST], "end")
                  [] kind[c] = "establish" /\ already_paired(c, result.trezor_state)
                        -> Sends(c, [type |-> T_END_REQUEST], "end")
                  [] OTHER -> Sends(c, [type |-> T_PAIRING_REQUEST], "approved")
             /\ UNCHANGED <<env, kind, hs, pairing, credential, dev, epoch, stored>>

\* The call has a reply of the type it expects.
Gets(c, at, type) == pc[c] = at /\ rep[c].kind = "reply" /\ rep[c].type = type

\* expect_type or the decoding fails, or transceive returns a Failure.
UnexpectedReply(c) ==
    /\ pc[c] \notin Done \cup {"init", "completion", "code"}
    /\ rep[c].kind = "reply" /\ rep[c].type = FAILURE
    /\ Ends(c, "err")
    /\ UNCHANGED <<env, kind, hs, keys, pairing, credential, dev, epoch, stored>>

GetsApproval(c) ==
    /\ Gets(c, "approved", T_PAIRING_REQUEST_APPROVED)
    /\ Sends(c, [type |-> T_SELECT_METHOD], "commitment")
    /\ UNCHANGED <<env, kind, hs, keys, pairing, credential, dev, epoch, stored>>

GetsCommitment(c) ==
    /\ Gets(c, "commitment", T_CODE_ENTRY_COMMITMENT)
    /\ pairing' = [pairing EXCEPT ![c].commitment = rep[c].commitment]
    /\ Sends(c, [type |-> T_CODE_ENTRY_CHALLENGE], "cpace")
    /\ UNCHANGED <<env, kind, hs, keys, credential, dev, epoch, stored>>

\* The device shows its code; the code provider is asked.
GetsCpaceTrezor(c) ==
    /\ Gets(c, "cpace", T_CODE_ENTRY_CPACE_TREZOR)
    /\ pairing' = [pairing EXCEPT ![c].trezor_public = rep[c].public]
    /\ pc' = [pc EXCEPT ![c] = "code"]
    /\ UNCHANGED <<env, kind, hs, keys, credential, req, rep, dev, epoch, stored>>

\* The provider returns a number: the CPace key and tag are sent.
CodeEntered(c, n) ==
    /\ pc[c] = "code"
    /\ env = "good" => n = dev[c].code
    /\ pairing' = [pairing EXCEPT ![c].code = n]
    /\ LET host == host_cpace(format_code(n), keys[c].handshake_hash, pairing[c].trezor_public,
                              <<"host cpace", c>>)
       IN  Sends(c, [type |-> T_CODE_ENTRY_CPACE_HOST_TAG, host_public |-> host.host_public,
                     tag |-> host.tag], "secret")
    /\ UNCHANGED <<env, kind, hs, keys, credential, dev, epoch, stored>>

\* Mutant: a refusal is noted as a code.
CodeRefusedMutant(c) ==
    /\ pc[c] = "code" /\ env = "any"
    /\ pairing' = [pairing EXCEPT ![c].code = -1]
    /\ Ends(c, "err")
    /\ UNCHANGED <<env, kind, hs, keys, credential, dev, epoch, stored>>

\* It returns an empty string or no number.
CodeRefused(c) ==
    /\ pc[c] = "code" /\ env = "any"
    /\ Ends(c, "err")
    /\ UNCHANGED <<env, kind, hs, keys, pairing, credential, dev, epoch, stored>>

\* Mutant: the secret is not compared with the commitment.
GetsSecretMutant(c) ==
    /\ Gets(c, "secret", T_CODE_ENTRY_SECRET)
    /\ pairing' = [pairing EXCEPT ![c].secret = rep[c].secret]
    /\ Sends(c, [type |-> T_CREDENTIAL_REQUEST, host |-> public_key(hs[c].static)], "credential")
    /\ UNCHANGED <<env, kind, hs, keys, credential, dev, epoch, stored>>

\* The secret must be the committed one.
GetsSecret(c) ==
    /\ Gets(c, "secret", T_CODE_ENTRY_SECRET)
    /\ pairing' = [pairing EXCEPT ![c].secret = rep[c].secret]
    /\ IF rep[c].secret = pairing[c].commitment
       THEN Sends(c, [type |-> T_CREDENTIAL_REQUEST, host |-> public_key(hs[c].static)], "credential")
       ELSE Ends(c, "err")
    /\ UNCHANGED <<env, kind, hs, keys, credential, dev, epoch, stored>>

\* Mutant: the credential the call was given is kept.
GetsCredentialMutant(c) ==
    /\ Gets(c, "credential", T_CREDENTIAL_RESPONSE)
    /\ Sends(c, [type |-> T_END_REQUEST], "end")
    /\ UNCHANGED <<env, kind, hs, keys, pairing, credential, dev, epoch, stored>>

GetsCredential(c) ==
    /\ Gets(c, "credential", T_CREDENTIAL_RESPONSE)
    /\ credential' = [credential EXCEPT ![c] = rep[c].credential]
    /\ Sends(c, [type |-> T_END_REQUEST], "end")
    /\ UNCHANGED <<env, kind, hs, keys, pairing, dev, epoch, stored>>

\* end_request returns: establish reads the Features, open is ready.
GetsEndResponse(c) ==
    /\ Gets(c, "end", T_END_RESPONSE)
    /\ IF kind[c] = "open" THEN Ends(c, "ok") ELSE Sends(c, [type |-> MGMT_GET_FEATURES], "features")
    /\ UNCHANGED <<env, kind, hs, keys, pairing, credential, dev, epoch, stored>>

\* establish_paired_session returns; the application persists the credential.
GetsFeatures(c) ==
    /\ Gets(c, "features", MGMT_FEATURES)
    /\ Ends(c, "ok")
    /\ stored' = credential[c]
    /\ UNCHANGED <<env, kind, hs, keys, pairing, credential, dev, epoch>>

\* The transport fails, or the host drops the future.
Fails(c) ==
    /\ pc[c] \notin Done /\ env = "any"
    /\ Ends(c, "err")
    /\ UNCHANGED <<env, kind, hs, keys, pairing, credential, dev, epoch, stored>>

HostStep(c) ==
    \/ GetsInitResponse(c) \/ GetsCompletionResponse(c) \/ UnexpectedReply(c)
    \/ GetsApproval(c) \/ GetsCommitment(c) \/ GetsCpaceTrezor(c)
    \/ (\E n \in Typed : CodeEntered(c, n)) \/ CodeRefused(c)
    \/ GetsSecret(c) \/ GetsCredential(c) \/ GetsEndResponse(c) \/ GetsFeatures(c)

----------------------------------------------------------------------------
(* The device (outside the repository).  Channel c is the one call c was   *)
(* allocated.                                                              *)

trezor_ephemeral(c) == <<"trezor ephemeral", c>>
committed(c) == c
other_secret == 0

Replies(c, r, d) ==
    /\ rep' = [rep EXCEPT ![c] = r] /\ dev' = [dev EXCEPT ![c] = d]
    /\ UNCHANGED <<env, pc, kind, hs, keys, pairing, credential, req, epoch, stored>>

Reply(type) == [kind |-> "reply", type |-> type]

DevInit(c) ==
    /\ pc[c] = "init" /\ rep[c] = NoReply /\ dev[c].state = "new"
    /\ LET r == handle_init_request(device_properties, trezor_ephemeral(c), <<"mask", c>>,
                                    trezor_static, req[c])
       IN  Replies(c, r.resp, [dev[c] EXCEPT !.state = "handshake", !.h = r.h, !.ck = r.ck, !.k = r.k])

\* A credential counts when it was issued to this host key since the last wipe.
DevCompletes(c) ==
    /\ pc[c] = "completion" /\ rep[c] = NoReply /\ dev[c].state = "handshake"
    /\ LET r == handle_completion_request(dev[c], trezor_ephemeral(c), req[c])
           good == r.credential = [for |-> r.host_static, epoch |-> epoch]
       IN  /\ r # Failed
           /\ Replies(c, [kind |-> "completion response",
                          enc_state |-> aead_encrypt(r.keys[2], IV_ZERO, <<>>, IF good THEN 1 ELSE 0)],
                      [dev[c] EXCEPT !.state = IF good THEN "paired" ELSE "unpaired", !.h = r.h,
                                     !.host = r.host_static, !.keys = r.keys, !.epoch = epoch,
                                     !.accepted = good])

\* A pairing message in the state it belongs to.
DevGets(c, state, type) ==
    /\ pc[c] \notin Done \cup {"init", "completion"} /\ rep[c] = NoReply
    /\ req[c].type = type /\ dev[c].state = state

DevApproves(c) ==
    /\ DevGets(c, "unpaired", T_PAIRING_REQUEST)
    /\ Replies(c, Reply(T_PAIRING_REQUEST_APPROVED), [dev[c] EXCEPT !.state = "approved"])

DevCommits(c) ==
    /\ DevGets(c, "approved", T_SELECT_METHOD)
    /\ Replies(c, [kind |-> "reply", type |-> T_CODE_ENTRY_COMMITMENT, commitment |-> committed(c)],
               [dev[c] EXCEPT !.state = "committed"])

DevShowsCode(c, code) ==
    /\ DevGets(c, "committed", T_CODE_ENTRY_CHALLENGE)
    /\ Replies(c, [kind |-> "reply", type |-> T_CODE_ENTRY_CPACE_TREZOR,
                   public |-> x25519(<<"trezor cpace", c>>, generator(format_code(code), dev[c].h))],
               [dev[c] EXCEPT !.state = "challenged", !.code = code])

\* The secret is revealed when the tags agree.
DevChecksTag(c) ==
    /\ DevGets(c, "challenged", T_CODE_ENTRY_CPACE_HOST_TAG)
    /\ IF x25519(<<"trezor cpace", c>>, req[c].host_public) = req[c].tag
       THEN \E s \in {committed(c)} \cup (IF env = "good" THEN {} ELSE {other_secret}) :
                Replies(c, [kind |-> "reply", type |-> T_CODE_ENTRY_SECRET, secret |-> s],
                        [dev[c] EXCEPT !.state = "verified"])
       ELSE Replies(c, Reply(FAILURE), [dev[c] EXCEPT !.state = "failed"])

DevIssues(c) ==
    /\ DevGets(c, "verified", T_CREDENTIAL_REQUEST)
    /\ Replies(c, [kind |-> "reply", type |-> T_CREDENTIAL_RESPONSE,
                   credential |-> [for |-> req[c].host, epoch |-> epoch]],
               [dev[c] EXCEPT !.state = "paired"])

DevEnds(c) ==
    /\ DevGets(c, "paired", T_END_REQUEST)
    /\ Replies(c, Reply(T_END_RESPONSE), [dev[c] EXCEPT !.state = "transport"])

DevFeatures(c) ==
    /\ DevGets(c, "transport", MGMT_GET_FEATURES)
    /\ Replies(c, Reply(MGMT_FEATURES), dev[c])

\* The user declines, the message does not fit the state, or the reply is not
\* what the host expects.
DevRefuses(c) ==
    /\ env = "any" /\ pc[c] \notin Done \cup {"init", "completion", "code"} /\ rep[c] = NoReply
    /\ Replies(c, Reply(FAILURE), [dev[c] EXCEPT !.state = "failed"])

DevStep(c) ==
    \/ DevInit(c) \/ DevCompletes(c) \/ DevApproves(c) \/ DevCommits(c)
    \/ (\E code \in Codes : DevShowsCode(c, code)) \/ DevChecksTag(c)
    \/ DevIssues(c) \/ DevEnds(c) \/ DevFeatures(c)

\* The device is wiped: no credential counts any more, every channel is gone.
Forget ==
    /\ env = "any" /\ epoch <= MaxForgets
    /\ epoch' = epoch + 1
    /\ dev' = [c \in Calls |-> IF dev[c].state = "new" THEN dev[c] ELSE [dev[c] EXCEPT !.state = "gone"]]
    /\ UNCHANGED <<env, pc, kind, hs, keys, pairing, credential, req, rep, stored>>

----------------------------------------------------------------------------
Next == \/ \E c \in Calls : \/ \E k \in {"probe", "establish", "open"}, cred \in {NoCredential, stored} :
                                 Call(c, k, cred)
                            \/ HostStep(c) \/ Fails(c) \/ DevStep(c) \/ DevRefuses(c)
        \/ Forget

\* A call that can go on is polled; the device and the user answer.
Spec == /\ Init /\ [][Next]_vars
        /\ \A c \in Calls : WF_vars(HostStep(c)) /\ WF_vars(DevStep(c))

----------------------------------------------------------------------------
(* Properties.                                                             *)

\* The type invariant.
TypeOK ==
    /\ env \in {"good", "any"} /\ kind \in [Calls -> {"probe", "establish", "open"}]
    /\ \A c \in Calls :
        /\ pc[c] \in Done \cup {"init", "completion", "approved", "commitment", "cpace", "code",
                                "secret", "credential", "end", "features"}
        /\ pc[c] \in {"approved", "commitment", "cpace", "code", "secret", "credential", "features"}
                => kind[c] = "establish"
        /\ pc[c] \notin Done \cup {"init", "completion"} => keys[c] # Failed
        /\ pairing[c].code \in Nat
    /\ epoch \in 1 .. MaxForgets + 1

\* A call that has completed the handshake shares keys, transcript hash and
\* the host's static key with the device's side of its own channel and of no
\* other, whichever responses it has read.
HandshakeAgrees ==
    \A c \in Calls : keys[c] # Failed =>
        /\ <<keys[c].key_request, keys[c].key_response>> = dev[c].keys
        /\ keys[c].handshake_hash = dev[c].h
        /\ dev[c].host = public_key(hs[c].static)
        /\ keys[c].trezor_state = IF dev[c].accepted THEN 1 ELSE 0
        /\ \A d \in Calls \ {c} : keys[d] # Failed => keys[d].key_request # keys[c].key_request

\* establish_paired_session returns Ok only when the device accepted the
\* stored credential in this handshake, or the user typed the code the device
\* showed for this channel and the device revealed the secret it had committed
\* to (pairing.rs:146-170).
OkIsAuthenticated ==
    \A c \in Calls : pc[c] = "ok" /\ kind[c] = "establish" =>
        \/ dev[c].accepted
        \/ /\ pairing[c].code % 1000000 = dev[c].code
           /\ pairing[c].secret = pairing[c].commitment /\ pairing[c].commitment = committed(c)

\* The credential it returns is one the device had issued, since its last
\* wipe before this handshake, to the host key the application keeps: one that
\* was rejected is never handed back to be persisted (client.rs:188-205).
CredentialIsFresh ==
    \A c \in Calls : pc[c] = "ok" /\ kind[c] = "establish" =>
        credential[c] = [for |-> public_key(hs[c].static), epoch |-> dev[c].epoch]

\* With a willing user and device every call succeeds: both sides compute the
\* same transcript, keys and tags, and each message is the one the device
\* expects.
GoodCallsSucceed == \A c \in Calls : (env = "good" /\ pc[c] = "init") ~> pc[c] = "ok"
============================================================================
