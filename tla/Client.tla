------------------------------- MODULE Client -------------------------------
(***************************************************************************)
(* TrezorClient (client.rs): calls of the exported async methods, made     *)
(* concurrently by the host application, that share one pinned connection  *)
(* behind a tokio mutex.                                                   *)
(*                                                                         *)
(* A method takes the lock, makes sure the pinned slot holds a connection  *)
(* whose seeded session was created for the wallet the caller asked for,   *)
(* runs its exchange with the device, and clears the slot on an error.     *)
(* Each await point is a step of its own: another call, an error or the    *)
(* cancellation of the call (the host drops the future) may come between.  *)
(*                                                                         *)
(* The device is outside the repository: on every channel it may hold one  *)
(* seeded session, created for the passphrase it was sent, or for what the *)
(* user typed on its screen.                                               *)
(***************************************************************************)
EXTENDS Naturals, Sequences, SequencesExt

CONSTANTS
    Tasks,          \* concurrent calls
    Passphrases,    \* host-supplied passphrases
    NoPassphrase,   \* None: the standard wallet
    MaxChannels,    \* bound: channels opened
    MaxRounds,      \* bound: requests of a streaming exchange
    MaxCancels      \* bound: calls the host cancels

NoTask == "no task"

ASSUME ClientAssumption ==
    /\ NoTask \notin Tasks /\ NoPassphrase \notin Passphrases
    /\ MaxChannels \in Nat /\ MaxRounds \in Nat \ {0} /\ MaxCancels \in Nat

VARIABLES
    pc,         \* pc[t]: the await point call t is at, "idle" outside a call
    op,         \* op[t]: what call t runs
    result,     \* result[t]: how the last call of t ended
    lock,       \* the call that holds the mutex, or NoTask
    waiters,    \* calls waiting for it, first come first served
    slot,       \* pinned: NoConn or the connection
    opening,    \* opening[t]: channel of the connection t is establishing
    channels,   \* channels the device has allocated
    session,    \* session[c]: seeded session of channel c on the device
    busy,       \* channels with a request the device has not answered
    broken,     \* channels on which a call has seen an error
    cancels

taskVars == <<pc, op, result, opening>>
lockVars == <<lock, waiters>>
deviceVars == <<channels, session, busy>>
vars == <<taskVars, lockVars, slot, deviceVars, broken, cancels>>

MANAGEMENT_SESSION_ID == 0
SEEDED_SESSION_ID == 1

\* PassphraseSpec, and the (passphrase, on_device) key ensure_conn makes of it.
Passphrase == Passphrases \cup {NoPassphrase}
PassphraseSpec ==
    [kind: {"Standard", "OnDevice"}, passphrase: {NoPassphrase}]
        \cup [kind: {"Host"}, passphrase: Passphrases]
wallet_key(spec) == [passphrase |-> spec.passphrase, on_device |-> spec.kind = "OnDevice"]
WalletKey == [passphrase: Passphrase, on_device: BOOLEAN]
Standard == [kind |-> "Standard", passphrase |-> NoPassphrase]

\* A connection in the slot: its channel, seeded_with, active_session_id.
Channel == 1 .. MaxChannels
NoConn == [channel |-> 0, seeded_with |-> wallet_key(Standard), active |-> MANAGEMENT_SESSION_ID]
Conn == [channel: Channel, seeded_with: WalletKey, active: {MANAGEMENT_SESSION_ID, SEEDED_SESSION_ID}]

\* What the device derives from in a seeded session.
NoSession == [passphrase |-> NoPassphrase, typed |-> FALSE, open |-> FALSE]
Session == [passphrase: Passphrase, typed: BOOLEAN, open: BOOLEAN]

----------------------------------------------------------------------------
(* The methods: whose wallet they use, whether they parse a path before    *)
(* they take the lock, whether they check their input once they hold the   *)
(* connection, the session they run on and how many requests they send.    *)

Pinned(wallet, path, checks, sid, rounds) ==
    [wallet |-> wallet, path |-> path, checks |-> checks, session |-> sid, rounds |-> rounds]
Once == {1}

identify_paired == Pinned("standard", FALSE, FALSE, MANAGEMENT_SESSION_ID, Once)
get_attestor_pubkey == Pinned("standard", FALSE, FALSE, SEEDED_SESSION_ID, Once)
sign_message_eth == Pinned("standard", FALSE, FALSE, SEEDED_SESSION_ID, Once)
get_bitcoin_account_xpub == Pinned("caller", TRUE, FALSE, SEEDED_SESSION_ID, Once)
get_bitcoin_master_fingerprint == Pinned("caller", FALSE, FALSE, SEEDED_SESSION_ID, Once)
sign_psbt == Pinned("caller", FALSE, TRUE, SEEDED_SESSION_ID, 1 .. MaxRounds)
sign_bitcoin_message == Pinned("caller", FALSE, FALSE, SEEDED_SESSION_ID, Once)
get_ethereum_address == Pinned("caller", TRUE, FALSE, SEEDED_SESSION_ID, Once)
sign_ethereum_tx == Pinned("caller", TRUE, TRUE, SEEDED_SESSION_ID, Once)
sign_ethereum_message == Pinned("caller", TRUE, FALSE, SEEDED_SESSION_ID, Once)
get_solana_address == Pinned("caller", TRUE, FALSE, SEEDED_SESSION_ID, Once)
sign_solana_tx == Pinned("caller", TRUE, FALSE, SEEDED_SESSION_ID, Once)
sign_solana_message == Pinned("caller", TRUE, FALSE, SEEDED_SESSION_ID, Once)
get_tron_address == Pinned("caller", TRUE, FALSE, SEEDED_SESSION_ID, Once)
sign_tron_tx == Pinned("caller", TRUE, TRUE, SEEDED_SESSION_ID, {2})

Methods ==
    {identify_paired, get_attestor_pubkey, sign_message_eth, get_bitcoin_account_xpub,
     get_bitcoin_master_fingerprint, sign_psbt, sign_bitcoin_message, get_ethereum_address,
     sign_ethereum_tx, sign_ethereum_message, get_solana_address, sign_solana_tx,
     sign_solana_message, get_tron_address, sign_tron_tx}

\* A running call: the wallet it must use, its session, requests still to send.
Op == [key: WalletKey, checks: BOOLEAN, session: {MANAGEMENT_SESSION_ID, SEEDED_SESSION_ID},
       left: Nat]
NoOp == [key |-> wallet_key(Standard), checks |-> FALSE, session |-> MANAGEMENT_SESSION_ID,
         left |-> 0]

Result == [kind: {"none", "ok", "err"}, on: Session]
Pending == [kind |-> "none", on |-> NoSession]
Failed == [kind |-> "err", on |-> NoSession]

----------------------------------------------------------------------------
Init ==
    /\ pc = [t \in Tasks |-> "idle"]
    /\ op = [t \in Tasks |-> NoOp]
    /\ result = [t \in Tasks |-> Pending]
    /\ lock = NoTask /\ waiters = <<>>
    /\ slot = NoConn
    /\ opening = [t \in Tasks |-> 0]
    /\ channels = 0 /\ session = [c \in Channel |-> NoSession] /\ busy = {}
    /\ broken = {} /\ cancels = 0

\* The method returns: the guard is dropped.
Returns(t, r) ==
    /\ pc' = [pc EXCEPT ![t] = "idle"]
    /\ result' = [result EXCEPT ![t] = r]
    /\ opening' = [opening EXCEPT ![t] = 0]
    /\ lock' = NoTask
    /\ op' = IF r.kind = "ok" THEN op ELSE [op EXCEPT ![t] = NoOp]
    /\ UNCHANGED waiters

\* The error path every method shares: *guard = None, then return Err.
ReturnsErr(t) == Returns(t, Failed) /\ slot' = NoConn

\* A call that fails before the lock: resolve_path rejects the path.
CallFailsEarly(t, m) ==
    /\ pc[t] = "idle" /\ m.path
    /\ result' = [result EXCEPT ![t] = Failed]
    /\ UNCHANGED <<pc, op, opening, lockVars, slot, deviceVars, broken, cancels>>

\* A call reaches pinned.lock().await.
Call(t, m, spec) ==
    /\ pc[t] = "idle"
    /\ m.wallet = "standard" => spec = Standard
    /\ \E n \in m.rounds :
        op' = [op EXCEPT ![t] = [key |-> wallet_key(spec), checks |-> m.checks,
                                 session |-> m.session, left |-> n]]
    /\ pc' = [pc EXCEPT ![t] = "waiting"]
    /\ result' = [result EXCEPT ![t] = Pending]
    /\ waiters' = Append(waiters, t)
    /\ UNCHANGED <<opening, lock, slot, deviceVars, broken, cancels>>

\* Mutant: the slot is taken without waiting for its holder.
LockMutant(t) ==
    /\ waiters # <<>> /\ Head(waiters) = t
    /\ lock' = t /\ waiters' = Tail(waiters)
    /\ pc' = [pc EXCEPT ![t] = "ensure"]
    /\ UNCHANGED <<op, result, opening, slot, deviceVars, broken, cancels>>

\* tokio's mutex serves its waiters in order.
Lock(t) ==
    /\ lock = NoTask /\ waiters # <<>> /\ Head(waiters) = t
    /\ lock' = t /\ waiters' = Tail(waiters)
    /\ pc' = [pc EXCEPT ![t] = "ensure"]
    /\ UNCHANGED <<op, result, opening, slot, deviceVars, broken, cancels>>

\* Mutants: the comparison of the wallets forgets on_device; or is not made.
wallet_changed_mutant(t) == slot.seeded_with.passphrase # op[t].key.passphrase

ensure_conn_mutant(t) ==
    /\ pc[t] = "ensure"
    /\ IF slot # NoConn
       THEN pc' = [pc EXCEPT ![t] = "ready"] /\ UNCHANGED slot
       ELSE pc' = [pc EXCEPT ![t] = "open"] /\ slot' = NoConn
    /\ UNCHANGED <<op, result, opening, lockVars, deviceVars, broken, cancels>>

\* ensure_conn up to its first await: reuse the pinned connection when its
\* seeded session is for the wanted wallet, else drop it.
wallet_changed(t) == slot.seeded_with # op[t].key

ensure_conn(t) ==
    /\ pc[t] = "ensure"
    /\ IF slot # NoConn /\ ~wallet_changed(t)
       THEN pc' = [pc EXCEPT ![t] = "ready"] /\ UNCHANGED slot
       ELSE pc' = [pc EXCEPT ![t] = "open"] /\ slot' = NoConn
    /\ UNCHANGED <<op, result, opening, lockVars, deviceVars, broken, cancels>>

\* open_paired_connection: a fresh channel, handshaked and switched to
\* encrypted transport.
open_paired_connection(t) ==
    /\ pc[t] = "open" /\ channels < MaxChannels
    /\ channels' = channels + 1
    /\ opening' = [opening EXCEPT ![t] = channels + 1]
    /\ pc' = [pc EXCEPT ![t] = "seed"]
    /\ UNCHANGED <<op, result, lockVars, slot, session, busy, broken, cancels>>

\* Mutant: a failed open is tried again for ever.
OpenFailsMutant(t) == pc[t] = "open" /\ UNCHANGED vars

\* ... or an error: no allocation, a failed handshake, a rejected credential,
\* a host key that is not 32 bytes.
OpenFails(t) ==
    /\ pc[t] = "open"
    /\ ReturnsErr(t)
    /\ UNCHANGED <<deviceVars, broken, cancels>>

\* create_seeded_session sends ThpCreateNewSession; the device opens the
\* session, marked typed when the passphrase is entered on its screen.
create_seeded_session(t) ==
    /\ pc[t] = "seed"
    /\ session' = [session EXCEPT ![opening[t]] =
                    [passphrase |-> op[t].key.passphrase, typed |-> op[t].key.on_device, open |-> TRUE]]
    /\ pc' = [pc EXCEPT ![t] = "seeding"]
    /\ UNCHANGED <<op, result, opening, lockVars, slot, channels, busy, broken, cancels>>

\* Mutant: the connection is moved out before it is pinned.
SeededMutant(t) ==
    /\ pc[t] = "seeding"
    /\ opening' = [opening EXCEPT ![t] = 0]
    /\ slot' = [channel |-> opening'[t], seeded_with |-> op[t].key, active |-> SEEDED_SESSION_ID]
    /\ pc' = [pc EXCEPT ![t] = "ready"]
    /\ UNCHANGED <<op, result, lockVars, deviceVars, broken, cancels>>

\* The Success reply: seeded_with is set and the connection is pinned.
Seeded(t) ==
    /\ pc[t] = "seeding"
    /\ slot' = [channel |-> opening[t], seeded_with |-> op[t].key, active |-> SEEDED_SESSION_ID]
    /\ opening' = [opening EXCEPT ![t] = 0]
    /\ pc' = [pc EXCEPT ![t] = "ready"]
    /\ UNCHANGED <<op, result, lockVars, deviceVars, broken, cancels>>

\* A Failure, another reply or a transport error instead.
SeedFails(t) ==
    /\ pc[t] \in {"seed", "seeding"}
    /\ broken' = broken \cup {opening[t]}
    /\ ReturnsErr(t)
    /\ UNCHANGED <<deviceVars, cancels>>

\* transceive_on / transceive: the request is written; the first of a call
\* selects the session.
Transceive(t) ==
    /\ pc[t] = "ready" /\ op[t].left > 0
    /\ slot' = [slot EXCEPT !.active = op[t].session]
    /\ busy' = busy \cup {slot.channel}
    /\ pc' = [pc EXCEPT ![t] = "await"]
    /\ UNCHANGED <<op, result, opening, lockVars, channels, session, broken, cancels>>

\* The expected reply.  After the last one the method returns Ok with what
\* the device derived in the session the request named.
Replied(t) ==
    /\ pc[t] = "await"
    /\ busy' = busy \ {slot.channel}
    /\ UNCHANGED <<slot, channels, session, broken, cancels>>
    /\ IF op[t].left = 1
       THEN Returns(t, [kind |-> "ok",
                        on |-> IF slot.active = SEEDED_SESSION_ID
                               THEN session[slot.channel] ELSE NoSession])
       ELSE /\ op' = [op EXCEPT ![t].left = @ - 1]
            /\ pc' = [pc EXCEPT ![t] = "ready"]
            /\ UNCHANGED <<result, opening, lockVars>>

\* Mutant: the method returns the error and leaves the slot as it is.
ExchangeFailsMutant(t) ==
    /\ pc[t] = "await"
    /\ broken' = broken \cup {slot.channel}
    /\ Returns(t, Failed)
    /\ UNCHANGED <<slot, deviceVars, cancels>>

\* A Failure, a reply of another type, one that does not decode or does not
\* decrypt, a transport error.
ExchangeFails(t) ==
    /\ pc[t] = "await"
    /\ broken' = broken \cup {slot.channel}
    /\ ReturnsErr(t)
    /\ UNCHANGED <<deviceVars, cancels>>

\* The chain code rejects the caller's input (an unreadable PSBT, envelope or
\* raw transaction) before a request, or an item the device asks for between
\* two of them.
RejectsInput(t) ==
    /\ pc[t] = "ready" /\ op[t].checks
    /\ ReturnsErr(t)
    /\ UNCHANGED <<deviceVars, broken, cancels>>

\* identify_paired maps Features without a device_id to Err and leaves the
\* slot as it is.
NoDeviceId(t) ==
    /\ pc[t] = "await" /\ op[t].session = MANAGEMENT_SESSION_ID
    /\ busy' = busy \ {slot.channel}
    /\ Returns(t, Failed)
    /\ UNCHANGED <<slot, channels, session, broken, cancels>>

\* The host drops the future: a waiter leaves the queue, a holder's guard is
\* released, a connection being opened is dropped, the slot stays.
Cancel(t) ==
    /\ pc[t] # "idle" /\ cancels < MaxCancels
    /\ cancels' = cancels + 1
    /\ pc' = [pc EXCEPT ![t] = "idle"]
    /\ opening' = [opening EXCEPT ![t] = 0]
    /\ lock' = IF lock = t THEN NoTask ELSE lock
    /\ IF pc[t] = "waiting"
       THEN \E i \in DOMAIN waiters : waiters[i] = t /\ waiters' = RemoveAt(waiters, i)
       ELSE UNCHANGED waiters
    /\ op' = [op EXCEPT ![t] = NoOp]
    /\ UNCHANGED <<result, slot, deviceVars, broken>>

----------------------------------------------------------------------------
\* The steps of a call that holds or waits for the lock.
Step(t) == \/ Lock(t) \/ ensure_conn(t)
           \/ open_paired_connection(t) \/ OpenFails(t)
           \/ create_seeded_session(t) \/ Seeded(t) \/ SeedFails(t)
           \/ Transceive(t) \/ Replied(t) \/ ExchangeFails(t) \/ RejectsInput(t)
           \/ NoDeviceId(t)

Next == \E t \in Tasks :
            \/ \E m \in Methods : \/ CallFailsEarly(t, m)
                                   \/ \E spec \in PassphraseSpec : Call(t, m, spec)
            \/ Step(t)
            \/ Cancel(t)

Spec == Init /\ [][Next]_vars

\* Every await of a call returns: the transport answers or times out, and the
\* executor polls a task that can run.
FairSpec == Spec /\ \A t \in Tasks : WF_vars(Step(t))

----------------------------------------------------------------------------
(* Properties.                                                             *)

Opens == {"open", "seed", "seeding"}
Runs == {"ready", "await"}
Holds == {"ensure"} \cup Opens \cup Runs

\* The type invariant.
TypeOK ==
    /\ pc \in [Tasks -> {"idle", "waiting"} \cup Holds]
    /\ op \in [Tasks -> Op] /\ result \in [Tasks -> Result]
    /\ lock \in Tasks \cup {NoTask} /\ waiters \in Seq(Tasks)
    /\ slot \in Conn \cup {NoConn}
    /\ opening \in [Tasks -> Channel \cup {0}]
    /\ channels \in 0 .. MaxChannels /\ session \in [Channel -> Session]
    /\ busy \subseteq Channel /\ broken \subseteq Channel /\ cancels \in Nat

\* Calls past the lock exclude one another; the connection a call is opening
\* and the pinned one are never both alive.
LockDiscipline ==
    /\ \A t \in Tasks : pc[t] \in Holds => lock = t
    /\ \A t \in Tasks : pc[t] \in Opens => slot = NoConn
    /\ \A t \in Tasks : pc[t] \in {"seed", "seeding"} => opening[t] = channels /\ channels > 0
    /\ slot # NoConn => slot.channel <= channels

\* A session the device opened derives what the wallet key asks for: the
\* passphrase itself, or whatever was typed on the device.
Derives(s, key) ==
    /\ s.open /\ s.typed = key.on_device
    /\ key.on_device \/ s.passphrase = key.passphrase

\* "a pinned connection ... reusable only if its seeded session was created
\* with the SAME wallet" (client.rs:89-90): seeded_with never lies about the
\* session the device has open on the pinned channel, and a call runs only on
\* a connection seeded for its own wallet.
PinnedIsSeeded ==
    /\ slot # NoConn => Derives(session[slot.channel], slot.seeded_with)
    /\ \A t \in Tasks : pc[t] = "seeding" => Derives(session[opening[t]], op[t].key)
    /\ \A t \in Tasks : pc[t] \in Runs => slot # NoConn /\ slot.seeded_with = op[t].key
    /\ \A t \in Tasks : pc[t] = "await" => slot.active = op[t].session

\* A hidden wallet never reuses the standard session, nor the reverse
\* (connection.rs:79-81): what a call returns Ok was derived in a session of
\* the wallet that call named, though calls for other wallets interleave, fail
\* and are cancelled.
WalletIsolation ==
    \A t \in Tasks :
        result[t].kind = "ok" /\ op[t].session = SEEDED_SESSION_ID => Derives(result[t].on, op[t].key)

\* Once a call has seen an error on a connection no later call runs on it.
BrokenNotPinned == slot # NoConn => slot.channel \notin broken

\* Every call ends, whatever the others do: no error path or cancellation
\* keeps the lock or strands a waiter.
CallsReturn == \A t \in Tasks : pc[t] # "idle" ~> pc[t] = "idle"

\* "A failed op clears this so the next op reconnects fresh" (client.rs:117).
FailedOpClears ==
    [][\A t \in Tasks : lock = t /\ lock' = NoTask /\ result'[t].kind = "err" => slot' = NoConn]_vars

\* A request is written only on a connection whose last request has been
\* answered (connection.rs:8-9), as long as no future has been dropped.
OneRequestAtATime ==
    [][\A t \in Tasks : cancels = 0 /\ pc[t] = "ready" /\ pc'[t] = "await"
            => slot.channel \notin busy]_vars
============================================================================
