---------------------------- MODULE ClientProofs ----------------------------
(***************************************************************************)
(* Proofs about TrezorClient, for every set of concurrent calls, every set *)
(* of passphrases and every number of channels, rounds and cancellations.  *)
(***************************************************************************)
EXTENDS Client, TLAPS

----------------------------------------------------------------------------
(* The inductive invariant.                                                *)

\* What an exchange leaves behind: only channels the device has allocated are
\* busy or broken, the connection being opened is neither, a call that awaits
\* a reply has requests left to account for, and without cancellations the
\* pinned channel is busy only while its holder awaits the reply.
Exchanges ==
    /\ busy \cup broken \subseteq 1 .. channels
    /\ \A t \in Tasks : pc[t] \in {"seed", "seeding"} => opening[t] \notin busy \cup broken
    /\ \A t \in Tasks : pc[t] = "await" => op[t].left > 0
    /\ cancels = 0 /\ slot # NoConn /\ slot.channel \in busy => \E t \in Tasks : pc[t] = "await"

Inv == TypeOK /\ LockDiscipline /\ PinnedIsSeeded /\ WalletIsolation /\ BrokenNotPinned /\ Exchanges

----------------------------------------------------------------------------
(* Types of the constants of the model.                                    *)

\* A wallet key is made of every spec, and NoConn is no connection.
LEMMA Values ==
    /\ \A spec \in PassphraseSpec : wallet_key(spec) \in WalletKey
    /\ NoOp \in Op /\ NoOp.session # SEEDED_SESSION_ID
    /\ NoSession \in Session /\ Pending \in Result /\ Failed \in Result
    /\ Pending.kind = "none" /\ Failed.kind = "err"
    /\ NoConn \notin Conn
  BY DEF PassphraseSpec, wallet_key, WalletKey, Passphrase, NoOp, Op, Standard, NoSession, Session, Pending,
         Failed, Result, NoConn, Conn, Channel, MANAGEMENT_SESSION_ID, SEEDED_SESSION_ID

\* What every exported method is given by its declaration.
LEMMA MethodTypes ==
    ASSUME NEW m \in Methods
    PROVE  /\ m.checks \in BOOLEAN /\ m.rounds \subseteq Nat
           /\ m.session \in {MANAGEMENT_SESSION_ID, SEEDED_SESSION_ID}
<1>1. 1 .. MaxRounds \subseteq Nat /\ Once \subseteq Nat /\ {2} \subseteq Nat
  BY ClientAssumption DEF Once
<1>2. \E wallet \in {"standard", "caller"}, path \in BOOLEAN, checks \in BOOLEAN,
         sid \in {MANAGEMENT_SESSION_ID, SEEDED_SESSION_ID}, rounds \in {Once, {2}, 1 .. MaxRounds} :
             m = Pinned(wallet, path, checks, sid, rounds)
  BY Zenon DEF Methods, identify_paired, get_attestor_pubkey, sign_message_eth, get_bitcoin_account_xpub,
         get_bitcoin_master_fingerprint, sign_psbt, sign_bitcoin_message, get_ethereum_address,
         sign_ethereum_tx, sign_ethereum_message, get_solana_address, sign_solana_tx,
         sign_solana_message, get_tron_address, sign_tron_tx
<1>3. PICK wallet \in {"standard", "caller"}, path \in BOOLEAN, checks \in BOOLEAN,
           sid \in {MANAGEMENT_SESSION_ID, SEEDED_SESSION_ID}, rounds \in {Once, {2}, 1 .. MaxRounds} :
             m = Pinned(wallet, path, checks, sid, rounds)
  BY <1>2
<1>4. m.checks = checks /\ m.session = sid /\ m.rounds = rounds
  BY <1>3 DEF Pinned
<1>5. m.checks \in BOOLEAN
  BY <1>4, Zenon
<1>6. m.rounds \subseteq Nat
  BY <1>1, <1>4
<1>7. m.session \in {MANAGEMENT_SESSION_ID, SEEDED_SESSION_ID}
  BY <1>4
<1> QED
  BY <1>5, <1>6, <1>7

\* A call that leaves the queue leaves a queue.
LEMMA LeaveQueue ==
    ASSUME NEW w \in Seq(Tasks), NEW i \in DOMAIN w
    PROVE  RemoveAt(w, i) \in Seq(Tasks)
  BY DEF RemoveAt

\* Initially no call runs and nothing is pinned.
LEMMA InitInv == Init => Inv
<1> SUFFICES ASSUME Init PROVE Inv
  OBVIOUS
<1>1. TypeOK
  BY Values, ClientAssumption DEF Init, TypeOK, Holds, Opens, Runs
<1>2. LockDiscipline /\ PinnedIsSeeded /\ WalletIsolation /\ BrokenNotPinned /\ Exchanges
  BY Values DEF Init, LockDiscipline, PinnedIsSeeded, WalletIsolation, BrokenNotPinned, Exchanges, Holds, Opens, Runs
<1> QED
  BY <1>1, <1>2 DEF Inv

\* A path that does not parse touches nothing but the result.
LEMMA CallFailsEarlyInv ==
    ASSUME Inv, NEW t \in Tasks, NEW m \in Methods, CallFailsEarly(t, m)
    PROVE  Inv'
<1>1. TypeOK'
  BY Values DEF Inv, TypeOK, LockDiscipline, PinnedIsSeeded, CallFailsEarly, Holds, Opens, Runs, lockVars, deviceVars
<1>2. LockDiscipline'
  BY Values, <1>1 DEF Inv, TypeOK, LockDiscipline, CallFailsEarly, Holds, Opens, Runs, lockVars, deviceVars
<1>3. PinnedIsSeeded'
  BY Values, <1>1 DEF Inv, TypeOK, LockDiscipline, PinnedIsSeeded, CallFailsEarly, Holds, Opens, Runs, lockVars, deviceVars
<1>4. WalletIsolation'
  BY Values, <1>1 DEF Inv, TypeOK, PinnedIsSeeded, WalletIsolation, CallFailsEarly, Holds, Opens, Runs, lockVars, deviceVars
<1>5. BrokenNotPinned' /\ Exchanges'
  BY Values, <1>1 DEF Inv, TypeOK, LockDiscipline, PinnedIsSeeded, BrokenNotPinned, Exchanges, CallFailsEarly, Holds, Opens, Runs, lockVars, deviceVars
<1> QED
  BY <1>1, <1>2, <1>3, <1>4, <1>5 DEF Inv

\* A call queues for the lock with the wallet key of its caller.
LEMMA CallInv ==
    ASSUME Inv, NEW t \in Tasks, NEW m \in Methods, NEW spec \in PassphraseSpec, Call(t, m, spec)
    PROVE  Inv'
<1>1. TypeOK'
  BY Values, MethodTypes DEF Inv, TypeOK, LockDiscipline, PinnedIsSeeded, Call, Holds, Opens, Runs, deviceVars, Op
<1>2. LockDiscipline'
  BY Values, <1>1, MethodTypes DEF Inv, TypeOK, LockDiscipline, Call, Holds, Opens, Runs, deviceVars, Op
<1>3. PinnedIsSeeded'
  BY Values, <1>1, MethodTypes DEF Inv, TypeOK, LockDiscipline, PinnedIsSeeded, Call, Holds, Opens, Runs, deviceVars, Op
<1>4. WalletIsolation'
  BY Values, <1>1, MethodTypes DEF Inv, TypeOK, PinnedIsSeeded, WalletIsolation, Call, Holds, Opens, Runs, deviceVars, Op
<1>5. BrokenNotPinned' /\ Exchanges'
  BY Values, <1>1, MethodTypes DEF Inv, TypeOK, LockDiscipline, PinnedIsSeeded, BrokenNotPinned, Exchanges, Call, Holds, Opens, Runs, deviceVars, Op
<1> QED
  BY <1>1, <1>2, <1>3, <1>4, <1>5 DEF Inv

\* The lock is granted when nobody holds it.
LEMMA LockInv ==
    ASSUME Inv, NEW t \in Tasks, Lock(t)
    PROVE  Inv'
<1>1. TypeOK'
  BY Values, ClientAssumption DEF Inv, TypeOK, LockDiscipline, PinnedIsSeeded, Lock, Holds, Opens, Runs, deviceVars
<1>2. LockDiscipline'
  BY Values, <1>1, ClientAssumption DEF Inv, TypeOK, LockDiscipline, Lock, Holds, Opens, Runs, deviceVars
<1>3. PinnedIsSeeded'
  BY Values, <1>1, ClientAssumption DEF Inv, TypeOK, LockDiscipline, PinnedIsSeeded, Lock, Holds, Opens, Runs, deviceVars
<1>4. WalletIsolation'
  BY Values, <1>1, ClientAssumption DEF Inv, TypeOK, PinnedIsSeeded, WalletIsolation, Lock, Holds, Opens, Runs, deviceVars
<1>5. BrokenNotPinned' /\ Exchanges'
  BY Values, <1>1, ClientAssumption DEF Inv, TypeOK, LockDiscipline, PinnedIsSeeded, BrokenNotPinned, Exchanges, Lock, Holds, Opens, Runs, deviceVars
<1> QED
  BY <1>1, <1>2, <1>3, <1>4, <1>5 DEF Inv

\* The pinned connection is reused for its own wallet only.
LEMMA ensure_connInv ==
    ASSUME Inv, NEW t \in Tasks, ensure_conn(t)
    PROVE  Inv'
<1>1. TypeOK'
  BY Values, ClientAssumption DEF Inv, TypeOK, LockDiscipline, PinnedIsSeeded, ensure_conn, Holds, Opens, Runs, deviceVars, lockVars, wallet_changed
<1>2. LockDiscipline'
  BY Values, <1>1, ClientAssumption DEF Inv, TypeOK, LockDiscipline, ensure_conn, Holds, Opens, Runs, deviceVars, lockVars, wallet_changed
<1>3. PinnedIsSeeded'
  BY Values, <1>1, ClientAssumption DEF Inv, TypeOK, LockDiscipline, PinnedIsSeeded, ensure_conn, Holds, Opens, Runs, deviceVars, lockVars, wallet_changed
<1>4. WalletIsolation'
  BY Values, <1>1, ClientAssumption DEF Inv, TypeOK, PinnedIsSeeded, WalletIsolation, ensure_conn, Holds, Opens, Runs, deviceVars, lockVars, wallet_changed
<1>5. BrokenNotPinned' /\ Exchanges'
  BY Values, <1>1, ClientAssumption DEF Inv, TypeOK, LockDiscipline, PinnedIsSeeded, BrokenNotPinned, Exchanges, ensure_conn, Holds, Opens, Runs, deviceVars, lockVars, wallet_changed
<1> QED
  BY <1>1, <1>2, <1>3, <1>4, <1>5 DEF Inv

\* A new channel is neither busy nor broken.
LEMMA open_paired_connectionInv ==
    ASSUME Inv, NEW t \in Tasks, open_paired_connection(t)
    PROVE  Inv'
<1>1. TypeOK'
  BY Values, ClientAssumption DEF Inv, TypeOK, LockDiscipline, PinnedIsSeeded, open_paired_connection, Holds, Opens, Runs, Channel, lockVars
<1>2. LockDiscipline'
  BY Values, <1>1, ClientAssumption DEF Inv, TypeOK, LockDiscipline, open_paired_connection, Holds, Opens, Runs, Channel, lockVars
<1>3. PinnedIsSeeded'
  BY Values, <1>1, ClientAssumption DEF Inv, TypeOK, LockDiscipline, PinnedIsSeeded, open_paired_connection, Holds, Opens, Runs, Channel, lockVars
<1>4. WalletIsolation'
  BY Values, <1>1, ClientAssumption DEF Inv, TypeOK, PinnedIsSeeded, WalletIsolation, open_paired_connection, Holds, Opens, Runs, Channel, lockVars
<1>5. BrokenNotPinned' /\ Exchanges'
  BY Values, <1>1, ClientAssumption DEF Inv, TypeOK, LockDiscipline, PinnedIsSeeded, BrokenNotPinned, Exchanges, open_paired_connection, Holds, Opens, Runs, Channel, lockVars
<1> QED
  BY <1>1, <1>2, <1>3, <1>4, <1>5 DEF Inv

\* Opening fails.
LEMMA OpenFailsInv ==
    ASSUME Inv, NEW t \in Tasks, OpenFails(t)
    PROVE  Inv'
<1>1. TypeOK'
  BY Values, ClientAssumption DEF Inv, TypeOK, LockDiscipline, PinnedIsSeeded, OpenFails, Holds, Opens, Runs, deviceVars, Returns, ReturnsErr
<1>2. LockDiscipline'
  BY Values, <1>1, ClientAssumption DEF Inv, TypeOK, LockDiscipline, OpenFails, Holds, Opens, Runs, deviceVars, Returns, ReturnsErr
<1>3. PinnedIsSeeded'
  BY Values, <1>1, ClientAssumption DEF Inv, TypeOK, LockDiscipline, PinnedIsSeeded, OpenFails, Holds, Opens, Runs, deviceVars, Returns, ReturnsErr
<1>4. WalletIsolation'
  BY Values, <1>1, ClientAssumption DEF Inv, TypeOK, PinnedIsSeeded, WalletIsolation, OpenFails, Holds, Opens, Runs, deviceVars, Returns, ReturnsErr
<1>5. BrokenNotPinned' /\ Exchanges'
  BY Values, <1>1, ClientAssumption DEF Inv, TypeOK, LockDiscipline, PinnedIsSeeded, BrokenNotPinned, Exchanges, OpenFails, Holds, Opens, Runs, deviceVars, Returns, ReturnsErr
<1> QED
  BY <1>1, <1>2, <1>3, <1>4, <1>5 DEF Inv

\* The device opens the session on a channel nothing is pinned on.
LEMMA create_seeded_sessionInv ==
    ASSUME Inv, NEW t \in Tasks, create_seeded_session(t)
    PROVE  Inv'
<1>1. TypeOK'
  BY Values, ClientAssumption DEF Inv, TypeOK, LockDiscipline, PinnedIsSeeded, create_seeded_session, Holds, Opens, Runs, Op, WalletKey, Session, Channel, Derives, lockVars
<1>2. LockDiscipline'
  BY Values, <1>1, ClientAssumption DEF Inv, TypeOK, LockDiscipline, create_seeded_session, Holds, Opens, Runs, Op, WalletKey, Session, Channel, Derives, lockVars
<1>3. PinnedIsSeeded'
  <2>1. /\ pc[t] = "seed" /\ pc' = [pc EXCEPT ![t] = "seeding"] /\ UNCHANGED <<op, opening, slot>>
        /\ session' = [session EXCEPT ![opening[t]] =
                        [passphrase |-> op[t].key.passphrase, typed |-> op[t].key.on_device, open |-> TRUE]]
    BY DEF create_seeded_session
  <2>2. slot = NoConn
    BY <2>1 DEF Inv, LockDiscipline, Opens
  <2>3. \A s \in Tasks : pc[s] \in Holds => s = t
    <3>1. "seed" \in Holds /\ \A s \in Tasks : pc[s] \in Holds => lock = s
      BY DEF Inv, LockDiscipline, Holds, Opens
    <3> QED
      BY <2>1, <3>1, Zenon
  <2>4. \A s \in Tasks : pc'[s] \in Runs \cup {"seeding", "await"} => s = t /\ pc'[s] = "seeding"
    BY <2>1, <2>3 DEF Inv, TypeOK, Holds, Opens, Runs
  <2>5. Derives(session'[opening[t]], op[t].key)
    BY <2>1, ClientAssumption DEF Inv, TypeOK, LockDiscipline, Op, WalletKey, Session, Channel, Derives
  <2> QED
    BY <2>1, <2>2, <2>4, <2>5, Values DEF PinnedIsSeeded, Runs
<1>4. WalletIsolation'
  BY Values, <1>1, ClientAssumption DEF Inv, TypeOK, PinnedIsSeeded, WalletIsolation, create_seeded_session, Holds, Opens, Runs, Op, WalletKey, Session, Channel, Derives, lockVars
<1>5. BrokenNotPinned' /\ Exchanges'
  BY Values, <1>1, ClientAssumption DEF Inv, TypeOK, LockDiscipline, PinnedIsSeeded, BrokenNotPinned, Exchanges, create_seeded_session, Holds, Opens, Runs, Op, WalletKey, Session, Channel, Derives, lockVars
<1> QED
  BY <1>1, <1>2, <1>3, <1>4, <1>5 DEF Inv

\* The connection that was opened is pinned.
LEMMA SeededInv ==
    ASSUME Inv, NEW t \in Tasks, Seeded(t)
    PROVE  Inv'
<1>1. TypeOK'
  BY Values, ClientAssumption DEF Inv, TypeOK, LockDiscipline, PinnedIsSeeded, Seeded, Holds, Opens, Runs, Conn, Op, NoConn, Channel, deviceVars, lockVars
<1>2. LockDiscipline'
  BY Values, <1>1, ClientAssumption DEF Inv, TypeOK, LockDiscipline, Seeded, Holds, Opens, Runs, Conn, Op, NoConn, Channel, deviceVars, lockVars
<1>3. PinnedIsSeeded'
  BY Values, <1>1, ClientAssumption DEF Inv, TypeOK, LockDiscipline, PinnedIsSeeded, Seeded, Holds, Opens, Runs, Conn, Op, NoConn, Channel, deviceVars, lockVars
<1>4. WalletIsolation'
  BY Values, <1>1, ClientAssumption DEF Inv, TypeOK, PinnedIsSeeded, WalletIsolation, Seeded, Holds, Opens, Runs, Conn, Op, NoConn, Channel, deviceVars, lockVars
<1>5. BrokenNotPinned' /\ Exchanges'
  BY Values, <1>1, ClientAssumption DEF Inv, TypeOK, LockDiscipline, PinnedIsSeeded, BrokenNotPinned, Exchanges, Seeded, Holds, Opens, Runs, Conn, Op, NoConn, Channel, deviceVars, lockVars
<1> QED
  BY <1>1, <1>2, <1>3, <1>4, <1>5 DEF Inv

\* Seeding fails.
LEMMA SeedFailsInv ==
    ASSUME Inv, NEW t \in Tasks, SeedFails(t)
    PROVE  Inv'
<1>0. opening[t] \in Channel /\ opening[t] \in 1 .. channels
  BY ClientAssumption DEF Inv, TypeOK, LockDiscipline, SeedFails, Channel
<1>1. TypeOK'
  BY Values, <1>0 DEF Inv, TypeOK, SeedFails, Returns, ReturnsErr, deviceVars, Holds, Opens, Runs
<1>2. LockDiscipline'
  BY ClientAssumption DEF Inv, TypeOK, LockDiscipline, SeedFails, Returns, ReturnsErr, deviceVars, Holds, Opens, Runs
<1>3. PinnedIsSeeded'
  BY DEF Inv, TypeOK, LockDiscipline, PinnedIsSeeded, SeedFails, Returns, ReturnsErr, deviceVars, Holds, Opens, Runs
<1>4. WalletIsolation'
  BY Values DEF Inv, TypeOK, WalletIsolation, SeedFails, Returns, ReturnsErr
<1>5. BrokenNotPinned' /\ Exchanges'
  BY <1>0 DEF Inv, TypeOK, LockDiscipline, Exchanges, BrokenNotPinned, SeedFails, Returns, ReturnsErr, deviceVars, Holds, Opens, Runs
<1> QED
  BY <1>1, <1>2, <1>3, <1>4, <1>5 DEF Inv

\* A request is written.
LEMMA TransceiveInv ==
    ASSUME Inv, NEW t \in Tasks, Transceive(t)
    PROVE  Inv'
<1>0. /\ slot \in Conn /\ slot' \in Conn /\ slot.channel \in 1 .. channels
      /\ slot'.channel = slot.channel /\ slot'.seeded_with = slot.seeded_with /\ slot'.active = op[t].session
  BY SMTT(30) DEF Inv, TypeOK, LockDiscipline, PinnedIsSeeded, Transceive, Conn, Op, Channel, Runs
<1>1. TypeOK'
  BY <1>0 DEF Inv, TypeOK, Transceive, Conn, lockVars, Holds, Opens, Runs
<1>2. LockDiscipline'
  BY <1>0 DEF Inv, TypeOK, LockDiscipline, Transceive, lockVars, Holds, Opens, Runs
<1>3. PinnedIsSeeded'
  BY Values, <1>0 DEF Inv, TypeOK, LockDiscipline, PinnedIsSeeded, Transceive, lockVars, Holds, Opens, Runs
<1>4. WalletIsolation'
  BY DEF Inv, WalletIsolation, Transceive
<1>5. BrokenNotPinned' /\ Exchanges'
  BY Values, <1>0 DEF Inv, TypeOK, LockDiscipline, BrokenNotPinned, Exchanges, Transceive, Holds, Opens, Runs
<1> QED
  BY <1>1, <1>2, <1>3, <1>4, <1>5 DEF Inv

\* A reply arrives.
LEMMA RepliedInv ==
    ASSUME Inv, NEW t \in Tasks, Replied(t)
    PROVE  Inv'
<1>0. /\ slot \in Conn /\ slot.seeded_with = op[t].key /\ slot.active = op[t].session
      /\ op[t].left \in Nat \ {0} /\ lock = t
  BY DEF Inv, TypeOK, LockDiscipline, PinnedIsSeeded, Exchanges, Replied, Op, Holds, Opens, Runs
<1> DEFINE on == IF slot.active = SEEDED_SESSION_ID THEN session[slot.channel] ELSE NoSession
           ok == [kind |-> "ok", on |-> on]
<1>1. ok \in Result /\ ok.kind = "ok"
  BY <1>0, Values DEF Inv, TypeOK, Conn, Result
<1>2. CASE op[t].left = 1
  <2>1. Returns(t, ok)
    BY <1>2 DEF Replied
  <2> HIDE DEF ok
  <2>2. TypeOK'
    BY <2>1, <1>0, <1>1 DEF Inv, TypeOK, Returns, Replied, Holds, Opens, Runs
  <2>3. LockDiscipline'
    BY <2>1, <1>0 DEF Inv, TypeOK, LockDiscipline, Returns, Replied, Holds, Opens, Runs
  <2>4. PinnedIsSeeded'
    BY <2>1, <1>0, <1>1 DEF Inv, TypeOK, LockDiscipline, PinnedIsSeeded, Returns, Replied, Holds, Opens, Runs
  <2>5. op[t].session = SEEDED_SESSION_ID => Derives(ok.on, op[t].key)
    BY <1>0, Values DEF Inv, PinnedIsSeeded, ok
  <2>6. WalletIsolation'
    BY <2>1, <2>5, <1>1 DEF Inv, TypeOK, WalletIsolation, Returns
  <2>7. BrokenNotPinned' /\ Exchanges'
    BY <2>1, <1>0, <1>1 DEF Inv, TypeOK, LockDiscipline, BrokenNotPinned, Exchanges, Returns, Replied, Holds, Opens, Runs
  <2> QED
    BY <2>2, <2>3, <2>4, <2>6, <2>7 DEF Inv
<1>3. CASE op[t].left # 1
  <2>1. /\ op' = [op EXCEPT ![t].left = @ - 1] /\ pc' = [pc EXCEPT ![t] = "ready"]
        /\ UNCHANGED <<result, opening, lockVars>>
    BY <1>3 DEF Replied
  <2>2. /\ op' \in [Tasks -> Op]
        /\ \A u \in Tasks : op'[u].key = op[u].key /\ op'[u].session = op[u].session
        /\ \A u \in Tasks \ {t} : op'[u] = op[u]
    <3>1. op' = [op EXCEPT ![t] = [op[t] EXCEPT !.left = op[t].left - 1]] /\ op[t] \in Op /\ op[t].left - 1 \in Nat
      BY <2>1, <1>0, <1>3 DEF Inv, TypeOK
    <3> DEFINE next == [op[t] EXCEPT !.left = op[t].left - 1]
    <3>2. next \in Op /\ next.key = op[t].key /\ next.session = op[t].session
      BY <3>1 DEF Op
    <3> HIDE DEF next
    <3>3. op' = [op EXCEPT ![t] = next]
      BY <3>1 DEF next
    <3> QED
      BY <3>2, <3>3 DEF Inv, TypeOK
  <2>3. TypeOK'
    BY <2>1, <2>2 DEF Inv, TypeOK, Replied, lockVars, Holds, Opens, Runs
  <2>4. LockDiscipline'
    BY <2>1, <1>0 DEF Inv, TypeOK, LockDiscipline, Replied, lockVars, Holds, Opens, Runs
  <2>5. PinnedIsSeeded'
    BY <2>1, <2>2, <1>0, Values DEF Inv, TypeOK, LockDiscipline, PinnedIsSeeded, Replied, Holds, Opens, Runs
  <2>6. WalletIsolation'
    BY <2>1, <2>2 DEF Inv, TypeOK, WalletIsolation
  <2>7. BrokenNotPinned' /\ Exchanges'
    BY <2>1, <2>2, <1>0 DEF Inv, TypeOK, LockDiscipline, BrokenNotPinned, Exchanges, Replied, Holds, Opens, Runs
  <2> QED
    BY <2>3, <2>4, <2>5, <2>6, <2>7 DEF Inv
<1> QED
  BY <1>2, <1>3

\* An exchange fails.
LEMMA ExchangeFailsInv ==
    ASSUME Inv, NEW t \in Tasks, ExchangeFails(t)
    PROVE  Inv'
<1>0. slot \in Conn /\ slot.channel \in 1 .. channels /\ slot.channel \in Channel
  BY DEF Inv, TypeOK, LockDiscipline, PinnedIsSeeded, ExchangeFails, Conn, Channel, Runs
<1>1. TypeOK'
  BY Values, <1>0 DEF Inv, TypeOK, ExchangeFails, Returns, ReturnsErr, deviceVars, Holds, Opens, Runs
<1>2. LockDiscipline'
  BY DEF Inv, TypeOK, LockDiscipline, ExchangeFails, Returns, ReturnsErr, deviceVars, Holds, Opens, Runs
<1>3. PinnedIsSeeded'
  BY DEF Inv, TypeOK, LockDiscipline, PinnedIsSeeded, ExchangeFails, Returns, ReturnsErr, deviceVars, Holds, Opens, Runs
<1>4. WalletIsolation'
  BY Values DEF Inv, TypeOK, WalletIsolation, ExchangeFails, Returns, ReturnsErr
<1>5. BrokenNotPinned' /\ Exchanges'
  BY <1>0 DEF Inv, TypeOK, LockDiscipline, Exchanges, BrokenNotPinned, ExchangeFails, Returns, ReturnsErr, deviceVars, Holds, Opens, Runs
<1> QED
  BY <1>1, <1>2, <1>3, <1>4, <1>5 DEF Inv

\* The chain code rejects its input.
LEMMA RejectsInputInv ==
    ASSUME Inv, NEW t \in Tasks, RejectsInput(t)
    PROVE  Inv'
<1>1. TypeOK'
  BY Values, ClientAssumption DEF Inv, TypeOK, LockDiscipline, PinnedIsSeeded, RejectsInput, Holds, Opens, Runs, deviceVars, Returns, ReturnsErr
<1>2. LockDiscipline'
  BY Values, <1>1, ClientAssumption DEF Inv, TypeOK, LockDiscipline, RejectsInput, Holds, Opens, Runs, deviceVars, Returns, ReturnsErr
<1>3. PinnedIsSeeded'
  BY Values, <1>1, ClientAssumption DEF Inv, TypeOK, LockDiscipline, PinnedIsSeeded, RejectsInput, Holds, Opens, Runs, deviceVars, Returns, ReturnsErr
<1>4. WalletIsolation'
  BY Values, <1>1, ClientAssumption DEF Inv, TypeOK, PinnedIsSeeded, WalletIsolation, RejectsInput, Holds, Opens, Runs, deviceVars, Returns, ReturnsErr
<1>5. BrokenNotPinned' /\ Exchanges'
  BY Values, <1>1, ClientAssumption DEF Inv, TypeOK, LockDiscipline, PinnedIsSeeded, BrokenNotPinned, Exchanges, RejectsInput, Holds, Opens, Runs, deviceVars, Returns, ReturnsErr
<1> QED
  BY <1>1, <1>2, <1>3, <1>4, <1>5 DEF Inv

\* identify_paired gets no device id.
LEMMA NoDeviceIdInv ==
    ASSUME Inv, NEW t \in Tasks, NoDeviceId(t)
    PROVE  Inv'
<1>1. TypeOK'
  BY Values, ClientAssumption DEF Inv, TypeOK, LockDiscipline, PinnedIsSeeded, NoDeviceId, Holds, Opens, Runs, Conn, Returns
<1>2. LockDiscipline'
  BY Values, <1>1, ClientAssumption DEF Inv, TypeOK, LockDiscipline, NoDeviceId, Holds, Opens, Runs, Conn, Returns
<1>3. PinnedIsSeeded'
  BY Values, <1>1, ClientAssumption DEF Inv, TypeOK, LockDiscipline, PinnedIsSeeded, NoDeviceId, Holds, Opens, Runs, Conn, Returns
<1>4. WalletIsolation'
  BY Values, <1>1, ClientAssumption DEF Inv, TypeOK, PinnedIsSeeded, WalletIsolation, NoDeviceId, Holds, Opens, Runs, Conn, Returns
<1>5. BrokenNotPinned' /\ Exchanges'
  BY Values, <1>1, ClientAssumption DEF Inv, TypeOK, LockDiscipline, PinnedIsSeeded, BrokenNotPinned, Exchanges, NoDeviceId, Holds, Opens, Runs, Conn, Returns
<1> QED
  BY <1>1, <1>2, <1>3, <1>4, <1>5 DEF Inv

\* A call is cancelled.
LEMMA CancelInv ==
    ASSUME Inv, NEW t \in Tasks, Cancel(t)
    PROVE  Inv'
<1>1. TypeOK'
  BY Values, ClientAssumption, LeaveQueue DEF Inv, TypeOK, LockDiscipline, PinnedIsSeeded, Cancel, Holds, Opens, Runs, deviceVars
<1>2. LockDiscipline'
  BY Values, <1>1, ClientAssumption, LeaveQueue DEF Inv, TypeOK, LockDiscipline, Cancel, Holds, Opens, Runs, deviceVars
<1>3. PinnedIsSeeded'
  BY Values, <1>1, ClientAssumption, LeaveQueue DEF Inv, TypeOK, LockDiscipline, PinnedIsSeeded, Cancel, Holds, Opens, Runs, deviceVars
<1>4. WalletIsolation'
  BY Values, <1>1, ClientAssumption, LeaveQueue DEF Inv, TypeOK, PinnedIsSeeded, WalletIsolation, Cancel, Holds, Opens, Runs, deviceVars
<1>5. BrokenNotPinned' /\ Exchanges'
  BY Values, <1>1, ClientAssumption, LeaveQueue DEF Inv, TypeOK, LockDiscipline, PinnedIsSeeded, BrokenNotPinned, Exchanges, Cancel, Holds, Opens, Runs, deviceVars
<1> QED
  BY <1>1, <1>2, <1>3, <1>4, <1>5 DEF Inv

\* Every step of every call preserves the invariant.
LEMMA NextInv == Inv /\ [Next]_vars => Inv'
<1> SUFFICES ASSUME Inv, [Next]_vars PROVE Inv'
  OBVIOUS
<1>1. CASE UNCHANGED vars
  BY <1>1 DEF Inv, TypeOK, LockDiscipline, PinnedIsSeeded, WalletIsolation, BrokenNotPinned, Exchanges,
              vars, taskVars, lockVars, deviceVars
<1>2. ASSUME NEW t \in Tasks, Step(t) PROVE Inv'
  BY <1>2, LockInv, ensure_connInv, open_paired_connectionInv, OpenFailsInv, create_seeded_sessionInv,
     SeededInv, SeedFailsInv, TransceiveInv, RepliedInv, ExchangeFailsInv, RejectsInputInv, NoDeviceIdInv
     DEF Step
<1> QED
  BY <1>1, <1>2, CallFailsEarlyInv, CallInv, CancelInv DEF Next

\* The invariant holds in every state of every run of the client.
LEMMA Invariance == Spec => []Inv
  BY InitInv, NextInv, PTL DEF Spec

----------------------------------------------------------------------------
(* What follows from it.                                                   *)

\* The types of client.rs: the slot, the queue of the mutex, the sessions of
\* the device and the calls stay what they are declared to be.
THEOREM TypeCorrect == Spec => []TypeOK
<1>1. Inv => TypeOK
  BY DEF Inv
<1> QED
  BY <1>1, Invariance, PTL

\* At most one call is past pinned.lock().await, and the connection it is
\* opening is the only one alive (ensure_conn).
THEOREM LockIsDisciplined == Spec => []LockDiscipline
<1>1. Inv => LockDiscipline
  BY DEF Inv
<1> QED
  BY <1>1, Invariance, PTL

\* seeded_with never lies about the session the device has open on the pinned
\* channel, and a call runs on a connection of its own wallet only.
THEOREM SlotIsSeeded == Spec => []PinnedIsSeeded
<1>1. Inv => PinnedIsSeeded
  BY DEF Inv
<1> QED
  BY <1>1, Invariance, PTL

\* What a call returns Ok was derived in a session of the wallet it named, for
\* every interleaving of calls, errors and cancellations.
THEOREM WalletsAreIsolated == Spec => []WalletIsolation
<1>1. Inv => WalletIsolation
  BY DEF Inv
<1> QED
  BY <1>1, Invariance, PTL

\* A connection on which a call has seen an error is never pinned again.
THEOREM BrokenIsDropped == Spec => []BrokenNotPinned
<1>1. Inv => BrokenNotPinned
  BY DEF Inv
<1> QED
  BY <1>1, Invariance, PTL

\* As long as no future has been dropped, a request is written only when the
\* one before it on the connection has been answered.
THEOREM RequestsAlternate == Spec => OneRequestAtATime
<1>1. ASSUME Inv, NEW t \in Tasks, cancels = 0, pc[t] = "ready"
      PROVE  slot.channel \notin busy
  <2>1. slot # NoConn /\ lock = t
    BY <1>1 DEF Inv, PinnedIsSeeded, LockDiscipline, Holds, Runs
  <2>2. \A u \in Tasks : pc[u] # "await"
    BY <1>1, <2>1 DEF Inv, LockDiscipline, Holds, Runs
  <2> QED
    BY <1>1, <2>1, <2>2 DEF Inv, Exchanges
<1>2. Inv => [\A t \in Tasks : cancels = 0 /\ pc[t] = "ready" /\ pc'[t] = "await"
                 => slot.channel \notin busy]_vars
  BY <1>1
<1> QED
  BY <1>2, Invariance, PTL DEF OneRequestAtATime
============================================================================
