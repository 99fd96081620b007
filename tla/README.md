# A TLA+ model of trezor-core

`trezor-core` is the Rust core of a Trezor wallet library: it speaks the Trezor
Host Protocol (THP v2) over a Bluetooth transport that the host application
supplies, and exports async methods that derive addresses and sign. This
directory models the parts of it that keep state across calls, frames and
failures, the exchanges of the chains, pairing and handshake, and its pure
algorithms.

## The system

| Component | State | Operations | Interacts with |
|---|---|---|---|
| `TrezorClient` (`client.rs`) | `pinned`: a mutex around an optional `Connection` | 15 methods that go through the slot; `thp_probe` and `establish_paired_session`, which open a connection of their own without the lock; four stubs | called concurrently by the host; drives `Connection` |
| `Connection` (`thp/connection.rs`) | `cid`, `send_seq`, `recv_seq`, `pending_data`, `session`, `active_session_id`, `seeded_with` | `allocate`, `handshake`, `create_seeded_session`, `transceive`; below them `send_data`, `recv_data`, `read_framed`, `write_framed` | device, through the transport |
| Framing (`thp/framing.rs`) | `Reassembler`: `active`, `control_byte`, `cid`, `expected_len`, `buf` | `segment`, `push_packet`, `finish`, the control byte helpers | called by `read_framed` and `write_framed` |
| Session (`thp/session.rs`) | a key and a nonce for each direction | `seal`, `open` | `send_app`, `recv_app` |
| Handshake (`thp/noise.rs`) | transcript hash, keys | init and completion messages | `handshake` |
| Pairing (`thp/pairing.rs`) | none between calls | `run_codeentry_pairing`, `end_request`, `get_features` | `transceive`, the code provider callback |
| Crypto (`cpace`, `elligator2`, `aead`) | none | pure functions | handshake, pairing, session |
| Chains (`chains/*.rs`) | none between calls; `sign_psbt` collects signatures during one | one exchange per method; `SignTx` streams | `transceive_on`, `transceive` |
| Paths (`bip32.rs`) | none | `parse_path` | the methods, before the lock |
| Transport (`transport.rs`) | the host's | `write_chunk`, `read_chunk` | implemented outside the repository |

What is hard in it: concurrent calls that share one connection to the device;
a connection that outlives the call (and the wallet) it was made for; futures
dropped at an await; frames lost, retransmitted by the device, or answered
before they are acknowledged; reports lost in the middle of a message; a device
that drives the signing of a transaction by questions of its own; calls that
open channels side by side without a lock; credentials that were revoked; field
arithmetic and parsers with rare boundaries. The
`hazards` of `PROJECT.json` list these at their lines, with the properties
that would catch each of them.

What makes each part correct:

* client: a call derives only from the wallet it names; a connection that saw
  an error is never used again; every call returns;
* ABP: each request is taken at most once and in order, and the reply handed
  to the caller is the reply to its request; every exchange ends;
* connection: a channel belongs to one connection; a reply that decrypts is the
  reply to the request; no nonce is used twice and both ends agree on them;
* framing: only whole messages that were written are returned; reassembly
  resynchronises on the next initiation packet;
* handshake and pairing: both ends hold the same keys, or the call fails; `Ok`
  means that the credential was accepted or the code was right and the secret the
  committed one; the credential handed back to be stored is one the device knows;
* chains: a reply is decoded only as what was asked for; a signature covers one
  transaction, the one the caller passed; a complete PSBT is signed;
* algorithms: the map is Elligator2, decoders return what was encoded and stop
  on anything else.

## Modules

| Module | Models |
|---|---|
| `ThpControl` | control bytes and their bits (`framing.rs`, `mod control`) |
| `RequestReply` | abstract: what a channel promises to `handshake` and `transceive` |
| `Abp` | `send_data` and `recv_data` on one channel, a lossy link, the device |
| `AbpCancel` | `Abp` when the host may drop the future of a call |
| `AbpProofs` | theorems about `Abp` |
| `Client` | the methods of `TrezorClient` on the pinned slot |
| `ClientProofs` | theorems about `Client` |
| `Connection`, `MCConnection` | `allocate`, `handshake`, `transceive` of several connections on one transport; TLC's symmetry |
| `ConnectionProofs` | theorems about `Connection` |
| `Framing` | `segment` and the ideal CRC |
| `Reassembly` | `push_packet`, `finish`, `read_framed`, a link that loses and truncates reports |
| `ReassemblyProofs`, `ResyncProofs` | theorems about `Reassembly` on any channels, and on one |
| `Noise` | the handshake and CPace on symbolic values (`noise.rs`, `cpace.rs`, `aead.rs`) |
| `Pairing` | `thp_probe`, `establish_paired_session`, `open_paired_connection` with `Noise`; the device |
| `PairingProofs` | theorems about `Noise` and `Pairing` |
| `SignTx`, `MCSignTx` | `bitcoin::sign_psbt`, the firmware, any other device; the PSBTs TLC tries |
| `SignTxProofs` | theorems about `SignTx` |
| `Chains` | the typed exchanges of all chain functions on one pinned connection, with dropped calls |
| `ChainsProofs` | theorems about `Chains` |
| `Elligator2` | field arithmetic, addition chains, packing and map of `elligator2.rs` |
| `Rlp` | the EIP-1559 envelope decoder of `ethereum.rs` and the encoder of its tests |
| `Bip32` | `parse_path` and `resolve_path` |
| `Algorithms`, `MCAlgorithms` | the three above as step by step computations; their inputs |

Layers: `Abp` shows that a channel keeps requests and replies in step while one
request is outstanding; `Client` shows that its callers keep to that until a
call is dropped; `Chains` takes up what happens after that. `Connection` shows
that frames of several channels on one transport do no harm once keys are
installed, `Pairing` that they do none while keys are being agreed on.

Definitions whose name contains `mutant` are wrong variants of the definition
that follows them, used to see that a property notices the mistake.

### Abp

The host's variables are the fields of `Connection` (`send_seq`, `recv_seq`,
`pending_data`) and `pc`, the await point it is at. A frame is its real control
byte with the number of the request it is, answers or acknowledges; every
decision is taken on the byte, the number is only read where the code hands the
payload to its caller (`answered`). `Send` is `send_data` up to its loop;
`SendGetsAck`, `SendSkipsAck` and `SendGetsData` are the three ways its loop
goes on; `RecvPending`, `RecvSkipsAck` and `RecvData` are those of `recv_data`;
`ReadsError` and `TransportFails` are the errors. What a failed connection's
fields hold does not matter, since every caller drops it.

The device is outside the repository and is modelled from what the code expects
of it: it takes a message whose bit it expects, acknowledges the last one it
took whenever it likes or never, answers each request once, retransmits an
answer until it is acknowledged and sends no new one before.

`AbpCancel` adds dropped futures on the channel `ensure_conn` opens: `Cancel` in
`read_framed`, `CancelAck` in the `send_ack` of a data frame, whose bit and stash are
set only after that await. In the four exchanges that open and seed the
connection (two of the handshake, `end_request`, `create_seeded_session`) it is a
local of the future and is gone with it; later it stays pinned.

### Client

`pc[t]` is the await point call `t` is at: waiting for the lock, `ensure` (has
the lock), `open`, `seed`, `seeding` (establishing), `ready` and `await`
(before and in an exchange). `slot` is the pinned connection: its channel,
`seeded_with` and `active_session_id`. Each method is a row of a table: whose
wallet it uses, whether it parses a path before the lock, whether the chain
code may reject its input, its session and the number of its requests; the
steps are shared, as the code of the methods is. `NoDeviceId` is the error path
of `identify_paired` that differs from the others. `Cancel` is the host
dropping a future: the guard is released and the slot stays.

On the device, `session[c]` says what the seeded session of channel `c` derives
from: the passphrase it was sent, or one typed on its screen. `result[t].on` is
the session a call's result came from. `busy` and `broken` record unanswered
requests and channels that have seen an error.

### Connection

`conn[c]` holds the fields of the `Connection` at place `c` (the pinned slot, or
a method that opened one of its own): `cid`, the two ABP bits, `pending_data`,
the two nonces of the session; `phase` is where its caller is (first or second
exchange of the handshake, or application messages) and `pc` its await point.
The ABP is that of `Abp`, written for frames that carry a channel id and may be
somebody else's: `read_framed` does not look at the id, so whichever connection
reads next gets the frame, acknowledges it on its own channel and, if the bit
fits, takes it for its reply. What protects a caller is the allocation nonce
(`parse_allocation_response`), the handshake transcript and the AEAD tag
(`open`). They are ideal: each connection has an `id` of its own that stands for
its random values, and what the device computes for it carries that id, its kind
and its nonce. `Deliver` is what `handshake` and `transceive` do with a payload,
`ButtonRequest` and `Failure` included; every error drops the connection, as
every caller does. `Close` is a connection going out of scope while the device
may still retransmit on its channel.

The device, external, answers each request with a reply, a `Failure` or a
`ButtonRequest`, retransmits until acknowledged and may refuse any message with a
`transport_error` (busy, locked, channel released, not decrypted). `sealed` and `result` are records of what
was sealed and returned, with the request a reply answers.

### Framing and Reassembly

Bytes are opaque units numbered by message and position, so that two bytes are
equal only if they are the same byte of the same message. The CRC is ideal: its
four units name the header and payload they were computed over. `size` is the
length of a report; a truncated report has a smaller one. `push_packet` is
split as the code is, into `push_continuation`, `push_initiation`, the
completion test (`Collected`) and `finish`. A message is read by a fresh
`Reassembler`; an error ends the connection.

### Noise and Pairing

A scalar is a name, a point the set of scalars it was multiplied by (so that
Diffie-Hellman commutes), a hash or a chaining key the pair of what it was before
and what went into it, a ciphertext the record of its key, nonce, associated data and message; `opens` compares them.
`read_init_response` and `read_completion_response` are the host's two steps,
`handle_init_request` and `handle_completion_request` the device's, as the
responder of the unit tests computes them. `Pairing` runs them for calls under
way at the same time: while a handshake is going on, a call may read a response
meant for another one (`Responses`), because `recv_data` looks neither at the
channel id nor at the control byte. The exchanges that follow are one action
each, with the code provider's answer (`CodeEntered`, `CodeRefused`) between the
device's CPace key and the host's. `stored` is the credential the application has
persisted, `epoch` counts how often the device was wiped, which makes older
credentials worthless. In `env = "good"` user, device and link cooperate; in
`"any"` they need not, and the device may reveal a secret it did not commit to.

### SignTx

`Start`, `Answer`, `Finish` and `NotTxRequest` are `sign_psbt` between two awaits;
the `build_*` operators are the functions of that name. Hashes are ideal: a txid
is its transaction with a byte order, and `reverse` changes the order. Against
the firmware (`env = "honest"`, from the comments at `bitcoin.rs:198-204`) the
device reads inputs and outputs, then each input's previous transaction, of which
the input must name an output, checks hash and amount, and signs; a signature names the transaction, key, script type
and amount it covers, and `Verifies` compares them with the PSBT. Against any
device (`env = "any"`) requests and signatures come from `AnyRequests`.

### Chains

A function is a row: the messages it sends and expects, the sizes of contents it
accepts, what it cuts a signature to, whether it decodes its input first. A call
is dropped before its request was written, before its ACK, or before its reply.
The three leave the connection in different states: the request's nonce is spent
in all of them (`seal_ahead`), the sequence bit has moved in the last only. The
device handles requests in order and gives up a transaction when a request does
not continue it. `dropped` is reset with the connection by an error.

One dropped call puts the pinned connection off by one: each later call of the
same kind reads the reply to the call before it, until some reply has another type
and the error clears the slot. `OwnUnlessDropped` states exactly this much;
`abp_cancel` shows it as a finding. Signatures still never mix two Tron or Bitcoin
transactions: a part lost to a repeated sequence bit has spent a nonce, and the
device opens nothing after that.

### Elligator2, Rlp, Bip32, Algorithms

The code computes modulo 2^255 - 19 in five limbs of 51 bits; the model modulo
2^14 - 3 in two limbs of seven bits, with the same weak reductions, the same 16 p
added before a subtraction and the same order of carries. Beside its limbs an
element carries the bound on its limbs that the code's sizes give (`k`) and
whether every word has sufficed (`fits`), so that overflow is judged at the
code's size. `from_bytes`, `to_bytes` with its reduction below p (`reduce51`,
`canonical51`) and the addition chains are taken at the code's size, on sets of
bits; `ModP` is what the bytes should be, for numbers below p and for the 19 from p
to 2^255 - 1. `Rlp` reads one item per step with machine words of
three bytes; `Bip32` one component per step, with 10 in the place of 2^31.
`Algorithms` runs each on an input; `ParseAgain` writes an accepted path out and
parses it once more.

## Runs

| Run | Bounds | Shows |
|---|---|---|
| `abp` | 5 requests, 3 frames in flight, 3 losses of any frame | `AbpInv`; refinement of `RequestReply`; `SendOnlyAfterTaken`; `ExchangeEnds` |
| `abp_cancel` | 6 requests, the first 4 before the connection is pinned; no loss | finding: violates `ReplyMatches` |
| `client` | 2 calls, 1 host passphrase, 2 channels, 2 rounds, 1 cancellation | `LockDiscipline`, `PinnedIsSeeded`, `WalletIsolation`, `BrokenNotPinned`; `OneRequestAtATime` until a cancellation; `CallsReturn` |
| `client_failed_op` | 1 call | finding: violates `FailedOpClears` |
| `connection` | 2 places, 2 connections opened, 2 requests each, 2 frames in flight from the device, 2 allocation reads | `ReplyIsMine`, `ChannelIsMine`, `NonceUsedOnce`, `NoncesAgree` |
| `connection_failure` | 1 connection, 1 request | finding: violates `UserCancelSurfaces` |
| `reassembly` | packets of 6, 8, 9; payloads of 0, 7; 2 channels; 3 messages; 2 reports lost or cut | `Integrity`; on one channel `Resynchronises`, `OneLossIsSilent` |
| `reassembly_foreign` | 2 channels, 2 messages | finding: violates `ForeignContinuationDropped` |
| `sign_tx` | 209 PSBTs of up to 2 inputs and 2 outputs on 2 networks; 3 with 3 rounds of any device | `SignedPsbtVerifies`, `OkKeepsEverySignature`, `CompletePsbtIsSigned` |
| `pairing` | 2 calls at a time, 2 codes, 3 numbers typed, 1 wipe | `HandshakeAgrees`, `OkIsAuthenticated`, `CredentialIsFresh`, `GoodCallsSucceed` |
| `chains` | 5 calls of 15 functions, 2 dropped, 1 further round of a PSBT | `TypedResult`, `OwnUnlessDropped`, `OneTransaction` |
| `algorithms` | 2,370 field elements, 575 byte strings, 462 transactions, 4,939 other envelopes, 439 paths written out, 4,681 other texts | `MapIsElligator2`, `FullWidth`, `EnvelopeRoundTrip`, `ReadsForward`, `PathRoundTrip`, `PathKeepsComponents` |

Bounds. Five requests cover both values of both bits twice, past the two
handshake exchanges; three frames in flight hold a duplicate, a stale ACK and
an answer together; three losses suffice to lose a request, an answer and an
ACK. One host passphrase with the standard and the on-device wallet gives three
wallets, two channels a reconnection. Two connections are either side by side
or one after the other at the same place with the first one's frames left over;
two requests are needed for a reply to be an old one, and a `ButtonAck` takes the
nonce past both. At most one copy of an answer is on its way at a time: `Abp`
covers more of them on one channel. The packet sizes leave room for 1, 3 and 4
bytes in the first packet, so that an empty message (an ACK) is split in its CRC
or fills one packet exactly, a payload ends exactly at a packet's end, and a
6-byte packet makes messages of up to five packets. `MaxLength` stands for the limit of the 16-bit
length field and is just reached.

The PSBTs of `sign_tx` mix inputs of the three supported purposes and have at
most one thing missing, wrong or added; two inputs suffice for a previous
transaction shared by both or of the other one, and two rounds after the first
suffice for an arbitrary device to replace a signature. Two calls of `pairing`
cross their handshakes, or one presents the credential the other was issued,
before or after a wipe; the third number typed equals a code modulo a million.
Five calls of `chains` let two dropped ones be followed by three that read what
is left, the first of them in either step of a transaction. The
field elements are those around 0, around p and above it, and every seventh; the
transactions have strings and lists at 55, 56 and 256 bytes and chain ids up to
the largest word; the other inputs are all short sequences of headers, or of
characters, that tell the cases of the decoders apart.

`CHECK_DEADLOCK FALSE` is set where the system really may stop: a channel whose
requests are used up or whose connection has failed, a link with nothing left to
read, a transport shared by connections that wait for frames another one has
read, a call or a computation that has ended. `Client` is checked for deadlock.

Fairness. `ExchangeEnds` assumes that a host task that can read a frame is polled
again, that the device serves what it has received and goes on retransmitting
an unacknowledged answer. It assumes no ACK from the device, which the code
does not need, and speaks of runs that lose no request, because the host does not retransmit
(`connection.rs:15-16` leaves that out; there the exchange ends only with the
transport's timeout). `CallsReturn` assumes that each await of a call returns:
the transport answers or reports an error (`Timeout`, `Disconnected`, `Io`).
`CompletePsbtIsSigned` and `GoodCallsSucceed` assume that a call that can go on is
polled and that the device answers; both are about environments that cooperate.

## What is proved

`AbpProofs` proves for every number of requests, queue bound and number of
losses:

* `TypeCorrect`: `Spec => []TypeOK`;
* `AbpInvariance`: `Spec => []AbpInv`;
* `SendsAreSpaced`: `Spec => SendOnlyAfterTaken`;
* `AbpRefines`: `Spec => ImplementsRequestReply`.

The assumptions are those of `AbpAssumption`: the bounds are naturals, and
whether requests may be lost is a Boolean. `AbpInv` is inductive together with
`TypeOK` and is needed because the promise of `RequestReply` speaks of request
numbers, which the code never sees. It says where both ends stand (`Progress`),
that each bit is the parity of what its owner has counted (`Bits`), and what may
be in flight (`ToDevice`, `ToHost`). The crux is `ToHost`: replies on their way
are in order and none is older than the last one accepted, so among them the bit
tells the fresh one from a duplicate; and no ACK that follows a reply is older
than it. An implicit ACK needs no more than this: it may be false (a duplicate of
the previous reply, still on its way because the host's ACK was slow, counts as
one although the request has not arrived), but `recv_data` then still waits for the fresh reply, and
a fresh reply implies that the request was taken.

Lemmas about the control byte (`with_seq`, `seq_of`, `is_ack`) come first, then
one lemma per action and conjunct.

`ClientProofs`, for any set of concurrent calls and passphrases, and any number
of channels, rounds and cancellations:

* `TypeCorrect`, `LockIsDisciplined`, `SlotIsSeeded` (`PinnedIsSeeded`),
  `WalletsAreIsolated` (`WalletIsolation`), `BrokenIsDropped` (`BrokenNotPinned`);
* `RequestsAlternate`: `Spec => OneRequestAtATime`.

From `ClientAssumption`: `NoTask` and `NoPassphrase` are neither a call nor a
passphrase, and the bounds are naturals. The five invariants are inductive
together, with one more conjunct (`Exchanges`): only channels the device has
allocated are busy or broken, a connection being opened is neither, and without a
cancellation the pinned channel is busy only while the call that holds the lock
awaits its reply. The last part is what `RequestsAlternate` follows from;
`WalletIsolation` needs `PinnedIsSeeded`, which needs that the holder of the lock
is the only call past it.

`ChainsProofs`, for any number of calls, dropped calls and rounds of a PSBT:

* `TypeCorrect`, `ResultsAreTyped` (`TypedResult`), `ResultsAreOwn`
  (`OwnUnlessDropped`), `SignsOneTransaction` (`OneTransaction`).

From `ChainsAssumption` (the bounds are naturals). The properties speak of calls
that have returned; what makes them hold is what has not been read yet. The
invariant therefore says which call each unread reply and unhandled request
belongs to: the running call, or one made after the first dropped call, and only
the running call while none was dropped; each dropped call leaves at most one of
them behind. It says that a part of a transaction follows a message of the same
call, in the queue or in what the device is signing, and that, unless the nonces
have run ahead, the last request the device has is the running call's.

`ConnectionProofs`, for any number of connections, requests and frames on the link:

* `TypeCorrect`, `ChannelsAreMine` (`ChannelIsMine`), `NoncesAreUsedOnce`
  (`NonceUsedOnce`), `NoncesStayInStep` (`NoncesAgree`), `RepliesAreMine`
  (`ReplyIsMine`).

From `ConnectionAssumption`: the bounds are naturals, and the failure codes are
among those of the model. The invariant ties each connection to the channel of its
id (`Channels`), orders the requests for channels on the link (`Allocations`: the
device numbers channels in the order it gets them, and none is missing), says
what may be in any frame, wherever it has got to (`Link`), how the nonces of the
two ends differ at each await point (`Sessions`), that whatever was sealed under
a key has a nonce its owner has left behind (`Sealings`), and that a message the
device would still open is the one under way (`UnderWay`). Frames read by the
wrong connection need no conjunct of their own: what they can do is bounded by
what they carry.

`SignTxProofs`, for PSBTs with any number of inputs and outputs, any set of
requests and any number of rounds:

* `TypeCorrect`;
* `SignaturesAreKept` (`OkKeepsEverySignature`), against any device;
* `SignedPsbtsVerify` (`SignedPsbtVerifies`), against the firmware.

From `SignTxAssumption`, which says what the types of the code say: a PSBT is made
of vectors, an input names the transaction it spends by its txid, an index is a
number or missing. The invariant has two halves. `Kept` says that at every await
the collected signatures are the last ones of the history. `Firmware` follows the
firmware through its three phases: what it has read is a prefix of what the host
streams for this PSBT (`World`), and its queue of questions is determined by how
far it has got (`Queue`): inputs and outputs left, then one previous transaction
per input not yet checked; at the end of each check the declared amount is the one
the txid fixes (`AmountIsSpent`). Signing begins when the queue runs empty, so all
inputs have been checked by then. The proof led to one correction of the firmware's
model: without the check that the input's output index exists, a previous
transaction without outputs would never be compared at all.

`PairingProofs`, for any number of calls at a time, codes, numbers typed and wipes
of the device:

* `TypeCorrect`, `HandshakesAgree` (`HandshakeAgrees`), `OksAreAuthenticated`
  (`OkIsAuthenticated`), `CredentialsAreFresh` (`CredentialIsFresh`).

From `PairingAssumption`: a code the device shows has at most six digits, what is
typed is a number. The handshake is treated as an algorithm first: `HelloIs`,
`CompletionIs` and `Accepted` compute what both sides arrive at and that it is the
same; `OwnHello` and `OwnKeys` show that a response of another channel does not
open, because the transcript and the first secret hold the ephemeral keys of both
ends; `TagsAgree` that the two CPace tags are equal only for equal codes. The
invariant follows one call with its side of the device: where the handshake has got to (`Handshaking`), which request the awaited
reply is for (`Asking`), what a reply in flight says of the device that sent it
(`Answered`), what the call may believe at each step (`Learned`), why it may go on
and with which credential (`Entitled`), and that a usable channel was opened since
the last wipe (`Current`). A step of one call leaves the others alone, so there is
one lemma per step. `Learned` is what carries the commitment over the three
exchanges and the user's typing to the comparison with the secret.

`ReassemblyProofs`, for any report sizes, channels, control bytes, payload lengths
and numbers of messages, losses and truncations:

* `TypeCorrect`, `IntegrityHolds` (`Integrity`).

From `ReassemblyAssumption`: a report is longer than an initiation header, as
`segment` demands, and control bytes leave the continuation bit clear. `push_packet`
looks at no channel id, so bytes of several messages may well be collected in one
buffer, and the invariant says nothing of what is in it. What it says is what
reports carry: bytes of one message only, the last byte of its CRC in its last
report (`Waiting`, from the lemma `Segments` about `segment`), and that a message
already returned has no report left (`Numbers`). The byte that completes a payload
is from the report just read; if the CRC matches, that byte names the message of
that report, and the buffer holds exactly that message (`CrcMatches`).

`ResyncProofs`, for one channel and any report size, number of messages and damage:

* `Resynchronisation` (`Resynchronises`), `LossesAreSilent` (`OneLossIsSilent`).

Here the buffer does matter. `InStep` says that while no report of a message is
hurt, `buf` is exactly the part of the message that its reports so far have room
for; the lemmas `FirstRead` and `NextRead` show that each whole report keeps this, the first one from
any state, and that the last one completes the message with a matching CRC.
`Silence` says that before the first loss nothing is in progress between messages,
and that after it the rest of the message finds nothing in progress (its
initiation packet was lost) or leaves `buf` short by what was lost: the padding of
the last report does not make up for a whole one, which is the arithmetic of
`Places` and `Advances`.

What stays with TLC: liveness (`ExchangeEnds`, `CallsReturn`,
`CompletePsbtIsSigned`, `GoodCallsSucceed`), which the prover does not handle; the
algorithms, whose properties say what recursive computations yield and need
induction over data.

The leaves of the proofs are small, and arithmetic or a step that only cites a
lemma is `BY ONLY` what it needs: the SMT translation of a leaf with a large
context takes long enough for its outcome to depend on the load of the machine.
Every proof also checks with a quarter of the default time per obligation
(`tlapm --stretch 0.25`).

## Where code and comments disagree

1. `abp_cancel`: "Send an application message and return the device's reply"
   (`connection.rs:312`). After a dropped future the pinned connection is used
   again with its request outstanding, and the next call gets the reply to it.
   In the trace the handshake, `end_request` and `create_seeded_session` go
   through, the fifth request is dropped and the sixth is handed its reply. A
   future dropped before `client.rs:106` takes its connection with it.
2. `client_failed_op`: "A failed op clears this so the next op reconnects
   fresh" (`client.rs:117`). `identify_paired` keeps the slot when `Features`
   has no `device_id`.
3. `reassembly_foreign`: "unexpected continuation packets are dropped"
   (`framing.rs:187`). The channel id of a continuation is not looked at.
4. `connection_failure`: "User-cancel (`ActionCancelled` / `PinCancelled`) is
   surfaced as `UserCanceled` instead" (`error.rs:26-28`). `decode_failure` maps
   code 4 alone (`connection.rs:374`); `PinCancelled` becomes `DeviceRejected`.

5. No run, because the passing `sign_tx` decides it: "legacy BIP44 signing is not
   yet supported (it needs previous-tx streaming)" (`client.rs:456-457`) and
   "Maknoon is BIP84 native-segwit only" (`bitcoin.rs:7`), against "BIP84/49/44 are
   all supported" (`bitcoin.rs:203`). The code has the streaming of previous
   transactions and signs legacy inputs: `CompletePsbtIsSigned` and
   `SignedPsbtVerifies` hold for PSBTs with them, alone and mixed, so the first two
   comments are out of date, as is `bitcoin.rs:3-5`, by which PSBT signing is
   still to come.

Smaller observations, not runs of their own: the comment at `connection.rs:173-175`
takes every early data frame for the reply (see the implicit ACK above);
`parse_path` accepts `m/m` as the master path and a leading plus sign in a
component although `bip32.rs:12` says malformed components are rejected; a
chain id of more than eight bytes keeps its low eight; bytes after the envelope's
list are ignored, as the access list is; a credential issued just before
`end_request` or `get_features` fails is lost to the application.

## Not modelled

SHA-256, HMAC, X25519 scalar multiplication and AES-GCM are calls into libraries
and ideal here; what the Elligator2 map computes at 255 bits is covered by the
vectors of the unit tests, its algorithm by the scaled field. Protobuf encodings
and bindings are generated, PSBT parsing and address formatting are library
calls. `types.rs` and `error.rs` beyond what the properties tell apart, the stubs
that return `NotImplemented` and the build scripts have no behaviour of interest.
`partial_sigs` a PSBT already carries are kept by the code and absent here. The
transport is the host application's; its errors and its losses are modelled.

## Plan

Every safety invariant and action property of the protocol modules has its
theorem. What is left, in order: lemmas about `Elligator2`, `Rlp` and `Bip32` that
need no induction over data (single field operations, single headers and
components), and `AbpCancel` and the other disagreements once the code is changed,
when their violated properties become invariants to prove.
