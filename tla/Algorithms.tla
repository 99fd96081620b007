----------------------------- MODULE Algorithms -----------------------------
(***************************************************************************)
(* The pure algorithms of the crate run step by step: the Elligator2 map   *)
(* of a pairing code's digest, the decoding of a transaction envelope and  *)
(* the parsing of a derivation path. task is what is computed, st the      *)
(* computation's local state, st.pc where it stands.                       *)
(***************************************************************************)
EXTENDS Elligator2, Rlp, Bip32

CONSTANTS
    Elements,     \* inputs of the map, numbers of N * W bits
    BitSets,      \* 32-byte strings, as sets of bits
    Transactions, \* [chain_id, fields] as the host encodes them
    Envelopes,    \* other byte strings given as envelopes
    Paths,        \* address_n the host writes as text
    Texts,        \* other texts given as paths
    Fallback      \* a chain's standard path

Hosted == {[kind |-> "envelope", bytes |-> envelope_of(t.chain_id, t.fields), tx |-> t] : t \in Transactions}
Unhosted == {[kind |-> "envelope", bytes |-> e] : e \in Envelopes}
Spelled == {[kind |-> "path", text |-> Written(a, marker), means |-> a] : a \in Paths, marker \in {"'", "h", "H"}}
           \cup {[kind |-> "path", text |-> NoPath, means |-> Fallback]}
Unspelled == {[kind |-> "path", text |-> t] : t \in Texts}
Tasks == {[kind |-> "map", u |-> u] : u \in Elements} \cup {[kind |-> "bytes", bits |-> b] : b \in BitSets}
         \cup {[kind |-> "powers"]} \cup Hosted \cup Unhosted \cup Spelled \cup Unspelled

VARIABLES task, st
vars == <<task, st>>

Init == task \in Tasks /\ st = [pc |-> "start"]

At(kind, pc) == task.kind = kind /\ st.pc = pc
Goto(pc, fields) == st' = [pc |-> pc] @@ fields
Stop(pc) == st' = [pc |-> pc]

----------------------------------------------------------------------------
(* map_to_curve25519.                                                      *)

MapExpand == At("map", "start") /\ Goto("root", expand(Fe(Digits(task.u), 1, TRUE))) /\ UNCHANGED task

MapPower ==
    /\ st.pc \in {"root", "inverse"} /\ st.pow.n > 0
    /\ st' = [st EXCEPT !.pow = pow_step(@)]
    /\ UNCHANGED task

MapChoose == At("map", "root") /\ st.pow.n = 0 /\ Goto("inverse", choose_x(st)) /\ UNCHANGED task

MapDivide == At("map", "inverse") /\ st.pow.n = 0 /\ Goto("mapped", divide(st)) /\ UNCHANGED task

Powers ==
    /\ At("powers", "start")
    /\ Goto("raised", [invert |-> invert_chain, pow_p58 |-> pow_p58_chain])
    /\ UNCHANGED task

Pack == At("bytes", "start") /\ Goto("packed", [bits |-> to_bytes(from_bytes(task.bits))]) /\ UNCHANGED task

----------------------------------------------------------------------------
(* decode_eip1559_envelope.                                                *)

OpenEnvelope ==
    /\ At("envelope", "start")
    /\ LET r == open_envelope(task.bytes) IN IF r.ok THEN Goto("items", r.loop) ELSE Stop("refused")
    /\ UNCHANGED task

ReadItem ==
    /\ At("envelope", "items") /\ more_items(st)
    /\ LET r == next_item(st) IN IF r.ok THEN st' = r.loop ELSE Stop("refused")
    /\ UNCHANGED task

TakeFields ==
    /\ At("envelope", "items") /\ ~more_items(st)
    /\ LET r == decode_eip1559_envelope(st.items) IN IF r.ok THEN Goto("decoded", r) ELSE Stop("refused")
    /\ UNCHANGED task

----------------------------------------------------------------------------
(* resolve_path and parse_path.                                            *)

OpenPath == At("path", "start") /\ Goto("components", resolve_path(task.text, Fallback)) /\ UNCHANGED task

ReadComponent ==
    /\ At("path", "components") /\ st.left # <<>>
    /\ LET r == next_component(st) IN IF r.ok THEN Goto("components", r.loop) ELSE Stop("refused")
    /\ UNCHANGED task

\* An accepted text is written in full and parsed once more.
ParseAgain ==
    /\ At("path", "components") /\ st.left = <<>> /\ "means" \notin DOMAIN task
    /\ task' = [kind |-> "path", text |-> Written(st.address_n, "'"), means |-> st.address_n]
    /\ Stop("start")

Next ==
    \/ MapExpand \/ MapPower \/ MapChoose \/ MapDivide \/ Powers \/ Pack
    \/ OpenEnvelope \/ ReadItem \/ TakeFields
    \/ OpenPath \/ ReadComponent \/ ParseAgain

Spec == Init /\ [][Next]_vars

----------------------------------------------------------------------------
(* Properties.                                                             *)

\* The map of RFC 9380 by its definition: the x of the curve equation
\* y^2 = x^3 + J x^2 + x, with a quotient and a test for squares.
Power(a, n) ==
    LET f[m \in 0 .. n] ==
            IF m = 0 THEN 1
            ELSE LET h == f[m \div 2] IN (((h * h) % p) * (IF m % 2 = 1 THEN a ELSE 1)) % p
    IN  f[n]
Curve(x) == (((((x + J) % p) * x + 1) % p) * x) % p
Elligator(u) ==
    LET x1 == ((p - J) * Power((2 * ((u * u) % p) + 1) % p, p - 2)) % p
    IN  IF Power(Curve(x1), (p - 1) \div 2) # p - 1 THEN x1 ELSE (2 * p - x1 - J) % p

\* map_to_curve25519 returns the point RFC 9380 defines, fully reduced, for
\* inputs below and above the prime, and none of its sums, products and
\* carries leaves the u64 or u128 that holds it.
MapIsElligator2 ==
    st.pc = "mapped" => st.fits /\ Value(canonical(st)) = Elligator(task.u % p)

\* A number of 255 bits modulo p = 2^255 - 19: it reaches p when its bits from
\* 5 up are all set and the five below make 13 or more.
Low5(bits) == MapThenSumSet(LAMBDA i : 2 ^ i, bits \cap (0 .. 4))
ModP(bits) ==
    IF 5 .. 254 \subseteq bits /\ Low5(bits) >= 13
    THEN {i \in 0 .. 4 : ((Low5(bits) - 13) \div 2 ^ i) % 2 = 1}
    ELSE bits

\* At the code's own width: 32 bytes unpacked into limbs, reduced and packed
\* again are the number without its top bit modulo p, below p and from p to
\* 2^255 - 1, and the addition chains of invert and pow_p58 end in
\* p - 2 = 2^255 - 21 and (p - 5) / 8 = 2^252 - 3.
FullWidth ==
    /\ st.pc = "packed" => st.bits = ModP(task.bits \ {255})
    /\ st.pc = "raised" => st.invert = (0 .. 254) \ {2, 4} /\ st.pow_p58 = (0 .. 251) \ {1}

\* What the host encoded is what the device is asked to sign: no host-made
\* envelope is refused, and the decoded chain id and fields are the ones that
\* went in, at every boundary of the length headers and of the chain id.
EnvelopeRoundTrip ==
    task \in Hosted =>
        /\ st.pc # "refused"
        /\ st.pc = "decoded" => st.chain_id = task.tx.chain_id /\ st.fields = task.tx.fields

\* The loop over the items of any byte string moves forward and stays inside
\* the list, so rlp_decode_list ends and slices only what is there.
ReadsForward ==
    [][st.pc = "items" /\ st'.pc = "items" => st'.pos > st.pos /\ st'.pos <= Len(st.payload)]_vars

\* A path written out is read back as itself, with either marker; so is what
\* an accepted text meant; and a call without a path uses its fallback.
PathRoundTrip ==
    task.kind = "path" /\ "means" \in DOMAIN task =>
        /\ st.pc # "refused"
        /\ st.pc = "components" /\ st.left = <<>> => st.address_n = task.means

Count(s, cs) == Cardinality({i \in DOMAIN s : s[i] \in cs})

\* An accepted text other than a spelling of the master path yields one index
\* per component, hardened exactly as often as the text has a marker, and each
\* fits a u32 (idx | 0x8000_0000 never carries).
PathKeepsComponents ==
    At("path", "components") /\ st.left = <<>> /\ task.text # NoPath =>
        \/ st.address_n = <<>> /\ Count(task.text, DOMAIN Digit) = 0
        \/ /\ Len(st.address_n) = Count(strip_prefix(trim(task.text)), {"/"}) + 1
           /\ Count(st.address_n, HARDENED .. 2 * HARDENED - 1) = Count(task.text, {"'", "h", "H"})
============================================================================
