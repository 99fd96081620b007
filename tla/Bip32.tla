------------------------------- MODULE Bip32 -------------------------------
(***************************************************************************)
(* parse_path (bip32.rs) and resolve_path (client.rs): a derivation path   *)
(* written by a person becomes the address_n of a request. A string is a   *)
(* sequence of characters. HARDENED stands for 2^31, so that an index is a *)
(* u32, at most 2 * HARDENED - 1. The loop over the components is a state: *)
(* the components left and the indices so far.                             *)
(***************************************************************************)
EXTENDS Integers, Sequences, SequencesExt

CONSTANT HARDENED

ASSUME HardenedAssumption == HARDENED \in Nat \ {0}

Digit == [c \in {"0", "1", "2", "3", "4", "5", "6", "7", "8", "9"} |->
            CHOOSE d \in 0 .. 9 : ToString(d) = c]

trim(s) ==
    LET inked == {i \in 1 .. Len(s) : s[i] # " "} IN
    IF inked = {} THEN <<>>
    ELSE SubSeq(s, CHOOSE i \in inked : \A j \in inked : i <= j,
                   CHOOSE i \in inked : \A j \in inked : j <= i)

strip_prefix(s) == IF Len(s) >= 2 /\ s[1] \in {"m", "M"} /\ s[2] = "/" THEN SubSeq(s, 3, Len(s)) ELSE s

\* Mutant: empty components are skipped.
split_mutant(s) ==
    LET cuts == {0, Len(s) + 1} \cup {i \in 1 .. Len(s) : s[i] = "/"}
        cut == SetToSortSeq(cuts, LAMBDA a, b : a < b)
    IN  SelectSeq([k \in 1 .. Len(cut) - 1 |-> SubSeq(s, cut[k] + 1, cut[k + 1] - 1)], LAMBDA c : c # <<>>)

split(s) ==
    LET cuts == {0, Len(s) + 1} \cup {i \in 1 .. Len(s) : s[i] = "/"}
        cut == SetToSortSeq(cuts, LAMBDA a, b : a < b)
    IN  [k \in 1 .. Len(cut) - 1 |-> SubSeq(s, cut[k] + 1, cut[k + 1] - 1)]

\* What u32's parser accepts: digits after an optional plus sign, in range.
NotU32 == -1
parse_u32(s) ==
    LET digits == IF s # <<>> /\ s[1] = "+" THEN Tail(s) ELSE s
        v[i \in 0 .. Len(digits)] ==
            IF i = 0 THEN 0
            ELSE IF digits[i] \notin DOMAIN Digit \/ v[i - 1] = NotU32
                    \/ v[i - 1] * 10 + Digit[digits[i]] >= 2 * HARDENED
                 THEN NotU32
                 ELSE v[i - 1] * 10 + Digit[digits[i]]
    IN  IF digits = <<>> THEN NotU32 ELSE v[Len(digits)]

Malformed == [ok |-> FALSE]

\* One turn of the loop.
component(raw) ==
    LET comp == trim(raw)
        hardened == comp # <<>> /\ Last(comp) \in {"'", "h", "H"}
        idx == parse_u32(IF hardened THEN Front(comp) ELSE comp)
    IN  IF comp = <<>> \/ idx = NotU32 \/ idx >= HARDENED THEN Malformed
        ELSE [ok |-> TRUE, index |-> IF hardened THEN idx + HARDENED ELSE idx]

\* The loop's first state; no components for the spellings of the master path.
parse_path(input) ==
    LET body == strip_prefix(trim(input)) IN
    [left |-> IF body \in {<<>>, <<"m">>, <<"M">>} THEN <<>> ELSE split(body), address_n |-> <<>>]

\* The custom path of a call if it has one, else its chain's standard one.
NoPath == <<"none">>
resolve_path(path, fallback) ==
    IF path = NoPath THEN [left |-> <<>>, address_n |-> fallback] ELSE parse_path(path)

\* Mutant: the indices are collected back to front.
next_component_mutant(loop) ==
    LET read == component(Head(loop.left)) IN
    IF read.ok THEN [ok |-> TRUE, loop |-> [left |-> Tail(loop.left), address_n |-> <<read.index>> \o loop.address_n]]
    ELSE Malformed

next_component(loop) ==
    LET read == component(Head(loop.left)) IN
    IF read.ok THEN [ok |-> TRUE, loop |-> [left |-> Tail(loop.left), address_n |-> Append(loop.address_n, read.index)]]
    ELSE Malformed

\* How a path is written: the inverse that parse_path is checked against.
Decimal(n) == (IF n < 10 THEN <<>> ELSE <<ToString(n \div 10)>>) \o <<ToString(n % 10)>>
Written(address_n, marker) ==
    <<"m">> \o FlattenSeq([i \in 1 .. Len(address_n) |->
        <<"/">> \o (IF address_n[i] >= HARDENED THEN Append(Decimal(address_n[i] - HARDENED), marker)
                    ELSE Decimal(address_n[i]))])
============================================================================
