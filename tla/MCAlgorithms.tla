---------------------------- MODULE MCAlgorithms ----------------------------
(* The inputs the algorithms are run on. *)
EXTENDS Algorithms

\* Around zero, around p and above it, and every seventh element between.
MCElements == (0 .. 20) \cup (p - 10 .. p + C - 1) \cup {x \in 0 .. p - 1 : x % 7 = 0}

\* Single bits and their complements, pairs across limb boundaries, and the last
\* 32 numbers of 255 bits, 19 of which are p or more, without and with the top
\* bit.
MCBitSets == {{b} : b \in 0 .. 255} \cup {(0 .. 255) \ {b} : b \in 0 .. 255}
             \cup {{b, b + 1} : b \in {50, 101, 152, 203, 254}}
             \cup {low \cup (5 .. top) : low \in SUBSET (0 .. 4), top \in {254, 255}}

Bytes(b, n) == [i \in 1 .. n |-> b]

\* Chain ids up to the largest word; strings of 0, 1, 55, 56, 68 and 256 bytes,
\* single bytes on both sides of 0x80; lists shorter and longer than 55 bytes.
MCTransactions ==
    {[chain_id |-> c, fields |-> <<nonce, <<1>>, <<130>>, <<82, 8>>, to, <<>>, data>>] :
        c \in {1, 127, 128, 255, 256, 65536, MODULUS - 1}, nonce \in {<<>>, <<127>>, <<128>>},
        to \in {<<>>, Bytes(17, 20)},
        data \in {<<>>, <<0>>} \cup {Bytes(200, n) : n \in {1, 22, 35, 36, 54, 55, 56, 68, 256}}}

HeaderBytes == {2, 128, 129, 184, 186, 193, 252, 255}
MCEnvelopes ==
    {<<>>, <<1, 2, 3>>} \cup {<<2>> \o s : s \in BoundedSeq(HeaderBytes, 3)}
    \cup {<<2, 196>> \o s : s \in [1 .. 4 -> HeaderBytes]}
    \cup {<<2, 200>> \o s : s \in [1 .. 8 -> {5, 128}]}

MCPaths == BoundedSeq({0, 9, HARDENED, HARDENED + 1, 2 * HARDENED - 1}, 3)

MCTexts == BoundedSeq({"m", "/", "'", "0", "1", "9", " ", "+"}, 4)

MCFallback == <<HARDENED + 4, HARDENED, 0>>
============================================================================
