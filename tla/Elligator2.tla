---------------------------- MODULE Elligator2 -----------------------------
(***************************************************************************)
(* The field arithmetic and the Elligator2 map of thp/elligator2.rs.       *)
(*                                                                         *)
(* The code computes in GF(2^255 - 19) with five limbs of 51 bits. Here    *)
(* there are N limbs of W bits and the prime is p = 2^(NW) - C, so that    *)
(* TLC can map whole inputs; as in the code p = 5 (mod 8) and a limb has   *)
(* room for the carries of a product (RADIX is well above N * C). Beside   *)
(* its limbs an element carries k, a bound for the limbs of the code in    *)
(* units of 2^51, and fits, whether its computation stayed within the      *)
(* code's u64 and u128.                                                    *)
(* The addition chains, and unpacking 32 bytes, reducing and packing them  *)
(* again, are taken at the code's size, on sets of bit positions.          *)
(***************************************************************************)
EXTENDS Integers, Sequences

CONSTANTS N, W, C, J, SqrtM1

RADIX == 2 ^ W
p == 2 ^ (N * W) - C

ASSUME FieldAssumption ==
    /\ N \in Nat \ {0, 1} /\ W \in Nat \ {0} /\ C \in 1 .. RADIX - 1 /\ J \in 3 .. RADIX - 1
    /\ RADIX > 16 * N * C
    /\ p % 8 = 5
    /\ \A d \in 2 .. p - 1 : d * d <= p => p % d # 0
    /\ SqrtM1 \in 1 .. p - 1 /\ (SqrtM1 * SqrtM1) % p = p - 1

Limbs == 1 .. N
Digits(x) == [i \in Limbs |-> (x \div RADIX ^ (i - 1)) % RADIX]
Value(l) == LET v[i \in 0 .. N] == IF i = 0 THEN 0 ELSE v[i - 1] + l[i] * RADIX ^ (i - 1) IN v[N]

\* 2^64 in units of 2^51.
U64 == 8192

Fe(l, k, fits) == [l |-> l, k |-> k, fits |-> fits]
from_u64(x) == Fe([i \in Limbs |-> IF i = 1 THEN x ELSE 0], 1, TRUE)
zero == from_u64(0)
one == from_u64(1)
sqrt_m1 == Fe(Digits(SqrtM1), 1, TRUE)

\* Weak reduction: every carry moves one limb up, the last one round.
reduce(l) ==
    LET c == [i \in Limbs |-> l[i] \div RADIX] IN
    [i \in Limbs |-> (l[i] % RADIX) + (IF i = 1 THEN C * c[N] ELSE c[i - 1])]

add(a, b) == Fe([i \in Limbs |-> a.l[i] + b.l[i]], a.k + b.k, a.fits /\ b.fits /\ a.k + b.k <= U64)

\* 16 p is added limb by limb, so that no limb underflows.
sub(a, b) ==
    Fe(reduce([i \in Limbs |-> a.l[i] + 16 * (IF i = 1 THEN RADIX - C ELSE RADIX - 1) - b.l[i]]),
       2, a.fits /\ b.fits /\ a.k + 16 <= U64 /\ b.k <= 15)

neg(a) == sub(zero, a)

\* Column i of the product; what passes the last column comes back C times.
column(a, b, i) ==
    LET term(j) == IF j <= i THEN a[j] * b[i - j + 1] ELSE a[j] * (C * b[i - j + N + 1])
        sum[j \in 0 .. N] == IF j = 0 THEN 0 ELSE sum[j - 1] + term(j)
    IN  sum[N]

\* The carry out of the last column times C must fit a limb's u64.
mul(a, b) ==
    LET c[i \in Limbs] == column(a.l, b.l, i) + (IF i = 1 THEN 0 ELSE c[i - 1] \div RADIX)
        out1 == (c[1] % RADIX) + C * (c[N] \div RADIX)
        out == [i \in Limbs |-> IF i = 1 THEN out1 % RADIX ELSE c[i] % RADIX]
    IN  Fe([out EXCEPT ![2] = @ + out1 \div RADIX], 2,
           a.fits /\ b.fits /\ 19 * b.k <= U64 /\ 19 * (5 * a.k * b.k + 1) + 1 <= U64)

square(a) == mul(a, a)

\* The canonical limbs to_bytes packs: below p, whatever the element's limbs.
\* q counts how often p is to be taken off.
canonical(a) ==
    LET r == reduce(a.l)
        q[i \in 0 .. N] == IF i = 0 THEN C ELSE (r[i] + q[i - 1]) \div RADIX
        l[i \in Limbs] == r[i] + (IF i = 1 THEN C * q[N] ELSE l[i - 1] \div RADIX)
    IN  [i \in Limbs |-> l[i] % RADIX]

ct_eq(a, b) == canonical(a) = canonical(b)
cmov(a, b, c) == IF c THEN b ELSE a

----------------------------------------------------------------------------
(* The addition chains, on exponents: a square doubles, a product adds.    *)
(* An exponent is the set of its bits; the chains only add disjoint ones.  *)

Doubled(e, k) == {b + k : b \in e}
Plus(a, b) == IF a \cap b = {} THEN a \cup b ELSE {-1}

\* The exponents of the two powers the chain returns.
pow22501 ==
    LET self == {0}
        t0 == Doubled(self, 1)
        t2 == Plus(self, Doubled(t0, 2))
        t3 == Plus(t0, t2)
        t5 == Plus(t2, Doubled(t3, 1))
        t7 == Plus(Doubled(t5, 5), t5)
        t9 == Plus(Doubled(t7, 10), t7)
        t11 == Plus(Doubled(t9, 20), t9)
        t13 == Plus(Doubled(t11, 10), t7)
        t15 == Plus(Doubled(t13, 50), t13)
        t17 == Plus(Doubled(t15, 100), t15)
        t19 == Plus(Doubled(t17, 50), t13)
    IN  <<t19, t3>>

invert_chain == Plus(Doubled(pow22501[1], 5), pow22501[2])
pow_p58_chain == Plus({0}, Doubled(pow22501[1], 2))

----------------------------------------------------------------------------
(* map_to_curve25519 on the registers of its computation, up to and after  *)
(* each of its two powers. In the small field a power is computed by       *)
(* squaring and multiplying, pow holding what is left of the exponent.     *)

raise(a, n) == [base |-> a, n |-> n, acc |-> one]
pow_step(w) == [base |-> square(w.base), n |-> w.n \div 2,
                acc |-> IF w.n % 2 = 1 THEN mul(w.acc, w.base) ELSE w.acc]
invert(a) == raise(a, p - 2)
pow_p58(a) == raise(a, (p - 5) \div 8)

expand(u) ==
    LET j == from_u64(J)
        tv1 == add(square(u), square(u))
        xd == add(tv1, one)
        x1n == neg(j)
        tv2 == square(xd)
        gxd == mul(tv2, xd)
        gx1 == mul(add(mul(mul(j, tv1), x1n), tv2), x1n)
        tv3 == mul(mul(square(gxd), gxd), gx1)
    IN  [tv1 |-> tv1, xd |-> xd, x1n |-> x1n, gxd |-> gxd, gx1 |-> gx1, tv3 |-> tv3,
         pow |-> pow_p58(mul(square(square(gxd)), tv3))]

\* Mutant: the other square root of the quotient is not tried.
choose_x_mutant(r) ==
    LET y11 == mul(r.pow.acc, r.tv3)
        e3 == ct_eq(mul(square(y11), r.gxd), r.gx1)
    IN  [xn |-> cmov(mul(r.x1n, r.tv1), r.x1n, e3), pow |-> invert(r.xd)]

\* Of the two candidates for the numerator, the one on the curve.
choose_x(r) ==
    LET y11 == mul(r.pow.acc, r.tv3)
        y12 == mul(y11, sqrt_m1)
        e1 == ct_eq(mul(square(y11), r.gxd), r.gx1)
        y1 == cmov(y12, y11, e1)
        x2n == mul(r.x1n, r.tv1)
        e3 == ct_eq(mul(square(y1), r.gxd), r.gx1)
    IN  [xn |-> cmov(x2n, r.x1n, e3), pow |-> invert(r.xd)]

divide(r) == mul(r.xn, r.pow.acc)

----------------------------------------------------------------------------
(* Bytes, as sets of bits: bit b of the 256-bit little-endian number.      *)

load8(bits, i) == {b - 8 * i : b \in {x \in bits : 8 * i <= x /\ x < 8 * i + 64}}
shifted(x, k) == {b - k : b \in x}
low51(x) == x \cap (0 .. 50)
high51(x) == shifted(x \ low51(x), 51)

from_bytes(bits) ==
    <<low51(load8(bits, 0)), low51(shifted(load8(bits, 6), 3)), low51(shifted(load8(bits, 12), 6)),
      low51(shifted(load8(bits, 19), 1)), low51(shifted(load8(bits, 24), 12))>>

\* The sum of two words: a bit receives a carry when both words have some lower
\* bit and no bit in between stops the carry.
Sum(x, y) ==
    LET carry == {i \in 1 .. 63 : \E j \in x \cap y : j < i /\ j + 1 .. i - 1 \subseteq x \cup y}
    IN  {i \in 0 .. 63 : (i \in x) # ((i \in y) # (i \in carry))}
Times19(x) == Sum(x, Sum(Doubled(x, 1), Doubled(x, 4)))

\* reduce and canonical at the code's size.
reduce51(l) == [i \in 1 .. 5 |-> Sum(low51(l[i]), IF i = 1 THEN Times19(high51(l[5])) ELSE high51(l[i - 1]))]

\* Mutant: whether the number reaches p is tested with 2^255.
canonical51_mutant(limbs) ==
    LET r == reduce51(limbs)
        q[i \in 0 .. 5] == IF i = 0 THEN {} ELSE high51(Sum(r[i], q[i - 1]))
        l[i \in 1 .. 5] == Sum(r[i], IF i = 1 THEN Times19(q[5]) ELSE high51(l[i - 1]))
    IN  [i \in 1 .. 5 |-> low51(l[i])]

canonical51(limbs) ==
    LET r == reduce51(limbs)
        q[i \in 0 .. 5] == IF i = 0 THEN Times19({0}) ELSE high51(Sum(r[i], q[i - 1]))
        l[i \in 1 .. 5] == Sum(r[i], IF i = 1 THEN Times19(q[5]) ELSE high51(l[i - 1]))
    IN  [i \in 1 .. 5 |-> low51(l[i])]

\* Limb i starts in byte first_byte[i], shifted right by first_shift[i] and by
\* eight more in each byte that follows; a byte takes the low eight bits.
first_byte == <<0, 6, 12, 19, 25>>
first_shift == <<0, -3, -6, -1, -4>>
last_byte == <<6, 12, 19, 25, 31>>

\* The limbs reduced below p, then packed.
to_bytes(limbs) ==
    LET l == canonical51(limbs) IN
    UNION { {8 * n + b : b \in UNION { shifted(l[i], first_shift[i] + 8 * (n - first_byte[i]))
                                         : i \in {i \in 1 .. 5 : first_byte[i] <= n /\ n <= last_byte[i]} }
                               \cap (0 .. 7)} : n \in 0 .. 31 }
============================================================================
