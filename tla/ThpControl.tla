---------------------------- MODULE ThpControl ----------------------------
(***************************************************************************)
(* The control byte of a THP initiation packet (thp/framing.rs, mod        *)
(* control): the values of the message kinds, the alternating-bit sequence *)
(* bit of a data message, the acknowledged bit of an ack.  The Rust code   *)
(* works on u8 with masks; a mask test on one bit is written here with     *)
(* \div and %, so that the operators can be reasoned about as well as      *)
(* evaluated.                                                              *)
(***************************************************************************)
EXTENDS Integers

CHANNEL_ALLOCATION_REQUEST == 64
CHANNEL_ALLOCATION_RESPONSE == 65
TRANSPORT_ERROR == 66
ACK == 32
HANDSHAKE_INIT_REQUEST == 0
HANDSHAKE_INIT_RESPONSE == 1
HANDSHAKE_COMPLETION_REQUEST == 2
HANDSHAKE_COMPLETION_RESPONSE == 3
ENCRYPTED_TRANSPORT == 4
SEQ_BIT == 16
ACK_BIT == 8

\* A u8, and one bit of it: ctrl & bit, as 0 or 1.
Byte == 0 .. 255
BitOf(ctrl, bit) == (ctrl \div bit) % 2

\* base | SEQ_BIT when seq is set, base & !SEQ_BIT when it is not.
with_seq(base, seq) == base + SEQ_BIT * ((IF seq # 0 THEN 1 ELSE 0) - BitOf(base, SEQ_BIT))

\* (ctrl & SEQ_BIT) >> 4.
seq_of(ctrl) == BitOf(ctrl, SEQ_BIT)

\* ctrl & ACK_MASK = ACK, where ACK_MASK clears the ack bit only.
is_ack(ctrl) == ctrl - ACK_BIT * BitOf(ctrl, ACK_BIT) = ACK

\* (ctrl & ACK_BIT) >> 3.
ack_seq_of(ctrl) == BitOf(ctrl, ACK_BIT)

ack_for(seq) == IF seq # 0 THEN ACK + ACK_BIT ELSE ACK

\* Mutant: the bit is counted up.
FlipMutant(seq) == seq + 1

\* seq ^= 1 on a value that is 0 or 1.
Flip(seq) == 1 - seq
============================================================================
