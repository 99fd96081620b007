--------------------------- MODULE RequestReply ---------------------------
(***************************************************************************)
(* What one THP channel promises the code above it (handshake and          *)
(* transceive in thp/connection.rs): the host issues requests one at a     *)
(* time, the device handles every request at most once and in the order    *)
(* they were issued, and the reply the host gets is the reply to the       *)
(* request it is waiting on.  Requests and their replies are numbered from *)
(* 1; a variable holds the number of the last one.                         *)
(***************************************************************************)
EXTENDS Naturals

VARIABLES
    asked,      \* requests the host has issued
    handled,    \* requests the device has taken, in order
    answered,   \* replies returned to the host's caller
    up          \* FALSE once a call on the connection has returned an error

rrVars == <<asked, handled, answered, up>>

RRInit == asked = 0 /\ handled = 0 /\ answered = 0 /\ up = TRUE

\* The host issues a request only when it is waiting for no reply.
Ask ==
    /\ up /\ asked = answered
    /\ asked' = asked + 1
    /\ UNCHANGED <<handled, answered, up>>

\* The device takes the next request, never one it already took.
Handle ==
    /\ handled < asked
    /\ handled' = handled + 1
    /\ UNCHANGED <<asked, answered, up>>

\* The host gets the reply to the one request it waits on.
Answer ==
    /\ up /\ answered < handled
    /\ answered' = answered + 1
    /\ UNCHANGED <<asked, handled, up>>

\* The transport failed: the connection is never used again.
GiveUp ==
    /\ up /\ answered < asked
    /\ up' = FALSE
    /\ UNCHANGED <<asked, handled, answered>>

RRNext == Ask \/ Handle \/ Answer \/ GiveUp

RRSpec == RRInit /\ [][RRNext]_rrVars
============================================================================
