---------------------------- MODULE StreamPromise ---------------------------
(***************************************************************************)
(* What a multiplexed stream promises to the two applications that hold    *)
(* its ends: what one reads is what the other wrote, in the same order and *)
(* no more than once.  Payloads may be lost.  A payload is a number that   *)
(* is larger than those written to the stream before it.                   *)
(***************************************************************************)
EXTENDS Naturals, Sequences

CONSTANTS
  End,         \* the ends of all streams
  Other(_),    \* the opposite end of a stream
  Payload      \* a set of numbers

VARIABLES wrote, got

Init ==
  /\ wrote = [o \in End |-> {}]
  /\ got = [o \in End |-> <<>>]

Write(o) ==
  /\ \E n \in Payload :
       /\ \A m \in wrote[o] : m < n
       /\ wrote' = [wrote EXCEPT ![o] = @ \cup {n}]
  /\ UNCHANGED got

Read(o) ==
  /\ \E n \in wrote[Other(o)] :
       /\ \A k \in 1..Len(got[o]) : got[o][k] < n
       /\ got' = [got EXCEPT ![o] = Append(@, n)]
  /\ UNCHANGED wrote

Next == \E o \in End : Write(o) \/ Read(o)

Spec == Init /\ [][Next]_<<wrote, got>>
=============================================================================
