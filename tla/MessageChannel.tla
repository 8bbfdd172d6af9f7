--------------------------- MODULE MessageChannel ---------------------------
(***************************************************************************)
(* What a connection between two processes promises: messages arrive in    *)
(* the order they were sent, each at most once and exactly as it was sent; *)
(* when the connection breaks, those that were under way are lost.         *)
(***************************************************************************)
EXTENDS Naturals, Sequences

CONSTANT Message          \* what a sender may hand over

VARIABLES chan,           \* messages accepted and not yet delivered
          got             \* messages delivered, in order

vars == <<chan, got>>

Init == chan = <<>> /\ got = <<>>

Send(m) == chan' = Append(chan, m) /\ UNCHANGED got

Deliver == /\ chan # <<>>
           /\ got' = Append(got, Head(chan))
           /\ chan' = Tail(chan)

\* The first k messages were on the broken connection.
Break == \E k \in 1..Len(chan) : chan' = SubSeq(chan, k + 1, Len(chan)) /\ UNCHANGED got

Next == (\E m \in Message : Send(m)) \/ Deliver \/ Break

Spec == Init /\ [][Next]_vars
=============================================================================
