---------------------------- MODULE EventStream ----------------------------
(***************************************************************************)
(* What the process monitor promises the event loop: while the stream is   *)
(* open every message is delivered, once and in order.  A stream breaks    *)
(* for good: what was posted last may be lost then, but nothing in the     *)
(* middle, and the end is announced after the last message.                *)
(***************************************************************************)
EXTENDS Integers, Sequences

CONSTANTS Message, End

VARIABLES phase,      \* "open", "broken" or "ended"
          transit,    \* posted and not yet delivered, oldest first
          delivered   \* what the receiver has been sent

vars == <<phase, transit, delivered>>

Init == phase = "open" /\ transit = <<>> /\ delivered = <<>>

Post == /\ phase = "open"
        /\ \E m \in Message : transit' = Append(transit, m)
        /\ UNCHANGED <<phase, delivered>>

Deliver == /\ phase # "ended" /\ transit # <<>>
           /\ delivered' = Append(delivered, Head(transit))
           /\ transit' = Tail(transit)
           /\ UNCHANGED phase

(* The stream breaks, and is cut off behind one of the messages.            *)
Break == /\ phase \in {"open", "broken"} /\ phase' = "broken"
         /\ \E n \in 0..Len(transit) : transit' = SubSeq(transit, 1, n)
         /\ UNCHANGED delivered

Finish == /\ phase = "broken" /\ transit = <<>>
          /\ phase' = "ended"
          /\ delivered' \in {delivered, Append(delivered, End)}
          /\ UNCHANGED transit

Next == Post \/ Deliver \/ Break \/ Finish

Spec == Init /\ [][Next]_vars
=============================================================================
