--------------------------- MODULE ReliableStream ---------------------------
(***************************************************************************)
(* What one direction of a TCP connection promises the applications at its *)
(* two ends, whatever the network does: the receiver gets the bytes the    *)
(* sender wrote, in order and once each; the sender is not told that bytes *)
(* have arrived before they have; and the receiver sees the end of the     *)
(* stream only after everything that was written.  A receiver that has     *)
(* closed has abandoned the stream: what arrives after that may be thrown  *)
(* away.                                                                   *)
(***************************************************************************)
EXTENDS Naturals, Sequences

CONSTANT Stream  \* everything the sender will ever write

VARIABLES
    written,     \* how much of Stream the sender has written
    delivered,   \* the bytes the receiver has got
    confirmed,   \* how many bytes the sender knows to have arrived
    ended,       \* the receiver has seen the end of the stream
    abandoned    \* the receiver has closed

streamVars == <<written, delivered, confirmed, ended, abandoned>>

Init ==
    /\ written = 0
    /\ delivered = << >>
    /\ confirmed = 0
    /\ ended = FALSE
    /\ abandoned = FALSE

Write == written' \in written .. Len(Stream) /\ (ended => written' = written)

Deliver ==
    \E n \in Len(delivered) .. written :
        /\ delivered' = delivered \o SubSeq(Stream, Len(delivered) + 1, n)
        /\ ended => delivered' = delivered

Confirm ==
    \/ confirmed' \in confirmed .. Len(delivered)
    \/ abandoned /\ confirmed' \in confirmed .. written + 1

End ==
    /\ ended => ended'
    /\ ended' => ended \/ abandoned \/ Len(delivered') = written

Abandon == abandoned' \in BOOLEAN /\ (abandoned => abandoned')

\* One step of an implementation may confirm bytes and write the next ones,
\* or deliver the last bytes and the end of the stream.
Next == Write /\ Deliver /\ Confirm /\ End /\ Abandon

Spec == Init /\ [][Next]_streamVars

=============================================================================
