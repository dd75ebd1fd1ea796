------------------------------- MODULE UipApp -------------------------------
(***************************************************************************)
(* The one connection of a TCP application: see UipEvents for what happens *)
(* to it.  The modules of the applications extend this one.                *)
(***************************************************************************)
EXTENDS UipEvents

VARIABLES
    link,    \* uip_conn
    wire     \* the data of the segment the last call sent

appVars == <<link, wire>>

Happens(e) == CanHappen(link, e)

\* Event e happened and the application answered a.
Answered(e, a) ==
    /\ link' = After(link, e, a).link
    /\ wire' = After(link, e, a).wire

LinkInit == link = Link("none") /\ wire = <<>>

-----------------------------------------------------------------------------
\* The stack keeps no copy of what it sends: whatever the application gives it
\* while a segment is outstanding, for a retransmission or because the peer
\* sent something, begins with the data of that segment.
RexmitIsSame ==
    link.len > 0 => wire \in {link.sent, <<>>}

=============================================================================
