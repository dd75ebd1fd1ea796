------------------------------ MODULE MCUipTcp ------------------------------
EXTENDS UipTcp, TLC

Symmetry == Permutations(Peers)

\* The state without the segment sent last, for properties of the table alone.
TableView == <<conn, listenports, lastport>>
=============================================================================
