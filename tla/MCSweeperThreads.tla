--------------------------- MODULE MCSweeperThreads ---------------------------
\* The instances of SweeperThreads that TLC checks.
EXTENDS SweeperThreads

\* The first page of each space is swept by the main thread.
MCPages == [data |-> <<"d1", "d2">>, pointer |-> <<"p1", "p2", "p3">>]
=============================================================================
