---- MODULE MCStreamServer ----
\* Model checking of StreamServer on a small instance: a file to read and
\* write, one that cannot be written and one that cannot be read.
EXTENDS StreamServer

CONSTANTS c1, c2, f1, f2, f3

\* The two clients may be exchanged for each other, and a file nobody names
\* plays no part.
MCInit ==
    /\ Init
    /\ <<name[c1], name[c2]>> \in {<<f1, f1>>, <<f1, f2>>, <<f1, f3>>, <<f2, f2>>, <<f2, f3>>, <<f3, f3>>}
    /\ \A f \in Files : ~ exists[f] => \E c \in Clients : name[c] = f

MCSpec == MCInit /\ [][Next]_vars /\ Fairness
=============================================================================
