------------------------------ MODULE MCHires ------------------------------
EXTENDS HiresRegistry

MCBytes == [t \in Replaced |-> 1]

\* A lookup by one kind of key.
MCLadders == {<<"compat">>}
=============================================================================
