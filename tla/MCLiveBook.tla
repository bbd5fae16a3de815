---------------------------- MODULE MCLiveBook -----------------------------
\* One pool of two ticks; a change active at both, and one active at the first
\* that some swap, place or read cannot take.
EXTENDS LiveBook

TwoTicks == {1, 2}
SomeChanges == {[active |-> {1, 2}, trouble |-> "none"], [active |-> {1}, trouble |-> "sum"]}
=============================================================================
