---------------------------- MODULE MCArmedLive ----------------------------
\* Two senders that share the day's budget.
EXTENDS ArmedLive, TLC

Symmetry == Permutations(Sender)
=============================================================================
