----------------------------- MODULE MCRecovery -----------------------------
(* One capture worker, as the binaries run it, through two deaths and two   *)
(* failed appends, over a plane that stops at every status where a crash    *)
(* leaves recovery a different question.                                    *)
EXTENDS Recovery

MCMilestone == {Reserved, Authorized, Signed, Dispatching, Acknowledged, Reconciled}

=============================================================================
