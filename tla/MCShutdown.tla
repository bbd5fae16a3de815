----------------------------- MODULE MCShutdown -----------------------------
(* Two holders of tickets, a sweeper and a drain, up to the process's exit.  *)
EXTENDS Shutdown

MCMilestone == {Signed, Dispatching}

=============================================================================
