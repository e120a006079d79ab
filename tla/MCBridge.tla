------------------------------ MODULE MCBridge ------------------------------
(* An instance of Bridge for TLC.                                          *)
EXTENDS Bridge

\* One session; two are out of reach under liveness.
MCXids == {1}

=============================================================================
