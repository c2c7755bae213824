------------------------------ MODULE MCWaits ------------------------------
(* The two waiting loops of a client side by side: the supervisor's and    *)
(* that of one call of Trace.  They share nothing.                         *)
EXTENDS Reconnect, RetryDelay

WaitsInit == Init /\ RetryInit
WaitsNext == (Next /\ UNCHANGED retryVars) \/ (RetryNext /\ UNCHANGED vars)
WaitsSpec == WaitsInit /\ [][WaitsNext]_<<vars, retryVars>>
=============================================================================
