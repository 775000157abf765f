------------------------ MODULE MCCallbackLimiter ------------------------
(* Instances of CallbackLimiter for TLC.                                   *)
EXTENDS CallbackLimiter

CONSTANTS a1, a2, a3, a4, a5, near, far

\* One request comes from another address.
Sources == [a \in Attempts |-> IF a = a5 THEN far ELSE near]
===========================================================================
