------------------------ MODULE MCOAuthCredentials ------------------------
(* Instances of OAuthCredentials for TLC.                                  *)
EXTENDS OAuthCredentials, TLC

CONSTANTS call1, call2, callback1, callback2

Symmetry == Permutations(Calls) \cup Permutations(Callbacks)
===========================================================================
