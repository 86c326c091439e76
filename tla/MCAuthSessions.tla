--------------------------- MODULE MCAuthSessions ---------------------------
(***************************************************************************)
(* Instances of AuthSessions for TLC.                                      *)
(***************************************************************************)
EXTENDS AuthSessions, TLC

\* Sessions and calls are interchangeable; no property names one of them.
Symmetry == Permutations(Sessions) \cup Permutations(Calls)
=============================================================================
