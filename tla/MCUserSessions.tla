---------------------------- MODULE MCUserSessions ----------------------------
(* Two browsers, two of whose requests are served at once. *)
EXTENDS UserSessions, TLC

Symmetry ==
  UNION {Permutations(S) : S \in {Token, Request, Browser, User}}
=============================================================================
