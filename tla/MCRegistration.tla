---------------------------- MODULE MCRegistration ----------------------------
(* Instances of Registration for TLC. *)
EXTENDS Registration, TLC

CONSTANTS s1, a1, a2, c1, c2, c3, h1, h2

\* One site, of the first agency.
OneSite == s1 :> a1

\* Two forms of the first agency and one of the second.
FormsOfTwo == (c1 :> a1) @@ (c2 :> a2) @@ (c3 :> a1)

HandlerSymmetry == Permutations(Handlers)
=============================================================================
