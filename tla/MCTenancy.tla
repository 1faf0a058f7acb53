----------------------------- MODULE MCTenancy ------------------------------
(* A small instance of Tenancy for TLC: one connection per pool. *)
EXTENDS Tenancy, TLC

CONSTANTS ann, bob, cat, dan, w1, w2, c1, c2

\* Two identities of one person.
MCEmailOf == [i \in Identities |-> IF i = dan THEN ann ELSE i]
MCPoolOf == (c1 :> w1) @@ (c2 :> w2)
=============================================================================
