----------------------------- MODULE MCAliases ------------------------------
(* The constants of a small instance of Aliases. *)
EXTENDS Aliases, TLC

\* Text 1 is an abbreviation, text 2 the name of entity 1, and text 3 the long
\* name of entity 2, which a bootstrap file gave text 1.
MCTerms == 1 .. 3
MCWords == <<1, 2, 20>>
Resembling(near) == [t \in MCTerms |-> [a \in MCTerms |-> IF a = t THEN 100 ELSE near]]
MCFuzzy == Resembling(91)
MCEmbedded == Resembling(86)
MCBootstrapped ==
    <<[id |-> 2, name |-> 3, confidence |-> 60, source |-> "bootstrap"], NoRow, NoRow>>

MCConfirmations ==
    [alias : 1 .. 2, id : {1}, name : {2}, confidence : {0, 60, 100}]
      \cup [alias : 1 .. 2, id : {2}, name : {3}, confidence : {0, 60, 100}]
=============================================================================
