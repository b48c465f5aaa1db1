------------------------------ MODULE MCSubmission ------------------------------
(***************************************************************************)
(* Addresses in two cases, lists that overlap, requests that share a key.  *)
(***************************************************************************)
EXTENDS Submission, TLC

CONSTANTS s1, s2

MCLower == ("a" :> "a") @@ ("A" :> "a") @@ ("b" :> "b")
MCInputs ==
    { [user |-> u, key |-> k, senders |-> list, recipients |-> <<"a", "A", "b">>]
        : u \in Users, k \in Keys, list \in { <<s2, s1, s2>> } }
MCTyped == { <<"a">>, <<"b", "b">> }
MCFiles == { <<"b", "a", "b">> }
Symmetry == Permutations(Requests) \cup Permutations(Campaigns)
===============================================================================
