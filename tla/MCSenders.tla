------------------------------- MODULE MCSenders -------------------------------
(***************************************************************************)
(* Two users, two from-addresses and two accounts of one provider; a user  *)
(* may create the sender that is not the default one.                      *)
(***************************************************************************)
EXTENDS SenderService, TLC

MCDefaultRow ==
    [from |-> "default", account |-> "box1", pass |-> "p1", active |-> TRUE]
Symmetry ==
    Permutations(Calls) \cup Permutations(Users) \cup Permutations(Senders)
MCProvider == [a \in Accounts |-> "p2"]
MCInputs ==
    { [from |-> "other", account |-> "box2", pass |-> "p1", active |-> TRUE] }
MCPatches ==
    { [pass |-> "p2"], [active |-> FALSE], [active |-> TRUE],
      [from |-> "default", account |-> "box1"] }
===============================================================================
