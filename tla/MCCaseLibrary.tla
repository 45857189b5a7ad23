---------------------------- MODULE MCCaseLibrary ----------------------------
(* A run based on one library case, with a candidate people may add.      *)
EXTENDS CaseLibrary, TLC
CONSTANTS r1, b1, u1, n1

MCRunOf == n1 :> r1 @@ u1 :> r1
MCSourceOf == n1 :> None @@ u1 :> b1
MCBaseContent == b1 :> [sense |-> "login", covers |-> TRUE]
MCContents == {[sense |-> "login", covers |-> TRUE], [sense |-> "logout", covers |-> TRUE],
               [sense |-> "logout", covers |-> FALSE]}
=============================================================================
