------------------------- MODULE MCAcceptanceClient -------------------------
(***************************************************************************)
(* Instances of AcceptanceClient: the whole suite without trouble, any two *)
(* consecutive scenarios with some of it, and one scenario with more.      *)
(***************************************************************************)
EXTENDS AcceptanceClient

Neighbours == {SubSeq(MainSuite, k, k + 1) : k \in 1..Len(MainSuite) - 1}
WholeSuite == {MainSuite, <<"replay">>} \cup Neighbours

Trouble == [s \in WholeSuite |-> CASE s = MainSuite -> 0
                                  [] s \in Neighbours -> 1
                                  [] OTHER -> 2]
=============================================================================
