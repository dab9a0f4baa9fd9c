----------------------------- MODULE MCPoUpload -----------------------------
(* PoUpload for TLC: the first file holds the purchase orders in one order *)
(* only, other files hold one of them; staff uploads single orders.        *)
EXTENDS PoUpload

FirstPO == CHOOSE po \in PO : TRUE

MCInit ==
    /\ Init
    /\ content[1][1] = FirstPO
    /\ \A f \in File \ {1} : Len(content[f]) = 1 /\ POs(f) \subseteq POs(1)
    /\ staff \in {{}, IF Len(content[1]) = 1 THEN File ELSE {}}

MCSpec == MCInit /\ [][Next]_vars /\ Fairness
=============================================================================
