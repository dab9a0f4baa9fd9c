----------------------------- MODULE MCEoUpload -----------------------------
(* EoUpload with the keys counted from the first upload on: which key an   *)
(* upload has makes no difference, only who shares it.                     *)
EXTENDS EoUpload

MCInit == Init /\ key[1] = CHOOSE k \in Key : TRUE

MCSpec == MCInit /\ [][Next]_vars /\ Fairness
=============================================================================
