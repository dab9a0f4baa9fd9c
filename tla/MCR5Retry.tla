----------------------------- MODULE MCR5Retry ------------------------------
(* R5Retry for TLC, without initial states that differ only in names: the  *)
(* orders are counted from that of the first request on, and of the two    *)
(* lines of an order the first is the one without attention_type.          *)
EXTENDS R5Retry

FirstLine == CHOOSE l \in Line : TRUE

MCInit ==
    /\ Init
    /\ orderOf[CHOOSE r \in Request : TRUE] = CHOOSE o \in Order : TRUE
    /\ \A o \in Order : attn[o][FirstLine] = "clear" => \A l \in Line : attn[o][l] = "clear"

MCSpec == /\ MCInit /\ [][Next]_vars
          /\ WF_vars(JobStep) /\ \A r \in Request : WF_vars(RequestStep(r))
=============================================================================
