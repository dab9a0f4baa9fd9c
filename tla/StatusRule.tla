----------------------------- MODULE StatusRule -----------------------------
(***************************************************************************)
(* The status of an order as a function of the statuses of its items       *)
(* (update_order_status).                                                  *)
(*                                                                         *)
(* Item Created, the statuses of planning, Producing and Completed         *)
(* Production are "created" here: update_order_status does not tell them   *)
(* apart.                                                                  *)
(***************************************************************************)
EXTENDS Integers, FiniteSets, Sequences

Production == {"created", "full"}
Delivery   == {"partial", "delivered"}
ItemStatus == Production \cup Delivery \cup {"cancelled", "none"}
OrderStatus == {"received", "partial committed", "full", "partial", "delivered", "cancelled"}

(* update_order_status: the statuses of the items, in the order the query  *)
(* happens to list them, are gone through with three counters.             *)
Count(s, k, S) == Cardinality({i \in 1..k : s[i] \in S})
Everywhere(s, k, S) == Count(s, k, S) >= Len(s)

(* What the loop returns at the k-th item, if it does.                     *)
Returned(s, k) ==
    CASE s[k] = "cancelled" /\ Everywhere(s, k, {"cancelled"}) -> "cancelled"
      [] s[k] = "delivered" /\ Everywhere(s, k, {"delivered", "cancelled"}) -> "delivered"
      [] s[k] = "partial" -> "partial"
      [] s[k] = "full" /\ Everywhere(s, k, {"full", "cancelled"}) -> "full"
      [] OTHER -> "none"

(* Faulty variant: nothing after the loop looks at the counters again.     *)
LoopOnly(s) ==
    LET early == {k \in 1..Len(s) : Returned(s, k) # "none"}
    IN  IF s = <<>> \/ (\E k \in 1..Len(s) : s[k] = "none") \/ early = {} THEN "received"
        ELSE Returned(s, CHOOSE k \in early : \A j \in early : k <= j)

update_order_status(s) ==
    LET n     == Len(s)
        early == {k \in 1..n : Returned(s, k) # "none"}
        committed == Count(s, n, {"full", "cancelled"})
        Has(x) == \E k \in 1..n : s[k] = x
    IN  IF n = 0 \/ Has("none") THEN "received"
        ELSE IF early # {} THEN Returned(s, CHOOSE k \in early : \A j \in early : k <= j)
        ELSE IF 1 <= committed /\ committed < n /\ Has("full") THEN "partial committed"
        ELSE IF \A k \in 1..n : s[k] \in {"full", "cancelled"} THEN "full"
        ELSE IF Everywhere(s, n, {"delivered", "cancelled"}) /\ Has("delivered")
             THEN "delivered"
        ELSE "received"

(* The same as a rule about the statuses that occur.                       *)
Rule(S) == IF S = {} \/ "none" \in S THEN "received"
           ELSE IF "partial" \in S THEN "partial"
           ELSE IF S = {"cancelled"} THEN "cancelled"
           ELSE IF S \subseteq {"delivered", "cancelled"} THEN "delivered"
           ELSE IF S \subseteq {"full", "cancelled"} THEN "full"
           ELSE IF "full" \in S THEN "partial committed"
           ELSE "received"
=============================================================================
