---------------------------- MODULE Submission ----------------------------
(***************************************************************************)
(* What the submission of an order promises, without requests under way,   *)
(* transactions or answers of remote systems: stock is reserved only for   *)
(* an order that has not been received; SAP gets a sales order only while  *)
(* all lines are reserved, or none need to be; stock is committed to what  *)
(* SAP has accepted and given back only by what it has not; and the order  *)
(* is received once, for good, with the number of a sales order.           *)
(***************************************************************************)
CONSTANTS Request, Line, None

VARIABLES received,    \* the submission the order was received by
          stock,       \* what became of the lines of each submission
          sales        \* submissions with a sales order

Nothing    == [l \in Line |-> "none"]
Everything == [l \in Line |-> "reserved"]

Init == received = None /\ stock = [r \in Request |-> Nothing] /\ sales = {}

Reserve(r) ==
    /\ received = None /\ r \notin sales /\ stock[r] = Nothing
    /\ \E lines \in SUBSET Line :
          stock' = [stock EXCEPT ![r] = [l \in Line |-> IF l \in lines THEN "reserved" ELSE "none"]]
    /\ UNCHANGED <<received, sales>>

Accept(r) ==
    /\ received = None /\ r \notin sales /\ stock[r] \in {Nothing, Everything}
    /\ sales' = sales \cup {r}
    /\ UNCHANGED <<received, stock>>

(* Some of the reserved lines go to state s.                               *)
Settle(r, s) ==
    /\ \E lines \in SUBSET {l \in Line : stock[r][l] = "reserved"} :
          stock' = [stock EXCEPT ![r] = [l \in Line |-> IF l \in lines THEN s ELSE @[l]]]
    /\ UNCHANGED <<received, sales>>

Commit(r)  == r \in sales /\ Settle(r, "committed")
Release(r) == r \notin sales /\ Settle(r, "released")

Receive(r) ==
    /\ received = None /\ r \in sales
    /\ received' = r
    /\ UNCHANGED <<stock, sales>>

Next == \E r \in Request :
            Reserve(r) \/ Accept(r) \/ Commit(r) \/ Release(r) \/ Receive(r)

Spec == Init /\ [][Next]_<<received, stock, sales>>
============================================================================
